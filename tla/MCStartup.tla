------------------------------ MODULE MCStartup ------------------------------
(* One process of any command under any configuration one field away from a    *)
(* working one (self-signed, external, or with Redis over TLS), and pairs of   *)
(* processes on one database.                                                  *)
EXTENDS Startup

CONSTANTS first, second

Pairs == {<<"serve", "idp">>, <<"idp", "budget">>, <<"api", "mcp">>}
Alone == {[r \in Procs |-> IF r = first THEN c ELSE "config"] : c \in Commands}
Together == {[r \in Procs |-> IF r = first THEN d[1] ELSE d[2]] : d \in Pairs}

Bases == {Working, Changed(Working, "oauth2_type", "external"),
          Changed(Working, "redis", [operator |-> "", env |-> "rediss"])}

MCStartupInit ==
    \/ StartupInit(UNION {OneChanged(b) : b \in Bases}, Alone)
    \/ StartupInit({Working} \cup {Changed(Working, "signing", g) : g \in {"missing", "bad"}},
                   Together)
=============================================================================
