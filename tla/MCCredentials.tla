---------------------------- MODULE MCCredentials ----------------------------
(* Credentials in one run: the two instances of MCApiKeys, and the issuer's   *)
(* signing keys ("signing"), beside which the API-key tables rest.           *)
EXTENDS MCApiKeys, SigningKeys

CONSTANTS api, idp

\* One service with a maximal key age below the minimum, one with a longer one.
MCMaxKeyAge == [s \in Services |-> IF s = api THEN 0 ELSE 2]

CredentialsInit ==
    /\ \/ FocusInit
       \/ /\ focus = "signing"
          /\ SettledTenancy /\ \A p \in Projects : members[p][member].role = "lead"
          /\ Minted
    /\ SigningInit

CredentialsNext ==
    \/ FocusNext /\ UNCHANGED signingVars
    \/ focus = "signing" /\ SigningNext /\ UNCHANGED mcVars

CredentialsSpec == CredentialsInit /\ [][CredentialsNext]_<<mcVars, signingVars>>
=============================================================================
