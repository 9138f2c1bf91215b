-------------------------------- MODULE Grants --------------------------------
(***************************************************************************)
(* Budget grants and the balance they add up to: the constant-level part   *)
(* of lightbridge-authz-budget/src/repo.rs and source.rs, shared by every  *)
(* module that writes the ledger.                                          *)
(*                                                                         *)
(* A grant is [row, key, source, amount]: `row` stands for the             *)
(* (budget_account_id, period) pair that keys budget_balances, `key` for   *)
(* idempotency_key (None is SQL NULL).  The actor, reason, policy         *)
(* revision and matched rules are carried by the code but read by nothing  *)
(* that changes state.  trigger_key, expires_at and revoked_at are NULL in *)
(* every row a caller in the repository writes.                            *)
(***************************************************************************)
EXTENDS Integers

\* GrantSource
Sources == {"base", "self_service", "admin", "automatic", "manual_approval",
            "refund", "correction", "promotion", "migration"}

\* The *_total_micros columns of budget_balances.
Buckets == {"base_total", "self_service_total", "admin_total",
            "automatic_total", "refund_total"}

\* The CASE arms of the balance UPDATE: a correction moves no bucket, only
\* effective_budget_micros.
SourcesOf(bucket) ==
    CASE bucket = "base_total"         -> {"base", "migration"}
      [] bucket = "self_service_total" -> {"self_service"}
      [] bucket = "admin_total"        -> {"admin", "manual_approval", "promotion"}
      [] bucket = "automatic_total"    -> {"automatic"}
      [] bucket = "refund_total"       -> {"refund"}

\* validate_amount_sign
ValidAmountSign(source, amount) ==
    IF source = "correction" THEN amount # 0 ELSE amount > 0

\* A budget_balances row as its column defaults bootstrap it.  `exists` tells
\* a zero-valued row from no row at all.
NoBalance == [exists |-> FALSE,
              total |-> [b \in Buckets |-> 0],
              effective |-> 0,
              self_service_count |-> 0,
              automatic_count |-> 0,
              version |-> 0]

Balances == [exists : BOOLEAN, total : [Buckets -> Int], effective : Int,
             self_service_count : Nat, automatic_count : Nat, version : Nat]

\* The UPDATE budget_balances of BudgetRepo::grant, on a row that the
\* bootstrap INSERT of the same transaction has made sure exists.
ApplyGrant(bal, g) ==
    [exists |-> TRUE,
     total |-> [b \in Buckets |->
                  bal.total[b] + IF g.source \in SourcesOf(b) THEN g.amount ELSE 0],
     effective |-> bal.effective + g.amount,
     self_service_count |->
        bal.self_service_count + IF g.source = "self_service" THEN 1 ELSE 0,
     automatic_count |->
        bal.automatic_count + IF g.source = "automatic" THEN 1 ELSE 0,
     version |-> bal.version + 1]
===============================================================================
