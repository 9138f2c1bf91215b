----------------------------- MODULE MCRefillPath -----------------------------
(***************************************************************************)
(* The path of a refill request in one run: concurrent submissions of one  *)
(* key and their reviews ("review"), the usage events behind the spend its *)
(* policy reads ("usage"), and the cursor walks that list requests and     *)
(* grants ("pages").  `focus` is chosen once; the other parts rest.        *)
(***************************************************************************)
EXTENDS MCRefillReview, MCUsage, MCPages

VARIABLE focus
pathVars == <<vars, usageVars, pageVars, focus>>

ReviewRests == policy = (CHOOSE d \in Policies : TRUE) /\ Init
UsageRests == payload = (CHOOSE b \in Payloads : TRUE) /\ UsageInit
PagesRest ==
    /\ walk = [list |-> "mine", phase |-> "idle", cursor |-> Nil, seen |-> {}, returned |-> 0, due |-> {}]
    /\ PagesInit

PathInit ==
    \/ focus = "review" /\ Init /\ UsageRests /\ PagesRest
    \/ focus = "usage" /\ ReviewRests /\ UsageInit /\ PagesRest
    \/ focus = "pages" /\ ReviewRests /\ UsageRests /\ PagesInit

PathNext ==
    /\ \/ focus = "review" /\ Next /\ UNCHANGED <<usageVars, pageVars>>
       \/ focus = "usage" /\ UsageNext /\ UNCHANGED <<vars, pageVars>>
       \/ focus = "pages" /\ PagesNext /\ UNCHANGED <<vars, usageVars>>
    /\ UNCHANGED focus

\* Handlers that run go on running (RefillReview's FairSpec).
PathSpec ==
    /\ PathInit /\ [][PathNext]_pathVars
    /\ \A w \in Workers : WF_vars(WorkerStep(w))
    /\ \A r \in Reviewers : WF_vars(ReviewStep(r))
===============================================================================
