-------------------------- MODULE UserOpLifecycle --------------------------
(***************************************************************************)
(* What a bundler promises about the operations it accepts, without saying *)
(* how: each accepted submission ("item") is pending until it is settled   *)
(* once and for all as included or failed; the chain executes only         *)
(* operations that were accepted, each at most once; and an item is        *)
(* reported as included only when the chain did execute its operation.     *)
(*                                                                         *)
(* The service may forget everything in a restart.  The chain does not.    *)
(***************************************************************************)
CONSTANTS
  Items,   \* submissions that may be accepted
  Ops,     \* operations
  OpOf     \* the operation of each item

VARIABLES
  outcome,   \* how each item stands
  executed   \* the operations the chain has executed

lifecycleVars == <<outcome, executed>>

Init ==
  /\ outcome = [i \in Items |-> "none"]
  /\ executed = {}

Accept(i) ==
  /\ outcome[i] = "none"
  /\ outcome' = [outcome EXCEPT ![i] = "pending"]
  /\ UNCHANGED executed

\* One transaction executes a set of accepted operations that are new to it.
Execute ==
  /\ \E S \in SUBSET {i \in Items : outcome[i] # "none"} :
       /\ \A i \in S : OpOf[i] \notin executed
       /\ executed' = executed \cup {OpOf[i] : i \in S}
  /\ UNCHANGED outcome

\* One bundle settles: its items are all included or all failed.
Settle ==
  /\ \E S \in SUBSET {i \in Items : outcome[i] = "pending"} :
       \/ /\ \A i \in S : OpOf[i] \in executed
          /\ outcome' = [i \in Items |-> IF i \in S THEN "included" ELSE outcome[i]]
       \/ outcome' = [i \in Items |-> IF i \in S THEN "failed" ELSE outcome[i]]
  /\ UNCHANGED executed

Forget ==
  /\ outcome' = [i \in Items |-> IF outcome[i] = "none" THEN "none" ELSE "forgotten"]
  /\ UNCHANGED executed

Next ==
  \/ \E i \in Items : Accept(i)
  \/ Execute
  \/ Settle
  \/ Forget

Spec == Init /\ [][Next]_lifecycleVars
=============================================================================
