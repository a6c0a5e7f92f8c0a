---------------------------- MODULE PointCustody ----------------------------
(***************************************************************************)
(* What the wallets promise, without lots, ledgers or clocks: points are   *)
(* free, held under one business identity, spent or retired.  They enter   *)
(* only by being issued, and each identity holds and settles once.  All    *)
(* tenants are seen together, so that a transfer between two is no step.   *)
(***************************************************************************)
EXTENDS Naturals

CONSTANT Holder   \* the business identities that may hold points

VARIABLES free, held, state, spent, retired

custody == <<free, held, state, spent, retired>>

Init ==
  /\ free \in Nat
  /\ held = [r \in Holder |-> 0]
  /\ state = [r \in Holder |-> "idle"]
  /\ spent = 0
  /\ retired = 0

Issue ==
  /\ free' > free
  /\ UNCHANGED <<held, state, spent, retired>>

\* Free points are lost to expiry or given back to the buyer.
Retire ==
  /\ retired' > retired
  /\ free' + retired' = free + retired
  /\ UNCHANGED <<held, state, spent>>

\* Holding may first retire points that have expired.
Hold(r) ==
  /\ state[r] = "idle"
  /\ \E quantity \in 1..free :
       /\ held' = [held EXCEPT ![r] = quantity]
       /\ free' + retired' + quantity = free + retired
  /\ retired' >= retired
  /\ state' = [state EXCEPT ![r] = "held"]
  /\ UNCHANGED spent

Spend(r) ==
  /\ state[r] = "held"
  /\ spent' = spent + held[r]
  /\ held' = [held EXCEPT ![r] = 0]
  /\ state' = [state EXCEPT ![r] = "spent"]
  /\ UNCHANGED <<free, retired>>

\* Held points come back, all of them: to be free again, or retired.
Return(r) ==
  /\ state[r] = "held"
  /\ free' + retired' = free + retired + held[r]
  /\ free' >= free /\ retired' >= retired
  /\ held' = [held EXCEPT ![r] = 0]
  /\ state' = [state EXCEPT ![r] = "returned"]
  /\ UNCHANGED spent

Next == Issue \/ Retire \/ \E r \in Holder : Hold(r) \/ Spend(r) \/ Return(r)

Spec == Init /\ [][Next]_custody
=============================================================================
