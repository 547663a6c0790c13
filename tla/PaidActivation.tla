--------------------------- MODULE PaidActivation ---------------------------
(***************************************************************************)
(* What a Checkout payment promises: a session of the proposal that Stripe *)
(* was paid for is recorded, then one initiative is made for it, then that *)
(* one is launched, and only a launched one is the proposal's. None of it  *)
(* is undone. Proposals implements this with requests, deliveries,         *)
(* operators and a row that each of them may find moved.                   *)
(***************************************************************************)
CONSTANTS Sessions, Initiatives, NoInitiative

VARIABLES paid,      \* the sessions Stripe has the money of
          recorded,  \* those whose payment is written down
          made,      \* the initiatives made for each session
          launched,  \* the initiatives under way
          linked     \* the one the proposal names

paymentVars == <<paid, recorded, made, launched, linked>>

Init ==
  /\ paid = {} /\ recorded = {} /\ launched = {}
  /\ made = [s \in Sessions |-> {}]
  /\ linked = NoInitiative

Pay(s) ==
  /\ s \notin paid
  /\ paid' = paid \cup {s}
  /\ UNCHANGED <<recorded, made, launched, linked>>

Record(s) ==
  /\ s \in paid
  /\ recorded' = recorded \cup {s}
  /\ UNCHANGED <<paid, made, launched, linked>>

Make(s, i) ==
  /\ s \in recorded /\ made[s] = {}
  /\ \A t \in Sessions : i \notin made[t]
  /\ made' = [made EXCEPT ![s] = {i}]
  /\ UNCHANGED <<paid, recorded, launched, linked>>

Launch(s, i) ==
  /\ i \in made[s]
  /\ launched' = launched \cup {i}
  /\ UNCHANGED <<paid, recorded, made, linked>>

Link(i) ==
  /\ i \in launched
  /\ linked' = i
  /\ UNCHANGED <<paid, recorded, made, launched>>

Next ==
  \/ \E s \in Sessions : Pay(s) \/ Record(s) \/ \E i \in Initiatives : Make(s, i) \/ Launch(s, i)
  \/ \E i \in Initiatives : Link(i)

Spec == Init /\ [][Next]_paymentVars
=============================================================================
