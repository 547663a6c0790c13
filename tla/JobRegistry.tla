---------------------------- MODULE JobRegistry ----------------------------
(***************************************************************************)
(* What create_job promises its callers: for each Idempotency-Key there is *)
(* one job, registered the moment the first caller gets it, and every      *)
(* later caller with that key is handed the same job.  A caller without a  *)
(* key always gets a job of its own.  ActivationJobs implements this with  *)
(* a lookup, an INSERT and a second lookup.                                *)
(***************************************************************************)
CONSTANTS Keys, NoKey, Jobs, NoJob, Requests

VARIABLES holder,   \* the job of each key
          answer    \* the key each caller presented and the job it was handed

registryVars == <<holder, answer>>

Unanswered == [key |-> NoKey, job |-> NoJob]

Init ==
  /\ holder = [k \in Keys |-> NoJob]
  /\ answer = [q \in Requests |-> Unanswered]

Fresh(j) ==
  /\ \A k \in Keys : holder[k] # j
  /\ \A q \in Requests : answer[q].job # j

Register(q, k, j) ==
  /\ holder[k] = NoJob
  /\ Fresh(j)
  /\ holder' = [holder EXCEPT ![k] = j]
  /\ answer' = [answer EXCEPT ![q] = [key |-> k, job |-> j]]

Repeat(q, k) ==
  /\ holder[k] # NoJob
  /\ answer' = [answer EXCEPT ![q] = [key |-> k, job |-> holder[k]]]
  /\ UNCHANGED holder

RegisterUnkeyed(q, j) ==
  /\ Fresh(j)
  /\ answer' = [answer EXCEPT ![q] = [key |-> NoKey, job |-> j]]
  /\ UNCHANGED holder

Next ==
  \E q \in Requests :
    /\ answer[q] = Unanswered
    /\ \/ \E k \in Keys : Repeat(q, k) \/ \E j \in Jobs : Register(q, k, j)
       \/ \E j \in Jobs : RegisterUnkeyed(q, j)

Spec == Init /\ [][Next]_registryVars
=============================================================================
