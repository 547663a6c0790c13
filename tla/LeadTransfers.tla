--------------------------- MODULE LeadTransfers ---------------------------
(***************************************************************************)
(* Cluster 3: a positive reply to a Leg-2 message becomes one introduction *)
(* to the partner who paid for the audience.  The inbox orchestrator       *)
(* classifies the reply (inbox_orchestrator.py), the dispatcher counts     *)
(* what the contract has left, composes, and writes a lead_transfers row   *)
(* around the send (cluster3_dispatch.py); the sweep looks after queued    *)
(* rows (cluster3_recovery.py) and an operator after held ones             *)
(* (routers/admin/cluster3.py).  fire_intro is the older way to answer the *)
(* same reply (customer_activation.py).  All replies here belong to one    *)
(* partner, contract and audience.                                         *)
(***************************************************************************)
EXTENDS Naturals, FiniteSets

CONSTANTS Replies, NoReply,        \* ids of email_reply_classifications rows
          Transfers, NoTransfer,   \* ids of lead_transfers rows
          Dispatchers,             \* concurrent calls made by webhooks, operators, fire-intro
          Sweepers,                \* concurrent calls of sweep_stuck_queued
          PaidCount,               \* proposed_transfer_count of the contract's proposal
          MaxRecoverAttempts       \* MAX_RECOVER_ATTEMPTS

Callers == Dispatchers \cup Sweepers

ASSUME LeadTransfersAssumption ==
  /\ NoReply \notin Replies /\ NoTransfer \notin Transfers
  /\ Dispatchers \cap Sweepers = {}
  /\ IsFiniteSet(Callers) /\ Callers # {} /\ IsFiniteSet(Transfers)
  /\ PaidCount \in Nat \ {0} /\ MaxRecoverAttempts \in Nat

VARIABLES replies,    \* each classification: does it say positive, is intro_fired_at set
          transfers,  \* the lead_transfers rows
          call,       \* where each caller is, and the reply and row it is about
          found,      \* what is left of each sweep's list, with the attempts it read
          mailed,     \* observer: the rows whose intro EmailBison took
          uncapped    \* observer: the rows queued by a call that found no cap

vars == <<replies, transfers, call, found, mailed, uncapped>>

Statuses == {"absent", "queued", "sent", "failed", "cancelled", "pending_review"}

\* A bug: the name email_messages has for it, which lead_transfers_status_check refuses.
RowUnchecked(r, status) ==
  [reply |-> r, status |-> IF status = "pending_review" THEN "pending" ELSE status,
   attempts |-> 0, old |-> FALSE]

\* attempts is recover_attempt_count; old, that queued_at is past the threshold.
Row(r, status) == [reply |-> r, status |-> status, attempts |-> 0, old |-> FALSE]
PCs == {"idle", "context", "count", "compose", "send", "mark", "fail", "fire", "approve"}
IdleCall == [pc |-> "idle", reply |-> NoReply, transfer |-> NoTransfer, capped |-> FALSE]

\* A call at its start; capped is what it finds when it counts.
Begin(pc, r, t) == [pc |-> pc, reply |-> r, transfer |-> t, capped |-> FALSE]

\* Rows, classifications and every caller's state have their types.
TypeOK ==
  /\ replies \in [Replies -> [positive : BOOLEAN, fired : BOOLEAN]]
  /\ transfers \in [Transfers -> [reply : Replies \cup {NoReply}, status : Statuses,
                                  attempts : Nat, old : BOOLEAN]]
  /\ call \in [Callers -> [pc : PCs, reply : Replies \cup {NoReply},
                           transfer : Transfers \cup {NoTransfer}, capped : BOOLEAN]]
  /\ found \in [Sweepers -> SUBSET [transfer : Transfers, attempts : Nat]]
  /\ mailed \subseteq Transfers /\ uncapped \subseteq Transfers

Init ==
  /\ replies = [r \in Replies |-> [positive |-> FALSE, fired |-> FALSE]]
  /\ transfers = [t \in Transfers |-> Row(NoReply, "absent")]
  /\ call = [x \in Callers |-> IdleCall]
  /\ found = [s \in Sweepers |-> {}]
  /\ mailed = {} /\ uncapped = {}

\* uniq_lt_classification_active: no two rows of a reply are in these statuses.
Active(r) == {t \in Transfers : transfers[t].reply = r
                                  /\ transfers[t].status \in {"queued", "sent", "pending_review"}}

Delivered == {t \in Transfers : transfers[t].status = "sent"}

Go(x, pc) == call' = [call EXCEPT ![x].pc = pc]
Return(x) == call' = [call EXCEPT ![x] = IdleCall]

-----------------------------------------------------------------------------
(***************************************************************************)
(* The webhook's replied or interested event, or a reply the               *)
(* reconciliation backfills: classify it and dispatch if it is positive.   *)
(***************************************************************************)
\* _upsert_classification; the label is the classifier's, on every call anew.
ReceiveReply(d, r, positive) ==
  /\ call[d] = IdleCall
  /\ replies' = [replies EXCEPT ![r].positive = positive]
  /\ call' = IF positive
             THEN [call EXCEPT ![d] = Begin("context", r, NoTransfer)]
             ELSE call
  /\ UNCHANGED <<transfers, found, mailed, uncapped>>

-----------------------------------------------------------------------------
(***************************************************************************)
(* dispatch_for_classification.                                            *)
(***************************************************************************)
\* The early returns: not positive any more, or an intro has gone out.
ReadContext(x) ==
  /\ call[x].pc = "context"
  /\ LET r == replies[call[x].reply] IN
       IF r.positive /\ ~r.fired THEN Go(x, "count") ELSE Return(x)
  /\ UNCHANGED <<replies, transfers, found, mailed, uncapped>>

\* A bug: one more than was paid for.
OnePastCap(capped) == capped /\ Cardinality(Delivered) > PaidCount

\* _resolve_allocation_cap and _count_delivered_transfers.  There is a cap while a
\* proposal of the contract reads paid; without one paid_transfer_count is None,
\* "uncapped (operator can dispatch freely)", and the count is compared with nothing.
AtCap(capped) == capped /\ Cardinality(Delivered) >= PaidCount

\* Which of the two a call finds is free: a payment makes the proposal read paid, a late
\* checkout takes it back (Proposals).  So reading it with the count loses nothing.
BelowCap(x, capped) ==
  /\ call[x].pc = "count" /\ ~AtCap(capped)
  /\ call' = [call EXCEPT ![x] = [@ EXCEPT !.pc = "compose", !.capped = capped]]
  /\ UNCHANGED <<replies, transfers, found, mailed, uncapped>>

\* Its row has a status of its own, deferred_capped, that no code here reads or
\* changes; such rows are left out of transfers.
DeferCapped(x, capped) ==
  /\ call[x].pc = "count" /\ AtCap(capped)
  /\ Return(x)
  /\ UNCHANGED <<replies, transfers, found, mailed, uncapped>>

\* A bug: the index leaves held rows out, as it did before they had a status.
HoldForReviewAnyway(x, t) ==
  /\ call[x].pc = "compose" /\ transfers[t].status = "absent"
  /\ transfers' = [transfers EXCEPT ![t] = Row(call[x].reply, "pending_review")]
  /\ Return(x)
  /\ UNCHANGED <<replies, found, mailed, uncapped>>

\* The verdict gate blocks the composed intro: _park_pending_review.
HoldForReview(x, t) ==
  /\ call[x].pc = "compose" /\ transfers[t].status = "absent"
  /\ Active(call[x].reply) = {}
  /\ transfers' = [transfers EXCEPT ![t] = Row(call[x].reply, "pending_review")]
  /\ Return(x)
  /\ UNCHANGED <<replies, found, mailed, uncapped>>

\* A bug: nothing tells concurrent dispatches of a reply apart.
QueueTransferAnyway(x, t) ==
  /\ call[x].pc = "compose" /\ transfers[t].status = "absent"
  /\ transfers' = [transfers EXCEPT ![t] = Row(call[x].reply, "queued")]
  /\ call' = [call EXCEPT ![x] = [@ EXCEPT !.pc = "send", !.transfer = t]]
  /\ uncapped' = uncapped \cup (IF call[x].capped THEN {} ELSE {t})
  /\ UNCHANGED <<replies, found, mailed>>

\* The verdict lets it go: the row that claims the reply.
QueueTransfer(x, t) ==
  /\ call[x].pc = "compose" /\ transfers[t].status = "absent"
  /\ Active(call[x].reply) = {}
  /\ transfers' = [transfers EXCEPT ![t] = Row(call[x].reply, "queued")]
  /\ call' = [call EXCEPT ![x] = [@ EXCEPT !.pc = "send", !.transfer = t]]
  /\ uncapped' = uncapped \cup (IF call[x].capped THEN {} ELSE {t})
  /\ UNCHANGED <<replies, found, mailed>>

\* UniqueViolation: 'already_sent' for a row to queue, an exception for one to hold.
ClaimRefused(x) ==
  /\ call[x].pc = "compose" /\ Active(call[x].reply) # {}
  /\ Return(x)
  /\ UNCHANGED <<replies, transfers, found, mailed, uncapped>>

\* eb_send.send_intro, after the email_messages row is inserted.
SendIntro(x) ==
  /\ call[x].pc = "send"
  /\ mailed' = mailed \cup {call[x].transfer}
  /\ Go(x, "mark")
  /\ UNCHANGED <<replies, transfers, found, uncapped>>

\* ClusterIntroSendError: EmailBison refused it, or took it and its answer was lost.
SendFails(x) ==
  /\ call[x].pc = "send"
  /\ mailed' \in {mailed, mailed \cup {call[x].transfer}}
  /\ Go(x, "fail")
  /\ UNCHANGED <<replies, transfers, found, uncapped>>

\* _mark_lead_transfer_failed has no condition on the status.
MarkFailed(x) ==
  /\ call[x].pc = "fail"
  /\ transfers' = [transfers EXCEPT ![call[x].transfer].status = "failed"]
  /\ Return(x)
  /\ UNCHANGED <<replies, found, mailed, uncapped>>

\* A bug: intro_fired_at is left to a later transaction.
MarkSentOnly(x) ==
  /\ call[x].pc = "mark" /\ Active(call[x].reply) \subseteq {call[x].transfer}
  /\ transfers' = [transfers EXCEPT ![call[x].transfer].status = "sent"]
  /\ Return(x)
  /\ UNCHANGED <<replies, found, mailed, uncapped>>

\* _mark_dispatch_sent: transfer, message and classification in one transaction.
MarkSent(x) ==
  /\ call[x].pc = "mark" /\ Active(call[x].reply) \subseteq {call[x].transfer}
  /\ transfers' = [transfers EXCEPT ![call[x].transfer].status = "sent"]
  /\ replies' = [replies EXCEPT ![call[x].reply].fired = TRUE]
  /\ Return(x)
  /\ UNCHANGED <<found, mailed, uncapped>>

\* The row was abandoned meanwhile and another claims the reply: the index refuses.
MarkSentRefused(x) ==
  /\ call[x].pc = "mark" /\ ~ Active(call[x].reply) \subseteq {call[x].transfer}
  /\ Return(x)
  /\ UNCHANGED <<replies, transfers, found, mailed, uncapped>>

\* A database error, a cancelled request, a restart: the rows stay as they are.
\* The sweep catches what its dispatch raises and goes on with its list.
CallDies(x) ==
  /\ call[x] # IdleCall
  /\ Return(x)
  /\ UNCHANGED <<replies, transfers, found, mailed, uncapped>>

-----------------------------------------------------------------------------
(***************************************************************************)
(* sweep_stuck_queued.                                                     *)
(***************************************************************************)
PassesThreshold(t) ==
  /\ transfers[t].status = "queued" /\ ~transfers[t].old
  /\ transfers' = [transfers EXCEPT ![t].old = TRUE]
  /\ UNCHANGED <<replies, call, found, mailed, uncapped>>

Stuck(t) == /\ transfers[t].status = "queued" /\ transfers[t].old
            /\ replies[transfers[t].reply].positive
            /\ ~replies[transfers[t].reply].fired

ListStuck(s) ==
  /\ call[s] = IdleCall /\ found[s] = {}
  /\ \E t \in Transfers : Stuck(t)
  /\ found' = [found EXCEPT ![s] = {[transfer |-> t, attempts |-> transfers[t].attempts] :
                                       t \in {u \in Transfers : Stuck(u)}}]
  /\ UNCHANGED <<replies, transfers, call, mailed, uncapped>>

Abandon(s, c) ==
  /\ call[s] = IdleCall /\ c \in found[s] /\ c.attempts >= MaxRecoverAttempts
  /\ transfers' = IF transfers[c.transfer].status = "queued"
                  THEN [transfers EXCEPT ![c.transfer].status = "failed"] ELSE transfers
  /\ found' = [found EXCEPT ![s] = @ \ {c}]
  /\ UNCHANGED <<replies, call, mailed, uncapped>>

\* A bug: the attempt is not counted.
RetryUncounted(s, c) ==
  /\ call[s] = IdleCall /\ c \in found[s] /\ c.attempts < MaxRecoverAttempts
  /\ found' = [found EXCEPT ![s] = @ \ {c}]
  /\ call' = [call EXCEPT ![s] = Begin("context", transfers[c.transfer].reply, c.transfer)]
  /\ UNCHANGED <<replies, transfers, mailed, uncapped>>

\* _bump_attempt, then dispatch_for_classification in the sweep's own call.
Retry(s, c) ==
  /\ call[s] = IdleCall /\ c \in found[s] /\ c.attempts < MaxRecoverAttempts
  /\ transfers' = [transfers EXCEPT ![c.transfer].attempts = @ + 1]
  /\ found' = [found EXCEPT ![s] = @ \ {c}]
  /\ call' = [call EXCEPT ![s] = Begin("context", transfers[c.transfer].reply, c.transfer)]
  /\ UNCHANGED <<replies, mailed, uncapped>>

\* A restart, or an error of the sweep's own queries, drops the list.
SweepDies(s) ==
  /\ found[s] # {}
  /\ found' = [found EXCEPT ![s] = {}]
  /\ Return(s)
  /\ UNCHANGED <<replies, transfers, mailed, uncapped>>

-----------------------------------------------------------------------------
(***************************************************************************)
(* The operator's two answers to a held intro.                             *)
(***************************************************************************)
\* approve reads the status in a transaction of its own ...
ReadHeld(d, t) ==
  /\ call[d] = IdleCall /\ transfers[t].status = "pending_review"
  /\ call' = [call EXCEPT ![d] = Begin("approve", transfers[t].reply, t)]
  /\ UNCHANGED <<replies, transfers, found, mailed, uncapped>>

\* ... cancels the row, whatever became of it, and dispatches the reply again.
ApproveHeld(d) ==
  /\ call[d].pc = "approve"
  /\ transfers' = [transfers EXCEPT ![call[d].transfer].status = "cancelled"]
  /\ Go(d, "context")
  /\ UNCHANGED <<replies, found, mailed, uncapped>>

RejectHeld(t) ==
  /\ transfers[t].status = "pending_review"
  /\ transfers' = [transfers EXCEPT ![t].status = "cancelled"]
  /\ UNCHANGED <<replies, call, found, mailed, uncapped>>

-----------------------------------------------------------------------------
(***************************************************************************)
(* customer_activation.fire_intro: a message row and the stamp, with no    *)
(* lead transfer; the send is its task's.                                  *)
(***************************************************************************)
ReadForIntro(d, r) ==
  /\ call[d] = IdleCall /\ replies[r].positive /\ ~replies[r].fired
  /\ call' = [call EXCEPT ![d] = Begin("fire", r, NoTransfer)]
  /\ UNCHANGED <<replies, transfers, found, mailed, uncapped>>

FireIntro(d) ==
  /\ call[d].pc = "fire"
  /\ replies' = [replies EXCEPT ![call[d].reply].fired = TRUE]
  /\ Return(d)
  /\ UNCHANGED <<transfers, found, mailed, uncapped>>

-----------------------------------------------------------------------------
Dispatch(x) ==
  \/ ReadContext(x) \/ \E capped \in BOOLEAN : BelowCap(x, capped) \/ DeferCapped(x, capped)
  \/ ClaimRefused(x)
  \/ \E t \in Transfers : HoldForReview(x, t) \/ QueueTransfer(x, t)
  \/ SendIntro(x) \/ SendFails(x) \/ MarkFailed(x) \/ MarkSent(x) \/ MarkSentRefused(x)

Entry(d) ==
  \/ \E r \in Replies, positive \in BOOLEAN : ReceiveReply(d, r, positive)
  \/ \E r \in Replies : ReadForIntro(d, r)
  \/ \E t \in Transfers : ReadHeld(d, t)
  \/ ApproveHeld(d) \/ FireIntro(d)

SweepStep(s) == ListStuck(s) \/ SweepDies(s) \/ \E c \in found[s] : Abandon(s, c) \/ Retry(s, c)

Next ==
  \/ \E x \in Callers : Dispatch(x) \/ CallDies(x)
  \/ \E d \in Dispatchers : Entry(d)
  \/ \E s \in Sweepers : SweepStep(s)
  \/ \E t \in Transfers : PassesThreshold(t) \/ RejectHeld(t)

Spec == Init /\ [][Next]_vars

\* Time passes, the schedule keeps calling the sweep, a retry it makes ends (by
\* finishing or by dying), and the sweep is not stopped before every candidate
\* for ever.  What webhooks, operators and EmailBison do is free.
Fairness ==
  /\ \A t \in Transfers : WF_vars(PassesThreshold(t))
  /\ \A s \in Sweepers :
       /\ WF_vars(ListStuck(s)) /\ WF_vars(Dispatch(s) \/ CallDies(s))
       /\ SF_vars(\E c \in found[s] : Abandon(s, c) \/ Retry(s, c))

FairSpec == Spec /\ Fairness

-----------------------------------------------------------------------------
(***************************************************************************)
(* What the rows mean.                                                     *)
(***************************************************************************)
\* A transfer is counted as delivered only when EmailBison took its intro and
\* its reply is stamped (cluster3_dispatch.py, _mark_dispatch_sent).
SentMeansMailed ==
  \A t \in Delivered : t \in mailed /\ replies[transfers[t].reply].fired

\* However often a reply is dispatched, swept and approved, two of its rows
\* are mailed only when one of them was given up as failed before or since.
MailedAgainOnlyAfterFailure ==
  \A t, u \in mailed :
    t # u /\ transfers[t].reply = transfers[u].reply
      => "failed" \in {transfers[t].status, transfers[u].status}

\* Calls that found a cap, counted below it and may still add a transfer.
InFlight == {x \in Callers : call[x].capped /\ call[x].pc \in {"compose", "send", "mark"}}

\* The count is read long before the row is written, so calls of different
\* replies pass the cap together: what calls that found a cap have delivered and
\* under way exceeds the paid count (cluster3_dispatch.py:140) by less than there
\* are calls.  What is dispatched while no proposal reads paid has no bound.
OverrunBoundedByConcurrency ==
  Cardinality(Delivered \ uncapped) + Cardinality(InFlight) < PaidCount + Cardinality(Callers)

\* No caller's late or repeated write takes a delivered transfer back, which
\* the count of what is left relies on.
DeliveredStaysDelivered ==
  [][\A t \in Transfers : transfers[t].status = "sent" => transfers'[t].status = "sent"]_vars

\* An intro an operator has to look at is never mailed, nor one he dismissed
\* (admin/cluster3.py): approving makes another row.
HeldIsNeverMailed ==
  \A t \in mailed : transfers[t].status \notin {"pending_review", "cancelled"}

\* The sweep gets every queued row of a reply that is still to be answered
\* out of the queue, whatever happened to the call that queued it.
QueuedIsSettled ==
  \A t \in Transfers :
    transfers[t].status = "queued" ~>
      \/ transfers[t].status # "queued"
      \/ ~replies[transfers[t].reply].positive
      \/ replies[transfers[t].reply].fired

\* "if attempts < MAX_RECOVER_ATTEMPTS (3): re-fire dispatch"
\* (cluster3_recovery.py:13): the row to recover is not what stops its own retry.
RetryIsNotItsOwnObstacle ==
  \A s \in Sweepers :
    call[s].pc = "compose" => call[s].transfer \notin Active(call[s].reply)

-----------------------------------------------------------------------------
(***************************************************************************)
(* The same rows without the calls, the counts and the lists.              *)
(***************************************************************************)
ReplyOf == [t \in Transfers |-> transfers[t].reply]
StatusOf == [t \in Transfers |-> transfers[t].status]
Answered == {r \in Replies : replies[r].fired}

Intros == INSTANCE Introductions WITH
  Claims <- Transfers, reply <- ReplyOf, status <- StatusOf, answered <- Answered

\* Dispatches that race, sweeps with old lists, approvals of rows that have moved and
\* UPDATEs without a condition (cluster3_dispatch.py, cluster3_recovery.py) take every
\* row along its one life: nobody's late write moves a row off it.
ImplementsIntroductions == Intros!Spec
=============================================================================
