------------------------ MODULE LeadTransfersProofs ------------------------
(***************************************************************************)
(* Proofs about LeadTransfers, for any number of replies, transfers and    *)
(* callers, any paid count and any number of recoveries.                   *)
(***************************************************************************)
EXTENDS LeadTransfers, FiniteSetTheorems, TLAPS

\* A caller works for a reply; from the insert on it holds a row of that reply,
\* which the sweep may have failed and which nobody else can have sent.
CallersHoldRows ==
  \A x \in Callers :
    /\ call[x].pc # "idle" => call[x].reply \in Replies
    /\ call[x].pc \in {"send", "mark", "fail"} =>
         /\ call[x].transfer \in Transfers
         /\ transfers[call[x].transfer].reply = call[x].reply
         /\ transfers[call[x].transfer].status \in {"queued", "failed"}
    /\ call[x].pc \in {"send", "mark"} /\ ~call[x].capped => call[x].transfer \in uncapped
    /\ call[x].pc = "mark" => call[x].transfer \in mailed
    /\ call[x].pc = "approve" =>
         /\ call[x].transfer \in Transfers
         /\ transfers[call[x].transfer].status \in {"pending_review", "cancelled"}

\* The row a caller sends is no other caller's.
RowsHaveOneSender ==
  \A x, y \in Callers :
    /\ x # y
    /\ call[x].pc \in {"send", "mark", "fail"} /\ call[y].pc \in {"send", "mark", "fail"}
    => call[x].transfer # call[y].transfer

\* What is listed and what is mailed was queued once.
KnownRowsWereQueued ==
  /\ \A t \in Transfers : transfers[t].status # "absent" => transfers[t].reply \in Replies
  /\ \A s \in Sweepers : \A c \in found[s] :
       transfers[c.transfer].status \in {"queued", "sent", "failed"}
  /\ \A t \in mailed : transfers[t].status \in {"queued", "sent", "failed"}

\* uniq_lt_classification_active, of every pair of rows.
OneActiveRow ==
  \A t, u \in Transfers :
    /\ transfers[t].reply = transfers[u].reply
    /\ transfers[t].status \in {"queued", "sent", "pending_review"}
    /\ transfers[u].status \in {"queued", "sent", "pending_review"}
    => t = u

RowInv == /\ TypeOK /\ CallersHoldRows /\ RowsHaveOneSender
          /\ KnownRowsWereQueued /\ OneActiveRow /\ SentMeansMailed

IInv == RowInv /\ OverrunBoundedByConcurrency

\* What calls that found a cap have delivered.
Counted == Delivered \ uncapped

USE DEF Row, IdleCall, Begin, PCs, Statuses, Go, Return

-----------------------------------------------------------------------------
\* No more is delivered or under way than before.
LEMMA NothingAdded ==
  ASSUME TypeOK, OverrunBoundedByConcurrency,
         InFlight' \subseteq InFlight, Counted' \subseteq Counted
  PROVE  OverrunBoundedByConcurrency'
<1>1. IsFiniteSet(InFlight) /\ IsFiniteSet(Counted) /\ IsFiniteSet(Callers)
  BY LeadTransfersAssumption, FS_Subset DEF InFlight, Counted, Delivered
<1>2. Cardinality(InFlight') <= Cardinality(InFlight) /\ IsFiniteSet(InFlight')
  BY <1>1, FS_Subset
<1>3. Cardinality(Counted') <= Cardinality(Counted) /\ IsFiniteSet(Counted')
  BY <1>1, FS_Subset
<1>4. /\ Cardinality(InFlight) \in Nat /\ Cardinality(InFlight') \in Nat
      /\ Cardinality(Counted) \in Nat /\ Cardinality(Counted') \in Nat
      /\ Cardinality(Callers) \in Nat
  BY <1>1, <1>2, <1>3, FS_CardinalityType
<1> QED
  BY <1>2, <1>3, <1>4, LeadTransfersAssumption
  DEF OverrunBoundedByConcurrency, Counted

\* A call that found the count below the cap is at most one of all the calls.
LEMMA OneMoreUnderWay ==
  ASSUME TypeOK, ~AtCap(TRUE), InFlight' \subseteq Callers, Counted' = Counted
  PROVE  OverrunBoundedByConcurrency'
<1>1. /\ IsFiniteSet(Delivered) /\ IsFiniteSet(Callers)
      /\ IsFiniteSet(Counted) /\ Cardinality(Counted) <= Cardinality(Delivered)
  BY LeadTransfersAssumption, FS_Subset DEF Counted, Delivered
<1>2. Cardinality(InFlight') <= Cardinality(Callers) /\ IsFiniteSet(InFlight')
  BY <1>1, FS_Subset
<1>3. /\ Cardinality(Delivered) \in Nat /\ Cardinality(Counted) \in Nat
      /\ Cardinality(InFlight') \in Nat /\ Cardinality(Callers) \in Nat
  BY <1>1, <1>2, FS_CardinalityType
<1>4. Cardinality(Counted') < PaidCount
  BY <1>1, <1>3, LeadTransfersAssumption DEF AtCap
<1> QED BY <1>2, <1>3, <1>4, LeadTransfersAssumption DEF OverrunBoundedByConcurrency, Counted

\* A call that ends adds the one transfer it had under way.
LEMMA OneMoreDelivered ==
  ASSUME TypeOK, OverrunBoundedByConcurrency, NEW x \in InFlight, NEW t \in Transfers,
         InFlight' = InFlight \ {x}, Counted' \subseteq Counted \cup {t}
  PROVE  OverrunBoundedByConcurrency'
<1>1. IsFiniteSet(InFlight) /\ IsFiniteSet(Counted) /\ IsFiniteSet(Callers)
  BY LeadTransfersAssumption, FS_Subset DEF InFlight, Counted, Delivered
<1>2. Cardinality(InFlight') = Cardinality(InFlight) - 1 /\ IsFiniteSet(InFlight')
  BY <1>1, FS_RemoveElement
<1>3. /\ IsFiniteSet(Counted \cup {t})
      /\ \/ Cardinality(Counted \cup {t}) = Cardinality(Counted) + 1
         \/ Cardinality(Counted \cup {t}) = Cardinality(Counted)
  BY <1>1, FS_AddElement
<1>4. Cardinality(Counted') <= Cardinality(Counted \cup {t}) /\ IsFiniteSet(Counted')
  BY <1>3, FS_Subset
<1>5. /\ Cardinality(InFlight) \in Nat /\ Cardinality(InFlight') \in Nat
      /\ Cardinality(Counted) \in Nat /\ Cardinality(Counted') \in Nat
      /\ Cardinality(Callers) \in Nat
  BY <1>1, <1>2, <1>4, FS_CardinalityType
<1> QED
  BY <1>2, <1>3, <1>4, <1>5, LeadTransfersAssumption
  DEF OverrunBoundedByConcurrency, Counted

-----------------------------------------------------------------------------
\* What a field's update leaves of a function of records.
LEMMA StampTyped ==
  ASSUME NEW S, NEW f \in [S -> [positive : BOOLEAN, fired : BOOLEAN]], NEW r \in S
  PROVE  [f EXCEPT ![r].fired = TRUE] \in [S -> [positive : BOOLEAN, fired : BOOLEAN]]
  OBVIOUS

LEMMA StatusTyped ==
  ASSUME NEW S, NEW R, NEW P, NEW t \in S, NEW status \in P,
         NEW f \in [S -> [reply : R, status : P, attempts : Nat, old : BOOLEAN]]
  PROVE  [f EXCEPT ![t].status = status]
           \in [S -> [reply : R, status : P, attempts : Nat, old : BOOLEAN]]
  OBVIOUS

LEMMA AgeTyped ==
  ASSUME NEW S, NEW R, NEW P, NEW t \in S,
         NEW f \in [S -> [reply : R, status : P, attempts : Nat, old : BOOLEAN]]
  PROVE  [f EXCEPT ![t].old = TRUE]
           \in [S -> [reply : R, status : P, attempts : Nat, old : BOOLEAN]]
  OBVIOUS

LEMMA ClaimTyped ==
  ASSUME NEW S, NEW R, NEW T, NEW x \in S, NEW t \in T,
         NEW f \in [S -> [pc : PCs, reply : R, transfer : T, capped : BOOLEAN]]
  PROVE  [f EXCEPT ![x] = [@ EXCEPT !.pc = "send", !.transfer = t]]
           \in [S -> [pc : PCs, reply : R, transfer : T, capped : BOOLEAN]]
<1>1. f[x] \in [pc : PCs, reply : R, transfer : T, capped : BOOLEAN]
  OBVIOUS
<1>2. [f[x] EXCEPT !.pc = "send", !.transfer = t]
        \in [pc : PCs, reply : R, transfer : T, capped : BOOLEAN]
  BY <1>1
<1> QED BY <1>2

LEMMA MoveTyped ==
  ASSUME NEW S, NEW R, NEW T, NEW x \in S, NEW pc \in PCs, NEW capped \in BOOLEAN,
         NEW f \in [S -> [pc : PCs, reply : R, transfer : T, capped : BOOLEAN]]
  PROVE  /\ [f EXCEPT ![x].pc = pc]
              \in [S -> [pc : PCs, reply : R, transfer : T, capped : BOOLEAN]]
         /\ [f EXCEPT ![x] = [@ EXCEPT !.pc = pc, !.capped = capped]]
              \in [S -> [pc : PCs, reply : R, transfer : T, capped : BOOLEAN]]
<1>1. f[x] \in [pc : PCs, reply : R, transfer : T, capped : BOOLEAN]
  OBVIOUS
<1>2. /\ [f[x] EXCEPT !.pc = pc] \in [pc : PCs, reply : R, transfer : T, capped : BOOLEAN]
      /\ [f[x] EXCEPT !.pc = pc, !.capped = capped]
           \in [pc : PCs, reply : R, transfer : T, capped : BOOLEAN]
  BY <1>1
<1> QED BY <1>2

LEMMA InitEstablishes == Init => IInv
<1> SUFFICES ASSUME Init PROVE IInv
  OBVIOUS
<1>1. RowInv
  BY LeadTransfersAssumption
  DEF Init, RowInv, TypeOK, CallersHoldRows, RowsHaveOneSender, KnownRowsWereQueued,
      OneActiveRow, SentMeansMailed, Delivered
<1>2. InFlight = {} /\ Counted = {}
  BY DEF Init, InFlight, Counted, Delivered
<1>3. Cardinality(InFlight) = 0 /\ Cardinality(Counted) = 0
  BY <1>2, FS_EmptySet
<1>4. Cardinality(Callers) \in Nat /\ Cardinality(Callers) # 0
  BY LeadTransfersAssumption, FS_CardinalityType, FS_EmptySet
<1>5. OverrunBoundedByConcurrency
  BY <1>3, <1>4, LeadTransfersAssumption DEF OverrunBoundedByConcurrency, Counted
<1> QED BY <1>1, <1>5 DEF IInv

LEMMA DispatchKeepsRows ==
  ASSUME RowInv, NEW x \in Callers, Dispatch(x) \/ CallDies(x)
  PROVE  RowInv'
<1> USE LeadTransfersAssumption
        DEF RowInv, TypeOK, CallersHoldRows, RowsHaveOneSender, KnownRowsWereQueued,
            OneActiveRow, SentMeansMailed, Delivered, Active
<1>1. CASE ReadContext(x)
  <2>1. TypeOK'
    <3>1. call' \in [Callers -> [pc : PCs, reply : Replies \cup {NoReply},
                              transfer : Transfers \cup {NoTransfer}, capped : BOOLEAN]]
      <4>1. CASE call' = [call EXCEPT ![x].pc = "count"]
        BY <4>1, MoveTyped
      <4>2. CASE call' = [call EXCEPT ![x] = IdleCall]
        BY <4>2
      <4> QED BY <1>1, <4>1, <4>2 DEF ReadContext
    <3> QED BY <3>1, <1>1 DEF ReadContext
  <2>2. CallersHoldRows'
    <3>1. \A y \in Callers : y # x => call'[y] = call[y]
      BY <1>1 DEF ReadContext
    <3>2. call'[x].pc \in {"idle", "count"}
      BY <1>1 DEF ReadContext
    <3>3. call'[x].pc # "idle" => call'[x].reply \in Replies
      BY <1>1 DEF ReadContext
    <3>4. transfers' = transfers /\ mailed' = mailed /\ uncapped' = uncapped
      BY <1>1 DEF ReadContext
    <3> HIDE DEF TypeOK, RowsHaveOneSender, KnownRowsWereQueued, OneActiveRow, SentMeansMailed
    <3> QED BY <3>1, <3>2, <3>3, <3>4
  <2>3. RowsHaveOneSender'
    BY <1>1 DEF ReadContext
  <2>4. KnownRowsWereQueued'
    BY <1>1 DEF ReadContext
  <2>5. OneActiveRow'
    BY <1>1 DEF ReadContext
  <2>6. SentMeansMailed'
    BY <1>1 DEF ReadContext
  <2> QED BY <2>1, <2>2, <2>3, <2>4, <2>5, <2>6
<1>2. CASE \E capped \in BOOLEAN : BelowCap(x, capped)
  <2>0. PICK capped \in BOOLEAN : BelowCap(x, capped)
    BY <1>2
  <2>1. TypeOK'
    <3>1. call' \in [Callers -> [pc : PCs, reply : Replies \cup {NoReply},
                              transfer : Transfers \cup {NoTransfer}, capped : BOOLEAN]]
      BY <2>0, MoveTyped DEF BelowCap
    <3> QED BY <3>1, <2>0 DEF BelowCap
  <2>2. CallersHoldRows'
    BY <2>0 DEF BelowCap
  <2>3. RowsHaveOneSender'
    BY <2>0 DEF BelowCap
  <2>4. KnownRowsWereQueued'
    BY <2>0 DEF BelowCap
  <2>5. OneActiveRow'
    BY <2>0 DEF BelowCap
  <2>6. SentMeansMailed'
    BY <2>0 DEF BelowCap
  <2> QED BY <2>1, <2>2, <2>3, <2>4, <2>5, <2>6
<1>3. CASE \E capped \in BOOLEAN : DeferCapped(x, capped)
  BY <1>3 DEF DeferCapped
<1>4. CASE ClaimRefused(x)
  BY <1>4 DEF ClaimRefused
<1>5. CASE \E t \in Transfers : HoldForReview(x, t)
  BY <1>5 DEF HoldForReview
<1>6. CASE \E t \in Transfers : QueueTransfer(x, t)
  <2>0. PICK t \in Transfers : QueueTransfer(x, t)
    BY <1>6
  <2>1. TypeOK'
    <3>1. transfers' \in [Transfers -> [reply : Replies \cup {NoReply}, status : Statuses,
                                     attempts : Nat, old : BOOLEAN]]
      BY <2>0 DEF QueueTransfer
    <3>2. call' \in [Callers -> [pc : PCs, reply : Replies \cup {NoReply},
                              transfer : Transfers \cup {NoTransfer}, capped : BOOLEAN]]
      BY <2>0, ClaimTyped DEF QueueTransfer
    <3> QED BY <3>1, <3>2, <2>0 DEF QueueTransfer
  <2>2. CallersHoldRows'
    BY <2>0 DEF QueueTransfer
  <2>3. RowsHaveOneSender'
    BY <2>0 DEF QueueTransfer
  <2>4. KnownRowsWereQueued'
    BY <2>0 DEF QueueTransfer
  <2>5. OneActiveRow'
    BY <2>0 DEF QueueTransfer
  <2>6. SentMeansMailed'
    BY <2>0 DEF QueueTransfer
  <2> QED BY <2>1, <2>2, <2>3, <2>4, <2>5, <2>6
<1>7. CASE SendIntro(x)
  BY <1>7 DEF SendIntro
<1>8. CASE SendFails(x)
  BY <1>8 DEF SendFails
<1>9. CASE MarkFailed(x)
  BY <1>9 DEF MarkFailed
<1>10. CASE MarkSent(x)
  <2>1. TypeOK'
    <3>1. call[x].transfer \in Transfers /\ call[x].reply \in Replies
      BY <1>10 DEF MarkSent
    <3>2. transfers' \in [Transfers -> [reply : Replies \cup {NoReply}, status : Statuses,
                                     attempts : Nat, old : BOOLEAN]]
      <4>1. transfers' = [transfers EXCEPT ![call[x].transfer].status = "sent"]
        BY <1>10 DEF MarkSent
      <4>2. /\ transfers \in [Transfers -> [reply : Replies \cup {NoReply}, status : Statuses,
                                           attempts : Nat, old : BOOLEAN]]
            /\ "sent" \in Statuses
        OBVIOUS
      <4> HIDE DEF RowInv, TypeOK, Statuses
      <4> QED BY <3>1, <4>1, <4>2, StatusTyped, Zenon
    <3>3. replies' \in [Replies -> [positive : BOOLEAN, fired : BOOLEAN]]
      <4>1. replies' = [replies EXCEPT ![call[x].reply].fired = TRUE]
        BY <1>10 DEF MarkSent
      <4>2. replies \in [Replies -> [positive : BOOLEAN, fired : BOOLEAN]]
        OBVIOUS
      <4> HIDE DEF RowInv, TypeOK
      <4> QED BY <3>1, <4>1, <4>2, StampTyped, Zenon
    <3>4. call' \in [Callers -> [pc : PCs, reply : Replies \cup {NoReply},
                              transfer : Transfers \cup {NoTransfer}, capped : BOOLEAN]]
      BY <1>10 DEF MarkSent
    <3> QED BY <3>1, <3>2, <3>3, <3>4, <1>10 DEF MarkSent
  <2>2. CallersHoldRows'
    BY <1>10 DEF MarkSent
  <2>3. RowsHaveOneSender'
    BY <1>10 DEF MarkSent
  <2>4. KnownRowsWereQueued'
    BY <1>10 DEF MarkSent
  <2>5. OneActiveRow'
    BY <1>10 DEF MarkSent
  <2>6. SentMeansMailed'
    <3>1. /\ call[x].transfer \in Transfers /\ call[x].reply \in Replies
          /\ transfers[call[x].transfer].reply = call[x].reply
          /\ call[x].transfer \in mailed
      BY <1>10 DEF MarkSent
    <3>2. \A r \in Replies : replies[r].fired \/ r = call[x].reply => replies'[r].fired
      BY <1>10, <3>1 DEF MarkSent
    <3>3. \A t \in Transfers : /\ transfers'[t].reply = transfers[t].reply
                               /\ t # call[x].transfer => transfers'[t] = transfers[t]
      BY <1>10, <3>1 DEF MarkSent
    <3>4. \A t \in Transfers : transfers[t].status = "sent" =>
            t \in mailed /\ transfers[t].reply \in Replies /\ replies[transfers[t].reply].fired
      OBVIOUS
    <3>5. mailed' = mailed
      BY <1>10 DEF MarkSent
    <3> HIDE DEF RowInv
    <3>6. ASSUME NEW t \in Transfers, transfers'[t].status = "sent"
          PROVE  t \in mailed' /\ replies'[transfers'[t].reply].fired
      <4>1. CASE t = call[x].transfer
        BY <3>1, <3>2, <3>3, <3>5, <4>1, Zenon
      <4>2. CASE t # call[x].transfer
        BY <3>2, <3>3, <3>4, <3>5, <3>6, <4>2, Zenon
      <4> QED BY <4>1, <4>2
    <3> QED BY <3>6
  <2> QED BY <2>1, <2>2, <2>3, <2>4, <2>5, <2>6
<1>11. CASE MarkSentRefused(x)
  BY <1>11 DEF MarkSentRefused
<1>12. CASE CallDies(x)
  BY <1>12 DEF CallDies
<1> QED
  BY <1>1, <1>2, <1>3, <1>4, <1>5, <1>6, <1>7, <1>8, <1>9, <1>10, <1>11, <1>12
  DEF Dispatch

LEMMA EntryKeepsRows ==
  ASSUME RowInv, NEW d \in Dispatchers, Entry(d)
  PROVE  RowInv'
<1> USE LeadTransfersAssumption
        DEF RowInv, TypeOK, CallersHoldRows, RowsHaveOneSender, KnownRowsWereQueued,
            OneActiveRow, SentMeansMailed, Delivered
<1> d \in Callers
  BY DEF Callers
<1>1. CASE \E r \in Replies, positive \in BOOLEAN : ReceiveReply(d, r, positive)
  BY <1>1 DEF ReceiveReply
<1>2. CASE \E r \in Replies : ReadForIntro(d, r)
  BY <1>2 DEF ReadForIntro
<1>3. CASE \E t \in Transfers : ReadHeld(d, t)
  BY <1>3 DEF ReadHeld
<1>4. CASE ApproveHeld(d)
  <2>1. TypeOK'
    BY <1>4 DEF ApproveHeld
  <2>2. CallersHoldRows'
    BY <1>4 DEF ApproveHeld
  <2>3. RowsHaveOneSender'
    BY <1>4 DEF ApproveHeld
  <2>4. KnownRowsWereQueued'
    BY <1>4 DEF ApproveHeld
  <2>5. OneActiveRow'
    BY <1>4 DEF ApproveHeld
  <2>6. SentMeansMailed'
    BY <1>4 DEF ApproveHeld
  <2> QED BY <2>1, <2>2, <2>3, <2>4, <2>5, <2>6
<1>5. CASE FireIntro(d)
  <2>1. TypeOK'
    <3>1. call[d].reply \in Replies
      BY <1>5 DEF FireIntro
    <3>2. replies' \in [Replies -> [positive : BOOLEAN, fired : BOOLEAN]]
      <4>1. replies' = [replies EXCEPT ![call[d].reply].fired = TRUE]
        BY <1>5 DEF FireIntro
      <4>2. replies \in [Replies -> [positive : BOOLEAN, fired : BOOLEAN]]
        OBVIOUS
      <4> HIDE DEF RowInv, TypeOK
      <4> QED BY <3>1, <4>1, <4>2, StampTyped, Zenon
    <3>3. call' \in [Callers -> [pc : PCs, reply : Replies \cup {NoReply},
                              transfer : Transfers \cup {NoTransfer}, capped : BOOLEAN]]
      BY <1>5 DEF FireIntro
    <3> QED BY <3>1, <3>2, <3>3, <1>5 DEF FireIntro
  <2>2. CallersHoldRows'
    BY <1>5 DEF FireIntro
  <2>3. RowsHaveOneSender'
    BY <1>5 DEF FireIntro
  <2>4. KnownRowsWereQueued'
    BY <1>5 DEF FireIntro
  <2>5. OneActiveRow'
    BY <1>5 DEF FireIntro
  <2>6. SentMeansMailed'
    BY <1>5 DEF FireIntro
  <2> QED BY <2>1, <2>2, <2>3, <2>4, <2>5, <2>6
<1> QED BY <1>1, <1>2, <1>3, <1>4, <1>5 DEF Entry

LEMMA SweepKeepsRows ==
  ASSUME RowInv, NEW s \in Sweepers, SweepStep(s)
  PROVE  RowInv'
<1> USE LeadTransfersAssumption
        DEF RowInv, TypeOK, CallersHoldRows, RowsHaveOneSender, KnownRowsWereQueued,
            OneActiveRow, SentMeansMailed, Delivered
<1> s \in Callers
  BY DEF Callers
<1>1. CASE ListStuck(s)
  BY <1>1 DEF ListStuck, Stuck
<1>2. CASE SweepDies(s)
  BY <1>2 DEF SweepDies
<1>3. CASE \E c \in found[s] : Abandon(s, c)
  <2>0. PICK c \in found[s] : Abandon(s, c)
    BY <1>3
  <2>1. TypeOK'
    BY <2>0 DEF Abandon
  <2>2. CallersHoldRows'
    BY <2>0 DEF Abandon
  <2>3. RowsHaveOneSender'
    BY <2>0 DEF Abandon
  <2>4. KnownRowsWereQueued'
    BY <2>0 DEF Abandon
  <2>5. OneActiveRow'
    BY <2>0 DEF Abandon
  <2>6. SentMeansMailed'
    BY <2>0 DEF Abandon
  <2> QED BY <2>1, <2>2, <2>3, <2>4, <2>5, <2>6
<1>4. CASE \E c \in found[s] : Retry(s, c)
  <2>0. PICK c \in found[s] : Retry(s, c)
    BY <1>4
  <2>1. TypeOK'
    BY <2>0 DEF Retry
  <2>2. CallersHoldRows'
    BY <2>0 DEF Retry
  <2>3. RowsHaveOneSender'
    BY <2>0 DEF Retry
  <2>4. KnownRowsWereQueued'
    BY <2>0 DEF Retry
  <2>5. OneActiveRow'
    BY <2>0 DEF Retry
  <2>6. SentMeansMailed'
    BY <2>0 DEF Retry
  <2> QED BY <2>1, <2>2, <2>3, <2>4, <2>5, <2>6
<1> QED BY <1>1, <1>2, <1>3, <1>4 DEF SweepStep

LEMMA RowStepKeepsRows ==
  ASSUME RowInv, NEW t \in Transfers, PassesThreshold(t) \/ RejectHeld(t)
  PROVE  RowInv'
<1> USE LeadTransfersAssumption
        DEF RowInv, TypeOK, CallersHoldRows, RowsHaveOneSender, KnownRowsWereQueued,
            OneActiveRow, SentMeansMailed, Delivered
<1>1. CASE PassesThreshold(t)
  <2>1. TypeOK'
    <3>1. transfers' \in [Transfers -> [reply : Replies \cup {NoReply}, status : Statuses,
                                     attempts : Nat, old : BOOLEAN]]
      BY <1>1, AgeTyped DEF PassesThreshold
    <3> QED BY <3>1, <1>1 DEF PassesThreshold
  <2>2. CallersHoldRows'
    BY <1>1 DEF PassesThreshold
  <2>3. RowsHaveOneSender'
    BY <1>1 DEF PassesThreshold
  <2>4. KnownRowsWereQueued'
    BY <1>1 DEF PassesThreshold
  <2>5. OneActiveRow'
    BY <1>1 DEF PassesThreshold
  <2>6. SentMeansMailed'
    BY <1>1 DEF PassesThreshold
  <2> QED BY <2>1, <2>2, <2>3, <2>4, <2>5, <2>6
<1>2. CASE RejectHeld(t)
  BY <1>2 DEF RejectHeld
<1> QED BY <1>1, <1>2

LEMMA StepKeepsRows == RowInv /\ [Next]_vars => RowInv'
<1> SUFFICES ASSUME RowInv, [Next]_vars PROVE RowInv'
  OBVIOUS
<1>1. CASE UNCHANGED vars
  BY <1>1 DEF vars, RowInv, TypeOK, CallersHoldRows, RowsHaveOneSender, KnownRowsWereQueued,
              OneActiveRow, SentMeansMailed, Delivered
<1> QED
  BY <1>1, DispatchKeepsRows, EntryKeepsRows, SweepKeepsRows, RowStepKeepsRows DEF Next

-----------------------------------------------------------------------------
LEMMA DispatchKeepsOverrun ==
  ASSUME IInv, NEW x \in Callers, Dispatch(x) \/ CallDies(x)
  PROVE  OverrunBoundedByConcurrency'
<1> TypeOK /\ OverrunBoundedByConcurrency /\ CallersHoldRows
  BY DEF IInv, RowInv
<1>1. CASE \E capped \in BOOLEAN : BelowCap(x, capped)
  <2>1. PICK capped \in BOOLEAN : BelowCap(x, capped)
    BY <1>1
  <2>2. Counted' = Counted
    BY <2>1 DEF BelowCap, Counted, Delivered
  <2>3. CASE capped
    <3>1. ~AtCap(TRUE) /\ InFlight' \subseteq Callers
      BY <2>1, <2>3 DEF BelowCap, AtCap, InFlight
    <3> QED BY <3>1, <2>2, OneMoreUnderWay
  <2>4. CASE ~capped
    <3>1. InFlight' \subseteq InFlight
      BY <2>1, <2>4 DEF BelowCap, InFlight, TypeOK
    <3> QED BY <3>1, <2>2, NothingAdded
  <2> QED BY <2>3, <2>4
<1>2. CASE MarkSent(x)
  <2>1. call[x].transfer \in Transfers
    BY <1>2 DEF MarkSent, CallersHoldRows
  <2>2. InFlight' = InFlight \ {x}
    BY <1>2 DEF MarkSent, InFlight, TypeOK
  <2>3. Counted' \subseteq Counted \cup {call[x].transfer}
    BY <1>2 DEF MarkSent, Counted, Delivered, TypeOK
  <2>4. CASE call[x].capped
    <3>1. x \in InFlight
      BY <1>2, <2>4 DEF MarkSent, InFlight
    <3> QED BY <2>1, <2>2, <2>3, <3>1, OneMoreDelivered
  <2>5. CASE ~call[x].capped
    <3>1. call[x].transfer \in uncapped /\ uncapped' = uncapped
      BY <1>2, <2>5 DEF MarkSent, CallersHoldRows
    <3>2. Counted' \subseteq Counted
      BY <2>3, <3>1 DEF Counted
    <3> QED BY <2>2, <3>2, NothingAdded
  <2> QED BY <2>4, <2>5
<1>3. CASE \/ ReadContext(x) \/ \E capped \in BOOLEAN : DeferCapped(x, capped)
           \/ ClaimRefused(x)
           \/ SendIntro(x) \/ SendFails(x) \/ MarkSentRefused(x) \/ CallDies(x)
  <2>1. InFlight' \subseteq InFlight /\ Counted' = Counted
    BY <1>3
    DEF InFlight, Counted, Delivered, TypeOK, ReadContext, DeferCapped, ClaimRefused, SendIntro,
        SendFails, MarkSentRefused, CallDies
  <2> QED BY <2>1, NothingAdded
<1>4. CASE MarkFailed(x)
  <2>1. InFlight' \subseteq InFlight /\ Counted' \subseteq Counted
    BY <1>4 DEF InFlight, Counted, Delivered, TypeOK, MarkFailed
  <2> QED BY <2>1, NothingAdded
<1>5. CASE \E t \in Transfers : HoldForReview(x, t)
  <2>1. InFlight' \subseteq InFlight /\ Counted' \subseteq Counted
    BY <1>5 DEF InFlight, Counted, Delivered, TypeOK, HoldForReview
  <2> QED BY <2>1, NothingAdded
<1>6. CASE \E t \in Transfers : QueueTransfer(x, t)
  <2>1. PICK t \in Transfers : QueueTransfer(x, t)
    BY <1>6
  <2>2. InFlight' \subseteq InFlight
    BY <2>1 DEF InFlight, TypeOK, QueueTransfer
  <2>3. Counted' \subseteq Counted
    BY <2>1 DEF Counted, Delivered, TypeOK, QueueTransfer
  <2> QED BY <2>2, <2>3, NothingAdded
<1> QED BY <1>1, <1>2, <1>3, <1>4, <1>5, <1>6 DEF Dispatch

LEMMA OtherStepsKeepOverrun ==
  ASSUME IInv,
         \/ \E d \in Dispatchers : Entry(d)
         \/ \E s \in Sweepers : SweepStep(s)
         \/ \E t \in Transfers : PassesThreshold(t) \/ RejectHeld(t)
  PROVE  OverrunBoundedByConcurrency'
<1> TypeOK /\ OverrunBoundedByConcurrency
  BY DEF IInv, RowInv
<1>1. CASE \E d \in Dispatchers : Entry(d)
  <2>1. PICK d \in Dispatchers : Entry(d)
    BY <1>1
  <2>2. d \in Callers
    BY DEF Callers
  <2>3. CASE \E r \in Replies, positive \in BOOLEAN : ReceiveReply(d, r, positive)
    <3>1. InFlight' \subseteq InFlight /\ Counted' \subseteq Counted
      BY <2>2, <2>3 DEF InFlight, Counted, Delivered, TypeOK, ReceiveReply
    <3> QED BY <3>1, NothingAdded
  <2>4. CASE \E r \in Replies : ReadForIntro(d, r)
    <3>1. InFlight' \subseteq InFlight /\ Counted' \subseteq Counted
      BY <2>2, <2>4 DEF InFlight, Counted, Delivered, TypeOK, ReadForIntro
    <3> QED BY <3>1, NothingAdded
  <2>5. CASE \E t \in Transfers : ReadHeld(d, t)
    <3>1. InFlight' \subseteq InFlight /\ Counted' \subseteq Counted
      BY <2>2, <2>5 DEF InFlight, Counted, Delivered, TypeOK, ReadHeld
    <3> QED BY <3>1, NothingAdded
  <2>6. CASE ApproveHeld(d)
    <3>1. InFlight' \subseteq InFlight
      BY <2>2, <2>6 DEF InFlight, TypeOK, ApproveHeld
    <3>2. Counted' \subseteq Counted
      BY <2>6 DEF Counted, Delivered, TypeOK, ApproveHeld
    <3> QED BY <3>1, <3>2, NothingAdded
  <2>7. CASE FireIntro(d)
    <3>1. InFlight' \subseteq InFlight /\ Counted' \subseteq Counted
      BY <2>2, <2>7 DEF InFlight, Counted, Delivered, TypeOK, FireIntro
    <3> QED BY <3>1, NothingAdded
  <2> QED BY <2>1, <2>3, <2>4, <2>5, <2>6, <2>7 DEF Entry
<1>2. CASE \E s \in Sweepers : SweepStep(s)
  <2>1. PICK s \in Sweepers : SweepStep(s)
    BY <1>2
  <2>2. CASE ListStuck(s) \/ SweepDies(s)
    <3>1. InFlight' \subseteq InFlight /\ Counted' \subseteq Counted
      BY <2>2 DEF InFlight, Counted, Delivered, TypeOK, Callers, ListStuck, SweepDies
    <3> QED BY <3>1, NothingAdded
  <2>3. CASE \E c \in found[s] : Abandon(s, c) \/ Retry(s, c)
    <3>1. PICK c \in found[s] : Abandon(s, c) \/ Retry(s, c)
      BY <2>3
    <3>2. c.transfer \in Transfers
      BY <3>1 DEF TypeOK
    <3>3. InFlight' \subseteq InFlight
      BY <3>1 DEF InFlight, TypeOK, Callers, Abandon, Retry
    <3>4. Counted' \subseteq Counted
      <4>1. CASE Abandon(s, c)
        BY <3>2, <4>1 DEF Counted, Delivered, TypeOK, Abandon
      <4>2. CASE Retry(s, c)
        <5>1. \A t \in Transfers : transfers'[t].status = transfers[t].status
          BY <3>2, <4>2 DEF TypeOK, Retry
        <5>2. uncapped' = uncapped
          BY <4>2 DEF Retry
        <5> QED BY <5>1, <5>2 DEF Counted, Delivered
      <4> QED BY <3>1, <4>1, <4>2
    <3> QED BY <3>3, <3>4, NothingAdded
  <2> QED BY <2>1, <2>2, <2>3 DEF SweepStep
<1>3. CASE \E t \in Transfers : PassesThreshold(t) \/ RejectHeld(t)
  <2>1. InFlight' \subseteq InFlight /\ Counted' \subseteq Counted
    BY <1>3 DEF InFlight, Counted, Delivered, TypeOK, PassesThreshold, RejectHeld
  <2> QED BY <2>1, NothingAdded
<1> QED BY <1>1, <1>2, <1>3

LEMMA StepPreserves == IInv /\ [Next]_vars => IInv'
<1> SUFFICES ASSUME IInv, [Next]_vars PROVE IInv'
  OBVIOUS
<1>1. RowInv'
  BY StepKeepsRows DEF IInv
<1>2. OverrunBoundedByConcurrency'
  <2>1. CASE UNCHANGED vars
    <3>1. InFlight' \subseteq InFlight /\ Counted' \subseteq Counted
      BY <2>1 DEF vars, InFlight, Counted, Delivered
    <3> QED BY <3>1, NothingAdded DEF IInv, RowInv
  <2>2. CASE Next
    BY <2>2, DispatchKeepsOverrun, OtherStepsKeepOverrun DEF Next
  <2> QED BY <2>1, <2>2
<1> QED BY <1>1, <1>2 DEF IInv

LEMMA Invariance == Spec => []IInv
<1>1. Init => IInv
  BY InitEstablishes
<1>2. IInv /\ [Next]_vars => IInv'
  BY StepPreserves
<1> QED BY <1>1, <1>2, PTL DEF Spec

-----------------------------------------------------------------------------
\* Rows, classifications and callers keep their types in every run of the dispatcher.
THEOREM TypeCorrect == Spec => []TypeOK
<1>1. IInv => TypeOK
  BY DEF IInv, RowInv
<1> QED BY <1>1, Invariance, PTL

\* What the cap counts as delivered was mailed, and its reply will not be dispatched again.
THEOREM SentIsMailed == Spec => []SentMeansMailed
<1>1. IInv => SentMeansMailed
  BY DEF IInv, RowInv
<1> QED BY <1>1, Invariance, PTL

\* A reply's second intro always stands beside one that was given up.
THEOREM SecondIntroNeedsAFailure == Spec => []MailedAgainOnlyAfterFailure
<1>1. IInv => MailedAgainOnlyAfterFailure
  <2> SUFFICES ASSUME IInv, NEW t \in mailed, NEW u \in mailed, t # u,
                      transfers[t].reply = transfers[u].reply,
                      transfers[t].status # "failed", transfers[u].status # "failed"
               PROVE  FALSE
    BY DEF MailedAgainOnlyAfterFailure
  <2>1. t \in Transfers /\ u \in Transfers
    BY DEF IInv, RowInv, TypeOK
  <2>2. transfers[t].status \in {"queued", "sent"} /\ transfers[u].status \in {"queued", "sent"}
    BY DEF IInv, RowInv, KnownRowsWereQueued
  <2> QED BY <2>1, <2>2 DEF IInv, RowInv, OneActiveRow
<1> QED BY <1>1, Invariance, PTL

\* However many calls that found a cap race past the count, they overrun it by less than
\* their number; nothing is said of what calls without a cap add.
THEOREM OverrunIsBounded == Spec => []OverrunBoundedByConcurrency
<1>1. IInv => OverrunBoundedByConcurrency
  BY DEF IInv
<1> QED BY <1>1, Invariance, PTL

\* No intro that waits for an operator, or that one dismissed, has gone out.
THEOREM HeldStaysIn == Spec => []HeldIsNeverMailed
<1>1. IInv => HeldIsNeverMailed
  BY DEF IInv, RowInv, KnownRowsWereQueued, HeldIsNeverMailed
<1> QED BY <1>1, Invariance, PTL

-----------------------------------------------------------------------------
LEMMA StepKeepsDelivered ==
  ASSUME RowInv, [Next]_vars
  PROVE  \A t \in Transfers : transfers[t].status = "sent" => transfers'[t].status = "sent"
<1> SUFFICES ASSUME NEW t \in Transfers, transfers[t].status = "sent"
             PROVE  transfers'[t].status = "sent"
  OBVIOUS
<1> USE DEF RowInv, TypeOK, CallersHoldRows
<1>1. CASE UNCHANGED vars
  BY <1>1 DEF vars
<1>2. CASE \E x \in Callers : Dispatch(x) \/ CallDies(x)
  BY <1>2
  DEF Dispatch, CallDies, ReadContext, BelowCap, DeferCapped, HoldForReview, QueueTransfer,
      ClaimRefused, SendIntro, SendFails, MarkFailed, MarkSent, MarkSentRefused
<1>3. CASE \E d \in Dispatchers : Entry(d)
  BY <1>3 DEF Entry, Callers, ReceiveReply, ReadForIntro, ReadHeld, ApproveHeld, FireIntro
<1>4. CASE \E s \in Sweepers : SweepStep(s)
  <2>1. PICK s \in Sweepers : SweepStep(s)
    BY <1>4
  <2>2. CASE ListStuck(s) \/ SweepDies(s)
    BY <2>2 DEF ListStuck, SweepDies
  <2>3. CASE \E c \in found[s] : Abandon(s, c) \/ Retry(s, c)
    <3>1. PICK c \in found[s] : Abandon(s, c) \/ Retry(s, c)
      BY <2>3
    <3>2. c.transfer \in Transfers
      BY <3>1
    <3>3. CASE Abandon(s, c)
      BY <3>2, <3>3 DEF Abandon
    <3>4. CASE Retry(s, c)
      BY <3>2, <3>4 DEF Retry
    <3> QED BY <3>1, <3>3, <3>4
  <2> QED BY <2>1, <2>2, <2>3 DEF SweepStep
<1>5. CASE \E u \in Transfers : PassesThreshold(u) \/ RejectHeld(u)
  BY <1>5 DEF PassesThreshold, RejectHeld
<1> QED BY <1>1, <1>2, <1>3, <1>4, <1>5 DEF Next

\* Neither the sweep's list nor an operator's click from before a send takes the
\* delivery back: what the cap counts never shrinks.
THEOREM DeliveredStays == Spec => DeliveredStaysDelivered
<1>1. IInv /\ [Next]_vars =>
        [\A t \in Transfers : transfers[t].status = "sent" => transfers'[t].status = "sent"]_vars
  BY StepKeepsDelivered DEF IInv
<1> QED BY <1>1, Invariance, PTL DEF Spec, DeliveredStaysDelivered

-----------------------------------------------------------------------------
(***************************************************************************)
(* The rows implement Introductions.                                       *)
(***************************************************************************)
IntroStep == Intros!Next \/ UNCHANGED Intros!introVars

\* What Introductions sees of a row whose status alone is written.
LEMMA OneStatusMoves ==
  ASSUME TypeOK, NEW t \in Transfers, NEW new,
         transfers' = [transfers EXCEPT ![t].status = new]
  PROVE  ReplyOf' = ReplyOf /\ StatusOf' = [StatusOf EXCEPT ![t] = new]
<1>1. \A u \in Transfers : /\ transfers'[u].reply = transfers[u].reply
                           /\ transfers'[u].status = IF u = t THEN new ELSE transfers[u].status
  BY DEF TypeOK
<1> QED BY <1>1 DEF ReplyOf, StatusOf

\* Steps that write neither a row's status nor its reply, mail nothing and stamp no reply.
LEMMA NothingSeen ==
  ASSUME \A t \in Transfers : /\ transfers'[t].reply = transfers[t].reply
                              /\ transfers'[t].status = transfers[t].status,
         mailed' = mailed,
         \A r \in Replies : replies'[r].fired = replies[r].fired
  PROVE  UNCHANGED Intros!introVars
BY DEF Intros!introVars, ReplyOf, StatusOf, Answered

\* Rows and claims stand in each other's way alike.
LEMMA ActiveIsStanding == \A r : Active(r) = Intros!Standing(r)
BY DEF Active, Intros!Standing, ReplyOf, StatusOf

\* A new row is a claim.
LEMMA RowIsClaim ==
  ASSUME RowInv, NEW x \in Callers, NEW t \in Transfers, NEW status \in {"queued", "pending_review"},
         call[x].pc = "compose", transfers[t].status = "absent", Active(call[x].reply) = {},
         transfers' = [transfers EXCEPT ![t] = Row(call[x].reply, status)],
         UNCHANGED <<replies, mailed>>
  PROVE  IntroStep
<1> DEFINE r == call[x].reply
<1>1. r \in Replies
  BY DEF RowInv, CallersHoldRows
<1>2. \A u \in Transfers :
        /\ transfers'[u].reply = IF u = t THEN r ELSE transfers[u].reply
        /\ transfers'[u].status = IF u = t THEN status ELSE transfers[u].status
  BY DEF RowInv, TypeOK
<1>3. ReplyOf' = [ReplyOf EXCEPT ![t] = r] /\ StatusOf' = [StatusOf EXCEPT ![t] = status]
  <2> HIDE DEF r
  <2> QED BY <1>2 DEF ReplyOf, StatusOf
<1>4. StatusOf[t] = "absent" /\ Intros!Standing(r) = {}
  BY ActiveIsStanding DEF StatusOf
<1>5. Answered' = Answered
  BY DEF Answered
<1>6. Intros!Claim(t, r, status)
  BY <1>3, <1>4, <1>5 DEF Intros!Claim
<1> QED BY <1>1, <1>6 DEF IntroStep, Intros!Next

\* A dispatch claims, mails, delivers and gives up its own row, and no other.
LEMMA DispatchMapped ==
  ASSUME RowInv, NEW x \in Callers, Dispatch(x) \/ CallDies(x)
  PROVE  IntroStep
<1> DEFINE t == call[x].transfer
           r == call[x].reply
<1>1. TypeOK
  BY DEF RowInv
<1>2. call[x].pc \in {"send", "mark", "fail"} =>
        t \in Transfers /\ Intros!Unfinished(t) /\ r \in Replies /\ ReplyOf[t] = r
  BY DEF RowInv, CallersHoldRows, Intros!Unfinished, StatusOf, ReplyOf
<1>3. CASE \E u \in Transfers : HoldForReview(x, u)
  BY <1>3, RowIsClaim DEF HoldForReview
<1>4. CASE \E u \in Transfers : QueueTransfer(x, u)
  BY <1>4, RowIsClaim DEF QueueTransfer
<1>5. CASE SendIntro(x) \/ SendFails(x)
  <2>1. /\ call[x].pc = "send" /\ UNCHANGED <<replies, transfers>>
        /\ mailed' = mailed \/ mailed' = mailed \cup {t}
    BY <1>5 DEF SendIntro, SendFails
  <2>2. ReplyOf' = ReplyOf /\ StatusOf' = StatusOf /\ Answered' = Answered
    BY <2>1 DEF ReplyOf, StatusOf, Answered
  <2>3. CASE mailed' = mailed
    BY <2>2, <2>3 DEF IntroStep, Intros!introVars
  <2>4. CASE mailed' = mailed \cup {t}
    <3>1. Intros!Mail(t)
      BY <1>2, <2>1, <2>2, <2>4 DEF Intros!Mail
    <3> QED BY <1>2, <2>1, <3>1 DEF IntroStep, Intros!Next
  <2> QED BY <2>1, <2>3, <2>4
<1>6. CASE MarkFailed(x)
  <2>1. t \in Transfers /\ ReplyOf' = ReplyOf /\ StatusOf' = [StatusOf EXCEPT ![t] = "failed"]
    BY <1>1, <1>2, <1>6, OneStatusMoves DEF MarkFailed
  <2>2. Answered' = Answered /\ mailed' = mailed
    BY <1>6 DEF MarkFailed, Answered
  <2>3. Intros!GiveUp(t)
    BY <1>2, <1>6, <2>1, <2>2 DEF Intros!GiveUp, MarkFailed
  <2> QED BY <2>1, <2>3 DEF IntroStep, Intros!Next
<1>7. CASE MarkSent(x)
  <2>1. t \in Transfers /\ ReplyOf' = ReplyOf /\ StatusOf' = [StatusOf EXCEPT ![t] = "sent"]
    BY <1>1, <1>2, <1>7, OneStatusMoves DEF MarkSent
  <2>2. Answered' = Answered \cup {ReplyOf[t]}
    <3>1. r \in Replies /\ ReplyOf[t] = r
      BY <1>2, <1>7 DEF MarkSent
    <3>2. replies' = [replies EXCEPT ![r].fired = TRUE]
      BY <1>7 DEF MarkSent
    <3>3. \A s \in Replies : replies'[s].fired = (replies[s].fired \/ s = r)
      <4> HIDE DEF r
      <4> QED BY <1>1, <3>1, <3>2 DEF TypeOK
    <3> HIDE DEF r, t
    <3> QED BY <3>1, <3>3 DEF Answered
  <2>3. t \in mailed /\ mailed' = mailed
    BY <1>7 DEF MarkSent, RowInv, CallersHoldRows
  <2>4. Intros!Standing(ReplyOf[t]) \subseteq {t}
    BY <1>2, <1>7, ActiveIsStanding DEF MarkSent
  <2>5. Intros!Deliver(t)
    BY <1>2, <1>7, <2>1, <2>2, <2>3, <2>4 DEF Intros!Deliver, MarkSent
  <2> QED BY <2>1, <2>5 DEF IntroStep, Intros!Next
<1>8. CASE \/ ReadContext(x) \/ ClaimRefused(x)
           \/ \E capped \in BOOLEAN : BelowCap(x, capped) \/ DeferCapped(x, capped)
           \/ MarkSentRefused(x) \/ CallDies(x)
  <2>1. UNCHANGED <<replies, transfers, mailed>>
    BY <1>8 DEF ReadContext, BelowCap, DeferCapped, ClaimRefused, MarkSentRefused, CallDies
  <2> QED BY <2>1, NothingSeen DEF IntroStep
<1> QED BY <1>3, <1>4, <1>5, <1>6, <1>7, <1>8 DEF Dispatch

\* What starts a call is invisible; an approval dismisses the row it read as held,
\* unless somebody did before; fire_intro answers without a claim.
LEMMA EntryMapped ==
  ASSUME RowInv, NEW d \in Dispatchers, Entry(d)
  PROVE  IntroStep
<1>1. TypeOK /\ d \in Callers
  BY DEF RowInv, Callers
<1>2. CASE ApproveHeld(d)
  <2> DEFINE t == call[d].transfer
  <2>1. t \in Transfers /\ transfers[t].status \in {"pending_review", "cancelled"}
    BY <1>1, <1>2 DEF ApproveHeld, RowInv, CallersHoldRows
  <2>2. ReplyOf' = ReplyOf /\ StatusOf' = [StatusOf EXCEPT ![t] = "cancelled"]
    BY <1>1, <1>2, <2>1, OneStatusMoves DEF ApproveHeld
  <2>3. Answered' = Answered /\ mailed' = mailed
    BY <1>2 DEF ApproveHeld, Answered
  <2>4. CASE transfers[t].status = "pending_review"
    <3>1. Intros!Dismiss(t)
      BY <2>1, <2>2, <2>3, <2>4 DEF Intros!Dismiss, StatusOf
    <3> QED BY <2>1, <3>1 DEF IntroStep, Intros!Next
  <2>5. CASE transfers[t].status = "cancelled"
    <3>1. StatusOf' = StatusOf
      BY <2>1, <2>2, <2>5 DEF StatusOf
    <3> QED BY <2>2, <2>3, <3>1 DEF IntroStep, Intros!introVars
  <2> QED BY <2>1, <2>4, <2>5
<1>3. CASE FireIntro(d)
  <2> DEFINE r == call[d].reply
  <2>1. r \in Replies
    BY <1>1, <1>3 DEF FireIntro, RowInv, CallersHoldRows
  <2>2. \A s \in Replies : replies'[s].fired = (replies[s].fired \/ s = r)
    <3>1. replies' = [replies EXCEPT ![r].fired = TRUE]
      BY <1>3 DEF FireIntro
    <3> HIDE DEF r
    <3> QED BY <1>1, <2>1, <3>1 DEF TypeOK
  <2>3. Answered' = Answered \cup {r}
    <3> HIDE DEF r
    <3> QED BY <2>1, <2>2 DEF Answered
  <2>4. ReplyOf' = ReplyOf /\ StatusOf' = StatusOf /\ mailed' = mailed
    BY <1>3 DEF FireIntro, ReplyOf, StatusOf
  <2>5. Intros!Answer(r)
    BY <2>3, <2>4 DEF Intros!Answer
  <2> QED BY <2>1, <2>5 DEF IntroStep, Intros!Next
<1>4. CASE \E r \in Replies, positive \in BOOLEAN : ReceiveReply(d, r, positive)
  <2>1. \A r \in Replies : replies'[r].fired = replies[r].fired
    BY <1>1, <1>4 DEF ReceiveReply, TypeOK
  <2>2. UNCHANGED <<transfers, mailed>>
    BY <1>4 DEF ReceiveReply
  <2> QED BY <2>1, <2>2, NothingSeen DEF IntroStep
<1>5. CASE (\E r \in Replies : ReadForIntro(d, r)) \/ (\E t \in Transfers : ReadHeld(d, t))
  <2>1. UNCHANGED <<replies, transfers, mailed>>
    BY <1>5 DEF ReadForIntro, ReadHeld
  <2> QED BY <2>1, NothingSeen DEF IntroStep
<1> QED BY <1>2, <1>3, <1>4, <1>5 DEF Entry

\* The sweep gives up what is still queued, however old its list is.
LEMMA SweepMapped ==
  ASSUME RowInv, NEW s \in Sweepers, SweepStep(s)
  PROVE  IntroStep
<1>1. TypeOK
  BY DEF RowInv
<1>2. ASSUME NEW c \in found[s], Abandon(s, c) PROVE IntroStep
  <2> DEFINE t == c.transfer
  <2>1. t \in Transfers
    BY <1>1, <1>2 DEF TypeOK
  <2>2. Answered' = Answered /\ mailed' = mailed
    BY <1>2 DEF Abandon, Answered
  <2>3. CASE transfers[t].status = "queued"
    <3>1. ReplyOf' = ReplyOf /\ StatusOf' = [StatusOf EXCEPT ![t] = "failed"]
      BY <1>1, <1>2, <2>1, <2>3, OneStatusMoves DEF Abandon
    <3>2. Intros!GiveUp(t)
      BY <2>1, <2>2, <2>3, <3>1 DEF Intros!GiveUp, Intros!Unfinished, StatusOf
    <3> QED BY <2>1, <3>2 DEF IntroStep, Intros!Next
  <2>4. CASE transfers[t].status # "queued"
    <3>1. UNCHANGED <<replies, transfers, mailed>>
      BY <1>2, <2>4 DEF Abandon
    <3> QED BY <3>1, NothingSeen DEF IntroStep
  <2> QED BY <2>3, <2>4
<1>3. ASSUME NEW c \in found[s], Retry(s, c) PROVE IntroStep
  <2>1. c.transfer \in Transfers
    BY <1>1, <1>3 DEF TypeOK
  <2>2. \A t \in Transfers : /\ transfers'[t].reply = transfers[t].reply
                             /\ transfers'[t].status = transfers[t].status
    BY <1>1, <1>3, <2>1 DEF Retry, TypeOK
  <2>3. UNCHANGED <<replies, mailed>>
    BY <1>3 DEF Retry
  <2> QED BY <2>2, <2>3, NothingSeen DEF IntroStep
<1>4. CASE ListStuck(s) \/ SweepDies(s)
  <2>1. UNCHANGED <<replies, transfers, mailed>>
    BY <1>4 DEF ListStuck, SweepDies
  <2> QED BY <2>1, NothingSeen DEF IntroStep
<1> QED BY <1>2, <1>3, <1>4 DEF SweepStep

LEMMA RowStepMapped ==
  ASSUME RowInv, NEW t \in Transfers, PassesThreshold(t) \/ RejectHeld(t)
  PROVE  IntroStep
<1>1. TypeOK
  BY DEF RowInv
<1>2. CASE PassesThreshold(t)
  <2>1. \A u \in Transfers : /\ transfers'[u].reply = transfers[u].reply
                             /\ transfers'[u].status = transfers[u].status
    BY <1>1, <1>2 DEF PassesThreshold, TypeOK
  <2>2. UNCHANGED <<replies, mailed>>
    BY <1>2 DEF PassesThreshold
  <2> QED BY <2>1, <2>2, NothingSeen DEF IntroStep
<1>3. CASE RejectHeld(t)
  <2>1. ReplyOf' = ReplyOf /\ StatusOf' = [StatusOf EXCEPT ![t] = "cancelled"]
    BY <1>1, <1>3, OneStatusMoves DEF RejectHeld
  <2>2. Answered' = Answered /\ mailed' = mailed
    BY <1>3 DEF RejectHeld, Answered
  <2>3. Intros!Dismiss(t)
    BY <1>3, <2>1, <2>2 DEF Intros!Dismiss, RejectHeld, StatusOf
  <2> QED BY <2>3 DEF IntroStep, Intros!Next
<1> QED BY <1>2, <1>3

\* For any number of replies, calls and sweeps, every row lives the one life that
\* Introductions gives it.
THEOREM RowsKeepTheirLife == Spec => ImplementsIntroductions
<1>1. Init => Intros!Init
  BY DEF Init, Intros!Init, ReplyOf, StatusOf, Answered
<1>2. ASSUME IInv, [Next]_vars PROVE [Intros!Next]_(Intros!introVars)
  <2>1. CASE UNCHANGED vars
    BY <2>1, NothingSeen DEF vars
  <2>2. CASE Next
    BY <1>2, <2>2, DispatchMapped, EntryMapped, SweepMapped, RowStepMapped
    DEF Next, IntroStep, IInv
  <2> QED BY <1>2, <2>1, <2>2
<1> QED BY <1>1, <1>2, Invariance, PTL DEF Spec, ImplementsIntroductions, Intros!Spec
=============================================================================
