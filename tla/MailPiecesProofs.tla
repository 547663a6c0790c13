-------------------------- MODULE MailPiecesProofs --------------------------
(***************************************************************************)
(* Proofs about MailPieces, for any number of pieces, requests, receivers, *)
(* replayers and replays.                                                  *)
(***************************************************************************)
EXTENDS MailPieces, FiniteSetTheorems, TLAPS

\* A call that is not idle has its piece or event; one that is to mark a piece
\* that came back as applied has seen the address Lob reports suppressed.
CallsAreAbout ==
  /\ \A c \in Creators : creator[c].pc # "idle" => creator[c].piece \in Pieces
  /\ \A x \in Projectors :
       /\ projector[x].pc # "idle" => projector[x].event \in Events
       /\ projector[x].pc = "mark" =>
            /\ projector[x].outcome # "none"
            /\ projector[x].event.kind = "returned" /\ projector[x].outcome = "applied"
                 => reported[projector[x].event.piece] \in suppressed

\* Events are of pieces that Lob has made, whose reported address stays as it is.
EventsAreOfPieces ==
  /\ \A p \in Pieces : lob[p] # "none" => reported[p] \in Addresses
  /\ \A e \in Events : stored[e] # "none" => lob[e.piece] # "none"
  /\ \A x \in Projectors : projector[x].pc # "idle" => lob[projector[x].event.piece] # "none"

NoneLateBefore == \A p \in late : To[p] \in suppressed

LateFor(a) == {p \in late : To[p] = a}
Bounded(a) == Cardinality(LateFor(a)) + Cardinality(Making(a)) <= Cardinality(past[a])

\* The projections that have not come to the log yet.
Pending(e) == {x \in Projectors : projector[x].pc \in {"find", "log"} /\ projector[x].event = e}

\* Each of them was started by the one stored delivery or by a replay.
Started(e) == (IF stored[e] = "none" THEN 0 ELSE 1) + replays[e]
LogsAreAccountedFor ==
  \A e \in Events : logged[e] + Cardinality(Pending(e)) <= Started(e)

CallInv == TypeOK /\ CallsAreAbout /\ EventsAreOfPieces /\ NoneLateBefore
             /\ ReturnedIsSuppressed

IInv == CallInv /\ LateMailIsBounded /\ LogsAreAccountedFor

USE DEF RowStatuses, IdleCreator, IdleProjector, Go, End, Project

-----------------------------------------------------------------------------
(***************************************************************************)
(* Counting the mail.                                                      *)
(***************************************************************************)
LEMMA MailIsFinite ==
  ASSUME TypeOK, NEW a \in Addresses
  PROVE  /\ IsFiniteSet(LateFor(a)) /\ Cardinality(LateFor(a)) \in Nat
         /\ IsFiniteSet(Making(a)) /\ Cardinality(Making(a)) \in Nat
         /\ IsFiniteSet(past[a]) /\ Cardinality(past[a]) \in Nat
<1>1. LateFor(a) \subseteq Pieces /\ Making(a) \subseteq Creators /\ past[a] \subseteq Creators
  BY DEF TypeOK, LateFor, Making
<1>2. IsFiniteSet(LateFor(a)) /\ IsFiniteSet(Making(a)) /\ IsFiniteSet(past[a])
  BY <1>1, MailPiecesAssumption, FS_Subset
<1> QED BY <1>2, FS_CardinalityType

LEMMA BoundedIsLate == LateMailIsBounded <=> \A a \in suppressed : Bounded(a)
BY DEF LateMailIsBounded, Bounded, LateFor

LEMMA NoMoreMail ==
  ASSUME TypeOK, NEW a \in Addresses, Bounded(a), past'[a] = past[a],
         LateFor(a)' \subseteq LateFor(a), Making(a)' \subseteq Making(a)
  PROVE  Bounded(a)'
<1>1. /\ IsFiniteSet(LateFor(a)) /\ Cardinality(LateFor(a)) \in Nat
      /\ IsFiniteSet(Making(a)) /\ Cardinality(Making(a)) \in Nat
      /\ Cardinality(past[a]) \in Nat
  BY MailIsFinite
<1>2. /\ Cardinality(Making(a)') <= Cardinality(Making(a)) /\ IsFiniteSet(Making(a)')
      /\ Cardinality(LateFor(a)') <= Cardinality(LateFor(a)) /\ IsFiniteSet(LateFor(a)')
  BY <1>1, FS_Subset
<1>3. Cardinality(Making(a)') \in Nat /\ Cardinality(LateFor(a)') \in Nat
  BY <1>2, FS_CardinalityType
<1> QED BY <1>1, <1>2, <1>3 DEF Bounded

\* When an address gets on the list, only the requests past the gate can mail to it.
LEMMA FirstSuppressed ==
  ASSUME TypeOK, NEW a \in Addresses, a \notin suppressed, NoneLateBefore, late' = late,
         Making(a)' = Making(a), past'[a] = Making(a)
  PROVE  Bounded(a)'
<1>1. LateFor(a)' = {} /\ Cardinality(LateFor(a)') = 0
  BY FS_EmptySet DEF NoneLateBefore, LateFor
<1>2. Cardinality(Making(a)) \in Nat
  BY MailIsFinite
<1> QED BY <1>1, <1>2 DEF Bounded

\* A request that makes its piece is past the gate no more.
LEMMA OneMoreMailed ==
  ASSUME TypeOK, NEW a \in Addresses, Bounded(a), past'[a] = past[a],
         NEW c \in Making(a), NEW p \in Pieces,
         Making(a)' = Making(a) \ {c}, LateFor(a)' \in {LateFor(a), LateFor(a) \cup {p}}
  PROVE  Bounded(a)'
<1>1. /\ IsFiniteSet(LateFor(a)) /\ Cardinality(LateFor(a)) \in Nat
      /\ IsFiniteSet(Making(a)) /\ Cardinality(Making(a)) \in Nat
      /\ Cardinality(past[a]) \in Nat
  BY MailIsFinite
<1>2. Cardinality(Making(a)') = Cardinality(Making(a)) - 1 /\ IsFiniteSet(Making(a)')
  BY <1>1, FS_RemoveElement
<1>3. /\ IsFiniteSet(LateFor(a)')
      /\ Cardinality(LateFor(a)') \in {Cardinality(LateFor(a)), Cardinality(LateFor(a)) + 1}
  BY <1>1, FS_AddElement
<1>4. Cardinality(Making(a)') \in Nat /\ Cardinality(LateFor(a)') \in Nat
  BY <1>2, <1>3, FS_CardinalityType
<1> QED BY <1>1, <1>2, <1>3, <1>4 DEF Bounded

\* The list grows by one address; the mail to the others is as it was.
LEMMA ListGrows ==
  ASSUME TypeOK, NoneLateBefore, LateMailIsBounded, NEW b \in Addresses,
         InsertSuppression(b), UNCHANGED <<creator, late>>
  PROVE  LateMailIsBounded'
<1> SUFFICES ASSUME NEW a \in suppressed' PROVE Bounded(a)'
  BY DEF LateMailIsBounded, Bounded, LateFor
<1>1. a \in Addresses /\ Making(a)' = Making(a) /\ LateFor(a)' = LateFor(a)
  BY DEF TypeOK, InsertSuppression, Making, LateFor
<1>2. CASE a \in suppressed
  <2>1. past'[a] = past[a]
    BY <1>1, <1>2 DEF InsertSuppression, TypeOK
  <2>2. Bounded(a)
    BY <1>2, BoundedIsLate
  <2> QED BY <1>1, <2>1, <2>2, NoMoreMail
<1>3. CASE a \notin suppressed
  <2>1. a = b /\ past'[a] = Making(a)
    BY <1>1, <1>3 DEF InsertSuppression, TypeOK
  <2> QED BY <1>1, <1>3, <2>1, FirstSuppressed
<1> QED BY <1>2, <1>3

LEMMA ListTyped ==
  ASSUME TypeOK, NEW b \in Addresses, InsertSuppression(b)
  PROVE  /\ suppressed \subseteq suppressed' /\ suppressed' \subseteq Addresses
         /\ past' \in [Addresses -> SUBSET Creators]
<1>1. \A a : Making(a) \subseteq Creators
  BY DEF Making
<1> QED BY <1>1 DEF TypeOK, InsertSuppression

-----------------------------------------------------------------------------
(***************************************************************************)
(* Counting the log.                                                       *)
(***************************************************************************)
LEMMA PendingIsFinite ==
  ASSUME NEW e
  PROVE  /\ IsFiniteSet(Pending(e)) /\ Cardinality(Pending(e)) \in Nat
         /\ IsFiniteSet(Pending(e)') /\ Cardinality(Pending(e)') \in Nat
<1>1. Pending(e) \subseteq Projectors /\ Pending(e)' \subseteq Projectors
  BY DEF Pending
<1>2. IsFiniteSet(Pending(e)) /\ IsFiniteSet(Pending(e)')
  BY <1>1, MailPiecesAssumption, FS_Subset
<1> QED BY <1>2, FS_CardinalityType

LEMMA NothingLogged ==
  ASSUME TypeOK, TypeOK', LogsAreAccountedFor, logged' = logged, replays' = replays,
         \A e \in Events : /\ Pending(e)' \subseteq Pending(e)
                           /\ stored[e] # "none" => stored'[e] # "none"
  PROVE  LogsAreAccountedFor'
<1> SUFFICES ASSUME NEW e \in Events
             PROVE  logged'[e] + Cardinality(Pending(e)') <= Started(e)'
  BY DEF LogsAreAccountedFor
<1>1. Cardinality(Pending(e)') <= Cardinality(Pending(e))
  BY PendingIsFinite, FS_Subset
<1>2. Cardinality(Pending(e)) \in Nat /\ Cardinality(Pending(e)') \in Nat
  BY PendingIsFinite
<1>3. logged[e] \in Nat /\ replays[e] \in Nat
  BY DEF TypeOK
<1>4. Started(e) <= Started(e)' /\ Started(e) \in Nat /\ Started(e)' \in Nat
  BY <1>3 DEF Started
<1>5. logged[e] + Cardinality(Pending(e)) <= Started(e)
  BY DEF LogsAreAccountedFor
<1> QED BY <1>1, <1>2, <1>3, <1>4, <1>5

LEMMA OneStarted ==
  ASSUME TypeOK, LogsAreAccountedFor, logged' = logged,
         NEW f \in Events, NEW x \in Projectors,
         \A e \in Events \ {f} : Pending(e)' = Pending(e) /\ Started(e)' = Started(e),
         Pending(f)' = Pending(f) \cup {x}, x \notin Pending(f), Started(f)' = Started(f) + 1
  PROVE  LogsAreAccountedFor'
<1> SUFFICES ASSUME NEW e \in Events
             PROVE  logged'[e] + Cardinality(Pending(e)') <= Started(e)'
  BY DEF LogsAreAccountedFor
<1>1. logged[e] + Cardinality(Pending(e)) <= Started(e)
  BY DEF LogsAreAccountedFor
<1>2. Cardinality(Pending(e)) \in Nat /\ IsFiniteSet(Pending(e))
  BY PendingIsFinite
<1>3. logged[e] \in Nat /\ Started(e) \in Nat
  BY DEF TypeOK, Started
<1>4. CASE e # f
  BY <1>1, <1>4
<1>5. CASE e = f
  <2>1. Cardinality(Pending(e)') = Cardinality(Pending(e)) + 1
    BY <1>2, <1>5, FS_AddElement
  <2> QED BY <1>1, <1>2, <1>3, <1>5, <2>1
<1> QED BY <1>4, <1>5

LEMMA OneLogged ==
  ASSUME TypeOK, LogsAreAccountedFor, stored' = stored, replays' = replays,
         NEW f \in Events, NEW x \in Pending(f),
         logged' = [logged EXCEPT ![f] = @ + 1],
         \A e \in Events \ {f} : Pending(e)' = Pending(e),
         Pending(f)' = Pending(f) \ {x}
  PROVE  LogsAreAccountedFor'
<1> SUFFICES ASSUME NEW e \in Events
             PROVE  logged'[e] + Cardinality(Pending(e)') <= Started(e)'
  BY DEF LogsAreAccountedFor
<1>1. logged[e] + Cardinality(Pending(e)) <= Started(e) /\ Started(e)' = Started(e)
  BY DEF LogsAreAccountedFor, Started
<1>2. Cardinality(Pending(e)) \in Nat /\ IsFiniteSet(Pending(e))
  BY PendingIsFinite
<1>3. logged[e] \in Nat /\ Started(e) \in Nat
  BY DEF TypeOK, Started
<1>4. CASE e # f
  BY <1>1, <1>4 DEF TypeOK
<1>5. CASE e = f
  <2>1. Cardinality(Pending(e)') = Cardinality(Pending(e)) - 1
    BY <1>2, <1>5, FS_RemoveElement
  <2>2. logged'[e] = logged[e] + 1
    BY <1>5 DEF TypeOK
  <2> QED BY <1>1, <1>2, <1>3, <1>5, <2>1, <2>2
<1> QED BY <1>4, <1>5

-----------------------------------------------------------------------------
\* What a projection's state is made of, and what the updates of it leave it.
PCs == {"idle", "find", "log", "move", "suppress", "mark"}
CallState == [pc : PCs, event : Events \cup {NoEvent}, previous : RowStatuses,
              outcome : {"none", "applied", "orphaned", "failed"}]

Ended(state, outcome) == [state EXCEPT !.pc = "mark", !.outcome = outcome]
Found(state, status) == [state EXCEPT !.pc = "log", !.previous = status]

LEMMA EndedTyped ==
  ASSUME NEW state \in CallState, NEW outcome \in {"applied", "orphaned", "failed"}
  PROVE  /\ Ended(state, outcome) \in CallState
         /\ Ended(state, outcome).pc = "mark" /\ Ended(state, outcome).outcome = outcome
         /\ Ended(state, outcome).event = state.event
  BY DEF Ended, CallState, PCs

LEMMA FoundTyped ==
  ASSUME NEW state \in CallState, NEW status \in RowStatuses
  PROVE  /\ Found(state, status) \in CallState
         /\ Found(state, status).pc = "log" /\ Found(state, status).event = state.event
  BY DEF Found, CallState, PCs

LEMMA StateTyped ==
  ASSUME NEW f \in [Projectors -> CallState], NEW x \in Projectors, NEW state \in CallState,
         NEW g, g = [f EXCEPT ![x] = state]
  PROVE  /\ g \in [Projectors -> CallState] /\ g[x] = state
         /\ \A y \in Projectors \ {x} : g[y] = f[y]
  OBVIOUS

LEMMA GoTyped ==
  ASSUME NEW f \in [Projectors -> CallState], NEW x \in Projectors, NEW pc \in PCs,
         NEW g, g = [f EXCEPT ![x].pc = pc]
  PROVE  /\ g \in [Projectors -> CallState]
         /\ g[x].pc = pc /\ g[x].event = f[x].event
         /\ \A y \in Projectors \ {x} : g[y] = f[y]
<1>1. f[x] \in CallState
  OBVIOUS
<1>2. [f[x] EXCEPT !.pc = pc] \in CallState
  BY <1>1 DEF CallState
<1>3. g[x] = [f[x] EXCEPT !.pc = pc]
  OBVIOUS
<1>4. g[x].pc = pc /\ g[x].event = f[x].event
  BY <1>1, <1>3 DEF CallState
<1> QED BY <1>2, <1>3, <1>4

LEMMA StartTyped ==
  ASSUME NEW f \in [Projectors -> CallState], NEW x \in Projectors, NEW e \in Events,
         NEW g, g = [f EXCEPT ![x] = [pc |-> "find", event |-> e, previous |-> "absent",
                                      outcome |-> "none"]]
  PROVE  /\ g \in [Projectors -> CallState]
         /\ g[x].pc = "find" /\ g[x].event = e
         /\ \A y \in Projectors \ {x} : g[y] = f[y]
  BY DEF CallState, PCs

LEMMA IdleTyped ==
  ASSUME NEW f \in [Projectors -> CallState], NEW x \in Projectors,
         NEW g, g = [f EXCEPT ![x] = IdleProjector]
  PROVE  /\ g \in [Projectors -> CallState]
         /\ g[x].pc = "idle"
         /\ \A y \in Projectors \ {x} : g[y] = f[y]
  BY DEF CallState, PCs

LEMMA ProjectorTyped == TypeOK => projector \in [Projectors -> CallState]
  BY DEF TypeOK, CallState, PCs

\* What a step of one projection has to show for the part of the invariant that
\* is about single calls.
LEMMA OneCallChanges ==
  ASSUME CallInv, NEW x \in Projectors,
         projector' \in [Projectors -> CallState],
         \A y \in Projectors \ {x} : projector'[y] = projector[y],
         projector'[x].pc # "idle" => projector'[x].event \in Events,
         projector'[x].pc = "mark" =>
           /\ projector'[x].outcome # "none"
           /\ projector'[x].event.kind = "returned" /\ projector'[x].outcome = "applied"
                => reported[projector'[x].event.piece] \in suppressed',
         projector'[x].pc # "idle" => lob[projector'[x].event.piece] # "none",
         suppressed \subseteq suppressed', suppressed' \subseteq Addresses,
         past' \in [Addresses -> SUBSET Creators], UNCHANGED <<lob, reported, creator, late>>,
         row' \in [Pieces -> RowStatuses], logged' \in [Events -> Nat],
         replays' \in [Events -> Nat], told \subseteq told', told' \subseteq Events,
         stored' \in [Events -> {"none", "received", "processed", "orphaned", "dead_letter"}],
         \A e \in Events : stored'[e] # "none" => lob[e.piece] # "none",
         \A e \in Events : e.kind = "returned" /\ stored'[e] = "processed" =>
           stored[e] = "processed" \/ reported[e.piece] \in suppressed' \/ e \in told'
  PROVE  CallInv'
<1> USE DEF CallInv
<1>2. TypeOK'
  BY DEF TypeOK, CallState, PCs
<1>3. CallsAreAbout'
  BY DEF CallsAreAbout
<1>4. NoneLateBefore'
  BY DEF NoneLateBefore
<1>5. ReturnedIsSuppressed'
  BY DEF ReturnedIsSuppressed
<1>6. EventsAreOfPieces'
  BY DEF EventsAreOfPieces
<1> QED BY <1>2, <1>3, <1>4, <1>5, <1>6

\* Only the projection that moves can enter or leave the pending ones.
LEMMA OnePendingChanges ==
  ASSUME NEW x \in Projectors, NEW e,
         \A y \in Projectors \ {x} : projector'[y] = projector[y]
  PROVE  /\ Pending(e)' \subseteq Pending(e) \cup {x}
         /\ Pending(e) \ {x} \subseteq Pending(e)'
         /\ x \in Pending(e)' <=> projector'[x].pc \in {"find", "log"} /\ projector'[x].event = e
         /\ x \in Pending(e) <=> projector[x].pc \in {"find", "log"} /\ projector[x].event = e
  BY DEF Pending

LEMMA InitEstablishes == Init => IInv
<1> SUFFICES ASSUME Init PROVE IInv
  OBVIOUS
<1>1. CallInv
  BY MailPiecesAssumption
  DEF Init, CallInv, TypeOK, CallsAreAbout, EventsAreOfPieces, NoneLateBefore,
      ReturnedIsSuppressed
<1>2. LateMailIsBounded
  BY DEF Init, LateMailIsBounded
<1>3. LogsAreAccountedFor
  <2> SUFFICES ASSUME NEW e \in Events PROVE logged[e] + Cardinality(Pending(e)) <= Started(e)
    BY DEF LogsAreAccountedFor
  <2>1. Pending(e) = {}
    BY DEF Init, Pending
  <2> QED BY <2>1, FS_EmptySet DEF Init, Started
<1> QED BY <1>1, <1>2, <1>3 DEF IInv

\* A request touches neither the events nor the projections.
LEMMA CreatePreserves ==
  ASSUME IInv, NEW c \in Creators, Create(c)
  PROVE  IInv'
<1> USE DEF IInv, CallInv
<1>1. UNCHANGED <<stored, logged, projector, replays, told>>
  BY DEF Create, PassGate, GateFindsUndeliverable, MakePiece, MakeFails, StorePiece, CreatorDies
<1>2. CASE \E p \in Pieces : PassGate(c, p)
  <2>1. PICK p \in Pieces : PassGate(c, p)
    BY <1>2
  <2>2. CallInv'
    BY <2>1, MailPiecesAssumption
    DEF PassGate, TypeOK, CallsAreAbout, EventsAreOfPieces, NoneLateBefore, ReturnedIsSuppressed
  <2>3. \A a \in suppressed : Making(a)' \subseteq Making(a) /\ LateFor(a)' \subseteq LateFor(a)
    BY <2>1 DEF PassGate, Making, LateFor, TypeOK
  <2>4. UNCHANGED <<suppressed, past>>
    BY <2>1 DEF PassGate
  <2>5. LateMailIsBounded'
    BY <2>3, <2>4, NoMoreMail, BoundedIsLate DEF TypeOK, LateMailIsBounded, Bounded, LateFor
  <2> QED BY <1>1, <2>2, <2>5, NothingLogged DEF Pending
<1>3. CASE \E p \in Pieces : GateFindsUndeliverable(c, p)
  <2>1. PICK p \in Pieces : GateFindsUndeliverable(c, p)
    BY <1>3
  <2>2. /\ To[p] \in Addresses /\ InsertSuppression(To[p])
        /\ UNCHANGED <<lob, reported, row, creator, late>>
    BY <2>1, MailPiecesAssumption DEF GateFindsUndeliverable
  <2>3. /\ suppressed \subseteq suppressed' /\ suppressed' \subseteq Addresses
        /\ past' \in [Addresses -> SUBSET Creators]
    BY <2>2, ListTyped
  <2>4. CallInv'
    BY <1>1, <2>2, <2>3
    DEF TypeOK, CallsAreAbout, EventsAreOfPieces, NoneLateBefore, ReturnedIsSuppressed
  <2>5. LateMailIsBounded'
    BY <2>2, ListGrows
  <2> QED BY <1>1, <2>4, <2>5, NothingLogged DEF Pending
<1>4. CASE MakePiece(c) \/ MakeFails(c)
  <2> DEFINE p == creator[c].piece
  <2>1. /\ creator[c].pc = "make" /\ p \in Pieces
        /\ MakeAtLob(p) \/ UNCHANGED <<lob, reported, late>>
        /\ UNCHANGED <<row, suppressed, past>>
    BY <1>4 DEF MakePiece, MakeFails, CallsAreAbout
  <2>2. /\ \A q \in Pieces : lob[q] # "none" => lob'[q] = lob[q] /\ reported'[q] = reported[q]
        /\ \A q \in Pieces : lob'[q] # "none" => reported'[q] \in Addresses
        /\ lob' \in [Pieces -> {"none", "processing", "in_transit", "returned"}]
        /\ reported' \in [Pieces -> Addresses \cup {NoAddress}]
        /\ \/ late' = late
           \/ late' = late \cup {p} /\ To[p] \in suppressed
    <3>0. TypeOK /\ EventsAreOfPieces
      OBVIOUS
    <3> HIDE DEF p, IInv
    <3>1. CASE UNCHANGED <<lob, reported, late>>
      <4>1. lob' = lob /\ reported' = reported /\ late' = late
        BY <3>1
      <4> QED BY <3>0, <4>1 DEF TypeOK, EventsAreOfPieces
    <3>2. CASE MakeAtLob(p) /\ lob[p] = "none"
      <4>1. PICK a \in Addresses : reported' = [reported EXCEPT ![p] = a]
        BY <3>2 DEF MakeAtLob
      <4>2. /\ lob' = [lob EXCEPT ![p] = "processing"]
            /\ late' = IF To[p] \in suppressed THEN late \cup {p} ELSE late
        BY <3>2 DEF MakeAtLob
      <4>3. \A q \in Pieces : /\ lob'[q] = IF q = p THEN "processing" ELSE lob[q]
                             /\ reported'[q] = IF q = p THEN a ELSE reported[q]
        BY <2>1, <3>0, <4>1, <4>2 DEF TypeOK
      <4>4. /\ lob' \in [Pieces -> {"none", "processing", "in_transit", "returned"}]
            /\ reported' \in [Pieces -> Addresses \cup {NoAddress}]
        BY <2>1, <3>0, <4>1, <4>2 DEF TypeOK
      <4> QED BY <3>0, <3>2, <4>2, <4>3, <4>4 DEF EventsAreOfPieces
    <3>3. CASE MakeAtLob(p) /\ lob[p] # "none"
      <4>1. UNCHANGED <<lob, reported, late>>
        BY <3>3 DEF MakeAtLob
      <4> QED BY <3>1, <4>1
    <3> QED BY <2>1, <3>1, <3>2, <3>3
  <2>3. /\ creator' \in [Creators -> [pc : {"idle", "make", "store"}, piece : Pieces \cup {NoPiece}]]
        /\ \A d \in Creators : creator'[d].pc # "idle" => creator'[d].piece \in Pieces
        /\ \A d \in Creators \ {c} : creator'[d] = creator[d]
        /\ creator'[c].pc # "make"
    <3>1. \/ creator' = [creator EXCEPT ![c].pc = "store"]
          \/ creator' = [creator EXCEPT ![c] = IdleCreator]
      BY <1>4 DEF MakePiece, MakeFails
    <3>2. /\ creator \in [Creators -> [pc : {"idle", "make", "store"}, piece : Pieces \cup {NoPiece}]]
          /\ \A d \in Creators : creator[d].pc # "idle" => creator[d].piece \in Pieces
      BY DEF TypeOK, CallsAreAbout
    <3>3. CASE creator' = [creator EXCEPT ![c].pc = "store"]
      BY <2>1, <3>2, <3>3
    <3>4. CASE creator' = [creator EXCEPT ![c] = IdleCreator]
      BY <3>2, <3>4
    <3> QED BY <3>1, <3>3, <3>4
  <2>4. \A x \in Projectors : projector[x].pc # "idle" =>
          /\ projector[x].event.piece \in Pieces
          /\ lob[projector[x].event.piece] # "none"
    BY DEF CallsAreAbout, EventsAreOfPieces, Events
  <2>5. \A e \in Events : e.piece \in Pieces
    BY DEF Events
  <2>6. TypeOK'
    <3> HIDE DEF p
    <3> QED BY <1>1, <2>1, <2>2, <2>3 DEF TypeOK
  <2>7. CallInv'
    <3> HIDE DEF p
    <3>1. CallsAreAbout'
      <4>1. ASSUME NEW x \in Projectors, projector[x].pc # "idle"
            PROVE  reported'[projector[x].event.piece] = reported[projector[x].event.piece]
        BY <2>2, <2>4, <4>1
      <4> QED BY <1>1, <2>1, <2>3, <4>1 DEF CallsAreAbout
    <3>2. EventsAreOfPieces'
      BY <1>1, <2>2, <2>4, <2>5 DEF EventsAreOfPieces
    <3>3. NoneLateBefore'
      BY <2>1, <2>2 DEF NoneLateBefore
    <3>4. ReturnedIsSuppressed'
      <4>1. ASSUME NEW e \in Events, stored[e] = "processed"
            PROVE  reported'[e.piece] = reported[e.piece]
        BY <2>2, <2>5, <4>1 DEF EventsAreOfPieces
      <4> QED BY <1>1, <2>1, <4>1 DEF ReturnedIsSuppressed
    <3> QED BY <2>6, <3>1, <3>2, <3>3, <3>4
  <2>8. ASSUME NEW a \in suppressed PROVE Bounded(a)'
    <3>0. a \in Addresses /\ Bounded(a) /\ past'[a] = past[a]
      BY <2>1, <2>8, BoundedIsLate DEF TypeOK
    <3>1. CASE To[p] = a
      <4>1. c \in Making(a)
        BY <2>1, <3>1 DEF Making
      <4>2. Making(a)' = Making(a) \ {c}
        BY <2>3 DEF Making
      <4>3. LateFor(a)' \in {LateFor(a), LateFor(a) \cup {p}}
        BY <2>2, <3>1 DEF LateFor
      <4> QED BY <2>1, <3>0, <4>1, <4>2, <4>3, OneMoreMailed
    <3>2. CASE To[p] # a
      <4>1. Making(a)' \subseteq Making(a)
        BY <2>3 DEF Making
      <4>2. LateFor(a)' \subseteq LateFor(a)
        BY <2>2, <3>2 DEF LateFor
      <4> QED BY <3>0, <4>1, <4>2, NoMoreMail
    <3> QED BY <3>1, <3>2
  <2>9. LateMailIsBounded'
    BY <2>1, <2>8 DEF LateMailIsBounded, Bounded, LateFor
  <2> QED BY <1>1, <2>7, <2>9, NothingLogged DEF Pending
<1>5. CASE StorePiece(c) \/ CreatorDies(c)
  <2>1. UNCHANGED <<lob, reported, suppressed, past, late>>
    BY <1>5 DEF StorePiece, CreatorDies
  <2>2. CallInv'
    <3>1. CASE StorePiece(c)
      BY <1>1, <3>1, MailPiecesAssumption
      DEF StorePiece, TypeOK, CallsAreAbout, EventsAreOfPieces, NoneLateBefore,
          ReturnedIsSuppressed
    <3>2. CASE CreatorDies(c)
      BY <1>1, <3>2, MailPiecesAssumption
      DEF CreatorDies, TypeOK, CallsAreAbout, EventsAreOfPieces, NoneLateBefore,
          ReturnedIsSuppressed
    <3> QED BY <1>5, <3>1, <3>2
  <2>3. \A a : Making(a)' \subseteq Making(a) /\ LateFor(a)' = LateFor(a)
    BY <1>5, <2>1 DEF StorePiece, CreatorDies, Making, LateFor, TypeOK
  <2>4. LateMailIsBounded'
    BY <2>1, <2>3, NoMoreMail, BoundedIsLate DEF TypeOK, LateMailIsBounded, Bounded, LateFor
  <2> QED BY <1>1, <2>2, <2>4, NothingLogged DEF Pending
<1> QED BY <1>2, <1>3, <1>4, <1>5 DEF Create

LEMMA LobMovesPreserves ==
  ASSUME IInv, NEW p \in Pieces, LobMoves(p)
  PROVE  IInv'
<1>1. UNCHANGED <<reported, row, suppressed, stored, logged, creator, projector, past, late,
                  replays, told>>
  BY DEF LobMoves
<1>2. /\ lob' \in [Pieces -> {"none", "processing", "in_transit", "returned"}]
      /\ \A q \in Pieces : lob'[q] # "none" <=> lob[q] # "none"
  BY DEF LobMoves, IInv, CallInv, TypeOK
<1>3. CallInv'
  <2>1. EventsAreOfPieces'
    BY <1>1, <1>2 DEF IInv, CallInv, EventsAreOfPieces, CallsAreAbout, Events
  <2> QED BY <1>1, <1>2, <2>1 DEF IInv, CallInv, TypeOK, CallsAreAbout, NoneLateBefore, ReturnedIsSuppressed
<1> QED
  BY <1>1, <1>3 DEF IInv, LateMailIsBounded, Making, LogsAreAccountedFor, Pending, Started

-----------------------------------------------------------------------------
\* A projection makes no mail, and suppresses for good.
LEMMA ProjectionMailsNothing ==
  ASSUME IInv, UNCHANGED <<creator, late>>,
         \/ UNCHANGED <<suppressed, past>>
         \/ \E b \in Addresses : InsertSuppression(b)
  PROVE  LateMailIsBounded'
<1>1. CASE UNCHANGED <<suppressed, past>>
  BY <1>1 DEF IInv, LateMailIsBounded, Making
<1>2. CASE \E b \in Addresses : InsertSuppression(b)
  BY <1>2, ListGrows DEF IInv, CallInv
<1> QED BY <1>1, <1>2

LEMMA ProjectionPreserves ==
  ASSUME IInv, NEW x \in Projectors, Projection(x)
  PROVE  IInv'
<1>0. CallInv /\ TypeOK /\ CallsAreAbout /\ EventsAreOfPieces /\ LogsAreAccountedFor
  BY DEF IInv, CallInv
<1>1. projector \in [Projectors -> CallState]
  BY <1>0, ProjectorTyped
<1>2. PICK e \in Events : /\ e = projector[x].event /\ e.piece \in Pieces
                          /\ e.kind \in {"in_transit", "returned"}
                          /\ lob[e.piece] # "none" /\ reported[e.piece] \in Addresses
  <2>1. projector[x].pc # "idle"
    BY DEF Projection, FindPiece, LogEvent, MovePiece, Suppress, ProjectionFails, ProjectorDies
  <2>2. projector[x].event \in Events
    BY <1>0, <2>1 DEF CallsAreAbout
  <2>3. lob[projector[x].event.piece] # "none"
    BY <1>0, <2>1 DEF EventsAreOfPieces
  <2> QED BY <1>0, <2>2, <2>3 DEF Events, Kinds, EventsAreOfPieces
<1>3. UNCHANGED <<lob, reported, creator, late, stored, replays, told>>
  BY DEF Projection, FindPiece, LogEvent, MovePiece, Suppress, ProjectionFails, ProjectorDies
<1>4. /\ UNCHANGED <<suppressed, past>> \/ \E a \in Addresses : InsertSuppression(a)
      /\ row' \in [Pieces -> RowStatuses] /\ logged' \in [Events -> Nat]
  <2>1. CASE FindPiece(x) \/ ProjectionFails(x) \/ ProjectorDies(x)
    BY <1>0, <2>1 DEF FindPiece, ProjectionFails, ProjectorDies, TypeOK
  <2>2. CASE LogEvent(x)
    BY <1>0, <1>2, <2>2 DEF LogEvent, TypeOK
  <2>3. CASE MovePiece(x)
    BY <1>0, <1>2, <2>3 DEF MovePiece, TypeOK
  <2>4. CASE Suppress(x)
    BY <1>0, <1>2, <2>4 DEF Suppress, TypeOK
  <2> QED BY <2>1, <2>2, <2>3, <2>4 DEF Projection
<1>8. /\ suppressed \subseteq suppressed' /\ suppressed' \subseteq Addresses
      /\ past' \in [Addresses -> SUBSET Creators]
  BY <1>0, <1>4, ListTyped DEF TypeOK
<1>9. \A d \in Events : stored'[d] # "none" => lob[d.piece] # "none"
  BY <1>0, <1>3 DEF EventsAreOfPieces
<1>5. LateMailIsBounded'
  BY <1>3, <1>4, ProjectionMailsNothing
<1>6. CASE LogEvent(x)
  <2>1. projector' = [projector EXCEPT ![x].pc = "move"] /\ projector[x].pc = "log"
    BY <1>6 DEF LogEvent
  <2>2. /\ projector' \in [Projectors -> CallState]
        /\ projector'[x].pc = "move" /\ projector'[x].event = e
        /\ \A y \in Projectors \ {x} : projector'[y] = projector[y]
    BY <1>1, <1>2, <2>1, GoTyped DEF PCs
  <2>3. CallInv'
    BY <1>0, <1>2, <1>3, <1>4, <1>8, <1>9, <2>2, OneCallChanges DEF TypeOK
  <2>4. logged' = [logged EXCEPT ![e] = @ + 1]
    BY <1>2, <1>6 DEF LogEvent
  <2>5. x \in Pending(e) /\ \A d \in Events \ {e} : x \notin Pending(d)
    BY <1>2, <2>1 DEF Pending
  <2>6. Pending(e)' = Pending(e) \ {x} /\ \A d \in Events \ {e} : Pending(d)' = Pending(d)
    <3>1. \A d : /\ Pending(d)' \subseteq Pending(d) \cup {x}
                 /\ Pending(d) \ {x} \subseteq Pending(d)'
                 /\ x \notin Pending(d)'
      <4> TAKE d
      <4> QED BY <2>2, OnePendingChanges
    <3>2. Pending(e)' = Pending(e) \ {x}
      BY <3>1
    <3>3. ASSUME NEW d \in Events \ {e} PROVE Pending(d)' = Pending(d)
      <4>1. x \notin Pending(d) /\ x \notin Pending(d)'
        BY <2>5, <3>1
      <4>2. Pending(d)' \subseteq Pending(d) \cup {x} /\ Pending(d) \ {x} \subseteq Pending(d)'
        BY <3>1
      <4> QED BY <4>1, <4>2
    <3> QED BY <3>2, <3>3
  <2>7. LogsAreAccountedFor'
    BY <1>0, <1>2, <1>3, <2>4, <2>5, <2>6, OneLogged
  <2> QED BY <1>5, <2>3, <2>7 DEF IInv
<1>7. CASE FindPiece(x) \/ MovePiece(x) \/ Suppress(x) \/ ProjectionFails(x) \/ ProjectorDies(x)
  <2>1. /\ projector' \in [Projectors -> CallState]
        /\ \A y \in Projectors \ {x} : projector'[y] = projector[y]
        /\ projector'[x].pc # "idle" => projector'[x].event = e
        /\ projector'[x].pc = "mark" =>
             /\ projector'[x].outcome # "none"
             /\ e.kind = "returned" /\ projector'[x].outcome = "applied"
                  => reported[e.piece] \in suppressed'
        /\ projector'[x].pc \in {"find", "log"} => projector[x].pc \in {"find", "log"}
    <3>1. CASE FindPiece(x)
      <4>1. row[e.piece] \in RowStatuses /\ projector[x].pc = "find"
        BY <1>0, <1>2, <3>1 DEF TypeOK, FindPiece
      <4>2. CASE row[e.piece] = "absent"
        <5>1. projector' = [projector EXCEPT ![x] = Ended(projector[x], "orphaned")]
          BY <1>2, <3>1, <4>2 DEF FindPiece, Ended
        <5>2. /\ projector' \in [Projectors -> CallState]
              /\ projector'[x].pc = "mark" /\ projector'[x].outcome = "orphaned" /\ projector'[x].event = projector[x].event
              /\ \A y \in Projectors \ {x} : projector'[y] = projector[y]
          BY <1>1, <5>1, EndedTyped, StateTyped
        <5> QED BY <1>2, <5>2
      <4>3. CASE row[e.piece] # "absent"
        <5>1. projector' = [projector EXCEPT ![x] = Found(projector[x], row[e.piece])]
          BY <1>2, <3>1, <4>3 DEF FindPiece, Found
        <5>2. /\ projector' \in [Projectors -> CallState]
              /\ projector'[x].pc = "log" /\ projector'[x].event = projector[x].event
              /\ \A y \in Projectors \ {x} : projector'[y] = projector[y]
          BY <1>1, <4>1, <5>1, FoundTyped, StateTyped
        <5> QED BY <1>2, <4>1, <5>2
      <4> QED BY <4>2, <4>3
    <3>2. CASE MovePiece(x)
      <4>1. CASE e.kind = "returned"
        <5>1. projector' = [projector EXCEPT ![x].pc = "suppress"]
          BY <1>2, <3>2, <4>1 DEF MovePiece
        <5> QED BY <1>1, <1>2, <5>1, GoTyped DEF PCs
      <4>2. CASE e.kind # "returned"
        <5>1. projector' = [projector EXCEPT ![x] = Ended(projector[x], "applied")]
          BY <1>2, <3>2, <4>2 DEF MovePiece, Ended
        <5>2. /\ projector' \in [Projectors -> CallState]
              /\ projector'[x].pc = "mark" /\ projector'[x].outcome = "applied" /\ projector'[x].event = projector[x].event
              /\ \A y \in Projectors \ {x} : projector'[y] = projector[y]
          BY <1>1, <5>1, EndedTyped, StateTyped
        <5> QED BY <1>2, <4>2, <5>2
      <4> QED BY <4>1, <4>2
    <3>3. CASE Suppress(x)
      <4>1. projector' = [projector EXCEPT ![x] = Ended(projector[x], "applied")]
        BY <3>3 DEF Suppress, Ended
      <4>2. reported[e.piece] \in suppressed'
        BY <1>2, <3>3 DEF Suppress, InsertSuppression
      <4>3. /\ projector' \in [Projectors -> CallState]
            /\ projector'[x].pc = "mark" /\ projector'[x].outcome = "applied" /\ projector'[x].event = projector[x].event
            /\ \A y \in Projectors \ {x} : projector'[y] = projector[y]
        BY <1>1, <4>1, EndedTyped, StateTyped
      <4> QED BY <1>2, <4>2, <4>3
    <3>4. CASE ProjectionFails(x)
      <4>1. projector' = [projector EXCEPT ![x] = Ended(projector[x], "failed")]
        BY <3>4 DEF ProjectionFails, Ended
      <4>2. /\ projector' \in [Projectors -> CallState]
            /\ projector'[x].pc = "mark" /\ projector'[x].outcome = "failed" /\ projector'[x].event = projector[x].event
            /\ \A y \in Projectors \ {x} : projector'[y] = projector[y]
        BY <1>1, <4>1, EndedTyped, StateTyped
      <4> QED BY <1>2, <4>2
    <3>5. CASE ProjectorDies(x)
      BY <1>1, <3>5, IdleTyped DEF ProjectorDies
    <3> QED BY <1>7, <3>1, <3>2, <3>3, <3>4, <3>5
  <2>2. CallInv'
    BY <1>0, <1>2, <1>3, <1>4, <1>8, <1>9, <2>1, OneCallChanges DEF TypeOK
  <2>3. \A d \in Events : Pending(d)' \subseteq Pending(d)
    BY <1>2, <2>1, OnePendingChanges
  <2>4. logged' = logged
    BY <1>7 DEF FindPiece, MovePiece, Suppress, ProjectionFails, ProjectorDies
  <2>5. LogsAreAccountedFor'
    BY <1>0, <1>3, <2>2, <2>3, <2>4, NothingLogged DEF CallInv
  <2> QED BY <1>5, <2>2, <2>5 DEF IInv
<1> QED BY <1>6, <1>7 DEF Projection

LEMMA StartPreserves ==
  ASSUME IInv, NEW x \in Projectors, NEW f \in Events, ReceiveEvent(x, f) \/ StartReplay(x, f)
  PROVE  IInv'
<1> USE DEF IInv, CallInv
<1>1. projector \in [Projectors -> CallState]
  BY ProjectorTyped
<1>2. /\ projector[x].pc = "idle"
      /\ UNCHANGED <<lob, reported, row, suppressed, logged, creator, past, late, told>>
  BY DEF ReceiveEvent, StartReplay
<1>3. /\ projector' \in [Projectors -> CallState]
      /\ projector'[x].pc = "find" /\ projector'[x].event = f
      /\ \A y \in Projectors \ {x} : projector'[y] = projector[y]
  BY <1>1, StartTyped DEF ReceiveEvent, StartReplay
<1>4. \A d \in Events : d # f => stored'[d] = stored[d] /\ replays'[d] = replays[d]
  BY DEF ReceiveEvent, StartReplay, TypeOK
<1>6. /\ stored' \in [Events -> {"none", "received", "processed", "orphaned", "dead_letter"}]
      /\ replays' \in [Events -> Nat]
      /\ \A d \in Events : stored'[d] = "processed" => stored[d] = "processed"
  BY DEF ReceiveEvent, StartReplay, TypeOK
<1>11. lob[f.piece] # "none" /\ \A d \in Events : stored'[d] # "none" => lob[d.piece] # "none"
  BY DEF ReceiveEvent, StartReplay, TypeOK, EventsAreOfPieces, Emitted
<1>7. Started(f)' = Started(f) + 1
  BY DEF ReceiveEvent, StartReplay, Started, TypeOK
<1>8. CallInv'
  BY <1>2, <1>3, <1>6, <1>11, OneCallChanges DEF TypeOK
<1>9. LateMailIsBounded'
  BY <1>2, ProjectionMailsNothing
<1>10. LogsAreAccountedFor'
  <2>1. \A d \in Events : x \notin Pending(d)
    BY <1>2 DEF Pending
  <2>2. Pending(f)' = Pending(f) \cup {x} /\ \A d \in Events \ {f} : Pending(d)' = Pending(d)
    <3>1. \A d : /\ Pending(d)' \subseteq Pending(d) \cup {x}
                 /\ Pending(d) \ {x} \subseteq Pending(d)'
                 /\ x \in Pending(d)' <=> d = f
      BY <1>3, OnePendingChanges
    <3> QED BY <2>1, <3>1
  <2>3. \A d \in Events \ {f} : Started(d)' = Started(d)
    BY <1>4 DEF Started
  <2> QED BY <1>2, <1>7, <2>1, <2>2, <2>3, OneStarted
<1> QED BY <1>8, <1>9, <1>10

LEMMA MarkPreserves ==
  ASSUME IInv, NEW x \in Projectors, MarkEvent(x) \/ MarkReplayed(x)
  PROVE  IInv'
<1> USE DEF IInv, CallInv
<1> DEFINE e == projector[x].event
<1>1. projector \in [Projectors -> CallState]
  BY ProjectorTyped
<1>2. /\ projector[x].pc = "mark"
      /\ UNCHANGED <<lob, reported, row, suppressed, logged, creator, past, late, replays>>
  BY DEF MarkEvent, MarkReplayed
<1>3. /\ e \in Events
      /\ projector[x].outcome \in {"applied", "orphaned", "failed"}
      /\ e.kind = "returned" /\ projector[x].outcome = "applied" => reported[e.piece] \in suppressed
  BY <1>1, <1>2 DEF CallsAreAbout, CallState
<1>4. /\ projector' \in [Projectors -> CallState]
      /\ projector'[x].pc = "idle"
      /\ \A y \in Projectors \ {x} : projector'[y] = projector[y]
  BY <1>1, IdleTyped DEF MarkEvent, MarkReplayed
<1>5. /\ told \subseteq told' /\ told' \subseteq Events
      /\ stored' \in [Events -> {"none", "received", "processed", "orphaned", "dead_letter"}]
      /\ \A d \in Events : stored[d] # "none" => stored'[d] # "none"
      /\ \A d \in Events : d.kind = "returned" /\ stored'[d] = "processed" =>
           stored[d] = "processed" \/ reported[d.piece] \in suppressed' \/ d \in told'
      /\ \A d \in Events : stored'[d] # "none" => lob[d.piece] # "none"
  <2>1. CASE MarkEvent(x)
    BY <1>2, <1>3, <2>1 DEF MarkEvent, TypeOK, EventsAreOfPieces
  <2>2. CASE MarkReplayed(x)
    BY <1>2, <1>3, <2>2 DEF MarkReplayed, TypeOK, EventsAreOfPieces
  <2> QED BY <2>1, <2>2
<1>6. CallInv'
  BY <1>2, <1>4, <1>5, OneCallChanges DEF TypeOK
<1>7. LateMailIsBounded'
  BY <1>2, ProjectionMailsNothing
<1>8. \A d \in Events : Pending(d)' \subseteq Pending(d)
  BY <1>4, OnePendingChanges
<1>9. LogsAreAccountedFor'
  BY <1>2, <1>5, <1>6, <1>8, NothingLogged
<1> QED BY <1>6, <1>7, <1>9

LEMMA StepPreserves == IInv /\ [Next]_vars => IInv'
<1> SUFFICES ASSUME IInv, [Next]_vars PROVE IInv'
  OBVIOUS
<1>1. CASE UNCHANGED vars
  BY <1>1
  DEF vars, IInv, CallInv, TypeOK, CallsAreAbout, EventsAreOfPieces, NoneLateBefore,
      ReturnedIsSuppressed, LateMailIsBounded, Making, LogsAreAccountedFor, Pending, Started
<1>2. Receivers \subseteq Projectors /\ Replayers \subseteq Projectors
  BY DEF Projectors
<1> QED
  BY <1>1, <1>2, CreatePreserves, LobMovesPreserves, ProjectionPreserves, StartPreserves,
     MarkPreserves
  DEF Next

LEMMA Invariance == Spec => []IInv
<1>1. Init => IInv
  BY InitEstablishes
<1>2. IInv /\ [Next]_vars => IInv'
  BY StepPreserves
<1> QED BY <1>1, <1>2, PTL DEF Spec

-----------------------------------------------------------------------------
\* Rows, pieces and calls keep their types.
THEOREM TypeCorrect == Spec => []TypeOK
<1>1. IInv => TypeOK
  BY DEF IInv, CallInv
<1> QED BY <1>1, Invariance, PTL

\* After an address, as callers write it, got on the list, Lob makes at most one piece
\* for it per request that was past the gate then, whatever is retried or lost.
THEOREM LateMailBounded == Spec => []LateMailIsBounded
<1>1. IInv => LateMailIsBounded
  BY DEF IInv
<1> QED BY <1>1, Invariance, PTL

\* An event of a piece that came back reads processed only with the address Lob
\* reports on the list, or after a replay that answered that there was no such piece.
THEOREM ReturnedSuppressed == Spec => []ReturnedIsSuppressed
<1>1. IInv => ReturnedIsSuppressed
  BY DEF IInv, CallInv
<1> QED BY <1>1, Invariance, PTL

\* Duplicates are not logged: one row of the log per event and replay.
THEOREM LoggedOnce == Spec => []DuplicatesAreNotLogged
<1>1. ASSUME IInv PROVE DuplicatesAreNotLogged
  <2> SUFFICES ASSUME NEW e \in Events PROVE logged[e] <= 1 + replays[e]
    BY DEF DuplicatesAreNotLogged
  <2>1. logged[e] + Cardinality(Pending(e)) <= Started(e)
    BY <1>1 DEF IInv, LogsAreAccountedFor
  <2>2. logged[e] \in Nat /\ replays[e] \in Nat /\ Cardinality(Pending(e)) \in Nat
    BY <1>1, PendingIsFinite DEF IInv, CallInv, TypeOK
  <2>3. Started(e) <= 1 + replays[e]
    BY <2>2 DEF Started
  <2>4. Started(e) \in Nat
    BY <2>2 DEF Started
  <2> QED BY <2>1, <2>2, <2>3, <2>4
<1> QED BY <1>1, Invariance, PTL
=============================================================================
