----------------------------- MODULE MailPieces -----------------------------
(***************************************************************************)
(* Single mail pieces and the Lob events about them.  A request passes the *)
(* suppression gate, has Lob make the piece under its idempotency key and  *)
(* upserts a row (services/print_mail_activation.py,                       *)
(* routers/direct_mail.py, direct_mail/persistence.py); Lob reports what   *)
(* became of the piece, at least once and in no order                      *)
(* (routers/webhooks/lob.py); the projection (webhooks/lob_processor.py)   *)
(* logs the event, moves the row and, when the piece came back, puts the   *)
(* address on the suppression list (direct_mail/addresses.py); operators   *)
(* replay stored events.  The list is of hashes: the gate hashes the       *)
(* address as the caller writes it, the projection as Lob reports it.      *)
(***************************************************************************)
EXTENDS Naturals, FiniteSets

CONSTANTS Pieces, NoPiece,       \* idempotency keys, each of one piece at Lob
          NoEvent,
          Addresses, NoAddress,  \* hashes of addresses as somebody writes them
          To,                    \* the address of each piece as its caller writes it
          Creators,              \* concurrent requests to make a piece
          Receivers, Replayers,  \* concurrent calls of the webhook and of the replay
          ReplayBound            \* how often an event may be replayed

\* returned stands for every kind in SUPPRESSION_TRIGGERS, in_transit for every
\* other; one that maps to no status does what in_transit does to a row in transit.
Kinds == {"in_transit", "returned"}
Events == [piece : Pieces, kind : Kinds]
Projectors == Receivers \cup Replayers

ASSUME MailPiecesAssumption ==
  /\ NoPiece \notin Pieces /\ NoEvent \notin Events /\ NoAddress \notin Addresses
  /\ To \in [Pieces -> Addresses]
  /\ Receivers \cap Replayers = {}
  /\ IsFiniteSet(Pieces) /\ IsFiniteSet(Creators) /\ IsFiniteSet(Projectors)
  /\ ReplayBound \in Nat

VARIABLES lob,         \* what each piece is at Lob
          reported,    \* its address in Lob's answer and events
          row,         \* the status of its direct_mail_pieces row
          suppressed,  \* the addresses that have a row in suppressed_addresses
          stored,      \* the status of each event's webhook_events row
          logged,      \* how many direct_mail_piece_events rows each event has
          creator, projector, \* where each call is and what it read
          past,        \* observer: the requests past the gate when an address got on the list
          late,        \* observer: pieces Lob made after the gate's address was on the list
          replays,     \* observer: replays of each event that were started
          told         \* observer: events a replay of which was answered "orphaned"

vars == <<lob, reported, row, suppressed, stored, logged, creator, projector, past, late,
          replays, told>>

RowStatuses == {"absent", "processing", "in_transit", "returned"}
IdleCreator == [pc |-> "idle", piece |-> NoPiece]
IdleProjector == [pc |-> "idle", event |-> NoEvent, previous |-> "absent", outcome |-> "none"]

\* Rows, pieces and every call's state have their types.
TypeOK ==
  /\ lob \in [Pieces -> {"none", "processing", "in_transit", "returned"}]
  /\ reported \in [Pieces -> Addresses \cup {NoAddress}]
  /\ row \in [Pieces -> RowStatuses]
  /\ suppressed \subseteq Addresses
  /\ stored \in [Events -> {"none", "received", "processed", "orphaned", "dead_letter"}]
  /\ logged \in [Events -> Nat]
  /\ creator \in [Creators -> [pc : {"idle", "make", "store"}, piece : Pieces \cup {NoPiece}]]
  /\ projector \in [Projectors ->
       [pc : {"idle", "find", "log", "move", "suppress", "mark"}, event : Events \cup {NoEvent},
        previous : RowStatuses, outcome : {"none", "applied", "orphaned", "failed"}]]
  /\ past \in [Addresses -> SUBSET Creators] /\ late \subseteq Pieces
  /\ replays \in [Events -> Nat]
  /\ told \subseteq Events

Init ==
  /\ lob = [p \in Pieces |-> "none"]
  /\ row = [p \in Pieces |-> "absent"]
  /\ reported = [p \in Pieces |-> NoAddress]
  /\ suppressed = {} /\ past = [a \in Addresses |-> {}]
  /\ stored = [e \in Events |-> "none"]
  /\ logged = [e \in Events |-> 0]
  /\ creator = [c \in Creators |-> IdleCreator]
  /\ projector = [x \in Projectors |-> IdleProjector]
  /\ late = {} /\ told = {}
  /\ replays = [e \in Events |-> 0]

-----------------------------------------------------------------------------
(***************************************************************************)
(* Making a piece: _dispatch_one of a batch, _create_piece of a request.   *)
(***************************************************************************)
\* A bug: skip_address_verification skips the suppression list with it.
PassGateUnchecked(c, p) ==
  /\ creator[c] = IdleCreator
  /\ creator' = [creator EXCEPT ![c] = [pc |-> "make", piece |-> p]]
  /\ UNCHANGED <<lob, reported, row, suppressed, stored, logged, projector, past, late,
                 replays, told>>

\* The list is read in a transaction of its own, by the hash of the caller's address.
PassGate(c, p) ==
  /\ creator[c] = IdleCreator /\ To[p] \notin suppressed
  /\ creator' = [creator EXCEPT ![c] = [pc |-> "make", piece |-> p]]
  /\ UNCHANGED <<lob, reported, row, suppressed, stored, logged, projector, past, late,
                 replays, told>>

\* Requests past the gate with an address.
Making(a) == {c \in Creators : creator[c].pc = "make" /\ To[creator[c].piece] = a}

\* insert_suppression does nothing to an address that is on the list.
InsertSuppression(a) ==
  /\ suppressed' = suppressed \cup {a}
  /\ past' = IF a \in suppressed THEN past ELSE [past EXCEPT ![a] = Making(a)]

\* verify_or_suppress: Lob's verification calls the address undeliverable.
GateFindsUndeliverable(c, p) ==
  /\ creator[c] = IdleCreator /\ To[p] \notin suppressed
  /\ InsertSuppression(To[p])
  /\ UNCHANGED <<lob, reported, row, stored, logged, creator, projector, late, replays, told>>

\* Lob makes one piece per key, and answers a repeated key with what it made.  It may
\* write the address its own way, which then has another hash.
MakeAtLob(p) ==
  IF lob[p] = "none"
  THEN /\ lob' = [lob EXCEPT ![p] = "processing"]
       /\ \E a \in Addresses : reported' = [reported EXCEPT ![p] = a]
       /\ late' = IF To[p] \in suppressed THEN late \cup {p} ELSE late
  ELSE UNCHANGED <<lob, reported, late>>

MakePiece(c) ==
  /\ creator[c].pc = "make"
  /\ MakeAtLob(creator[c].piece)
  /\ creator' = [creator EXCEPT ![c].pc = "store"]
  /\ UNCHANGED <<row, suppressed, stored, logged, projector, past, replays, told>>

\* LobProviderError: refused, or made and the answer lost.
MakeFails(c) ==
  /\ creator[c].pc = "make"
  /\ MakeAtLob(creator[c].piece) \/ UNCHANGED <<lob, reported, late>>
  /\ creator' = [creator EXCEPT ![c] = IdleCreator]
  /\ UNCHANGED <<row, suppressed, stored, logged, projector, past, replays, told>>

\* upsert_piece sets the status of the answer, over a row of any status.
StorePiece(c) ==
  /\ creator[c].pc = "store"
  /\ row' = [row EXCEPT ![creator[c].piece] = "processing"]
  /\ creator' = [creator EXCEPT ![c] = IdleCreator]
  /\ UNCHANGED <<lob, reported, suppressed, stored, logged, projector, past, late, replays, told>>

\* A failed upsert, which the result reports, or a restart.
CreatorDies(c) ==
  /\ creator[c].pc # "idle"
  /\ creator' = [creator EXCEPT ![c] = IdleCreator]
  /\ UNCHANGED <<lob, reported, row, suppressed, stored, logged, projector, past, late,
                 replays, told>>

\* The mail takes its course.
LobMoves(p) ==
  /\ lob[p] \in {"processing", "in_transit"}
  /\ lob' = [lob EXCEPT ![p] = IF @ = "processing" THEN "in_transit" ELSE "returned"]
  /\ UNCHANGED <<reported, row, suppressed, stored, logged, creator, projector, past, late,
                 replays, told>>

-----------------------------------------------------------------------------
(***************************************************************************)
(* receive_lob_webhook and replay_lob_event: the row of the event, and the *)
(* projection.                                                             *)
(***************************************************************************)
Emitted(e) == lob[e.piece] \in IF e.kind = "returned" THEN {"returned"} ELSE {"in_transit", "returned"}

Project(x, e) ==
  projector' = [projector EXCEPT ![x] =
                  [pc |-> "find", event |-> e, previous |-> "absent", outcome |-> "none"]]
Go(x, pc) == projector' = [projector EXCEPT ![x].pc = pc]
End(x, outcome) ==
  projector' = [projector EXCEPT ![x] = [@ EXCEPT !.pc = "mark", !.outcome = outcome]]

\* A bug: what _store_webhook_event says of an event it had is not looked at.
ReceiveEventAgain(x, e) ==
  /\ projector[x] = IdleProjector /\ Emitted(e)
  /\ stored' = [stored EXCEPT ![e] = IF @ = "none" THEN "received" ELSE @]
  /\ Project(x, e)
  /\ UNCHANGED <<lob, reported, row, suppressed, logged, creator, past, late, replays, told>>

\* An event whose key is stored already is answered "duplicate_ignored".
ReceiveEvent(x, e) ==
  /\ projector[x] = IdleProjector /\ Emitted(e) /\ stored[e] = "none"
  /\ stored' = [stored EXCEPT ![e] = "received"]
  /\ Project(x, e)
  /\ UNCHANGED <<lob, reported, row, suppressed, logged, creator, past, late, replays, told>>

\* An operator replays any stored event, whatever its status.
StartReplay(x, e) ==
  /\ projector[x] = IdleProjector /\ stored[e] # "none" /\ replays[e] < ReplayBound
  /\ replays' = [replays EXCEPT ![e] = @ + 1]
  /\ Project(x, e)
  /\ UNCHANGED <<lob, reported, row, suppressed, stored, logged, creator, past, late, told>>

\* get_piece_by_external_id; pieces made one by one name no Lob campaign, so
\* there is no step to fall back to.
FindPiece(x) ==
  /\ projector[x].pc = "find"
  /\ LET status == row[projector[x].event.piece] IN
       IF status = "absent" THEN End(x, "orphaned")
       ELSE projector' = [projector EXCEPT ![x] = [@ EXCEPT !.pc = "log", !.previous = status]]
  /\ UNCHANGED <<lob, reported, row, suppressed, stored, logged, creator, past, late,
                 replays, told>>

\* append_piece_event.
LogEvent(x) ==
  /\ projector[x].pc = "log"
  /\ logged' = [logged EXCEPT ![projector[x].event] = @ + 1]
  /\ Go(x, "move")
  /\ UNCHANGED <<lob, reported, row, suppressed, stored, creator, past, late, replays, told>>

\* A bug: a row that has the event's status already needs nothing more.
MovePieceOrStop(x) ==
  /\ projector[x].pc = "move"
  /\ LET p == projector[x].event.piece
         kind == projector[x].event.kind
         moves == kind # projector[x].previous IN
       /\ row' = IF moves THEN [row EXCEPT ![p] = kind] ELSE row
       /\ IF moves /\ kind = "returned" THEN Go(x, "suppress") ELSE End(x, "applied")
  /\ UNCHANGED <<lob, reported, suppressed, stored, logged, creator, past, late, replays, told>>

\* update_piece_status, if the row was read with another; the
\* last event to be projected wins, whenever it occurred.
MovePiece(x) ==
  /\ projector[x].pc = "move"
  /\ LET p == projector[x].event.piece
         kind == projector[x].event.kind IN
       /\ row' = IF kind # projector[x].previous
                 THEN [row EXCEPT ![p] = kind] ELSE row
       /\ IF kind = "returned" THEN Go(x, "suppress") ELSE End(x, "applied")
  /\ UNCHANGED <<lob, reported, suppressed, stored, logged, creator, past, late, replays, told>>

\* The address is the event's body.to, or else the one in the row's copy of Lob's answer.
Suppress(x) ==
  /\ projector[x].pc = "suppress"
  /\ InsertSuppression(reported[projector[x].event.piece])
  /\ End(x, "applied")
  /\ UNCHANGED <<lob, reported, row, stored, logged, creator, late, replays, told>>

ProjectionFails(x) ==
  /\ projector[x].pc \in {"find", "log", "move", "suppress"}
  /\ End(x, "failed")
  /\ UNCHANGED <<lob, reported, row, suppressed, stored, logged, creator, past, late,
                 replays, told>>

\* A bug: the reason is written where the status goes.
MarkProjectionFailed(x) ==
  /\ projector[x].pc = "mark"
  /\ stored' = [stored EXCEPT ![projector[x].event] =
       [applied |-> "processed", orphaned |-> "orphaned",
        failed |-> "projection_failed"][projector[x].outcome]]
  /\ projector' = [projector EXCEPT ![x] = IdleProjector]
  /\ UNCHANGED <<lob, reported, row, suppressed, logged, creator, past, late, replays, told>>

\* _mark_webhook_event, whatever a replay has written meanwhile.
MarkEvent(x) ==
  /\ projector[x].pc = "mark"
  /\ stored' = [stored EXCEPT ![projector[x].event] =
       [applied |-> "processed", orphaned |-> "orphaned",
        failed |-> "dead_letter"][projector[x].outcome]]
  /\ projector' = [projector EXCEPT ![x] = IdleProjector]
  /\ UNCHANGED <<lob, reported, row, suppressed, logged, creator, past, late, replays, told>>

\* A replay that did not fail is processed, found or not; the answer tells which.
MarkReplayed(x) ==
  /\ projector[x].pc = "mark"
  /\ stored' = IF projector[x].outcome = "failed" THEN stored
               ELSE [stored EXCEPT ![projector[x].event] = "processed"]
  /\ told' = IF projector[x].outcome = "orphaned"
             THEN told \cup {projector[x].event} ELSE told
  /\ projector' = [projector EXCEPT ![x] = IdleProjector]
  /\ UNCHANGED <<lob, reported, row, suppressed, logged, creator, past, late, replays>>

\* A restart.  Lob's next delivery of the event is a duplicate.
ProjectorDies(x) ==
  /\ projector[x].pc # "idle"
  /\ projector' = [projector EXCEPT ![x] = IdleProjector]
  /\ UNCHANGED <<lob, reported, row, suppressed, stored, logged, creator, past, late,
                 replays, told>>

-----------------------------------------------------------------------------
Create(c) ==
  \/ \E p \in Pieces : PassGate(c, p) \/ GateFindsUndeliverable(c, p)
  \/ MakePiece(c) \/ MakeFails(c) \/ StorePiece(c) \/ CreatorDies(c)

Projection(x) ==
  \/ FindPiece(x) \/ LogEvent(x) \/ MovePiece(x) \/ Suppress(x)
  \/ ProjectionFails(x) \/ ProjectorDies(x)

Next ==
  \/ \E c \in Creators : Create(c)
  \/ \E p \in Pieces : LobMoves(p)
  \/ \E x \in Projectors : Projection(x)
  \/ \E x \in Receivers : MarkEvent(x) \/ \E e \in Events : ReceiveEvent(x, e)
  \/ \E x \in Replayers : MarkReplayed(x) \/ \E e \in Events : StartReplay(x, e)

Spec == Init /\ [][Next]_vars

-----------------------------------------------------------------------------
\* The gate is read long before Lob is called (print_mail_activation.py:355,
\* addresses.py:190), so pieces still go to an address that has just been suppressed:
\* they, and the requests that may still make one, are no more than the requests that
\* were past the gate with that address when it got on the list, retries included.
\* Mail to an address that Lob alone spells like one on the list is not stopped.
LateMailIsBounded ==
  \A a \in suppressed :
    Cardinality({p \in late : To[p] = a}) + Cardinality(Making(a)) <= Cardinality(past[a])

\* An event that says a piece came back reads processed only when the address Lob
\* reports is on the list, also after a crash, a failure or a race of the projection,
\* or when a replay that found no row for the piece said so to the operator
\* (lob.py, lob_processor.py).
ReturnedIsSuppressed ==
  \A e \in Events : e.kind = "returned" /\ stored[e] = "processed" =>
    reported[e.piece] \in suppressed \/ e \in told

\* However often Lob delivers an event, it is logged at most once, and once
\* more for each replay an operator asked for (lob.py, _store_webhook_event).
DuplicatesAreNotLogged ==
  \A e \in Events : logged[e] <= 1 + replays[e]
=============================================================================
