--------------------------- MODULE Introductions ---------------------------
(***************************************************************************)
(* What the rows of cluster 3 promise, whoever writes them: a reply has    *)
(* one claim at a time; a claim to send is mailed and then delivered, with *)
(* the reply answered, or given up, and a claim that is held is only ever  *)
(* dismissed.  A delivered and a dismissed claim never change again.       *)
(***************************************************************************)
CONSTANTS Replies, NoReply, Claims

VARIABLES reply,     \* what each claim is about
          status,    \* and what became of it
          mailed,    \* the claims whose intro has gone out
          answered   \* the replies that get no other intro

introVars == <<reply, status, mailed, answered>>

Init ==
  /\ reply = [c \in Claims |-> NoReply]
  /\ status = [c \in Claims |-> "absent"]
  /\ mailed = {} /\ answered = {}

Standing(r) == {c \in Claims : reply[c] = r /\ status[c] \in {"queued", "sent", "pending_review"}}

Claim(c, r, first) ==
  /\ status[c] = "absent" /\ Standing(r) = {}
  /\ reply' = [reply EXCEPT ![c] = r]
  /\ status' = [status EXCEPT ![c] = first]
  /\ UNCHANGED <<mailed, answered>>

\* A claim that was given up may still be on its way out.
Unfinished(c) == status[c] \in {"queued", "failed"}

Mail(c) ==
  /\ Unfinished(c)
  /\ mailed' = mailed \cup {c}
  /\ UNCHANGED <<reply, status, answered>>

Deliver(c) ==
  /\ Unfinished(c) /\ c \in mailed /\ Standing(reply[c]) \subseteq {c}
  /\ status' = [status EXCEPT ![c] = "sent"]
  /\ answered' = answered \cup {reply[c]}
  /\ UNCHANGED <<reply, mailed>>

GiveUp(c) ==
  /\ Unfinished(c)
  /\ status' = [status EXCEPT ![c] = "failed"]
  /\ UNCHANGED <<reply, mailed, answered>>

Dismiss(c) ==
  /\ status[c] = "pending_review"
  /\ status' = [status EXCEPT ![c] = "cancelled"]
  /\ UNCHANGED <<reply, mailed, answered>>

\* An intro that makes no claim.
Answer(r) ==
  /\ answered' = answered \cup {r}
  /\ UNCHANGED <<reply, status, mailed>>

Next ==
  \/ \E c \in Claims :
       \/ \E r \in Replies, first \in {"queued", "pending_review"} : Claim(c, r, first)
       \/ Mail(c) \/ Deliver(c) \/ GiveUp(c) \/ Dismiss(c)
  \/ \E r \in Replies : Answer(r)

Spec == Init /\ [][Next]_introVars
=============================================================================
