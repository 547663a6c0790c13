--------------------------- MODULE LobActivation ---------------------------
(***************************************************************************)
(* The activation of one direct-mail step, call by call: activate_step and *)
(* LobAdapter.activate_step against Lob, with failures and crashes between *)
(* the calls, retries that resume from what the step's row remembers, two  *)
(* activations of the step at once, and operators who change its audience  *)
(* meanwhile.  What webhooks and cancellations do is in StepSequence.      *)
(***************************************************************************)

CONSTANTS Recipients,
          Activations,                \* concurrent calls of activate_step
          Editors,                    \* concurrent calls of materialize_step_audience
          Campaigns, NoCampaign,      \* Lob's ids of campaigns
          Creatives, NoCreative,      \* ... of creatives
          Uploads, NoUpload           \* ... of uploads

ASSUME LobActivationAssumption ==
  NoCampaign \notin Campaigns /\ NoCreative \notin Creatives /\ NoUpload \notin Uploads

VARIABLES step,        \* the row: status and what it remembers of Lob
          members,     \* the status of each recipient's membership
          lob,         \* what exists at Lob: campaigns, creatives, and the file of each upload
          activation, editor   \* where each call is, and what it read

vars == <<step, members, lob, activation, editor>>

Row(status, campaign, creative, upload) ==
  [status |-> status, campaign |-> campaign, creative |-> creative, upload |-> upload]
RowOf(statuses) ==
  [status : statuses, campaign : Campaigns \cup {NoCampaign},
   creative : Creatives \cup {NoCreative}, upload : Uploads \cup {NoUpload}]
EmptyRow == Row("pending", NoCampaign, NoCreative, NoUpload)

PCs == {"idle", "links", "campaign", "creative", "audience", "upload", "file", "flip", "finish"}
\* row is the step as it was read, and then what the call has obtained since;
\* its status becomes the result's.
Idle == [pc |-> "idle", row |-> EmptyRow, csv |-> {}]
IdleEditor == [pc |-> "idle", audience |-> {}]

StepStatuses == {"pending", "activating", "scheduled", "failed"}

\* The row, the memberships, Lob's objects and every call's state have their types.
TypeOK ==
  /\ step \in RowOf(StepStatuses)
  /\ members \in [Recipients -> {"absent", "pending", "scheduled"}]
  /\ lob \in [campaigns : SUBSET Campaigns, creatives : SUBSET Creatives,
              uploads : SUBSET Uploads, file : [Uploads -> SUBSET Recipients]]
  /\ activation \in [Activations -> [pc : PCs, row : RowOf(StepStatuses), csv : SUBSET Recipients]]
  /\ editor \in [Editors -> [pc : {"idle", "write"}, audience : SUBSET Recipients]]

Init ==
  /\ step = EmptyRow
  /\ members = [r \in Recipients |-> "absent"]
  /\ lob = [campaigns |-> {}, creatives |-> {}, uploads |-> {}, file |-> [u \in Uploads |-> {}]]
  /\ activation = [a \in Activations |-> Idle]
  /\ editor = [e \in Editors |-> IdleEditor]

-----------------------------------------------------------------------------
(***************************************************************************)
(* materialize_step_audience: read the step, then replace its pending      *)
(* memberships in a transaction that does not look at the step again.      *)
(***************************************************************************)
ReadStepForAudience(e, audience) ==
  /\ editor[e].pc = "idle"
  /\ step.status = "pending"
  /\ editor' = [editor EXCEPT ![e] = [pc |-> "write", audience |-> audience]]
  /\ UNCHANGED <<step, members, lob, activation>>

\* A bug: a replaced membership is kept, with a status the column does not have.
KeepReplaced(e) ==
  /\ editor[e].pc = "write"
  /\ members' = [r \in Recipients |->
       IF members[r] = "scheduled" THEN "scheduled"
       ELSE IF r \in editor[e].audience THEN "pending" ELSE "removed"]
  /\ editor' = [editor EXCEPT ![e] = IdleEditor]
  /\ UNCHANGED <<step, lob, activation>>

ReplaceAudience(e) ==
  /\ editor[e].pc = "write"
  /\ members' = [r \in Recipients |->
       IF members[r] = "scheduled" THEN "scheduled"     \* ON CONFLICT DO NOTHING
       ELSE IF r \in editor[e].audience THEN "pending" ELSE "absent"]
  /\ editor' = [editor EXCEPT ![e] = IdleEditor]
  /\ UNCHANGED <<step, lob, activation>>

-----------------------------------------------------------------------------
(***************************************************************************)
(* activate_step.                                                          *)
(***************************************************************************)
At(a, pc) == activation[a].pc = pc
Goes(a, pc, row, csv) ==
  activation' = [activation EXCEPT ![a] = [pc |-> pc, row |-> row, csv |-> csv]]

\* A bug: the memberships are flipped after a failed result too.
ReturnsToFlip(a, status, campaign, creative, upload) ==
  Goes(a, "flip", Row(status, campaign, creative, upload), {})

\* LobActivationResult(status, external_provider_id, metadata): what is not named is lost.
Returns(a, status, campaign, creative, upload) ==
  Goes(a, IF status = "failed" THEN "finish" ELSE "flip", Row(status, campaign, creative, upload), {})

ReadStep(a) ==
  /\ At(a, "idle")
  /\ step.status \in {"pending", "activating"}
  /\ Goes(a, "links", step, {})
  /\ UNCHANGED <<step, members, lob, editor>>

\* The checks of the configuration, and the Dub links; a failure of either
\* drops what the row remembered.
MintLinks(a) ==
  /\ At(a, "links")
  /\ \/ Goes(a, "campaign", activation[a].row, {})
     \/ Returns(a, "failed", NoCampaign, NoCreative, NoUpload)
  /\ UNCHANGED <<step, members, lob, editor>>

\* A bug: the request carries no idempotency key.
CampaignWithoutKey(a, c) ==
  /\ At(a, "campaign")
  /\ activation[a].row.campaign = NoCampaign
  /\ c \notin lob.campaigns
  /\ lob' = [lob EXCEPT !.campaigns = @ \cup {c}]
  /\ \/ Goes(a, "creative", [activation[a].row EXCEPT !.campaign = c], {})
     \/ Returns(a, "failed", NoCampaign, NoCreative, NoUpload)
  /\ UNCHANGED <<step, members, editor>>

\* Lob creates the campaign of the step's idempotency key, or has it already;
\* its answer may be lost.
CreateCampaign(a, c) ==
  /\ At(a, "campaign")
  /\ activation[a].row.campaign = NoCampaign
  /\ IF lob.campaigns = {} THEN c \in Campaigns ELSE c \in lob.campaigns
  /\ lob' = [lob EXCEPT !.campaigns = @ \cup {c}]
  /\ \/ Goes(a, "creative", [activation[a].row EXCEPT !.campaign = c], {})
     \/ Returns(a, "failed", NoCampaign, NoCreative, NoUpload)
  /\ UNCHANGED <<step, members, editor>>

CampaignRefused(a) ==
  /\ At(a, "campaign")
  /\ activation[a].row.campaign = NoCampaign
  /\ Returns(a, "failed", NoCampaign, NoCreative, NoUpload)
  /\ UNCHANGED <<step, members, lob, editor>>

SkipCampaign(a) ==
  /\ At(a, "campaign")
  /\ activation[a].row.campaign # NoCampaign
  /\ Goes(a, "creative", activation[a].row, {})
  /\ UNCHANGED <<step, members, lob, editor>>

CreateCreative(a, c) ==
  /\ At(a, "creative")
  /\ activation[a].row.creative = NoCreative
  /\ IF lob.creatives = {} THEN c \in Creatives ELSE c \in lob.creatives
  /\ lob' = [lob EXCEPT !.creatives = @ \cup {c}]
  /\ \/ Goes(a, "audience", [activation[a].row EXCEPT !.creative = c], {})
     \/ Returns(a, "activating", activation[a].row.campaign, NoCreative, NoUpload)
  /\ UNCHANGED <<step, members, editor>>

CreativeRefused(a) ==
  /\ At(a, "creative")
  /\ activation[a].row.creative = NoCreative
  /\ Returns(a, "activating", activation[a].row.campaign, NoCreative, NoUpload)
  /\ UNCHANGED <<step, members, lob, editor>>

SkipCreative(a) ==
  /\ At(a, "creative")
  /\ activation[a].row.creative # NoCreative
  /\ Goes(a, "audience", activation[a].row, {})
  /\ UNCHANGED <<step, members, lob, editor>>

\* A bug: an empty audience is taken for one that was uploaded before.
AudienceEmptyIsDone(a) ==
  LET rows == {r \in Recipients : members[r] = "pending"}
      row == activation[a].row IN
  /\ At(a, "audience")
  /\ IF rows = {} THEN Returns(a, "scheduled", row.campaign, row.creative, row.upload)
     ELSE Goes(a, "upload", row, rows)
  /\ UNCHANGED <<step, members, lob, editor>>

\* A bug: the query has no status condition.
AudienceOfEveryStatus(a) ==
  LET rows == {r \in Recipients : members[r] # "absent"}
      row == activation[a].row IN
  /\ At(a, "audience")
  /\ IF rows = {} THEN Returns(a, "activating", row.campaign, row.creative, NoUpload)
     ELSE Goes(a, "upload", row, rows)
  /\ UNCHANGED <<step, members, lob, editor>>

\* _build_audience_rows_for_step and build_audience_csv, which may reject a row.
BuildAudience(a) ==
  LET rows == {r \in Recipients : members[r] = "pending"}
      row == activation[a].row IN
  /\ At(a, "audience")
  /\ \/ Returns(a, "activating", row.campaign, row.creative, NoUpload)
     \/ /\ rows # {}
        /\ Goes(a, "upload", row, rows)
  /\ UNCHANGED <<step, members, lob, editor>>

\* create_upload sends no idempotency key, so Lob makes one whenever it is asked.
CreateUpload(a, u) ==
  /\ At(a, "upload")
  /\ activation[a].row.upload = NoUpload
  /\ u \notin lob.uploads
  /\ lob' = [lob EXCEPT !.uploads = @ \cup {u}]
  /\ Goes(a, "file", [activation[a].row EXCEPT !.upload = u], activation[a].csv)
  /\ UNCHANGED <<step, members, editor>>

\* No answer came; the client asks again (_request_with_retry).
UploadUnanswered(a, u) ==
  /\ At(a, "upload")
  /\ activation[a].row.upload = NoUpload
  /\ u \notin lob.uploads
  /\ lob' = [lob EXCEPT !.uploads = @ \cup {u}]
  /\ UNCHANGED <<step, members, activation, editor>>

UploadRefused(a) ==
  /\ At(a, "upload")
  /\ activation[a].row.upload = NoUpload
  /\ Returns(a, "activating", activation[a].row.campaign, activation[a].row.creative, NoUpload)
  /\ UNCHANGED <<step, members, lob, editor>>

SkipUpload(a) ==
  /\ At(a, "upload")
  /\ activation[a].row.upload # NoUpload
  /\ Goes(a, "file", activation[a].row, activation[a].csv)
  /\ UNCHANGED <<step, members, lob, editor>>

\* POST /uploads/<id>/file; the answer may be lost.
PostFile(a) ==
  LET row == activation[a].row IN
  /\ At(a, "file")
  /\ lob' = [lob EXCEPT !.file[row.upload] = activation[a].csv]
  /\ \E status \in {"scheduled", "activating"} :
       Returns(a, status, row.campaign, row.creative, row.upload)
  /\ UNCHANGED <<step, members, editor>>

FileRefused(a) ==
  LET row == activation[a].row IN
  /\ At(a, "file")
  /\ Returns(a, "activating", row.campaign, row.creative, row.upload)
  /\ UNCHANGED <<step, members, lob, editor>>

\* bulk_update_pending_to_scheduled: after every result but a failed one.
FlipMembers(a) ==
  /\ At(a, "flip")
  /\ members' = [r \in Recipients |-> IF members[r] = "pending" THEN "scheduled" ELSE members[r]]
  /\ Goes(a, "finish", activation[a].row, {})
  /\ UNCHANGED <<step, lob, editor>>

FinishActivation(a) ==
  /\ At(a, "finish")
  /\ step' = activation[a].row
  /\ activation' = [activation EXCEPT ![a] = Idle]
  /\ UNCHANGED <<members, lob, editor>>

\* An exception that is not a provider's, or a restart, anywhere in the call.
ActivationDies(a) ==
  /\ ~At(a, "idle")
  /\ activation' = [activation EXCEPT ![a] = Idle]
  /\ UNCHANGED <<step, members, lob, editor>>

-----------------------------------------------------------------------------
CallStep(a) ==
  \/ ReadStep(a) \/ MintLinks(a)
  \/ (\E c \in Campaigns : CreateCampaign(a, c)) \/ CampaignRefused(a) \/ SkipCampaign(a)
  \/ (\E c \in Creatives : CreateCreative(a, c)) \/ CreativeRefused(a) \/ SkipCreative(a)
  \/ BuildAudience(a)
  \/ (\E u \in Uploads : CreateUpload(a, u) \/ UploadUnanswered(a, u))
  \/ UploadRefused(a) \/ SkipUpload(a)
  \/ PostFile(a) \/ FileRefused(a)
  \/ FlipMembers(a) \/ FinishActivation(a) \/ ActivationDies(a)

EditorStep(e) ==
  (\E audience \in SUBSET Recipients : ReadStepForAudience(e, audience)) \/ ReplaceAudience(e)

Next == (\E a \in Activations : CallStep(a)) \/ (\E e \in Editors : EditorStep(e))

Spec == Init /\ [][Next]_vars

-----------------------------------------------------------------------------
\* A step that reads scheduled names the Lob campaign, and an upload that Lob has
\* with a recipient in its file, whatever attempts failed, died or overlapped.
ScheduledHasItsFile ==
  step.status = "scheduled" =>
    step.campaign \in lob.campaigns /\ step.upload \in lob.uploads /\ lob.file[step.upload] # {}

\* However often the activation is retried, after whatever it lost, and also by
\* two calls at once, the step has one campaign at Lob and its row names no other.
OneCampaign ==
  /\ \A c, k \in lob.campaigns : c = k
  /\ step.campaign # NoCampaign => step.campaign \in lob.campaigns

\* A recipient whose membership is scheduled and whom no call at work has in its
\* list is never put into a file again.
ScheduledIsNotMailedAgain ==
  [][\A r \in Recipients :
       members[r] = "scheduled" /\ (\A a \in Activations : r \notin activation[a].csv)
       => /\ members'[r] = "scheduled" /\ \A a \in Activations : r \notin activation'[a].csv
          /\ \A u \in Uploads : r \in lob'.file[u] => r \in lob.file[u]]_vars

\* What the documentation says, and the code does not do.
\* adapter.py:226: the audience query "pulls only status='pending' rows - once a
\* membership transitions out of pending it has already been included in some
\* prior upload."
ScheduledWasUploaded ==
  \A r \in Recipients : members[r] = "scheduled" => \E u \in Uploads : r \in lob.file[u]
=============================================================================
