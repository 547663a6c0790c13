------------------------ MODULE LobActivationProofs ------------------------
(***************************************************************************)
(* Proofs about LobActivation, for any audience and any number of          *)
(* concurrent activations and edits.                                       *)
(***************************************************************************)
EXTENDS LobActivationRefinement, TLAPS

\* A row, the step's or one a call carries, names only what exists at Lob; and a
\* row that says scheduled names an upload with recipients in its file.
NamesWhatExists(row) ==
  /\ row.campaign # NoCampaign => row.campaign \in lob.campaigns
  /\ row.upload # NoUpload => row.upload \in lob.uploads
  /\ row.status = "scheduled" => /\ row.campaign # NoCampaign /\ row.upload # NoUpload
                                 /\ lob.file[row.upload] # {}

\* Where a call is tells what it has obtained so far.
CallsHaveWhatTheyNeed ==
  \A a \in Activations :
    /\ NamesWhatExists(activation[a].row)
    /\ activation[a].pc \in {"creative", "audience", "upload", "file"} =>
         activation[a].row.campaign # NoCampaign
    /\ activation[a].pc \in {"upload", "file"} => activation[a].csv # {}
    /\ activation[a].pc = "file" => activation[a].row.upload # NoUpload

SameCampaign == \A c, k \in lob.campaigns : c = k

IInv == TypeOK /\ SameCampaign /\ NamesWhatExists(step) /\ CallsHaveWhatTheyNeed

USE DEF At, Idle, IdleEditor, EmptyRow, Row, RowOf, PCs, StepStatuses, NamesWhatExists

LEMMA InitEstablishes == Init => IInv
  BY LobActivationAssumption DEF Init, IInv, TypeOK, SameCampaign, CallsHaveWhatTheyNeed

\* A call moves to pc with a row of its own, while Lob may have got more objects:
\* what has to be shown of the new row for the invariant to hold again.
LEMMA CallMoves ==
  ASSUME IInv, NEW a \in Activations, NEW CONSTANT pc \in PCs,
         NEW CONSTANT row \in RowOf(StepStatuses), NEW CONSTANT csv \in SUBSET Recipients,
         Goes(a, pc, row, csv), UNCHANGED <<step, members, editor>>,
         lob' \in [campaigns : SUBSET Campaigns, creatives : SUBSET Creatives,
                   uploads : SUBSET Uploads, file : [Uploads -> SUBSET Recipients]],
         SameCampaign', lob.campaigns \subseteq lob'.campaigns, lob.uploads \subseteq lob'.uploads,
         \A u \in Uploads : lob.file[u] # {} => lob'.file[u] # {},
         NamesWhatExists(row)',
         pc \in {"creative", "audience", "upload", "file"} => row.campaign # NoCampaign,
         pc \in {"upload", "file"} => csv # {},
         pc = "file" => row.upload # NoUpload
  PROVE  IInv'
<1> USE LobActivationAssumption
<1>1. TypeOK'
  BY DEF IInv, TypeOK, Goes
<1>2. NamesWhatExists(step)'
  BY DEF IInv, TypeOK
<1>3. ASSUME NEW b \in Activations
      PROVE  (/\ NamesWhatExists(activation[b].row)
              /\ activation[b].pc \in {"creative", "audience", "upload", "file"} =>
                   activation[b].row.campaign # NoCampaign
              /\ activation[b].pc \in {"upload", "file"} => activation[b].csv # {}
              /\ activation[b].pc = "file" => activation[b].row.upload # NoUpload)'
  <2>1. CASE b = a
    <3>1. activation'[b] = [pc |-> pc, row |-> row, csv |-> csv]
      BY <2>1 DEF Goes, IInv, TypeOK
    <3> QED BY <3>1
  <2>2. CASE b # a
    <3>1. activation'[b] = activation[b]
      BY <2>2 DEF Goes, IInv, TypeOK
    <3>2. activation[b].row \in RowOf(StepStatuses)
      BY DEF IInv, TypeOK
    <3> QED BY <3>1, <3>2 DEF IInv, CallsHaveWhatTheyNeed
  <2> QED BY <2>1, <2>2
<1>4. CallsHaveWhatTheyNeed'
  BY <1>3 DEF CallsHaveWhatTheyNeed
<1> QED BY <1>1, <1>2, <1>4 DEF IInv

\* A result that does not say scheduled keeps or drops what the call had.
LEMMA ReturnsPreserves ==
  ASSUME IInv, NEW a \in Activations, NEW CONSTANT status \in {"failed", "activating"},
         NEW CONSTANT campaign \in Campaigns \cup {NoCampaign},
         NEW CONSTANT creative \in Creatives \cup {NoCreative},
         NEW CONSTANT upload \in Uploads \cup {NoUpload},
         campaign # NoCampaign => campaign \in lob'.campaigns,
         upload # NoUpload => upload \in lob'.uploads,
         Returns(a, status, campaign, creative, upload), UNCHANGED <<step, members, editor>>,
         lob' \in [campaigns : SUBSET Campaigns, creatives : SUBSET Creatives,
                   uploads : SUBSET Uploads, file : [Uploads -> SUBSET Recipients]],
         SameCampaign', lob.campaigns \subseteq lob'.campaigns, lob.uploads \subseteq lob'.uploads,
         \A u \in Uploads : lob.file[u] # {} => lob'.file[u] # {}
  PROVE  IInv'
<1> DEFINE pc == IF status = "failed" THEN "finish" ELSE "flip"
           row == Row(status, campaign, creative, upload)
<1>1. pc \in {"finish", "flip"} /\ pc \in PCs
  OBVIOUS
<1>2. row \in RowOf(StepStatuses)
  OBVIOUS
<1>3. Goes(a, pc, row, {})
  BY DEF Returns
<1>4. NamesWhatExists(row)'
  OBVIOUS
<1> HIDE DEF pc, row
<1> QED BY <1>1, <1>2, <1>3, <1>4, CallMoves

\* What the invariant says of one call and of Lob, in the form the lemmas above ask for.
LEMMA CallFacts ==
  ASSUME IInv, NEW a \in Activations
  PROVE  /\ activation[a].row \in RowOf(StepStatuses) /\ activation[a].csv \in SUBSET Recipients
         /\ activation[a].row.campaign \in Campaigns \cup {NoCampaign}
         /\ activation[a].row.creative \in Creatives \cup {NoCreative}
         /\ activation[a].row.upload \in Uploads \cup {NoUpload}
         /\ NamesWhatExists(activation[a].row)
         /\ activation[a].pc \in {"creative", "audience", "upload", "file"} =>
              activation[a].row.campaign # NoCampaign
         /\ activation[a].pc \in {"upload", "file"} => activation[a].csv # {}
         /\ activation[a].pc = "file" => activation[a].row.upload # NoUpload
         /\ lob \in [campaigns : SUBSET Campaigns, creatives : SUBSET Creatives,
                     uploads : SUBSET Uploads, file : [Uploads -> SUBSET Recipients]]
         /\ SameCampaign
  BY DEF IInv, TypeOK, CallsHaveWhatTheyNeed

\* Calls that leave Lob alone.
LEMMA QuietPreserves ==
  ASSUME IInv, NEW a \in Activations, UNCHANGED lob,
         \/ ReadStep(a) \/ MintLinks(a) \/ CampaignRefused(a) \/ SkipCampaign(a)
         \/ CreativeRefused(a) \/ SkipCreative(a) \/ BuildAudience(a)
         \/ UploadRefused(a) \/ SkipUpload(a) \/ FileRefused(a)
  PROVE  IInv'
<1> USE LobActivationAssumption
<1> DEFINE row == activation[a].row
<1>1. /\ row \in RowOf(StepStatuses) /\ NamesWhatExists(row)
      /\ lob' \in [campaigns : SUBSET Campaigns, creatives : SUBSET Creatives,
                   uploads : SUBSET Uploads, file : [Uploads -> SUBSET Recipients]]
      /\ SameCampaign' /\ NamesWhatExists(row)
  BY CallFacts DEF SameCampaign
<1>2. CASE ReadStep(a)
  <2>1. step \in RowOf(StepStatuses) /\ NamesWhatExists(step)
    BY DEF IInv, TypeOK
  <2> QED BY <1>1, <1>2, <2>1, CallMoves DEF ReadStep
<1>3. CASE MintLinks(a)
  BY <1>1, <1>3, CallMoves, ReturnsPreserves DEF MintLinks
<1>4. CASE CampaignRefused(a)
  BY <1>1, <1>4, ReturnsPreserves DEF CampaignRefused
<1>5. CASE SkipCampaign(a)
  BY <1>1, <1>5, CallMoves DEF SkipCampaign
<1>6. CASE CreativeRefused(a)
  BY <1>1, <1>6, CallFacts, ReturnsPreserves DEF CreativeRefused
<1>7. CASE SkipCreative(a)
  BY <1>1, <1>7, CallFacts, CallMoves DEF SkipCreative
<1>8. CASE BuildAudience(a)
  BY <1>1, <1>8, CallFacts, CallMoves, ReturnsPreserves DEF BuildAudience
<1>9. CASE UploadRefused(a)
  BY <1>1, <1>9, CallFacts, ReturnsPreserves DEF UploadRefused
<1>10. CASE SkipUpload(a)
  BY <1>1, <1>10, CallFacts, CallMoves DEF SkipUpload
<1>11. CASE FileRefused(a)
  BY <1>1, <1>11, CallFacts, ReturnsPreserves DEF FileRefused
<1> QED BY <1>2, <1>3, <1>4, <1>5, <1>6, <1>7, <1>8, <1>9, <1>10, <1>11

\* Calls that create something at Lob, or put a file there.
LEMMA LobCallPreserves ==
  ASSUME IInv, NEW a \in Activations,
         \/ \E c \in Campaigns : CreateCampaign(a, c)
         \/ \E c \in Creatives : CreateCreative(a, c)
         \/ \E u \in Uploads : CreateUpload(a, u) \/ UploadUnanswered(a, u)
         \/ PostFile(a)
  PROVE  IInv'
<1> USE LobActivationAssumption
<1> DEFINE row == activation[a].row
<1>1. CASE \E c \in Campaigns : CreateCampaign(a, c)
  <2>1. PICK c \in Campaigns : CreateCampaign(a, c)
    BY <1>1
  <2>2. /\ lob' = [lob EXCEPT !.campaigns = @ \cup {c}]
        /\ \A k \in lob.campaigns : k = c
    BY <2>1, CallFacts DEF CreateCampaign, SameCampaign
  <2>3. /\ lob' \in [campaigns : SUBSET Campaigns, creatives : SUBSET Creatives,
                     uploads : SUBSET Uploads, file : [Uploads -> SUBSET Recipients]]
        /\ SameCampaign' /\ lob.campaigns \subseteq lob'.campaigns /\ c \in lob'.campaigns
        /\ lob'.uploads = lob.uploads /\ lob'.file = lob.file
    BY <2>2, CallFacts DEF SameCampaign
  <2>4. CASE Goes(a, "creative", [row EXCEPT !.campaign = c], {})
    <3>1. PICK new \in RowOf(StepStatuses) : new = [row EXCEPT !.campaign = c]
      BY CallFacts
    <3>2. new.campaign = c /\ new.upload = row.upload /\ new.status = row.status
      BY <3>1, CallFacts
    <3>3. NamesWhatExists(new)'
      <4>1. row.status # "scheduled" /\ (row.upload # NoUpload => row.upload \in lob.uploads)
        BY <2>1, CallFacts DEF CreateCampaign
      <4> QED BY <2>3, <3>2, <4>1
    <3>4. Goes(a, "creative", new, {}) /\ UNCHANGED <<step, members, editor>>
      BY <2>1, <2>4, <3>1 DEF CreateCampaign
    <3>5. "creative" \in PCs /\ {} \in SUBSET Recipients /\ new.campaign # NoCampaign
      BY <3>2
    <3>6. \A u \in Uploads : lob.file[u] # {} => lob'.file[u] # {}
      BY <2>3
    <3> HIDE DEF row
    <3> QED BY <2>3, <3>1, <3>3, <3>4, <3>5, <3>6, CallMoves
  <2>5. CASE Returns(a, "failed", NoCampaign, NoCreative, NoUpload)
    BY <2>1, <2>3, <2>5, ReturnsPreserves DEF CreateCampaign
  <2> QED BY <2>1, <2>4, <2>5 DEF CreateCampaign
<1>2. CASE \E c \in Creatives : CreateCreative(a, c)
  <2>1. PICK c \in Creatives : CreateCreative(a, c)
    BY <1>2
  <2>2. /\ lob' \in [campaigns : SUBSET Campaigns, creatives : SUBSET Creatives,
                     uploads : SUBSET Uploads, file : [Uploads -> SUBSET Recipients]]
        /\ SameCampaign' /\ lob'.campaigns = lob.campaigns
        /\ lob'.uploads = lob.uploads /\ lob'.file = lob.file
    BY <2>1, CallFacts DEF CreateCreative, SameCampaign
  <2>3. CASE Goes(a, "audience", [row EXCEPT !.creative = c], {})
    <3>1. PICK new \in RowOf(StepStatuses) : new = [row EXCEPT !.creative = c]
      BY CallFacts
    <3>2. new.campaign = row.campaign /\ new.upload = row.upload /\ new.status = row.status
      BY <3>1, CallFacts
    <3>3. NamesWhatExists(new)'
      BY <2>2, <3>2, CallFacts
    <3>4. new.campaign # NoCampaign
      BY <2>1, <3>2, CallFacts DEF CreateCreative
    <3>5. Goes(a, "audience", new, {}) /\ UNCHANGED <<step, members, editor>>
      BY <2>1, <2>3, <3>1 DEF CreateCreative
    <3>6. "audience" \in PCs /\ {} \in SUBSET Recipients
      OBVIOUS
    <3> HIDE DEF row
    <3> QED BY <2>2, <3>1, <3>3, <3>4, <3>5, <3>6, CallMoves
  <2>4. CASE Returns(a, "activating", row.campaign, NoCreative, NoUpload)
    BY <2>1, <2>2, <2>4, CallFacts, ReturnsPreserves DEF CreateCreative
  <2> QED BY <2>1, <2>3, <2>4 DEF CreateCreative
<1>3. CASE \E u \in Uploads : CreateUpload(a, u)
  <2>1. PICK u \in Uploads : CreateUpload(a, u)
    BY <1>3
  <2>2. /\ lob' \in [campaigns : SUBSET Campaigns, creatives : SUBSET Creatives,
                     uploads : SUBSET Uploads, file : [Uploads -> SUBSET Recipients]]
        /\ SameCampaign' /\ lob'.campaigns = lob.campaigns
        /\ lob.uploads \subseteq lob'.uploads /\ u \in lob'.uploads /\ lob'.file = lob.file
    BY <2>1, CallFacts DEF CreateUpload, SameCampaign
  <2>3. PICK new \in RowOf(StepStatuses) : new = [row EXCEPT !.upload = u]
    BY CallFacts
  <2>4. new.campaign = row.campaign /\ new.upload = u /\ new.status = row.status
    BY <2>3, CallFacts
  <2>5. row.status # "scheduled" /\ new.campaign # NoCampaign
    BY <2>1, <2>4, CallFacts DEF CreateUpload
  <2>6. NamesWhatExists(new)'
    BY <2>2, <2>4, <2>5, CallFacts
  <2>7. Goes(a, "file", new, activation[a].csv) /\ activation[a].csv # {}
    BY <2>1, <2>3, CallFacts DEF CreateUpload
  <2> QED BY <2>1, <2>2, <2>4, <2>5, <2>6, <2>7, CallFacts, CallMoves DEF CreateUpload
<1>4. CASE \E u \in Uploads : UploadUnanswered(a, u)
  <2>1. PICK u \in Uploads : UploadUnanswered(a, u)
    BY <1>4
  <2>2. /\ lob' \in [campaigns : SUBSET Campaigns, creatives : SUBSET Creatives,
                     uploads : SUBSET Uploads, file : [Uploads -> SUBSET Recipients]]
        /\ SameCampaign' /\ lob'.campaigns = lob.campaigns
        /\ lob.uploads \subseteq lob'.uploads /\ lob'.file = lob.file
    BY <2>1, CallFacts DEF UploadUnanswered, SameCampaign
  <2>3. UNCHANGED <<step, members, activation, editor>>
    BY <2>1 DEF UploadUnanswered
  <2> QED BY <2>2, <2>3 DEF IInv, TypeOK, CallsHaveWhatTheyNeed
<1>5. CASE PostFile(a)
  <2>1. /\ At(a, "file") /\ row.upload \in Uploads /\ activation[a].csv # {}
        /\ lob' = [lob EXCEPT !.file[row.upload] = activation[a].csv]
    BY <1>5, CallFacts DEF PostFile
  <2>2. /\ lob' \in [campaigns : SUBSET Campaigns, creatives : SUBSET Creatives,
                     uploads : SUBSET Uploads, file : [Uploads -> SUBSET Recipients]]
        /\ SameCampaign' /\ lob'.campaigns = lob.campaigns /\ lob'.uploads = lob.uploads
        /\ \A u \in Uploads : lob.file[u] # {} => lob'.file[u] # {}
        /\ lob'.file[row.upload] # {}
    BY <2>1, CallFacts DEF SameCampaign
  <2>3. CASE Returns(a, "activating", row.campaign, row.creative, row.upload)
    BY <1>5, <2>2, <2>3, CallFacts, ReturnsPreserves DEF PostFile
  <2>4. CASE Returns(a, "scheduled", row.campaign, row.creative, row.upload)
    <3>1. PICK new \in RowOf(StepStatuses) :
             new = Row("scheduled", row.campaign, row.creative, row.upload)
      BY CallFacts
    <3>2. NamesWhatExists(new)'
      BY <2>1, <2>2, <3>1, CallFacts
    <3>3. Goes(a, "flip", new, {})
      BY <2>4, <3>1 DEF Returns
    <3>4. "flip" \in PCs /\ {} \in SUBSET Recipients /\ UNCHANGED <<step, members, editor>>
      BY <1>5 DEF PostFile
    <3> HIDE DEF row
    <3> QED BY <2>2, <3>1, <3>2, <3>3, <3>4, CallMoves
  <2> QED BY <1>5, <2>3, <2>4 DEF PostFile
<1> QED BY <1>1, <1>2, <1>3, <1>4, <1>5

\* The end of a call.
LEMMA EndPreserves ==
  ASSUME IInv, NEW a \in Activations, FlipMembers(a) \/ FinishActivation(a) \/ ActivationDies(a)
  PROVE  IInv'
<1> USE LobActivationAssumption
<1>1. CASE FlipMembers(a)
  <2>1. members' \in [Recipients -> {"absent", "pending", "scheduled"}]
    BY <1>1 DEF FlipMembers, IInv, TypeOK
  <2>2. /\ activation' \in [Activations -> [pc : PCs, row : RowOf(StepStatuses),
                                            csv : SUBSET Recipients]]
        /\ \A b \in Activations \ {a} : activation'[b] = activation[b]
        /\ activation'[a] = [pc |-> "finish", row |-> activation[a].row, csv |-> {}]
    BY <1>1, CallFacts DEF FlipMembers, Goes, IInv, TypeOK
  <2>3. CallsHaveWhatTheyNeed'
    <3>1. UNCHANGED lob
      BY <1>1 DEF FlipMembers
    <3>2. NamesWhatExists(activation[a].row)
      BY CallFacts
    <3>3. \A b \in Activations \ {a} :
            /\ NamesWhatExists(activation[b].row)
            /\ activation[b].pc \in {"creative", "audience", "upload", "file"} =>
                 activation[b].row.campaign # NoCampaign
            /\ activation[b].pc \in {"upload", "file"} => activation[b].csv # {}
            /\ activation[b].pc = "file" => activation[b].row.upload # NoUpload
      BY CallFacts
    <3>4. ASSUME NEW b \in Activations
          PROVE  (/\ NamesWhatExists(activation[b].row)
                  /\ activation[b].pc \in {"creative", "audience", "upload", "file"} =>
                       activation[b].row.campaign # NoCampaign
                  /\ activation[b].pc \in {"upload", "file"} => activation[b].csv # {}
                  /\ activation[b].pc = "file" => activation[b].row.upload # NoUpload)'
      <4>1. CASE b = a
        BY <2>2, <3>1, <3>2, <4>1
      <4>2. CASE b # a
        BY <2>2, <3>1, <3>3, <4>2
      <4> QED BY <4>1, <4>2
    <3> QED BY <3>4 DEF CallsHaveWhatTheyNeed
  <2> QED BY <1>1, <2>1, <2>2, <2>3 DEF FlipMembers, IInv, TypeOK, SameCampaign
<1>2. CASE FinishActivation(a)
  <2>1. /\ activation' \in [Activations -> [pc : PCs, row : RowOf(StepStatuses),
                                            csv : SUBSET Recipients]]
        /\ \A b \in Activations \ {a} : activation'[b] = activation[b]
        /\ activation'[a] = Idle
    BY <1>2 DEF FinishActivation, IInv, TypeOK
  <2>2. CallsHaveWhatTheyNeed'
    BY <1>2, <2>1 DEF FinishActivation, IInv, CallsHaveWhatTheyNeed
  <2> QED BY <1>2, <2>1, <2>2, CallFacts DEF FinishActivation, IInv, TypeOK, SameCampaign
<1>3. CASE ActivationDies(a)
  <2>1. /\ activation' \in [Activations -> [pc : PCs, row : RowOf(StepStatuses),
                                            csv : SUBSET Recipients]]
        /\ \A b \in Activations \ {a} : activation'[b] = activation[b]
        /\ activation'[a] = Idle
    BY <1>3 DEF ActivationDies, IInv, TypeOK
  <2>2. CallsHaveWhatTheyNeed'
    BY <1>3, <2>1 DEF ActivationDies, IInv, CallsHaveWhatTheyNeed
  <2> QED BY <1>3, <2>1, <2>2 DEF ActivationDies, IInv, TypeOK, SameCampaign
<1> QED BY <1>1, <1>2, <1>3

LEMMA EditorPreserves ==
  ASSUME IInv, NEW e \in Editors, EditorStep(e)
  PROVE  IInv'
<1> USE LobActivationAssumption DEF IInv, TypeOK, SameCampaign, CallsHaveWhatTheyNeed
<1>1. CASE \E audience \in SUBSET Recipients : ReadStepForAudience(e, audience)
  BY <1>1 DEF ReadStepForAudience
<1>2. CASE ReplaceAudience(e)
  BY <1>2 DEF ReplaceAudience
<1> QED BY <1>1, <1>2 DEF EditorStep

\* The invariant holds initially and every step keeps it.
THEOREM Inductive == (Init => IInv) /\ (IInv /\ [Next]_vars => IInv')
<1>1. ASSUME IInv, NEW a \in Activations, CallStep(a) PROVE IInv'
  <2>1. CASE \/ ReadStep(a) \/ MintLinks(a) \/ CampaignRefused(a) \/ SkipCampaign(a)
             \/ CreativeRefused(a) \/ SkipCreative(a) \/ BuildAudience(a)
             \/ UploadRefused(a) \/ SkipUpload(a) \/ FileRefused(a)
    <3>1. UNCHANGED lob
      BY <2>1 DEF ReadStep, MintLinks, CampaignRefused, SkipCampaign, CreativeRefused,
                  SkipCreative, BuildAudience, UploadRefused, SkipUpload, FileRefused
    <3> QED BY <1>1, <2>1, <3>1, QuietPreserves
  <2>2. CASE \/ \E c \in Campaigns : CreateCampaign(a, c)
             \/ \E c \in Creatives : CreateCreative(a, c)
             \/ \E u \in Uploads : CreateUpload(a, u) \/ UploadUnanswered(a, u)
             \/ PostFile(a)
    BY <1>1, <2>2, LobCallPreserves
  <2>3. CASE FlipMembers(a) \/ FinishActivation(a) \/ ActivationDies(a)
    BY <1>1, <2>3, EndPreserves
  <2> QED BY <1>1, <2>1, <2>2, <2>3 DEF CallStep
<1>2. ASSUME IInv, UNCHANGED vars PROVE IInv'
  BY <1>2 DEF vars, IInv, TypeOK, SameCampaign, CallsHaveWhatTheyNeed
<1> QED BY <1>1, <1>2, InitEstablishes, EditorPreserves DEF Next

LEMMA Invariance == Spec => []IInv
<1>1. Init => IInv
  BY InitEstablishes
<1>2. IInv /\ [Next]_vars => IInv'
  BY Inductive
<1> QED BY <1>1, <1>2, PTL DEF Spec

\* Type correctness of every reachable state.
THEOREM TypeCorrect == Spec => []TypeOK
<1>1. IInv => TypeOK
  BY DEF IInv
<1> QED BY <1>1, Invariance, PTL

\* Retried, lost, repeated and concurrent activations leave one campaign at Lob.
THEOREM OneCampaignPerStep == Spec => []OneCampaign
<1>1. IInv => OneCampaign
  BY DEF IInv, OneCampaign, SameCampaign
<1> QED BY <1>1, Invariance, PTL

\* A step that reads scheduled has a file with recipients at Lob.
THEOREM ScheduledIsReal == Spec => []ScheduledHasItsFile
<1>1. IInv => ScheduledHasItsFile
  BY DEF IInv, ScheduledHasItsFile
<1> QED BY <1>1, Invariance, PTL

\* One step mails nobody whose membership is scheduled and whom no call has in its list.
LEMMA StepMailsNoScheduled ==
  ASSUME IInv, Next, NEW r \in Recipients,
         members[r] = "scheduled", \A a \in Activations : r \notin activation[a].csv
  PROVE  /\ members'[r] = "scheduled" /\ \A a \in Activations : r \notin activation'[a].csv
         /\ \A u \in Uploads : r \in lob'.file[u] => r \in lob.file[u]
<1> USE LobActivationAssumption
<1>1. /\ members \in [Recipients -> {"absent", "pending", "scheduled"}]
      /\ activation \in [Activations -> [pc : PCs, row : RowOf(StepStatuses),
                                         csv : SUBSET Recipients]]
      /\ lob \in [campaigns : SUBSET Campaigns, creatives : SUBSET Creatives,
                  uploads : SUBSET Uploads, file : [Uploads -> SUBSET Recipients]]
  BY DEF IInv, TypeOK
<1> HIDE DEF IInv
<1>2. ASSUME NEW a \in Activations, NEW pc, NEW row, NEW csv, Goes(a, pc, row, csv), r \notin csv
      PROVE  \A b \in Activations : r \notin activation'[b].csv
  BY <1>1, <1>2 DEF Goes
<1>3. ASSUME NEW a \in Activations, CallStep(a)
      PROVE  /\ members'[r] = "scheduled" /\ \A b \in Activations : r \notin activation'[b].csv
             /\ \A u \in Uploads : r \in lob'.file[u] => r \in lob.file[u]
  <2>1. members'[r] = "scheduled"
    BY <1>1, <1>3 DEF CallStep, ReadStep, MintLinks, CreateCampaign, CampaignRefused,
       SkipCampaign, CreateCreative, CreativeRefused, SkipCreative, BuildAudience, CreateUpload,
       UploadUnanswered, UploadRefused, SkipUpload, PostFile, FileRefused, FlipMembers,
       FinishActivation, ActivationDies
  <2>2. \A u \in Uploads : r \in lob'.file[u] => r \in lob.file[u]
    <3>1. CASE PostFile(a)
      BY <1>1, <3>1 DEF PostFile
    <3>2. CASE ~PostFile(a)
      <4>1. lob'.file = lob.file
        BY <1>1, <1>3, <3>2 DEF CallStep, ReadStep, MintLinks, CreateCampaign, CampaignRefused,
           SkipCampaign, CreateCreative, CreativeRefused, SkipCreative, BuildAudience,
           CreateUpload, UploadUnanswered, UploadRefused, SkipUpload, FileRefused, FlipMembers,
           FinishActivation, ActivationDies
      <4> QED BY <4>1
    <3> QED BY <3>1, <3>2
  <2>3. \A b \in Activations : r \notin activation'[b].csv
    <3>1. CASE BuildAudience(a)
      BY <1>2, <3>1 DEF BuildAudience, Returns
    <3>2. CASE \/ ReadStep(a) \/ MintLinks(a)
               \/ (\E c \in Campaigns : CreateCampaign(a, c)) \/ CampaignRefused(a)
               \/ SkipCampaign(a) \/ (\E c \in Creatives : CreateCreative(a, c))
               \/ CreativeRefused(a) \/ SkipCreative(a)
      BY <1>2, <3>2 DEF ReadStep, MintLinks, CreateCampaign, CampaignRefused, SkipCampaign,
         CreateCreative, CreativeRefused, SkipCreative, Returns
    <3>3. CASE \/ \E u \in Uploads : CreateUpload(a, u) \/ UploadUnanswered(a, u)
               \/ UploadRefused(a) \/ SkipUpload(a) \/ PostFile(a) \/ FileRefused(a)
               \/ FlipMembers(a)
      BY <1>2, <3>3 DEF CreateUpload, UploadUnanswered, UploadRefused, SkipUpload, PostFile,
         FileRefused, FlipMembers, Returns
    <3>4. CASE FinishActivation(a) \/ ActivationDies(a)
      BY <1>1, <3>4 DEF FinishActivation, ActivationDies
    <3> QED BY <1>3, <3>1, <3>2, <3>3, <3>4 DEF CallStep
  <2> QED BY <2>1, <2>2, <2>3
<1>4. CASE \E e \in Editors : EditorStep(e)
  BY <1>1, <1>4 DEF EditorStep, ReadStepForAudience, ReplaceAudience
<1> QED BY <1>3, <1>4 DEF Next

\* Nobody whose membership is scheduled is put into a file again, in any behaviour.
THEOREM NotMailedAgain == Spec => ScheduledIsNotMailedAgain
<1> DEFINE Keeps ==
      \A r \in Recipients :
        members[r] = "scheduled" /\ (\A a \in Activations : r \notin activation[a].csv)
        => /\ members'[r] = "scheduled" /\ \A a \in Activations : r \notin activation'[a].csv
           /\ \A u \in Uploads : r \in lob'.file[u] => r \in lob.file[u]
<1>1. IInv /\ [Next]_vars => [Keeps]_vars
  BY StepMailsNoScheduled
<1>2. Spec => [][Keeps]_vars
  BY <1>1, Invariance, PTL DEF Spec
<1> QED BY <1>2 DEF ScheduledIsNotMailedAgain

-----------------------------------------------------------------------------
(***************************************************************************)
(* LobActivation, mapped, does what StepSequence's activations do.         *)
(***************************************************************************)

\* A call that has its result has lost the campaign if and only if it failed: then
\* the row it writes is linked just when StepSequence says so.
ResultsFit ==
  \A a \in Activations :
    activation[a].pc \in {"flip", "finish"} =>
      (activation[a].row.campaign # NoCampaign <=> activation[a].row.status # "failed")

\* A call that moves with a row which fits leaves the others to fit as before.
LEMMA MoveFits ==
  ASSUME IInv, ResultsFit, NEW a \in Activations, NEW pc, NEW row, NEW csv, Goes(a, pc, row, csv),
         pc \in {"flip", "finish"} => (row.campaign # NoCampaign <=> row.status # "failed")
  PROVE  ResultsFit'
<1>1. activation \in [Activations -> [pc : PCs, row : RowOf(StepStatuses), csv : SUBSET Recipients]]
  BY DEF IInv, TypeOK
<1>2. activation'[a] = [pc |-> pc, row |-> row, csv |-> csv]
  BY <1>1 DEF Goes
<1>3. \A b \in Activations \ {a} : activation'[b] = activation[b]
  BY <1>1 DEF Goes
<1>4. ASSUME NEW b \in Activations, activation'[b].pc \in {"flip", "finish"}
      PROVE  activation'[b].row.campaign # NoCampaign <=> activation'[b].row.status # "failed"
  <2>1. CASE b = a
    BY <1>2, <1>4, <2>1
  <2>2. CASE b # a
    BY <1>3, <1>4, <2>2 DEF ResultsFit
  <2> QED BY <2>1, <2>2
<1> QED BY <1>4 DEF ResultsFit

\* A result that keeps the campaign where it is no failure fits.
LEMMA ReturnFits ==
  ASSUME IInv, ResultsFit, NEW a \in Activations, NEW status, NEW campaign, NEW creative,
         NEW upload, Returns(a, status, campaign, creative, upload),
         campaign # NoCampaign <=> status # "failed"
  PROVE  ResultsFit'
BY MoveFits DEF Returns

\* A call that is over has no result.
LEMMA EndFits ==
  ASSUME IInv, ResultsFit, NEW a \in Activations, activation' = [activation EXCEPT ![a] = Idle]
  PROVE  ResultsFit'
<1>1. activation \in [Activations -> [pc : PCs, row : RowOf(StepStatuses), csv : SUBSET Recipients]]
  BY DEF IInv, TypeOK
<1>2. activation'[a].pc = "idle" /\ \A b \in Activations \ {a} : activation'[b] = activation[b]
  BY <1>1
<1> QED BY <1>2 DEF ResultsFit

LEMMA CallStepFits ==
  ASSUME IInv, ResultsFit, NEW a \in Activations, CallStep(a)
  PROVE  ResultsFit'
<1> DEFINE row == activation[a].row
<1>1. /\ activation[a].pc \in {"creative", "audience", "upload", "file"} => row.campaign # NoCampaign
      /\ activation[a].pc = "flip" => (row.campaign # NoCampaign <=> row.status # "failed")
  BY DEF IInv, CallsHaveWhatTheyNeed, ResultsFit
<1> HIDE DEF IInv
<1>2. CASE ReadStep(a) \/ SkipCampaign(a) \/ SkipCreative(a) \/ SkipUpload(a)
  <2>1. \/ Goes(a, "links", step, {}) \/ Goes(a, "creative", row, {})
        \/ Goes(a, "audience", row, {}) \/ Goes(a, "file", row, activation[a].csv)
    BY <1>2 DEF ReadStep, SkipCampaign, SkipCreative, SkipUpload
  <2> QED BY <2>1, MoveFits
<1>3. CASE MintLinks(a) \/ CampaignRefused(a)
  BY <1>3, MoveFits, ReturnFits DEF MintLinks, CampaignRefused
<1>4. CASE \E c \in Campaigns : CreateCampaign(a, c)
  BY <1>4, MoveFits, ReturnFits DEF CreateCampaign
<1>5. CASE \E c \in Creatives : CreateCreative(a, c)
  BY <1>1, <1>5, MoveFits, ReturnFits DEF CreateCreative
<1>6. CASE CreativeRefused(a) \/ UploadRefused(a) \/ FileRefused(a)
  BY <1>1, <1>6, ReturnFits DEF CreativeRefused, UploadRefused, FileRefused
<1>7. CASE BuildAudience(a)
  BY <1>1, <1>7, MoveFits, ReturnFits DEF BuildAudience
<1>8. CASE \E u \in Uploads : CreateUpload(a, u) \/ UploadUnanswered(a, u)
  BY <1>8, MoveFits DEF CreateUpload, UploadUnanswered, ResultsFit
<1>9. CASE PostFile(a)
  BY <1>1, <1>9, ReturnFits DEF PostFile
<1>10. CASE FlipMembers(a)
  BY <1>1, <1>10, MoveFits DEF FlipMembers
<1>11. CASE FinishActivation(a) \/ ActivationDies(a)
  BY <1>11, EndFits DEF FinishActivation, ActivationDies
<1> QED BY <1>2, <1>3, <1>4, <1>5, <1>6, <1>7, <1>8, <1>9, <1>10, <1>11 DEF CallStep

LEMMA ResultsAlwaysFit == Spec => []ResultsFit
<1>1. Init => ResultsFit
  BY DEF Init, ResultsFit
<1>2. ASSUME IInv, ResultsFit, [Next]_vars PROVE ResultsFit'
  <2>1. CASE \E a \in Activations : CallStep(a)
    BY <1>2, <2>1, CallStepFits
  <2>2. CASE \E e \in Editors : EditorStep(e)
    BY <1>2, <2>2 DEF EditorStep, ReadStepForAudience, ReplaceAudience, ResultsFit
  <2>3. CASE UNCHANGED vars
    BY <1>2, <2>3 DEF vars, ResultsFit
  <2> QED BY <1>2, <2>1, <2>2, <2>3 DEF Next
<1> QED BY <1>1, <1>2, Invariance, PTL DEF Spec

SequenceStep(a) == Sequence!OperatorActivates(a, 1) \/ Sequence!ActivationStep(a)

\* What the mapped state of a call is, and how it moves when the call does.
LEMMA CallsMove ==
  ASSUME IInv, NEW a \in Activations, NEW pc, NEW row, NEW csv, Goes(a, pc, row, csv)
  PROVE  /\ Calls[a] = Progress(activation[a].pc, activation[a].row.status)
         /\ Calls' = [Calls EXCEPT ![a] = Progress(pc, row.status)]
<1>1. activation \in [Activations -> [pc : PCs, row : RowOf(StepStatuses), csv : SUBSET Recipients]]
  BY DEF IInv, TypeOK
<1>2. activation'[a] = [pc |-> pc, row |-> row, csv |-> csv]
  BY <1>1 DEF Goes
<1>3. \A b \in Activations \ {a} : activation'[b] = activation[b]
  BY <1>1 DEF Goes
<1>4. ASSUME NEW b \in Activations
      PROVE  Calls'[b] = [Calls EXCEPT ![a] = Progress(pc, row.status)][b]
  <2>1. CASE b = a
    BY <1>2, <2>1 DEF Calls
  <2>2. CASE b # a
    BY <1>3, <2>2 DEF Calls
  <2> QED BY <2>1, <2>2
<1> HIDE DEF Progress
<1> QED BY <1>4 DEF Calls

\* A call that is over is mapped to one that is over.
LEMMA CallsEnd ==
  ASSUME IInv, NEW a \in Activations, activation' = [activation EXCEPT ![a] = Idle]
  PROVE  /\ Calls[a] = Progress(activation[a].pc, activation[a].row.status)
         /\ Calls' = [Calls EXCEPT ![a] = [pc |-> "idle", step |-> 0, result |-> "none"]]
<1>1. Goes(a, "idle", EmptyRow, {})
  BY DEF Goes
<1>2. Progress("idle", "pending") = [pc |-> "idle", step |-> 0, result |-> "none"]
  BY DEF Progress
<1>3. EmptyRow.status = "pending"
  OBVIOUS
<1>4. Calls' = [Calls EXCEPT ![a] = Progress("idle", EmptyRow.status)]
  BY <1>1, CallsMove
<1> QED BY <1>1, <1>2, <1>3, <1>4, CallsMove

\* A result is StepSequence's, from either of the two steps before it.
LEMMA ReturnsMapped ==
  ASSUME IInv, NEW a \in Activations,
         activation[a].pc \in {"links", "campaign", "creative", "audience", "upload", "file"},
         NEW status, NEW campaign, NEW creative, NEW upload,
         Returns(a, status, campaign, creative, upload)
  PROVE  Sequence!AdapterReturns(a, status)
<1>1. PICK pc : pc = IF status = "failed" THEN "finish" ELSE "flip"
  OBVIOUS
<1>2. Calls' = [Calls EXCEPT ![a] = Progress(pc, status)] /\ Calls[a].step = 1
  <2> DEFINE row == Row(status, campaign, creative, upload)
  <2>1. row.status = status
    OBVIOUS
  <2>2. Goes(a, pc, row, {})
    BY <1>1 DEF Returns
  <2> HIDE DEF row
  <2>3. Progress(activation[a].pc, activation[a].row.status).step = 1
    BY DEF Progress
  <2> QED BY <2>1, <2>2, <2>3, CallsMove
<1>3. Progress(pc, status) = [pc |-> pc, step |-> 1, result |-> status]
  BY <1>1 DEF Progress
<1>4. a \in DOMAIN Calls
  BY DEF Calls
<1> QED BY <1>1, <1>2, <1>3, <1>4 DEF Sequence!AdapterReturns

\* What a step leaves alone, as StepSequence sees it.
LEMMA MailedKept ==
  ASSUME UNCHANGED step, lob'.file = lob.file PROVE StepRows' = StepRows
BY DEF StepRows

LEMMA MembershipsKept == ASSUME UNCHANGED members PROVE Memberships' = Memberships
BY DEF Memberships

\* Before the audience: a step of the call is its failure, a result, or invisible.
LEMMA EarlyStepMapped ==
  ASSUME IInv, NEW a \in Activations,
         \/ ReadStep(a) \/ MintLinks(a)
         \/ (\E c \in Campaigns : CreateCampaign(a, c)) \/ CampaignRefused(a) \/ SkipCampaign(a)
         \/ (\E c \in Creatives : CreateCreative(a, c)) \/ CreativeRefused(a) \/ SkipCreative(a)
  PROVE  SequenceStep(a) \/ UNCHANGED Sequence!vars
<1>1. StepRows' = StepRows /\ Memberships' = Memberships
  <2>1. UNCHANGED <<step, members>> /\ lob'.file = lob.file
    BY DEF IInv, TypeOK, ReadStep, MintLinks, CreateCampaign, CampaignRefused, SkipCampaign,
       CreateCreative, CreativeRefused, SkipCreative
  <2> QED BY <2>1, MailedKept, MembershipsKept
<1>2. ASSUME Calls' = Calls PROVE UNCHANGED Sequence!vars
  BY <1>1, <1>2 DEF Sequence!vars, Nobody
<1>3. ASSUME NEW pc \in {"campaign", "creative", "audience"}, NEW row, NEW csv, Goes(a, pc, row, csv),
             activation[a].pc \in {"links", "campaign", "creative"}
      PROVE  Calls' = Calls
  <2>1. Progress(pc, row.status) = Progress(activation[a].pc, activation[a].row.status)
    BY <1>3 DEF Progress
  <2>2. Calls' = [Calls EXCEPT ![a] = Calls[a]]
    BY <1>3, <2>1, CallsMove
  <2> QED BY <2>2 DEF Calls
<1>4. ASSUME NEW status \in {"failed", "activating"}, NEW campaign, NEW creative, NEW upload,
             Returns(a, status, campaign, creative, upload),
             activation[a].pc \in {"links", "campaign", "creative"}
      PROVE  SequenceStep(a)
  <2>1. Sequence!AdapterReturns(a, status)
    BY <1>4, ReturnsMapped
  <2>2. Calls[a].pc = "adapter"
    BY <1>4 DEF Calls, Progress
  <2>3. Sequence!CollectAudience(a)
    BY <1>1, <2>1, <2>2 DEF Sequence!CollectAudience, Sequence!ActivationAt, Nobody
  <2> QED BY <2>3 DEF SequenceStep, Sequence!ActivationStep
<1>5. CASE ReadStep(a)
  <2>1. Goes(a, "links", step, {}) /\ activation[a].pc = "idle" /\ step.status \in {"pending", "activating"}
    BY <1>5 DEF ReadStep
  <2>2. Calls[a].pc = "idle"
    BY <2>1 DEF Calls, Progress
  <2>3. Calls' = [Calls EXCEPT ![a] = [pc |-> "adapter", step |-> 1, result |-> "none"]]
    BY <2>1, CallsMove DEF Progress
  <2>4. StepRows[1].status = step.status
    BY DEF StepRows
  <2>5. Sequence!OperatorActivates(a, 1)
    BY <1>1, <2>1, <2>2, <2>3, <2>4
       DEF Sequence!OperatorActivates, Sequence!ActivationAt, Sequence!Activatable, Nobody
  <2> QED BY <2>5 DEF SequenceStep
<1>6. CASE MintLinks(a) \/ CampaignRefused(a) \/ SkipCampaign(a) \/ CreativeRefused(a) \/ SkipCreative(a)
  BY <1>2, <1>3, <1>4, <1>6
     DEF MintLinks, CampaignRefused, SkipCampaign, CreativeRefused, SkipCreative
<1>7. CASE \E c \in Campaigns : CreateCampaign(a, c)
  BY <1>2, <1>3, <1>4, <1>7 DEF CreateCampaign
<1>8. CASE \E c \in Creatives : CreateCreative(a, c)
  BY <1>2, <1>3, <1>4, <1>8 DEF CreateCreative
<1> QED BY <1>5, <1>6, <1>7, <1>8

\* The audience is collected only when somebody in it is pending.
LEMMA BuildAudienceMapped ==
  ASSUME IInv, NEW a \in Activations, BuildAudience(a)
  PROVE  Sequence!CollectAudience(a)
<1> DEFINE rows == {r \in Recipients : members[r] = "pending"}
           row == activation[a].row
<1>1. StepRows' = StepRows /\ Memberships' = Memberships
  BY MailedKept, MembershipsKept DEF BuildAudience
<1>2. activation[a].pc = "audience" /\ Calls[a] = [pc |-> "adapter", step |-> 1, result |-> "none"]
  BY DEF BuildAudience, Calls, Progress
<1>3. CASE Returns(a, "activating", row.campaign, row.creative, NoUpload)
  <2>1. Sequence!AdapterReturns(a, "activating")
    BY <1>2, <1>3, ReturnsMapped
  <2> QED BY <1>1, <1>2, <2>1 DEF Sequence!CollectAudience, Sequence!ActivationAt, Nobody
<1>4. CASE rows # {} /\ Goes(a, "upload", row, rows)
  <2>1. PICK r \in Recipients : members[r] = "pending"
    BY <1>4
  <2>2. <<1, r>> \in Sequence!MembersOf(1) /\ Memberships[<<1, r>>] = "pending"
    BY <2>1 DEF Sequence!MembersOf, Members, Memberships
  <2>3. Calls' = [Calls EXCEPT ![a] = [pc |-> "submit", step |-> 1, result |-> "none"]]
    BY <1>4, CallsMove DEF Progress
  <2>4. Sequence!ActivationGoes(a, "submit")
    <3>1. [Calls[a] EXCEPT !.pc = "submit"] = [pc |-> "submit", step |-> 1, result |-> "none"]
      BY <1>2
    <3>2. a \in DOMAIN Calls
      BY DEF Calls
    <3> QED BY <2>3, <3>1, <3>2 DEF Sequence!ActivationGoes
  <2> QED BY <1>1, <1>2, <2>2, <2>4 DEF Sequence!CollectAudience, Sequence!ActivationAt, Nobody
<1> QED BY <1>3, <1>4 DEF BuildAudience

\* The audience is submitted: whether Lob has the file is what the result cannot tell.
LEMMA SubmitMapped ==
  ASSUME IInv, NEW a \in Activations,
         \/ \E u \in Uploads : CreateUpload(a, u) \/ UploadUnanswered(a, u)
         \/ UploadRefused(a) \/ SkipUpload(a) \/ PostFile(a) \/ FileRefused(a)
  PROVE  SequenceStep(a) \/ UNCHANGED Sequence!vars
<1> DEFINE row == activation[a].row
<1>0. /\ lob \in [campaigns : SUBSET Campaigns, creatives : SUBSET Creatives,
                  uploads : SUBSET Uploads, file : [Uploads -> SUBSET Recipients]]
      /\ activation[a].pc \in {"upload", "file"}
      /\ row \in RowOf(StepStatuses)
  BY DEF IInv, TypeOK, CreateUpload, UploadUnanswered, UploadRefused, SkipUpload, PostFile,
     FileRefused
<1>1. Memberships' = Memberships /\ Calls[a] = [pc |-> "submit", step |-> 1, result |-> "none"]
  <2>1. UNCHANGED members
    BY DEF CreateUpload, UploadUnanswered, UploadRefused, SkipUpload, PostFile, FileRefused
  <2>2. Calls[a] = Progress(activation[a].pc, activation[a].row.status)
    BY DEF Calls
  <2> QED BY <1>0, <2>1, <2>2, MembershipsKept DEF Progress
<1>2. ASSUME NEW status \in {"activating", "scheduled"}, NEW received \in BOOLEAN,
             NEW campaign, NEW creative, NEW upload,
             Returns(a, status, campaign, creative, upload),
             status = "scheduled" => received,
             StepRows' = [StepRows EXCEPT ![1].mailed = @ \/ received]
      PROVE  SequenceStep(a)
  <2>1. Sequence!AdapterReturns(a, status)
    BY <1>0, <1>2, ReturnsMapped
  <2>2. Sequence!AdapterReturns(a, "activating") \/ (received /\ Sequence!AdapterReturns(a, "scheduled"))
    BY <1>2, <2>1
  <2>3. StepRows' = [StepRows EXCEPT ![Calls[a].step].mailed = @ \/ received] /\ Calls[a].pc = "submit"
    BY <1>1, <1>2
  <2>4. Sequence!SubmitAudience(a)
    BY <1>1, <2>2, <2>3 DEF Sequence!SubmitAudience, Sequence!ActivationAt, Nobody
  <2> QED BY <2>4 DEF SequenceStep, Sequence!ActivationStep
<1>3. ASSUME UNCHANGED step, lob'.file = lob.file
      PROVE  StepRows' = [StepRows EXCEPT ![1].mailed = @ \/ FALSE]
  BY <1>3, MailedKept DEF StepRows
<1>4. CASE UploadRefused(a) \/ FileRefused(a)
  BY <1>2, <1>3, <1>4 DEF UploadRefused, FileRefused
<1>5. CASE PostFile(a)
  <2>1. activation[a].csv # {} /\ row.upload \in Uploads
    BY <1>0, <1>5 DEF IInv, CallsHaveWhatTheyNeed, PostFile
  <2>2. lob'.file = [lob.file EXCEPT ![row.upload] = activation[a].csv] /\ UNCHANGED step
    BY <1>0, <1>5 DEF PostFile
  <2>3. \E u \in Uploads : lob'.file[u] # {}
    BY <1>0, <2>1, <2>2
  <2>4. StepRows' = [StepRows EXCEPT ![1].mailed = @ \/ TRUE]
    BY <2>2, <2>3 DEF StepRows
  <2> QED BY <1>2, <1>5, <2>4 DEF PostFile
<1>6. CASE (\E u \in Uploads : CreateUpload(a, u) \/ UploadUnanswered(a, u)) \/ SkipUpload(a)
  <2>1. UNCHANGED step /\ lob'.file = lob.file
    BY <1>0, <1>6 DEF CreateUpload, UploadUnanswered, SkipUpload
  <2>2. Calls' = Calls
    <3>1. ASSUME NEW new, NEW csv, Goes(a, "file", new, csv) PROVE Calls' = Calls
      <4>1. Calls' = [Calls EXCEPT ![a] = Calls[a]]
        BY <1>1, <3>1, CallsMove DEF Progress
      <4> QED BY <4>1 DEF Calls
    <3>2. UNCHANGED activation => Calls' = Calls
      BY DEF Calls
    <3> QED BY <1>6, <3>1, <3>2 DEF CreateUpload, UploadUnanswered, SkipUpload
  <2> QED BY <1>1, <2>1, <2>2, MailedKept DEF Sequence!vars, Nobody
<1> QED BY <1>4, <1>5, <1>6

\* The flip, the write that ends the call, and its death.
LEMMA LateStepMapped ==
  ASSUME IInv, ResultsFit, NEW a \in Activations,
         FlipMembers(a) \/ FinishActivation(a) \/ ActivationDies(a)
  PROVE  SequenceStep(a)
<1> DEFINE row == activation[a].row
<1>0. Calls[a] = Progress(activation[a].pc, row.status) /\ a \in DOMAIN Calls
  BY DEF Calls
<1>1. CASE FlipMembers(a)
  <2>1. Calls[a] = [pc |-> "flip", step |-> 1, result |-> row.status]
    <3>1. activation[a].pc = "flip"
      BY <1>1 DEF FlipMembers
    <3>2. Progress("flip", row.status) = [pc |-> "flip", step |-> 1, result |-> row.status]
      BY DEF Progress
    <3> QED BY <1>0, <3>1, <3>2
  <2>2. Sequence!ActivationGoes(a, "finish")
    <3>1. Calls' = [Calls EXCEPT ![a] = [pc |-> "finish", step |-> 1, result |-> row.status]]
      <4>1. Calls' = [Calls EXCEPT ![a] = Progress("finish", row.status)]
        BY <1>1, CallsMove DEF FlipMembers
      <4>2. Progress("finish", row.status) = [pc |-> "finish", step |-> 1, result |-> row.status]
        BY DEF Progress
      <4> QED BY <4>1, <4>2
    <3>2. [Calls[a] EXCEPT !.pc = "finish"] = [pc |-> "finish", step |-> 1, result |-> row.status]
      BY <2>1
    <3> QED BY <1>0, <3>1, <3>2 DEF Sequence!ActivationGoes
  <2>3. Memberships' = [m \in Members |->
                          IF m \in Sequence!MembersOf(1) /\ Memberships[m] = "pending"
                          THEN "scheduled" ELSE Memberships[m]]
    <3>1. \A m \in Members : m \in Sequence!MembersOf(1) /\ m[2] \in Recipients
      BY DEF Sequence!MembersOf, Members
    <3>2. \A r \in Recipients :
            members'[r] = IF members[r] = "pending" THEN "scheduled" ELSE members[r]
      BY <1>1 DEF FlipMembers
    <3> QED BY <3>1, <3>2 DEF Memberships
  <2>4. StepRows' = StepRows
    BY <1>1, MailedKept DEF FlipMembers
  <2>5. Sequence!FlipMembers(a)
    BY <2>1, <2>2, <2>3, <2>4 DEF Sequence!FlipMembers, Sequence!ActivationAt, Nobody
  <2> QED BY <2>5 DEF SequenceStep, Sequence!ActivationStep
<1>2. CASE FinishActivation(a)
  <2>1. Calls[a] = [pc |-> "finish", step |-> 1, result |-> row.status]
    <3>1. activation[a].pc = "finish"
      BY <1>2 DEF FinishActivation
    <3>2. Progress("finish", row.status) = [pc |-> "finish", step |-> 1, result |-> row.status]
      BY DEF Progress
    <3> QED BY <1>0, <3>1, <3>2
  <2>2. Sequence!ActivationEnds(a)
    BY <1>2, CallsEnd DEF FinishActivation, Sequence!ActivationEnds, Sequence!IdleActivation,
                        Sequence!NoStep
  <2>3. row.campaign # NoCampaign <=> row.status # "failed"
    BY <1>2 DEF FinishActivation, ResultsFit
  <2>4. StepRows' = [StepRows EXCEPT ![1] = [status |-> row.status, linked |-> row.status # "failed",
                                             mailed |-> @.mailed]]
    <3>1. step' = row /\ lob' = lob
      BY <1>2 DEF FinishActivation
    <3> QED BY <2>3, <3>1 DEF StepRows
  <2>5. Memberships' = Memberships
    BY <1>2, MembershipsKept DEF FinishActivation
  <2>6. Sequence!FinishActivation(a)
    BY <2>1, <2>2, <2>4, <2>5 DEF Sequence!FinishActivation, Sequence!ActivationAt, Nobody
  <2> QED BY <2>6 DEF SequenceStep, Sequence!ActivationStep
<1>3. CASE ActivationDies(a)
  <2>1. Calls[a].pc # "idle"
    <3>1. activation[a].pc \in PCs \ {"idle"}
      BY <1>3 DEF ActivationDies, IInv, TypeOK
    <3>2. ASSUME NEW pc \in PCs \ {"idle"}, NEW status PROVE Progress(pc, status).pc # "idle"
      BY DEF Progress
    <3> HIDE DEF PCs
    <3> QED BY <1>0, <3>1, <3>2
  <2>2. Sequence!ActivationEnds(a)
    BY <1>3, CallsEnd DEF ActivationDies, Sequence!ActivationEnds, Sequence!IdleActivation,
                        Sequence!NoStep
  <2>3. StepRows' = StepRows /\ Memberships' = Memberships
    BY <1>3, MailedKept, MembershipsKept DEF ActivationDies
  <2>4. Sequence!ActivationDies(a)
    BY <2>1, <2>2, <2>3 DEF Sequence!ActivationDies, Sequence!ActivationAt, Nobody
  <2> QED BY <2>4 DEF SequenceStep, Sequence!ActivationStep
<1> QED BY <1>1, <1>2, <1>3

\* Every step of LobActivation is an activation's in StepSequence, an edit of the
\* audience, or invisible there.
LEMMA StepMapped ==
  ASSUME IInv, ResultsFit, Next
  PROVE  \/ \E a \in Activations : SequenceStep(a)
         \/ \E e \in Editors : ReplaceAudience(e)
         \/ UNCHANGED Sequence!vars
<1>1. ASSUME NEW a \in Activations, CallStep(a) PROVE SequenceStep(a) \/ UNCHANGED Sequence!vars
  <2>1. CASE BuildAudience(a)
    BY <2>1, BuildAudienceMapped DEF SequenceStep, Sequence!ActivationStep
  <2>2. CASE ~BuildAudience(a)
    BY <1>1, <2>2, EarlyStepMapped, SubmitMapped, LateStepMapped DEF CallStep
  <2> QED BY <2>1, <2>2
<1>2. ASSUME NEW e \in Editors, EditorStep(e) PROVE ReplaceAudience(e) \/ UNCHANGED Sequence!vars
  BY <1>2, MailedKept, MembershipsKept
     DEF EditorStep, ReadStepForAudience, Sequence!vars, Calls, Nobody
<1> QED BY <1>1, <1>2 DEF Next

\* The call-by-call activation implements the one StepSequence has, for any audience
\* and any number of activations and edits at once.
THEOREM ImplementsStepSequence == Spec => ActivatesAsStepSequence
<1> DEFINE Mapped == \/ \E a \in Activations :
                          Sequence!OperatorActivates(a, 1) \/ Sequence!ActivationStep(a)
                     \/ \E e \in Editors : ReplaceAudience(e)
<1>1. ASSUME IInv, ResultsFit, [Next]_vars PROVE [Mapped]_(Sequence!vars)
  <2>1. CASE Next
    BY <1>1, <2>1, StepMapped DEF SequenceStep
  <2>2. CASE UNCHANGED vars
    BY <2>2 DEF vars, Sequence!vars, StepRows, Memberships, Calls, Nobody
  <2> QED BY <1>1, <2>1, <2>2
<1>2. Spec => [][Mapped]_(Sequence!vars)
  BY <1>1, Invariance, ResultsAlwaysFit, PTL DEF Spec
<1> QED BY <1>2 DEF ActivatesAsStepSequence
=============================================================================
