---------------------- MODULE LobActivationRefinement ----------------------
(***************************************************************************)
(* LobActivation shows call by call what StepSequence takes as two steps,  *)
(* collecting the audience and submitting it.  Seen as the only step of a  *)
(* StepSequence whose operators are the activations, nobody else at work,  *)
(* it does what StepSequence's activations do.                             *)
(***************************************************************************)
EXTENDS LobActivation

Members == {1} \X Recipients

\* Lob reports on pieces once an upload of the step has recipients in its file.
StepRows ==
  [s \in {1} |-> [status |-> step.status, linked |-> step.campaign # NoCampaign,
                  mailed |-> \E u \in Uploads : lob.file[u] # {}]]

\* A recipient outside the audience is like a membership that is over.
Memberships ==
  [m \in Members |-> IF members[m[2]] = "absent" THEN "cancelled" ELSE members[m[2]]]

\* Until the result is known, StepSequence's activation has none.
Progress(pc, status) ==
  CASE pc = "idle" -> [pc |-> "idle", step |-> 0, result |-> "none"]
    [] pc \in {"links", "campaign", "creative", "audience"} ->
         [pc |-> "adapter", step |-> 1, result |-> "none"]
    [] pc \in {"upload", "file"} -> [pc |-> "submit", step |-> 1, result |-> "none"]
    [] OTHER -> [pc |-> pc, step |-> 1, result |-> status]
Calls == [a \in Activations |-> Progress(activation[a].pc, activation[a].row.status)]

Nobody == [x \in {} |-> x]

Sequence == INSTANCE StepSequence
  WITH StepCount <- 1, Members <- Members, Jobs <- {}, NoJob <- "no job", Hooks <- {},
       Operators <- Activations, ByHand <- {1}, Commands <- {}, Cancels <- {},
       CampaignEvents <- {},
       campaign <- "draft", steps <- StepRows, members <- Memberships,
       jobs <- Nobody, calls <- Nobody, hook <- Nobody, activation <- Calls,
       control <- [pc |-> "idle", to |-> "draft", todo |-> {}, job |-> "no job"],
       canceller <- [pc |-> "idle", step |-> 0]

\* The calls of activate_step and its adapter, with their failures, lost answers,
\* deaths and overlaps, do to the step, its members and each other what StepSequence
\* says of an activation; all else that moves is the audience, replaced by an editor.
ActivatesAsStepSequence ==
  [][\/ \E a \in Activations : Sequence!OperatorActivates(a, 1) \/ Sequence!ActivationStep(a)
     \/ \E e \in Editors : ReplaceAudience(e)]_(Sequence!vars)
=============================================================================
