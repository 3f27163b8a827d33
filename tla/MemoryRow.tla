----------------------------- MODULE MemoryRow -----------------------------
(***************************************************************************)
(* One memory and everything its row owns by cascade (models.py: Memory,   *)
(* MemoryVariant, Observation, AsrOutcome, MemoryVersion), and what each   *)
(* write operation of engine.py and main.py makes of it.                   *)
(*                                                                         *)
(* Context and embedding evidence hangs off the observations and is read   *)
(* only by scoring; it is part of the observation here.  An observation is *)
(* identified by its position in the row's sequence.                       *)
(***************************************************************************)
EXTENDS Trust

CONSTANTS
    MemoryId, DecisionId,   \* uuids
    Form,                   \* normalized canonical and surface forms
    NoForm,
    ClientEvent,            \* event ids chosen by clients
    NoEvent,                \* a NULL source_event_id
    Context,                \* masked-context fingerprints
    Start                   \* span starts inside a transcript

Scope == {"global", "contextual"}

FeedbackScope == {"legacy", "auto", "context", "identity"}

Reason == {"ACCEPTED", "USER_CONFIRMED", "USER_REJECTED", "USER_REJECTED_CONTEXT",
           "USER_REJECTED_IDENTITY", "USER_SET", "USER_OVERRIDE"}

(* The source_event_id of an observation: chosen by the client, derived    *)
(* from a decision, generated (a uuid, here the position it is stored at), *)
(* or given to the copy a merge makes.                                     *)
ClientId(e) == <<"client", e>>
FeedbackId(d, m, start) == <<"decision", d, m, start>>
ServerId(n) == <<"server", n>>
MergeId(m, n) == <<"merge", m, n>>

EventId ==
    ({"client"} \X ClientEvent)
    \cup ({"decision"} \X DecisionId \X MemoryId \X Start)
    \cup ({"server"} \X Nat)
    \cup ({"merge"} \X MemoryId \X Nat)
    \cup {NoEvent}

Observation ==
    [event : EventId, kind : Kind, accepted : BOOLEAN, reason : Reason,
     context : Context \cup {NoContext}]

(* An immutable version: the lifecycle state and the observations its      *)
(* snapshot's trust profile was computed from.                             *)
Snapshot == [state : State, upTo : Nat]

Outcome == [decision : DecisionId, source : Form, observation : Nat, accepted : BOOLEAN]

Row ==
    [status : {"unused", "live", "deleted"}, canonical : Form \cup {NoForm},
     state : State, scope : Scope, variants : SUBSET Form,
     observations : Seq(Observation), versions : Seq(Snapshot),
     outcomes : SUBSET Outcome]

(* A memory id that has not been allocated, and one whose row is gone.     *)
UnusedRow ==
    [status |-> "unused", canonical |-> NoForm, state |-> "candidate",
     scope |-> "global", variants |-> {}, observations |-> <<>>,
     versions |-> <<>>, outcomes |-> {}]

DeletedRow == [UnusedRow EXCEPT !.status = "deleted"]

(* The source_event_id column of a memory's observations.                  *)
Events(row) == [i \in DOMAIN row.observations |-> row.observations[i].event]

-----------------------------------------------------------------------------
(* Mistake: only the latest observation is looked at.                      *)
Observed_Latest(row, event) ==
    /\ row.observations # <<>>
    /\ row.observations[Len(row.observations)].event = event

(* The lookup by (user, memory, source_event_id) that precedes an insert.  *)
Observed(row, event) == \E i \in DOMAIN row.observations : row.observations[i].event = event

(* The event id given, or a generated one.                                 *)
EventOr(row, event) ==
    IF event = NoEvent THEN ServerId(Len(row.observations) + 1) ELSE ClientId(event)

(* record_memory_version                                                   *)
Recorded(row) ==
    [row EXCEPT !.versions =
        Append(@, [state |-> row.state, upTo |-> Len(row.observations)])]

(* teach_explicit, for a new memory and for one that exists.               *)
Teach(row, form, scope, variants, event, context) ==
    IF event # NoEvent /\ Observed(row, ClientId(event)) THEN row
    ELSE Recorded(
        [row EXCEPT
            !.status = "live", !.canonical = form, !.state = "confirmed",
            !.scope = scope, !.variants = @ \cup variants,
            !.observations = Append(@,
                [event |-> EventOr(row, event), kind |-> "explicit_teach",
                 accepted |-> TRUE, reason |-> "ACCEPTED", context |-> context])])

(* One replacement of observe_correction.                                  *)
Correct(row, form, source, event, context, confirm) ==
    IF event # NoEvent /\ Observed(row, ClientId(event)) THEN row
    ELSE LET obs == Append(row.observations,
                      [event |-> EventOr(row, event), kind |-> "accepted_correction",
                       accepted |-> TRUE, reason |-> "ACCEPTED", context |-> context])
             state == IF confirm THEN "confirmed"
                      ELSE IF row.status = "unused" THEN "candidate"
                      ELSE row.state
         IN Recorded(
              [row EXCEPT
                 !.status = "live", !.canonical = form,
                 !.state = Reconcile(state, obs, confirm),
                 !.scope = IF row.status = "unused" THEN "contextual" ELSE @,
                 !.variants = @ \cup {source},
                 !.observations = obs])

-----------------------------------------------------------------------------
(* Mistake: the requested scope is stored without being resolved.          *)
RejectionReason_Unresolved(row, scope) ==
    IF scope = "legacy" THEN "USER_REJECTED"
    ELSE IF scope = "auto" THEN "USER_REJECTED_AUTO"
    ELSE IF scope = "context" THEN "USER_REJECTED_CONTEXT"
    ELSE "USER_REJECTED_IDENTITY"

(* The reason code of a rejection, by the requested scope and, for "auto", *)
(* the scope_mode the memory has when the feedback arrives.                *)
RejectionReason(row, scope) ==
    IF scope = "legacy" THEN "USER_REJECTED"
    ELSE IF scope = "context" \/ (scope = "auto" /\ row.scope = "contextual")
         THEN "USER_REJECTED_CONTEXT"
    ELSE "USER_REJECTED_IDENTITY"

FeedbackReason(row, accepted, scope) ==
    IF accepted THEN "USER_CONFIRMED" ELSE RejectionReason(row, scope)

(* Feedback already stored under the event that the new one contradicts.   *)
FeedbackConflict(row, event, accepted, scope) ==
    \E i \in DOMAIN row.observations :
        LET obs == row.observations[i] IN
        /\ obs.event = event
        /\ \/ obs.accepted # accepted
           \/ /\ obs.reason # FeedbackReason(row, accepted, scope)
              /\ ~(~accepted /\ scope = "auto" /\ obs.reason = "USER_REJECTED")

(* uq_asr_outcome_decision_memory_source                                   *)
OutcomeExists(row, decision, source) ==
    \E o \in row.outcomes : o.decision = decision /\ o.source = source

(* apply_decision_feedback for one memory whose event is new; target is    *)
(* the trace entry the feedback is about.                                  *)
Feedback(row, decision, target, accepted, scope, suppress, context) ==
    LET obs == Append(row.observations,
                 [event |-> FeedbackId(decision, target.memory, target.start),
                  kind |-> "intervention_feedback", accepted |-> accepted,
                  reason |-> FeedbackReason(row, accepted, scope),
                  context |-> context])
        outcome == [decision |-> decision, source |-> target.source,
                    observation |-> Len(obs), accepted |-> accepted]
    IN Recorded(
         [row EXCEPT
            !.state = IF suppress /\ ~accepted THEN "suppressed"
                      ELSE Reconcile(@, obs, FALSE),
            !.observations = obs,
            !.outcomes = IF target.asr THEN @ \cup {outcome} ELSE @])

-----------------------------------------------------------------------------
(* PATCH /memories/{id}: a change names the new canonical form, state and  *)
(* scope, or "keep", and says whether it replaces manual contexts.         *)
Keep == "keep"

Change == [canonical : Form \cup {NoForm}, state : State \cup {Keep},
           scope : Scope \cup {Keep}, manual : BOOLEAN]

Override(row, state) ==
    IF state = Keep THEN row
    ELSE [row EXCEPT
            !.state = state,
            !.observations = Append(@,
                [event |-> ServerId(Len(row.observations) + 1),
                 kind |-> IF state = "confirmed" THEN "state_override_confirmed"
                          ELSE "state_override",
                 accepted |-> state = "confirmed", reason |-> "USER_SET",
                 context |-> NoContext])]

ManualContext(row, manual) ==
    IF ~manual THEN row
    ELSE [row EXCEPT
            !.observations = Append(@,
                [event |-> NoEvent, kind |-> "manual_context_update",
                 accepted |-> TRUE, reason |-> "USER_OVERRIDE", context |-> NoContext])]

Rescope(row, scope) == [row EXCEPT !.scope = IF scope = Keep THEN @ ELSE scope]

Rename(row, form) == [row EXCEPT !.canonical = IF form = NoForm THEN @ ELSE form]

(* Mistake: the version is recorded before the manual contexts.            *)
Patch_RecordedEarly(row, change) ==
    ManualContext(
        Recorded(Rescope(Override(Rename(row, change.canonical), change.state), change.scope)),
        change.manual)

Patch(row, change) ==
    Recorded(
        ManualContext(
            Rescope(Override(Rename(row, change.canonical), change.state), change.scope),
            change.manual))

(* merge_memories: the copies it makes of the observations of source,      *)
(* whose id is m, and the outcomes it attaches to the copies at offset n.  *)
Copies(source, m) ==
    [i \in 1 .. Len(source.observations) |->
        [source.observations[i] EXCEPT !.event = MergeId(m, i)]]

(* Mistake: the outcomes keep pointing at the observations of the source.  *)
MovedOutcomes_Unmapped(target, source, n) ==
    {o \in source.outcomes : ~OutcomeExists(target, o.decision, o.source)}

MovedOutcomes(target, source, n) ==
    {[o EXCEPT !.observation = n + @] :
        o \in {s \in source.outcomes : ~OutcomeExists(target, s.decision, s.source)}}

(* What the target row becomes.  Its state is not reconciled.              *)
Merge(target, source, m) ==
    Recorded(
        [target EXCEPT
            !.variants = @ \cup (({source.canonical} \cup source.variants)
                                   \ {target.canonical}),
            !.observations = @ \o Copies(source, m),
            !.outcomes = @ \cup MovedOutcomes(target, source, Len(target.observations))])
=============================================================================
