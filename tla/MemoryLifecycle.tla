-------------------------- MODULE MemoryLifecycle --------------------------
(***************************************************************************)
(* The personal memory store of one user and the requests that change it   *)
(* (main.py), each handled to its commit before the next.  What a request  *)
(* makes of a memory is defined in MemoryRow.                              *)
(*                                                                         *)
(* Requests that only read, and requests refused before they touch the     *)
(* store (404, validation, a rename onto a taken canonical form), change   *)
(* nothing and are left out; the refusals of decision feedback are kept,   *)
(* because a client retries it.                                            *)
(***************************************************************************)
EXTENDS MemoryRow

CONSTANTS
    TeachVariants,      \* variant lists a client may teach
    TeachScopes,        \* scope modes a client may teach
    FeedbackScopes,     \* feedback_scope values a client may send
    Changes,            \* PATCH bodies a client may send
    AsrFlags,           \* whether ASR metadata may accompany a transcript
    BundleItems,        \* entries of the portable bundles a client may import
    MaxEdits,           \* bound: replacements in one correction
    MaxCandidates,      \* bound: candidates of one decision
    MaxVersions         \* bound: versions, hence writes, per memory

BundleItem == [event : ClientEvent, canonical : Form, variants : SUBSET Form,
               scope : Scope, state : State]

ASSUME LifecycleAssumption ==
    /\ TeachVariants \subseteq SUBSET Form
    /\ TeachScopes \subseteq Scope
    /\ FeedbackScopes \subseteq FeedbackScope
    /\ Changes \subseteq Change
    /\ AsrFlags \subseteq BOOLEAN
    /\ BundleItems \subseteq BundleItem
    /\ NoForm \notin Form

(* A candidate edit recorded in a decision trace: the memory, the span, its *)
(* normalized input form, whether an ASR route produced it, and the masked *)
(* context of the span.                                                    *)
Target == [memory : MemoryId, start : Start, source : Form, asr : BOOLEAN,
           context : Context]

Decision == [status : {"unused", "live", "deleted"},
             candidates : SUBSET Target, changes : SUBSET Target]

UnusedDecision == [status |-> "unused", candidates |-> {}, changes |-> {}]

Reply == [code : {0, 200, 422, 500}, explicit : SUBSET MemoryId]

VARIABLES
    memories,   \* the rows, by id
    decisions,  \* persisted decision traces, by id
    reply       \* of the last request: its status code and the memories whose
                \* state it set explicitly

vars == <<memories, decisions, reply>>

Ok(explicit) == [code |-> 200, explicit |-> explicit]
Refused(code) == [code |-> code, explicit |-> {}]

Live(m) == memories[m].status = "live"

(* Mistake: a new memory is created without looking for a stored one.      *)
Resolves_Unchecked(m, f) ==
    (Live(m) /\ memories[m].canonical = f) \/ memories[m].status = "unused"

(* m is the memory a handler works on for canonical form f: the stored one *)
(* or, when there is none, a new one.                                      *)
Resolves(m, f) ==
    \/ Live(m) /\ memories[m].canonical = f
    \/ /\ memories[m].status = "unused"
       /\ \A o \in MemoryId : Live(o) => memories[o].canonical # f

Room(m) == Len(memories[m].versions) < MaxVersions

Init ==
    /\ memories = [m \in MemoryId |-> UnusedRow]
    /\ decisions = [d \in DecisionId |-> UnusedDecision]
    /\ reply = Refused(0)

-----------------------------------------------------------------------------
(* POST /observations/explicit                                             *)
ExplicitTeach(m, form, scope, variants, event, context) ==
    /\ Resolves(m, form)
    /\ Room(m)
    /\ memories' = [memories EXCEPT ![m] = Teach(@, form, scope, variants, event, context)]
    /\ reply' = Ok({m})
    /\ UNCHANGED decisions

(* POST /observations/correction: target[m], source[m] and context[m] are  *)
(* the forms and the masked context of the first replacement whose target  *)
(* resolves to m.  A later one to the same target finds the event observed *)
(* and is skipped.                                                         *)
CorrectionObservation(hit, target, source, event, context, confirm) ==
    /\ \A m \in hit : /\ Resolves(m, target[m])
                      /\ source[m] # target[m]
                      /\ Room(m)
    /\ \A m, o \in hit : m # o => target[m] # target[o]
    /\ memories' = [m \in MemoryId |->
          IF m \in hit
          THEN Correct(memories[m], target[m], source[m], event, context[m], confirm)
          ELSE memories[m]]
    /\ reply' = Ok(IF confirm THEN hit ELSE {})
    /\ UNCHANGED decisions

(* POST /infer: scoring may retain any candidates of the memories that are *)
(* not suppressed; only a confirmed memory's candidate is unblocked, and   *)
(* the winners do not overlap (Arbitration).                               *)
Infer(d, candidates, changes) ==
    /\ decisions[d].status = "unused"
    /\ \A t \in candidates : /\ Live(t.memory)
                             /\ memories[t.memory].state # "suppressed"
                             /\ t.source # memories[t.memory].canonical
    /\ \A t, u \in candidates :
          t # u => <<t.memory, t.start, t.source>> # <<u.memory, u.start, u.source>>
    /\ changes \subseteq {t \in candidates : memories[t.memory].state = "confirmed"}
    /\ \A t, u \in changes : t # u => t.start # u.start
    /\ decisions' = [decisions EXCEPT ![d] =
          [status |-> "live", candidates |-> candidates, changes |-> changes]]
    /\ reply' = Ok({})
    /\ UNCHANGED memories

-----------------------------------------------------------------------------
(* What feedback on decision d may be about: one visible candidate, or one *)
(* applied change of every memory that was applied (the code takes the     *)
(* best scored candidate and the first change; either is left open here).  *)
Selected(d, sel) ==
    \/ \E t \in decisions[d].candidates : sel = {t}
    \/ /\ sel # {}
       /\ sel \subseteq decisions[d].changes
       /\ \A t, u \in sel : t # u => t.memory # u.memory
       /\ \A t \in decisions[d].changes : \E u \in sel : u.memory = t.memory

EventOf(d, t) == FeedbackId(d, t.memory, t.start)

(* Memories deleted since the decision are skipped.                        *)
Reached(sel) == {t \in sel : Live(t.memory)}

Fresh(d, sel) == {t \in Reached(sel) : ~Observed(memories[t.memory], EventOf(d, t))}

Conflicting(d, sel, accepted, scope) ==
    \E t \in Reached(sel) :
        FeedbackConflict(memories[t.memory], EventOf(d, t), accepted, scope)

OutcomeClash(d, sel) ==
    \E t \in Fresh(d, sel) : t.asr /\ OutcomeExists(memories[t.memory], d, t.source)

(* POST /decisions/{trace_id}/feedback                                     *)
DecisionFeedback(d, sel, accepted, scope, suppress) ==
    LET fresh == Fresh(d, sel)
        About(m) == CHOOSE t \in fresh : t.memory = m
        hit == {t.memory : t \in fresh}
    IN  /\ decisions[d].status = "live"
        /\ Selected(d, sel)
        /\ ~Conflicting(d, sel, accepted, scope)
        /\ ~OutcomeClash(d, sel)
        /\ \A t \in fresh : Room(t.memory)
        /\ memories' = [m \in MemoryId |->
              IF m \in hit
              THEN Feedback(memories[m], d, About(m), accepted, scope, suppress,
                            About(m).context)
              ELSE memories[m]]
        /\ reply' = Ok(IF suppress /\ ~accepted THEN hit ELSE {})
        /\ UNCHANGED decisions

(* A stored answer contradicts this one: ValueError, nothing is committed. *)
FeedbackRefused(d, sel, accepted, scope) ==
    /\ decisions[d].status = "live"
    /\ Selected(d, sel)
    /\ Conflicting(d, sel, accepted, scope)
    /\ reply' = Refused(422)
    /\ UNCHANGED <<memories, decisions>>

(* The AsrOutcome insert violates its unique key: the session is rolled    *)
(* back and the request fails.                                             *)
FeedbackFailed(d, sel) ==
    /\ decisions[d].status = "live"
    /\ Selected(d, sel)
    /\ OutcomeClash(d, sel)
    /\ reply' = Refused(500)
    /\ UNCHANGED <<memories, decisions>>

-----------------------------------------------------------------------------
(* PATCH /memories/{memory_id}                                             *)
UpdateMemory(m, change) ==
    /\ Live(m)
    /\ Room(m)
    /\ \A o \in MemoryId \ {m} : Live(o) => memories[o].canonical # change.canonical
    /\ memories' = [memories EXCEPT ![m] = Patch(@, change)]
    /\ reply' = Ok(IF change.state = Keep THEN {} ELSE {m})
    /\ UNCHANGED decisions

(* POST /memories/{memory_id}/merge                                        *)
MergeMemory(target, source) ==
    /\ target # source
    /\ Live(target) /\ Live(source)
    /\ Room(target)
    /\ memories' = [memories EXCEPT
          ![target] = Merge(@, memories[source], source),
          ![source] = DeletedRow]
    /\ reply' = Ok({})
    /\ UNCHANGED decisions

(* DELETE /memories/{memory_id}                                            *)
DeleteMemory(m) ==
    /\ Live(m)
    /\ memories' = [memories EXCEPT ![m] = DeletedRow]
    /\ reply' = Ok({})
    /\ UNCHANGED decisions

(* delete_user_state: DELETE /users/{user_id}, POST /reset, and the first  *)
(* step of an import in replace mode.                                      *)
DeleteUserState ==
    /\ memories' = [m \in MemoryId |-> IF Live(m) THEN DeletedRow ELSE memories[m]]
    /\ decisions' = [d \in DecisionId |->
          IF decisions[d].status = "live"
          THEN [UnusedDecision EXCEPT !.status = "deleted"] ELSE decisions[d]]
    /\ reply' = Ok({})

(* One entry of POST /users/{user_id}/import: taught, then given the state *)
(* of the bundle under a second version.  An entry whose import event is   *)
(* known to any memory is skipped.                                         *)
ImportItem(m, item) ==
    LET taught == Teach(memories[m], item.canonical, item.scope, item.variants,
                        item.event, NoContext)
    IN  /\ \A o \in MemoryId : ~Observed(memories[o], ClientId(item.event))
        /\ Resolves(m, item.canonical)
        /\ Len(memories[m].versions) + 1 < MaxVersions
        /\ memories' = [memories EXCEPT ![m] = Recorded([taught EXCEPT !.state = item.state])]
        /\ reply' = Ok({m})
        /\ UNCHANGED decisions

-----------------------------------------------------------------------------
EventChoice == ClientEvent \cup {NoEvent}

Next ==
    \/ \E m \in MemoryId, form \in Form, scope \in TeachScopes, variants \in TeachVariants,
          event \in EventChoice, context \in Context \cup {NoContext} :
          ExplicitTeach(m, form, scope, variants, event, context)
    \/ \E hit \in SUBSET MemoryId \ {{}} :
          /\ Cardinality(hit) <= MaxEdits
          /\ \E target, source \in [hit -> Form], context \in [hit -> Context],
                event \in EventChoice, confirm \in BOOLEAN :
                CorrectionObservation(hit, target, source, event, context, confirm)
    \/ \E d \in DecisionId, candidates \in SUBSET [memory : MemoryId, start : Start,
          source : Form, asr : AsrFlags, context : Context] :
          /\ Cardinality(candidates) <= MaxCandidates
          /\ \E changes \in SUBSET candidates : Infer(d, candidates, changes)
    \/ \E d \in DecisionId : \E sel \in SUBSET decisions[d].candidates :
          \E accepted, suppress \in BOOLEAN, scope \in FeedbackScopes :
             DecisionFeedback(d, sel, accepted, scope, suppress)
    \/ \E d \in DecisionId : \E sel \in SUBSET decisions[d].candidates :
          \E accepted \in BOOLEAN, scope \in FeedbackScopes :
             FeedbackRefused(d, sel, accepted, scope)
    \/ \E d \in DecisionId : \E sel \in SUBSET decisions[d].candidates : FeedbackFailed(d, sel)
    \/ \E m \in MemoryId, change \in Changes : UpdateMemory(m, change)
    \/ \E target, source \in MemoryId : MergeMemory(target, source)
    \/ \E m \in MemoryId : DeleteMemory(m)
    \/ DeleteUserState
    \/ \E m \in MemoryId, item \in BundleItems : ImportItem(m, item)

Spec == Init /\ [][Next]_vars

-----------------------------------------------------------------------------
TypeOK ==
    /\ memories \in [MemoryId -> Row]
    /\ decisions \in [DecisionId -> Decision]
    /\ reply \in Reply

(* What the store promises of its evidence.                                *)
Ledger == INSTANCE EvidenceLedger WITH
    status <- [m \in MemoryId |-> memories[m].status],
    evidence <- [m \in MemoryId |-> Events(memories[m])],
    history <- [m \in MemoryId |-> memories[m].versions]

(* The store implements the ledger: evidence and history only grow,        *)
(* together, and "client event IDs are unique per user and memory" however *)
(* requests are repeated, merged or imported.                              *)
LedgerKept == Ledger!Spec

(* No two stored memories share a canonical form, though teaching,         *)
(* corrections, imports and renames all create or change them.             *)
CanonicalsUnique ==
    \A m, o \in MemoryId :
        Live(m) /\ Live(o) /\ memories[m].canonical = memories[o].canonical => m = o

(* The history of a stored memory is complete: the latest version shows    *)
(* its present state and was computed from all its present evidence.       *)
HistoryComplete ==
    \A m \in MemoryId :
        Live(m) =>
            LET versions == memories[m].versions IN
            /\ versions # <<>>
            /\ versions[Len(versions)] = [state |-> memories[m].state,
                                          upTo |-> Len(memories[m].observations)]

(* ASR outcomes stay tied to the feedback they came from, through merges   *)
(* that move both: each names a feedback observation of its own memory     *)
(* with the same verdict, and no two name the same one.                    *)
OutcomesAttributed ==
    \A m \in MemoryId : \A o \in memories[m].outcomes :
        /\ o.observation \in DOMAIN memories[m].observations
        /\ LET obs == memories[m].observations[o.observation] IN
           obs.kind = "intervention_feedback" /\ obs.accepted = o.accepted
        /\ \A p \in memories[m].outcomes : p.observation = o.observation => p = o

(* "Suppression is never automatic" and stays in force: a memory enters or *)
(* leaves the suppressed state only by a request that set its state.       *)
SuppressionExplicit ==
    [][\A m \in MemoryId :
        /\ Live(m) /\ Live(m)'
        /\ memories[m].state # memories'[m].state
        /\ "suppressed" \in {memories[m].state, memories'[m].state}
        => m \in reply'.explicit]_vars

(* "Passive promotion requires all three gates": a candidate that nobody   *)
(* confirmed explicitly becomes confirmed only on enough positive events   *)
(* of enough distinct contexts, its own or merged in.                      *)
PromotionEarned ==
    [][\A m \in MemoryId :
        /\ Live(m) /\ Live(m)' /\ m \notin reply'.explicit
        /\ memories[m].state = "candidate" /\ memories'[m].state = "confirmed"
        => LET obs == memories'[m].observations
               positive == {i \in DOMAIN obs : obs[i].accepted /\ obs[i].context # NoContext}
           IN /\ Cardinality(Positive(obs)) >= MinPositiveEvents
              /\ Cardinality({obs[i].context : i \in positive}) >= MinDistinctContexts
              /\ PosteriorAtLeast(obs, AutoConfirm)]_vars

(* "A confirmed memory is demoted when contradictory evidence moves its    *)
(* posterior below 0.60": no step carries a confirmed memory across the    *)
(* threshold and leaves it confirmed.                                      *)
DemotionFollowsEvidence ==
    [][\A m \in MemoryId :
        /\ Live(m) /\ Live(m)'
        /\ memories[m].state = "confirmed"
        /\ ~Contradicted(memories[m].observations)
        /\ Contradicted(memories'[m].observations)
        => memories'[m].state # "confirmed"]_vars

(* A context-scoped rejection never costs a memory its confirmation: its   *)
(* negative weight "is not added to the beta posterior".                   *)
ContextRejectionHarmless ==
    [][\A m \in MemoryId :
        LET before == memories[m].observations
            after == memories'[m].observations
        IN /\ Live(m) /\ Live(m)' /\ Len(after) = Len(before) + 1
           /\ after[Len(after)].reason = "USER_REJECTED_CONTEXT"
           /\ memories[m].state = "confirmed" /\ memories'[m].state = "candidate"
           => Contradicted(before)]_vars

(* "Each accepted or rejected target creates an ordinary observation plus  *)
(* an immutable ASR outcome": feedback on a visible target never fails.    *)
FeedbackNeverFails == reply.code # 500
=============================================================================
