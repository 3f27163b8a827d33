------------------------ MODULE MemoryLifecycleProofs ------------------------
(***************************************************************************)
(* Theorems about MemoryLifecycle, for every number of memories, decisions *)
(* and forms and every trust policy that meets TrustAssumption.            *)
(*                                                                         *)
(* Every action makes of each row nothing, a write (MemoryRowProofs) or a  *)
(* deleted row: StepShape says so once, action by action, and the          *)
(* inductive invariant and the ledger follow from that shape alone.        *)
(***************************************************************************)
EXTENDS MemoryLifecycle, MemoryRowProofs

(* Rows that are not stored are blank, and stored ones have a form.        *)
RowsInv ==
    \A m \in MemoryId :
        /\ memories[m].status = "unused" => memories[m] = UnusedRow
        /\ memories[m].status = "deleted" => memories[m] = DeletedRow
        /\ Live(m) => memories[m].canonical \in Form

(* Events are unique because generated ones sit where they were generated  *)
(* and only deleted memories have been absorbed, each of them once.        *)
EventsInv ==
    \A m \in MemoryId :
        /\ Distinct(memories[m].observations)
        /\ Placed(memories[m].observations)
        /\ \A s \in MemoryId :
              Absorbed(memories[m].observations, s) => memories[s].status = "deleted"

IInv ==
    /\ TypeOK /\ RowsInv /\ EventsInv
    /\ HistoryComplete /\ CanonicalsUnique /\ OutcomesAttributed

(* What one step makes of the row of m.                                    *)
WriteStep(m) ==
    /\ memories[m].status # "deleted"
    /\ memories'[m] \in Row
    /\ memories'[m].canonical \in Form
    /\ Attributed(memories'[m])
    /\ \E S \in SUBSET MemoryId :
          /\ Writes(memories'[m], memories[m], S)
          /\ \A s \in S : memories'[s].status = "deleted"

EraseStep(m) == Live(m) /\ memories'[m] = DeletedRow

RowStep(m) == memories'[m] = memories[m] \/ WriteStep(m) \/ EraseStep(m)

(* The state of a memory moves only where a request set it, or to where    *)
(* reconciliation with the new evidence takes it.  The last observation    *)
(* tells rejections in context from the evidence of explicit requests.     *)
Moved(m) ==
    LET obs == memories'[m].observations
        last == obs[Len(obs)]
    IN  \/ /\ m \in reply'.explicit
           /\ memories'[m].state = "candidate" => last.reason # "USER_REJECTED_CONTEXT"
        \/ /\ memories'[m].state = Reconcile(memories[m].state, obs, FALSE)
           /\ last.reason = "USER_REJECTED_CONTEXT" => ~last.accepted

StateStep ==
    \A m \in MemoryId :
        Live(m) /\ Live(m)' /\ memories[m].state # memories'[m].state => Moved(m)

Shape ==
    /\ memories' = [m \in MemoryId |-> memories'[m]]
    /\ \A m \in MemoryId : RowStep(m)
    /\ decisions' \in [DecisionId -> Decision]
    /\ reply' \in Reply

-----------------------------------------------------------------------------
LEMMA ReplyType ==
    ASSUME NEW explicit \in SUBSET MemoryId, NEW code \in {0, 200, 422, 500}
    PROVE  Ok(explicit) \in Reply /\ Refused(code) \in Reply
  BY DEF Ok, Refused, Reply

(* An observation known to an unused row cannot be: it has none.           *)
LEMMA UnusedObservesNothing ==
    ASSUME NEW row, NEW event, row = UnusedRow
    PROVE  ~Observed(row, event)
  BY DEF UnusedRow, Observed

LEMMA RowsAttributed ==
    ASSUME OutcomesAttributed, NEW m \in MemoryId
    PROVE  Attributed(memories[m])
  BY DEF OutcomesAttributed, Attributed

(* A write that leaves the outcomes alone.                                 *)
LEMMA WriteAttributed ==
    ASSUME IInv, NEW m \in MemoryId, NEW new \in Row, Writes(new, memories[m], {}),
           new.outcomes = memories[m].outcomes
    PROVE  Attributed(new)
  <1>1. memories[m] \in Row /\ Attributed(memories[m])
    BY RowsAttributed DEF IInv, TypeOK
  <1>2. QED
    BY <1>1, AttributedStays DEF Writes

LEMMA TeachShape ==
    ASSUME IInv, LifecycleAssumption, NEW m \in MemoryId, NEW form \in Form,
           NEW scope \in TeachScopes, NEW variants \in TeachVariants,
           NEW event \in EventChoice, NEW context \in Context \cup {NoContext},
           ExplicitTeach(m, form, scope, variants, event, context)
    PROVE  Shape
  <1> DEFINE new == Teach(memories[m], form, scope, variants, event, context)
  <1>1. /\ memories \in [MemoryId -> Row]
        /\ decisions \in [DecisionId -> Decision]
        /\ memories[m] \in Row
        /\ memories[m].status # "deleted"
        /\ memories' = [memories EXCEPT ![m] = new]
        /\ decisions' = decisions
        /\ reply' = Ok({m})
    BY DEF IInv, TypeOK, ExplicitTeach, Resolves, Live
  <1>2. /\ scope \in Scope /\ variants \in SUBSET Form
        /\ event \in ClientEvent \cup {NoEvent}
    BY DEF LifecycleAssumption, EventChoice
  <1>3. CASE event # NoEvent /\ Observed(memories[m], ClientId(event))
    <2>1. new = memories[m]
      BY <1>3 DEF Teach
    <2>2. memories' = memories
      BY <1>1, <2>1
    <2>3. QED
      BY <1>1, <2>2, ReplyType DEF Shape, RowStep
  <1>4. CASE ~(event # NoEvent /\ Observed(memories[m], ClientId(event)))
    <2>1. Writes(new, memories[m], {})
      BY <1>1, <1>2, <1>4, TeachWrites
    <2>2. new \in Row
      BY <1>1, <1>2, TeachType
    <2>3. new.canonical = form
      BY <1>1, <1>4 DEF Teach, Recorded, Row
    <2>4. new.outcomes = memories[m].outcomes
      BY <1>1, OutcomesUnchanged
    <2> HIDE DEF new
    <2>5. Attributed(new)
      BY <2>1, <2>2, <2>4, WriteAttributed
    <2>6. WriteStep(m)
      BY <1>1, <2>1, <2>2, <2>3, <2>5 DEF WriteStep
    <2>7. ASSUME NEW o \in MemoryId
          PROVE  RowStep(o)
      BY <1>1, <2>6 DEF RowStep
    <2>8. memories' = [o \in MemoryId |-> memories'[o]]
      BY <1>1
    <2>9. reply' \in Reply
      BY <1>1, ReplyType
    <2>10. QED
      BY <1>1, <2>7, <2>8, <2>9 DEF Shape
  <1>5. QED
    BY <1>3, <1>4

LEMMA CorrectionShape ==
    ASSUME IInv, NEW hit \in SUBSET MemoryId, NEW target \in [hit -> Form],
           NEW source \in [hit -> Form], NEW context \in [hit -> Context],
           NEW event \in EventChoice, NEW confirm \in BOOLEAN,
           CorrectionObservation(hit, target, source, event, context, confirm)
    PROVE  Shape
  <1> DEFINE new(m) == Correct(memories[m], target[m], source[m], event, context[m], confirm)
  <1>1. /\ memories \in [MemoryId -> Row]
        /\ decisions \in [DecisionId -> Decision]
        /\ event \in ClientEvent \cup {NoEvent}
        /\ memories' = [m \in MemoryId |-> IF m \in hit THEN new(m) ELSE memories[m]]
        /\ decisions' = decisions
        /\ reply' = Ok(IF confirm THEN hit ELSE {})
    BY DEF IInv, TypeOK, CorrectionObservation, EventChoice
  <1>2. reply' \in Reply
    BY <1>1, ReplyType
  <1>3. ASSUME NEW m \in MemoryId
        PROVE  RowStep(m)
    <2>1. CASE m \notin hit
      BY <1>1, <2>1 DEF RowStep
    <2>2. CASE m \in hit
      <3>1. /\ memories[m] \in Row /\ memories[m].status # "deleted"
            /\ memories'[m] = new(m)
            /\ target[m] \in Form /\ source[m] \in Form /\ context[m] \in Context
        BY <1>1, <2>2 DEF CorrectionObservation, Resolves, Live
      <3>2. CASE event # NoEvent /\ Observed(memories[m], ClientId(event))
        BY <3>1, <3>2 DEF Correct, RowStep
      <3>3. CASE ~(event # NoEvent /\ Observed(memories[m], ClientId(event)))
        <4>1. Writes(new(m), memories[m], {})
          BY <1>1, <3>1, <3>3, CorrectWrites
        <4>2. new(m) \in Row
          BY <1>1, <3>1, CorrectType
        <4>3. new(m).canonical = target[m]
          BY <3>1, <3>3 DEF Correct, Recorded, Row
        <4>4. new(m).outcomes = memories[m].outcomes
          BY <3>1, OutcomesUnchanged
        <4> HIDE DEF new
        <4>5. Attributed(new(m))
          BY <4>1, <4>2, <4>4, WriteAttributed
        <4>6. QED
          BY <3>1, <4>1, <4>2, <4>3, <4>5 DEF WriteStep, RowStep
      <3>4. QED
        BY <3>2, <3>3
    <2>3. QED
      BY <2>1, <2>2
  <1>4. memories' = [m \in MemoryId |-> memories'[m]]
    BY <1>1
  <1>5. QED
    BY <1>1, <1>2, <1>3, <1>4 DEF Shape

LEMMA InferShape ==
    ASSUME IInv, LifecycleAssumption, NEW d \in DecisionId,
           NEW candidates \in SUBSET [memory : MemoryId, start : Start,
                                      source : Form, asr : AsrFlags, context : Context],
           NEW changes \in SUBSET candidates, Infer(d, candidates, changes)
    PROVE  Shape
  <1>1. candidates \in SUBSET Target /\ changes \in SUBSET Target
    BY DEF LifecycleAssumption, Target
  <1>2. decisions' \in [DecisionId -> Decision]
    BY <1>1 DEF IInv, TypeOK, Infer, Decision
  <1>3. memories' = memories /\ reply' = Ok({}) /\ memories \in [MemoryId -> Row]
    BY DEF Infer, IInv, TypeOK
  <1>4. QED
    BY <1>2, <1>3, ReplyType DEF Shape, RowStep

LEMMA FeedbackShape ==
    ASSUME IInv, LifecycleAssumption, NEW d \in DecisionId,
           NEW sel \in SUBSET decisions[d].candidates,
           NEW accepted \in BOOLEAN, NEW suppress \in BOOLEAN,
           NEW scope \in FeedbackScopes,
           DecisionFeedback(d, sel, accepted, scope, suppress)
    PROVE  Shape
  <1> DEFINE fresh == Fresh(d, sel)
             about(m) == CHOOSE t \in fresh : t.memory = m
             hit == {t.memory : t \in fresh}
             new(m) == Feedback(memories[m], d, about(m), accepted, scope, suppress,
                                about(m).context)
             asked == IF suppress /\ ~accepted THEN hit ELSE {}
  <1>1. /\ memories \in [MemoryId -> Row]
        /\ decisions \in [DecisionId -> Decision]
        /\ scope \in FeedbackScope
    BY DEF IInv, TypeOK, LifecycleAssumption
  <1>2. sel \in SUBSET Target
    BY <1>1 DEF Decision
  <1>3. /\ memories' = [m \in MemoryId |-> IF m \in hit THEN new(m) ELSE memories[m]]
        /\ decisions' = decisions
        /\ reply' = Ok(asked)
    BY DEF DecisionFeedback
  <1>4. reply' \in Reply
    <2>1. asked \in SUBSET MemoryId
      BY <1>2 DEF Fresh, Reached, Target
    <2> HIDE DEF asked, hit
    <2>2. QED
      BY <1>3, <2>1 DEF Reply, Ok
  <1>5. ASSUME NEW m \in MemoryId
        PROVE  RowStep(m)
    <2>1. CASE m \notin hit
      BY <1>3, <2>1 DEF RowStep
    <2>2. CASE m \in hit
      <3>1. about(m) \in fresh /\ about(m).memory = m
        BY <2>2
      <3>2. memories'[m] = new(m)
        BY <1>3, <2>2
      <3> HIDE DEF about, fresh, hit
      <3>3. /\ about(m) \in Target
            /\ Live(m)
            /\ ~Observed(memories[m], FeedbackId(d, about(m).memory, about(m).start))
        BY <1>2, <3>1 DEF fresh, Fresh, Reached, EventOf
      <3>4. /\ memories[m] \in Row
            /\ memories[m].status = "live"
            /\ memories[m].canonical \in Form
        BY <1>1, <3>3 DEF Live, IInv, RowsInv
      <3>5. about(m).context \in Context
        BY <3>3 DEF Target
      <3>6. Writes(new(m), memories[m], {})
        BY <1>1, <3>3, <3>4, <3>5, FeedbackWrites DEF Target
      <3>7. new(m) \in Row
        BY <1>1, <3>3, <3>4, <3>5, FeedbackType DEF Target
      <3>8. new(m).canonical = memories[m].canonical
        BY <3>4 DEF Feedback, Recorded, Row
      <3>9. Attributed(memories[m])
        BY RowsAttributed DEF IInv
      <3>10. Attributed(new(m))
        BY <1>1, <3>3, <3>4, <3>5, <3>9, FeedbackAttributed DEF Target
      <3> HIDE DEF new
      <3>11. QED
        BY <3>2, <3>4, <3>6, <3>7, <3>8, <3>10 DEF WriteStep, RowStep
    <2>3. QED
      BY <2>1, <2>2
  <1>6. memories' = [m \in MemoryId |-> memories'[m]]
    BY <1>3
  <1>7. QED
    BY <1>1, <1>3, <1>4, <1>5, <1>6 DEF Shape

LEMMA PatchShape ==
    ASSUME IInv, LifecycleAssumption, NEW m \in MemoryId, NEW change \in Changes,
           UpdateMemory(m, change)
    PROVE  Shape
  <1> DEFINE new == Patch(memories[m], change)
  <1>1. /\ memories \in [MemoryId -> Row]
        /\ decisions \in [DecisionId -> Decision]
        /\ memories[m] \in Row
        /\ memories[m].status = "live"
        /\ memories[m].canonical \in Form
        /\ memories' = [memories EXCEPT ![m] = new]
        /\ decisions' = decisions
        /\ reply' = Ok(IF change.state = Keep THEN {} ELSE {m})
    BY DEF IInv, TypeOK, RowsInv, UpdateMemory, Live
  <1>2. change \in Change
    BY DEF LifecycleAssumption
  <1>3. new \in Row /\ Writes(new, memories[m], {})
    BY <1>1, <1>2, PatchType, PatchWrites
  <1>4. new.canonical \in Form
    BY <1>1, <1>2, PatchCanonical DEF Change
  <1>5. reply' \in Reply
    BY <1>1, ReplyType
  <1>6. new.outcomes = memories[m].outcomes
    BY <1>1, <1>2, OutcomesUnchanged
  <1> HIDE DEF new
  <1>7. Attributed(new)
    BY <1>3, <1>6, WriteAttributed
  <1>8. WriteStep(m)
    BY <1>1, <1>3, <1>4, <1>7 DEF WriteStep
  <1>9. ASSUME NEW o \in MemoryId
        PROVE  RowStep(o)
    BY <1>1, <1>8 DEF RowStep
  <1>10. memories' = [o \in MemoryId |-> memories'[o]]
    BY <1>1
  <1>11. QED
    BY <1>1, <1>9, <1>10, <1>5 DEF Shape

LEMMA MergeShape ==
    ASSUME IInv, NEW target \in MemoryId, NEW source \in MemoryId,
           MergeMemory(target, source)
    PROVE  Shape
  <1> DEFINE new == Merge(memories[target], memories[source], source)
  <1>1. /\ memories \in [MemoryId -> Row]
        /\ decisions \in [DecisionId -> Decision]
        /\ target # source
        /\ Live(source) /\ memories[target].status = "live"
        /\ memories[target] \in Row /\ memories[target].canonical \in Form
        /\ memories[source] \in Row /\ memories[source].canonical \in Form
        /\ memories' = [memories EXCEPT ![target] = new, ![source] = DeletedRow]
        /\ decisions' = decisions
        /\ reply' = Ok({})
    BY DEF IInv, TypeOK, RowsInv, MergeMemory, Live
  <1>2. ~Absorbed(memories[target].observations, source)
    BY <1>1 DEF IInv, EventsInv, Live
  <1>3. new \in Row
    BY <1>1, MergeType
  <1>4. Writes(new, memories[target], {source})
    BY <1>1, <1>2, MergeWrites
  <1>5. new.canonical = memories[target].canonical
    BY <1>1 DEF Merge, Recorded, Row
  <1>6. Attributed(memories[target]) /\ Attributed(memories[source])
    BY RowsAttributed DEF IInv
  <1>7. Attributed(new)
    BY <1>1, <1>6, MergeAttributed
  <1> HIDE DEF new
  <1>8. memories'[source] = DeletedRow /\ memories'[target] = new
    BY <1>1
  <1>9. WriteStep(target)
    BY <1>1, <1>3, <1>4, <1>5, <1>7, <1>8, BlankRows DEF WriteStep
  <1>10. EraseStep(source)
    BY <1>1, <1>8 DEF EraseStep
  <1>11. ASSUME NEW o \in MemoryId
        PROVE  RowStep(o)
    BY <1>1, <1>9, <1>10 DEF RowStep
  <1>12. memories' = [o \in MemoryId |-> memories'[o]]
    BY <1>1
  <1>13. reply' \in Reply
    BY <1>1, ReplyType
  <1>14. QED
    BY <1>1, <1>11, <1>12, <1>13 DEF Shape

LEMMA DeleteShape ==
    ASSUME IInv, NEW m \in MemoryId, DeleteMemory(m)
    PROVE  Shape
  <1>1. /\ memories \in [MemoryId -> Row]
        /\ decisions \in [DecisionId -> Decision]
        /\ Live(m)
        /\ memories' = [memories EXCEPT ![m] = DeletedRow]
        /\ decisions' = decisions
        /\ reply' = Ok({})
    BY DEF IInv, TypeOK, DeleteMemory
  <1>2. EraseStep(m)
    BY <1>1 DEF EraseStep
  <1>3. ASSUME NEW o \in MemoryId
        PROVE  RowStep(o)
    BY <1>1, <1>2 DEF RowStep
  <1>4. memories' = [o \in MemoryId |-> memories'[o]]
    BY <1>1
  <1>5. reply' \in Reply
    BY <1>1, ReplyType
  <1>6. QED
    BY <1>1, <1>3, <1>4, <1>5 DEF Shape

LEMMA DeleteUserStateShape ==
    ASSUME IInv, DeleteUserState
    PROVE  Shape
  <1>1. [UnusedDecision EXCEPT !.status = "deleted"] \in Decision
    BY DEF UnusedDecision, Decision
  <1>2. decisions' \in [DecisionId -> Decision]
    BY <1>1 DEF IInv, TypeOK, DeleteUserState
  <1>3. /\ memories' = [m \in MemoryId |-> IF Live(m) THEN DeletedRow ELSE memories[m]]
        /\ reply' = Ok({})
    BY DEF DeleteUserState
  <1>4. ASSUME NEW m \in MemoryId
        PROVE  RowStep(m)
    BY <1>3 DEF RowStep, EraseStep
  <1>5. memories' = [m \in MemoryId |-> memories'[m]]
    BY <1>3
  <1>6. QED
    BY <1>2, <1>3, <1>4, <1>5, ReplyType DEF Shape

LEMMA ImportShape ==
    ASSUME IInv, LifecycleAssumption, NEW m \in MemoryId, NEW item \in BundleItems,
           ImportItem(m, item)
    PROVE  Shape
  <1> DEFINE taught == Teach(memories[m], item.canonical, item.scope, item.variants,
                             item.event, NoContext)
             new == Recorded([taught EXCEPT !.state = item.state])
  <1>1. /\ memories \in [MemoryId -> Row]
        /\ decisions \in [DecisionId -> Decision]
        /\ memories[m] \in Row
        /\ memories[m].status # "deleted"
        /\ ~Observed(memories[m], ClientId(item.event))
        /\ memories' = [memories EXCEPT ![m] = new]
        /\ decisions' = decisions
        /\ reply' = Ok({m})
    BY DEF IInv, TypeOK, ImportItem, Resolves, Live
  <1>2. /\ item.event \in ClientEvent \cup {NoEvent} /\ item.canonical \in Form
        /\ item.variants \in SUBSET Form /\ item.scope \in Scope
        /\ item.state \in State
    BY DEF LifecycleAssumption, BundleItem
  <1>3. taught \in Row
    BY <1>1, <1>2, TeachType
  <1>4. Writes(taught, memories[m], {})
    BY <1>1, <1>2, TeachWrites
  <1>5. taught.canonical = item.canonical
    BY <1>1 DEF Teach, Recorded, Row
  <1>6. taught.outcomes = memories[m].outcomes
    BY <1>1, OutcomesUnchanged
  <1> HIDE DEF taught
  <1>7. new \in Row /\ Writes(new, memories[m], {})
    BY <1>1, <1>2, <1>3, <1>4, ImportWrites
  <1>8. new.canonical = item.canonical /\ new.outcomes = memories[m].outcomes
    BY <1>3, <1>5, <1>6 DEF Recorded, Row
  <1> HIDE DEF new
  <1>9. Attributed(new)
    BY <1>7, <1>8, WriteAttributed
  <1>10. WriteStep(m)
    BY <1>1, <1>2, <1>7, <1>8, <1>9 DEF WriteStep
  <1>11. reply' \in Reply
    BY <1>1, ReplyType
  <1>12. ASSUME NEW o \in MemoryId
        PROVE  RowStep(o)
    BY <1>1, <1>10 DEF RowStep
  <1>13. memories' = [o \in MemoryId |-> memories'[o]]
    BY <1>1
  <1>14. QED
    BY <1>1, <1>12, <1>13, <1>11 DEF Shape

(* Every step of the store has the shape.                                  *)
LEMMA StepShape ==
    ASSUME IInv, LifecycleAssumption, [Next]_vars
    PROVE  Shape
  <1>1. CASE UNCHANGED vars
    <2>1. /\ memories \in [MemoryId -> Row] /\ memories' = memories
          /\ decisions \in [DecisionId -> Decision] /\ decisions' = decisions
          /\ reply \in Reply /\ reply' = reply
      BY <1>1 DEF vars, IInv, TypeOK
    <2>2. QED
      BY <2>1 DEF Shape, RowStep
  <1>2. ASSUME NEW m \in MemoryId, NEW form \in Form, NEW scope \in TeachScopes,
               NEW variants \in TeachVariants, NEW event \in EventChoice,
               NEW context \in Context \cup {NoContext},
               ExplicitTeach(m, form, scope, variants, event, context)
        PROVE  Shape
    BY <1>2, TeachShape
  <1>3. ASSUME NEW hit \in SUBSET MemoryId \ {{}},
               NEW target \in [hit -> Form], NEW source \in [hit -> Form],
               NEW context \in [hit -> Context], NEW event \in EventChoice,
               NEW confirm \in BOOLEAN,
               CorrectionObservation(hit, target, source, event, context, confirm)
        PROVE  Shape
    BY <1>3, CorrectionShape
  <1>4. ASSUME NEW d \in DecisionId,
               NEW candidates \in SUBSET [memory : MemoryId, start : Start,
                  source : Form, asr : AsrFlags, context : Context],
               NEW changes \in SUBSET candidates, Infer(d, candidates, changes)
        PROVE  Shape
    BY <1>4, InferShape
  <1>5. ASSUME NEW d \in DecisionId, NEW sel \in SUBSET decisions[d].candidates,
               NEW accepted \in BOOLEAN, NEW suppress \in BOOLEAN,
               NEW scope \in FeedbackScopes,
               DecisionFeedback(d, sel, accepted, scope, suppress)
        PROVE  Shape
    BY <1>5, FeedbackShape
  <1>6. ASSUME NEW d \in DecisionId, NEW sel \in SUBSET decisions[d].candidates,
               NEW accepted \in BOOLEAN, NEW scope \in FeedbackScopes,
               FeedbackRefused(d, sel, accepted, scope)
        PROVE  Shape
    BY <1>6, ReplyType DEF FeedbackRefused, IInv, TypeOK, Shape, RowStep
  <1>7. ASSUME NEW d \in DecisionId, NEW sel \in SUBSET decisions[d].candidates,
               FeedbackFailed(d, sel)
        PROVE  Shape
    BY <1>7, ReplyType DEF FeedbackFailed, IInv, TypeOK, Shape, RowStep
  <1>8. ASSUME NEW m \in MemoryId, NEW change \in Changes, UpdateMemory(m, change)
        PROVE  Shape
    BY <1>8, PatchShape
  <1>9. ASSUME NEW target \in MemoryId, NEW source \in MemoryId,
               MergeMemory(target, source)
        PROVE  Shape
    BY <1>9, MergeShape
  <1>10. ASSUME NEW m \in MemoryId, DeleteMemory(m)
         PROVE  Shape
    BY <1>10, DeleteShape
  <1>11. CASE DeleteUserState
    BY <1>11, DeleteUserStateShape
  <1>12. ASSUME NEW m \in MemoryId, NEW item \in BundleItems, ImportItem(m, item)
         PROVE  Shape
    BY <1>12, ImportShape
  <1>13. QED
    BY <1>1, <1>2, <1>3, <1>4, <1>5, <1>6, <1>7, <1>8, <1>9, <1>10, <1>11, <1>12 DEF Next

-----------------------------------------------------------------------------
(* What the shape of a step keeps.                                         *)
LEMMA DeletedStays ==
    ASSUME Shape, NEW s \in MemoryId, memories[s].status = "deleted"
    PROVE  memories'[s].status = "deleted"
  BY DEF Shape, RowStep, WriteStep, EraseStep, Live

LEMMA TypesKept ==
    ASSUME IInv, Shape
    PROVE  TypeOK'
  <1>1. ASSUME NEW m \in MemoryId
        PROVE  memories'[m] \in Row
    BY BlankRows DEF IInv, TypeOK, Shape, RowStep, WriteStep, EraseStep
  <1>2. memories' \in [MemoryId -> Row]
    BY <1>1 DEF Shape
  <1>3. QED
    BY <1>2 DEF TypeOK, Shape

LEMMA RowsKept ==
    ASSUME IInv, Shape
    PROVE  RowsInv'
  <1> SUFFICES ASSUME NEW m \in MemoryId
               PROVE  /\ memories'[m].status = "unused" => memories'[m] = UnusedRow
                      /\ memories'[m].status = "deleted" => memories'[m] = DeletedRow
                      /\ memories'[m].status = "live" => memories'[m].canonical \in Form
    BY DEF RowsInv, Live
  <1>1. CASE memories'[m] = memories[m]
    BY <1>1 DEF IInv, RowsInv, Live
  <1>2. CASE WriteStep(m)
    BY <1>2 DEF WriteStep, Writes
  <1>3. CASE EraseStep(m)
    BY <1>3, BlankRows DEF EraseStep
  <1>4. QED
    BY <1>1, <1>2, <1>3 DEF Shape, RowStep

LEMMA EventsKept ==
    ASSUME IInv, Shape
    PROVE  EventsInv'
  <1> SUFFICES ASSUME NEW m \in MemoryId
               PROVE  /\ Distinct(memories'[m].observations)
                      /\ Placed(memories'[m].observations)
                      /\ \A s \in MemoryId :
                            Absorbed(memories'[m].observations, s)
                                => memories'[s].status = "deleted"
    BY DEF EventsInv
  <1>1. /\ Distinct(memories[m].observations)
        /\ Placed(memories[m].observations)
        /\ \A s \in MemoryId :
              Absorbed(memories[m].observations, s) => memories'[s].status = "deleted"
    BY DeletedStays DEF IInv, EventsInv
  <1>2. CASE memories'[m] = memories[m]
    BY <1>1, <1>2
  <1>3. CASE WriteStep(m)
    <2>1. PICK S \in SUBSET MemoryId :
            /\ Writes(memories'[m], memories[m], S)
            /\ \A s \in S : memories'[s].status = "deleted"
      BY <1>3 DEF WriteStep
    <2>2. Continues(memories'[m].observations, memories[m].observations, S)
      BY <2>1 DEF Writes
    <2>3. QED
      BY <1>1, <2>1, <2>2 DEF Continues
  <1>4. CASE EraseStep(m)
    <2>1. memories'[m].observations = <<>>
      BY <1>4, BlankRows DEF EraseStep
    <2>2. QED
      BY <2>1 DEF Distinct, Placed, Absorbed
  <1>5. QED
    BY <1>2, <1>3, <1>4 DEF Shape, RowStep

LEMMA HistoryKept ==
    ASSUME IInv, Shape
    PROVE  HistoryComplete'
  <1> SUFFICES ASSUME NEW m \in MemoryId, memories'[m].status = "live"
               PROVE  UpToDate(memories'[m])
    BY DEF HistoryComplete, UpToDate, Live
  <1>1. CASE memories'[m] = memories[m]
    BY <1>1 DEF IInv, HistoryComplete, UpToDate, Live
  <1>2. CASE WriteStep(m)
    BY <1>2 DEF WriteStep, Writes
  <1>3. CASE EraseStep(m)
    BY <1>3, BlankRows DEF EraseStep
  <1>4. QED
    BY <1>1, <1>2, <1>3 DEF Shape, RowStep

LEMMA OutcomesKept ==
    ASSUME IInv, Shape
    PROVE  OutcomesAttributed'
  <1>1. SUFFICES ASSUME NEW m \in MemoryId
                 PROVE  Attributed(memories'[m])
    BY DEF OutcomesAttributed, Attributed
  <1>2. CASE memories'[m] = memories[m]
    BY <1>2, RowsAttributed DEF IInv
  <1>3. CASE WriteStep(m)
    BY <1>3 DEF WriteStep
  <1>4. CASE EraseStep(m)
    BY <1>4 DEF EraseStep, Attributed, DeletedRow, UnusedRow
  <1>5. QED
    BY <1>2, <1>3, <1>4 DEF Shape, RowStep

-----------------------------------------------------------------------------
(* Steps that leave the canonical form of every stored memory as it is.    *)
LEMMA SameCanonicals ==
    ASSUME CanonicalsUnique,
           \A m \in MemoryId : Live(m)' => /\ Live(m)
                                           /\ memories'[m].canonical = memories[m].canonical
    PROVE  CanonicalsUnique'
  BY DEF CanonicalsUnique, Live

(* Steps that store one memory under a form that no other one has.         *)
LEMMA NewCanonical ==
    ASSUME IInv, NEW m \in MemoryId, NEW new,
           memories' = [memories EXCEPT ![m] = new],
           \A o \in MemoryId \ {m} : Live(o) => memories[o].canonical # new.canonical
    PROVE  CanonicalsUnique'
  <1>1. memories \in [MemoryId -> Row] /\ CanonicalsUnique
    BY DEF IInv, TypeOK
  <1>2. memories'[m] = new /\ \A o \in MemoryId \ {m} : memories'[o] = memories[o]
    BY <1>1
  <1>3. QED
    BY <1>1, <1>2 DEF CanonicalsUnique, Live

LEMMA ResolvesAlone ==
    ASSUME IInv, NEW m \in MemoryId, NEW form \in Form, Resolves(m, form)
    PROVE  \A o \in MemoryId \ {m} : Live(o) => memories[o].canonical # form
  BY DEF IInv, CanonicalsUnique, Resolves, Live

LEMMA CanonicalsKept ==
    ASSUME IInv, LifecycleAssumption, [Next]_vars
    PROVE  CanonicalsUnique'
  <1>1. memories \in [MemoryId -> Row] /\ CanonicalsUnique
    BY DEF IInv, TypeOK
  <1>2. ASSUME memories' = memories
        PROVE  CanonicalsUnique'
    BY <1>1, <1>2 DEF CanonicalsUnique, Live
  <1>3. ASSUME NEW m \in MemoryId, NEW form \in Form, NEW scope \in TeachScopes,
               NEW variants \in TeachVariants, NEW event \in EventChoice,
               NEW context \in Context \cup {NoContext},
               ExplicitTeach(m, form, scope, variants, event, context)
        PROVE  CanonicalsUnique'
    <2> DEFINE new == Teach(memories[m], form, scope, variants, event, context)
    <2>1. memories[m] \in Row /\ memories' = [memories EXCEPT ![m] = new] /\ Resolves(m, form)
      BY <1>1, <1>3 DEF ExplicitTeach
    <2>2. CASE event # NoEvent /\ Observed(memories[m], ClientId(event))
      <3>1. memories' = memories
        BY <1>1, <2>1, <2>2 DEF Teach
      <3>2. QED
        BY <1>2, <3>1
    <2>3. CASE ~(event # NoEvent /\ Observed(memories[m], ClientId(event)))
      <3>1. new.canonical = form
        BY <2>1, <2>3 DEF Teach, Recorded, Row
      <3> HIDE DEF new
      <3>2. QED
        BY <2>1, <3>1, ResolvesAlone, NewCanonical
    <2>4. QED
      BY <2>2, <2>3
  <1>4. ASSUME NEW hit \in SUBSET MemoryId,
               NEW target \in [hit -> Form], NEW source \in [hit -> Form],
               NEW context \in [hit -> Context], NEW event \in EventChoice,
               NEW confirm \in BOOLEAN,
               CorrectionObservation(hit, target, source, event, context, confirm)
        PROVE  CanonicalsUnique'
    <2> DEFINE new(m) == Correct(memories[m], target[m], source[m], event, context[m], confirm)
    <2>1. \A m \in MemoryId : memories'[m] = IF m \in hit THEN new(m) ELSE memories[m]
      BY <1>4 DEF CorrectionObservation
    <2>2. ASSUME NEW m \in hit
          PROVE  /\ target[m] \in Form
                 /\ memories'[m].canonical = target[m]
                 /\ \A o \in MemoryId \ {m} : Live(o) => memories[o].canonical # target[m]
      <3>1. memories[m] \in Row /\ memories'[m] = new(m) /\ target[m] \in Form
        BY <1>1, <2>1
      <3>2. Resolves(m, target[m])
        BY <1>4 DEF CorrectionObservation
      <3>3. new(m).canonical = target[m]
        <4>1. CASE event # NoEvent /\ Observed(memories[m], ClientId(event))
          BY <3>1, <3>2, <4>1, UnusedObservesNothing
             DEF Correct, Resolves, IInv, RowsInv
        <4>2. CASE ~(event # NoEvent /\ Observed(memories[m], ClientId(event)))
          BY <3>1, <4>2 DEF Correct, Recorded, Row
        <4>3. QED
          BY <4>1, <4>2
      <3> HIDE DEF new
      <3>4. QED
        BY <3>1, <3>2, <3>3, ResolvesAlone
    <2>3. \A m, o \in hit : m # o => target[m] # target[o]
      BY <1>4 DEF CorrectionObservation
    <2> HIDE DEF new
    <2>4. QED
      BY <1>1, <2>1, <2>2, <2>3 DEF CanonicalsUnique, Live
  <1>5. ASSUME NEW d \in DecisionId, NEW sel \in SUBSET decisions[d].candidates,
               NEW accepted \in BOOLEAN, NEW suppress \in BOOLEAN,
               NEW scope \in FeedbackScopes,
               DecisionFeedback(d, sel, accepted, scope, suppress)
        PROVE  CanonicalsUnique'
    <2>1. ASSUME NEW m \in MemoryId, memories'[m] # memories[m]
          PROVE  Live(m) /\ memories'[m].canonical = memories[m].canonical
      <3>1. PICK t, c :
              /\ t \in Fresh(d, sel)
              /\ t.memory = m
              /\ memories'[m] = Feedback(memories[m], d, c, accepted, scope, suppress,
                                         c.context)
        BY <1>5, <2>1 DEF DecisionFeedback
      <3>2. Live(m) /\ memories[m] \in Row
        BY <1>1, <3>1 DEF Fresh, Reached
      <3>3. QED
        BY <3>1, <3>2 DEF Feedback, Recorded, Row
    <2>2. QED
      BY <1>1, <2>1, SameCanonicals DEF Live
  <1>6. ASSUME NEW m \in MemoryId, NEW change \in Changes, UpdateMemory(m, change)
        PROVE  CanonicalsUnique'
    <2> DEFINE new == Patch(memories[m], change)
    <2>1. /\ memories[m] \in Row /\ change \in Change /\ Live(m)
          /\ memories' = [memories EXCEPT ![m] = new]
      BY <1>1, <1>6 DEF UpdateMemory, LifecycleAssumption
    <2>2. new.canonical =
            IF change.canonical = NoForm THEN memories[m].canonical ELSE change.canonical
      BY <2>1, PatchCanonical
    <2> HIDE DEF new
    <2>3. \A o \in MemoryId \ {m} : Live(o) => memories[o].canonical # new.canonical
      <3>1. \A o \in MemoryId \ {m} :
              Live(o) => memories[o].canonical \notin {change.canonical, memories[m].canonical}
        BY <1>1, <1>6, <2>1 DEF UpdateMemory, CanonicalsUnique
      <3>2. QED
        BY <2>2, <3>1
    <2>4. QED
      BY <2>1, <2>3, NewCanonical
  <1>7. ASSUME NEW target \in MemoryId, NEW source \in MemoryId,
               MergeMemory(target, source)
        PROVE  CanonicalsUnique'
    <2> DEFINE new == Merge(memories[target], memories[source], source)
    <2>1. /\ memories[target] \in Row /\ target # source /\ Live(target)
          /\ memories' = [memories EXCEPT ![target] = new, ![source] = DeletedRow]
      BY <1>1, <1>7 DEF MergeMemory
    <2>2. new.canonical = memories[target].canonical
      BY <2>1 DEF Merge, Recorded, Row
    <2> HIDE DEF new
    <2>3. \A m \in MemoryId : memories'[m] =
            IF m = source THEN DeletedRow ELSE IF m = target THEN new ELSE memories[m]
      BY <1>1, <2>1
    <2>4. QED
      BY <1>1, <2>1, <2>2, <2>3, BlankRows, SameCanonicals DEF Live
  <1>8. ASSUME NEW m \in MemoryId, DeleteMemory(m)
        PROVE  CanonicalsUnique'
    <2>1. \A o \in MemoryId : memories'[o] = IF o = m THEN DeletedRow ELSE memories[o]
      BY <1>1, <1>8 DEF DeleteMemory
    <2>2. QED
      BY <1>1, <2>1, BlankRows, SameCanonicals DEF Live
  <1>9. CASE DeleteUserState
    <2>1. \A o \in MemoryId : memories'[o] = IF Live(o) THEN DeletedRow ELSE memories[o]
      BY <1>9 DEF DeleteUserState
    <2>2. QED
      BY <1>1, <2>1, BlankRows, SameCanonicals DEF Live
  <1>10. ASSUME NEW m \in MemoryId, NEW item \in BundleItems, ImportItem(m, item)
         PROVE  CanonicalsUnique'
    <2> DEFINE taught == Teach(memories[m], item.canonical, item.scope, item.variants,
                               item.event, NoContext)
               new == Recorded([taught EXCEPT !.state = item.state])
    <2>1. /\ memories[m] \in Row
          /\ ~Observed(memories[m], ClientId(item.event))
          /\ memories' = [memories EXCEPT ![m] = new]
          /\ Resolves(m, item.canonical)
      BY <1>1, <1>10 DEF ImportItem
    <2>2. /\ item.event \in ClientEvent \cup {NoEvent} /\ item.canonical \in Form
          /\ item.variants \in SUBSET Form /\ item.scope \in Scope
      BY DEF LifecycleAssumption, BundleItem
    <2>3. taught \in Row
      BY <2>1, <2>2, TeachType
    <2>4. taught.canonical = item.canonical
      BY <2>1 DEF Teach, Recorded, Row
    <2> HIDE DEF taught
    <2>5. new.canonical = item.canonical
      BY <2>3, <2>4 DEF Recorded, Row
    <2> HIDE DEF new
    <2>6. QED
      BY <2>1, <2>2, <2>5, ResolvesAlone, NewCanonical
  <1>11. CASE UNCHANGED vars
    BY <1>2, <1>11 DEF vars
  <1>12. QED
    BY <1>2, <1>3, <1>4, <1>5, <1>6, <1>7, <1>8, <1>9, <1>10, <1>11
       DEF Next, Infer, FeedbackRefused, FeedbackFailed

-----------------------------------------------------------------------------
(* Every step changes whether a memory is suppressed only where it was     *)
(* asked to: whatever is observed, reconciling never does.                 *)
LEMMA StateMoves ==
    ASSUME IInv, LifecycleAssumption, [Next]_vars
    PROVE  StateStep
  <1>1. memories \in [MemoryId -> Row]
    BY DEF IInv, TypeOK
  <1>2. ASSUME memories' = memories
        PROVE  StateStep
    BY <1>2 DEF StateStep
  <1>3. ASSUME NEW m \in MemoryId, NEW new,
               memories' = [memories EXCEPT ![m] = new],
               new.state # memories[m].state => Moved(m)
        PROVE  StateStep
    BY <1>1, <1>3 DEF StateStep
  <1>4. ASSUME NEW m \in MemoryId, NEW form \in Form, NEW scope \in TeachScopes,
               NEW variants \in TeachVariants, NEW event \in EventChoice,
               NEW context \in Context \cup {NoContext},
               ExplicitTeach(m, form, scope, variants, event, context)
        PROVE  StateStep
    <2> DEFINE new == Teach(memories[m], form, scope, variants, event, context)
    <2>1. memories' = [memories EXCEPT ![m] = new] /\ m \in reply'.explicit
      BY <1>4 DEF ExplicitTeach, Ok
    <2>2. new.state \in {memories[m].state, "confirmed"}
      BY <1>1 DEF Teach, Recorded, Row
    <2> HIDE DEF new
    <2>3. new.state # memories[m].state => Moved(m)
      BY <1>1, <2>1, <2>2 DEF Moved
    <2>4. QED
      BY <1>3, <2>1, <2>3
  <1>5. ASSUME NEW hit \in SUBSET MemoryId,
               NEW target \in [hit -> Form], NEW source \in [hit -> Form],
               NEW context \in [hit -> Context], NEW event \in EventChoice,
               NEW confirm \in BOOLEAN,
               CorrectionObservation(hit, target, source, event, context, confirm)
        PROVE  StateStep
    <2> DEFINE new(m) == Correct(memories[m], target[m], source[m], event, context[m], confirm)
    <2>1. /\ \A m \in MemoryId : memories'[m] = IF m \in hit THEN new(m) ELSE memories[m]
          /\ reply'.explicit = IF confirm THEN hit ELSE {}
      BY <1>5 DEF CorrectionObservation, Ok
    <2>2. ASSUME NEW m \in hit, Live(m), new(m).state # memories[m].state
          PROVE  Moved(m)
      <3> DEFINE o == [event |-> EventOr(memories[m], event), kind |-> "accepted_correction",
                       accepted |-> TRUE, reason |-> "ACCEPTED", context |-> context[m]]
                 obs == Append(memories[m].observations, o)
                 base == IF confirm THEN "confirmed" ELSE memories[m].state
      <3>1. /\ memories[m] \in Row /\ event \in ClientEvent \cup {NoEvent}
            /\ context[m] \in Context
        BY <1>1 DEF EventChoice
      <3>2. /\ new(m).state = Reconcile(base, obs, confirm)
            /\ new(m).observations = obs
        BY <2>2, <3>1 DEF Correct, Recorded, Row, Live
      <3>3. o \in Observation /\ memories[m].observations \in Seq(Observation)
        BY <3>1, EventOrType DEF Observation, Kind, Reason, Row
      <3>4. obs[Len(obs)] = o /\ o.reason = "ACCEPTED"
        BY <3>3, AppendedLast
      <3>5. memories'[m] = new(m)
        BY <2>1
      <3> HIDE DEF new, obs, o
      <3>6. confirm => Reconcile(base, obs, confirm) = "confirmed" /\ m \in reply'.explicit
        BY <2>1 DEF Reconcile
      <3>7. QED
        BY <3>2, <3>4, <3>5, <3>6 DEF Moved
    <2> HIDE DEF new
    <2>3. QED
      BY <2>1, <2>2 DEF StateStep
  <1>6. ASSUME NEW d \in DecisionId, NEW sel \in SUBSET decisions[d].candidates,
               NEW accepted \in BOOLEAN, NEW suppress \in BOOLEAN,
               NEW scope \in FeedbackScopes,
               DecisionFeedback(d, sel, accepted, scope, suppress)
        PROVE  StateStep
    <2> SUFFICES ASSUME NEW m \in MemoryId, Live(m),
                        memories[m].state # memories'[m].state
                 PROVE  Moved(m)
      BY DEF StateStep
    <2>1. PICK t, c :
            /\ t \in Fresh(d, sel)
            /\ t.memory = m
            /\ c \in Fresh(d, sel)
            /\ memories'[m] = Feedback(memories[m], d, c, accepted, scope, suppress,
                                       c.context)
      BY <1>6 DEF DecisionFeedback
    <2> DEFINE reason == FeedbackReason(memories[m], accepted, scope)
               o == [event |-> FeedbackId(d, c.memory, c.start),
                     kind |-> "intervention_feedback", accepted |-> accepted,
                     reason |-> reason, context |-> c.context]
               obs == Append(memories[m].observations, o)
    <2>2. memories[m] \in Row /\ memories[m].state \in State
      BY <1>1 DEF Row
    <2>3. /\ memories'[m].state = IF suppress /\ ~accepted THEN "suppressed"
                                  ELSE Reconcile(memories[m].state, obs, FALSE)
          /\ memories'[m].observations = obs
      BY <2>1, <2>2 DEF Feedback, Recorded, Row
    <2>4. o \in Observation /\ memories[m].observations \in Seq(Observation)
      <3>1. c \in Target
        BY <1>1, <2>1 DEF Fresh, Reached, IInv, TypeOK, Decision
      <3>2. FeedbackId(d, c.memory, c.start) \in EventId /\ c.context \in Context
        BY <3>1 DEF Target, FeedbackId, EventId
      <3>3. reason \in Reason
        BY DEF FeedbackReason, RejectionReason, Reason
      <3>4. QED
        BY <2>2, <3>2, <3>3 DEF Observation, Kind, Row
    <2>5. obs[Len(obs)] = o
      BY <2>4, AppendedLast
    <2>6. reason = "USER_REJECTED_CONTEXT" => ~accepted
      BY DEF FeedbackReason
    <2>7. o.reason = reason /\ o.accepted = accepted
      OBVIOUS
    <2> HIDE DEF obs, o, reason
    <2>8. suppress /\ ~accepted => m \in reply'.explicit
      <3>1. m \in {u.memory : u \in Fresh(d, sel)}
        BY <2>1
      <3>2. suppress /\ ~accepted =>
               reply'.explicit = {u.memory : u \in Fresh(d, sel)}
        BY <1>6 DEF DecisionFeedback, Ok
      <3>3. QED
        BY <3>1, <3>2
    <2>9. QED
      BY <2>3, <2>5, <2>6, <2>7, <2>8 DEF Moved
  <1>7. ASSUME NEW m \in MemoryId, NEW change \in Changes, UpdateMemory(m, change)
        PROVE  StateStep
    <2> DEFINE new == Patch(memories[m], change)
    <2>1. /\ memories[m] \in Row /\ change \in Change
          /\ memories' = [memories EXCEPT ![m] = new]
          /\ reply'.explicit = IF change.state = Keep THEN {} ELSE {m}
      BY <1>1, <1>7 DEF UpdateMemory, LifecycleAssumption, Ok
    <2>2. new.state # memories[m].state => change.state # Keep
      BY <2>1, PatchCanonical
    <2>3. change.state # Keep =>
             new.observations[Len(new.observations)].reason \in {"USER_SET", "USER_OVERRIDE"}
      BY <2>1, PatchLast
    <2> HIDE DEF new
    <2>4. new.state # memories[m].state => Moved(m)
      BY <1>1, <2>1, <2>2, <2>3 DEF Moved
    <2>5. QED
      BY <1>3, <2>1, <2>4
  <1>8. ASSUME NEW target \in MemoryId, NEW source \in MemoryId,
               MergeMemory(target, source)
        PROVE  StateStep
    <2> DEFINE new == Merge(memories[target], memories[source], source)
    <2>1. /\ memories[target] \in Row
          /\ memories' = [memories EXCEPT ![target] = new, ![source] = DeletedRow]
      BY <1>1, <1>8 DEF MergeMemory
    <2>2. new.state = memories[target].state
      BY <2>1 DEF Merge, Recorded, Row
    <2> HIDE DEF new
    <2>3. QED
      BY <1>1, <2>1, <2>2, BlankRows DEF StateStep, Live
  <1>9. ASSUME NEW m \in MemoryId, DeleteMemory(m)
        PROVE  StateStep
    BY <1>1, <1>9, BlankRows DEF DeleteMemory, StateStep, Live
  <1>10. CASE DeleteUserState
    BY <1>1, <1>10, BlankRows DEF DeleteUserState, StateStep, Live
  <1>11. ASSUME NEW m \in MemoryId, NEW item \in BundleItems, ImportItem(m, item)
         PROVE  StateStep
    <2> DEFINE o == [event |-> EventOr(memories[m], item.event), kind |-> "explicit_teach",
                     accepted |-> TRUE, reason |-> "ACCEPTED", context |-> NoContext]
               taught == Teach(memories[m], item.canonical, item.scope, item.variants,
                               item.event, NoContext)
               new == Recorded([taught EXCEPT !.state = item.state])
    <2>1. /\ memories' = [memories EXCEPT ![m] = new] /\ m \in reply'.explicit
          /\ memories[m] \in Row /\ item.event \in ClientEvent \cup {NoEvent}
          /\ ~Observed(memories[m], ClientId(item.event))
      BY <1>1, <1>11 DEF ImportItem, Ok, LifecycleAssumption, BundleItem
    <2>2. new.observations = Append(memories[m].observations, o)
      BY <2>1 DEF Teach, Recorded, Row
    <2>3. o \in Observation /\ memories[m].observations \in Seq(Observation)
      BY <2>1, EventOrType DEF Observation, Kind, Reason, Row
    <2>4. o.reason = "ACCEPTED"
      OBVIOUS
    <2> HIDE DEF new, o
    <2>5. Moved(m)
      <3>1. memories'[m].observations = Append(memories[m].observations, o)
        BY <1>1, <2>1, <2>2
      <3>2. memories'[m].observations[Len(memories'[m].observations)] = o
        BY <2>3, <3>1, AppendedLast
      <3>3. QED
        BY <2>1, <2>4, <3>2 DEF Moved
    <2>6. QED
      BY <1>3, <2>1, <2>5
  <1>12. CASE UNCHANGED vars
    BY <1>2, <1>12 DEF vars
  <1>13. QED
    BY <1>2, <1>4, <1>5, <1>6, <1>7, <1>8, <1>9, <1>10, <1>11, <1>12
       DEF Next, Infer, FeedbackRefused, FeedbackFailed

-----------------------------------------------------------------------------
LEMMA WrittenEvidence ==
    ASSUME NEW old \in Row, NEW new \in Row, NEW S, Writes(new, old, S)
    PROVE  /\ Ledger!Extends(Events(new), Events(old))
           /\ Ledger!Extends(new.versions, old.versions)
           /\ Len(new.versions) > Len(old.versions)
  BY GrownRow DEF Writes, Continues, Ledger!Extends

LEMMA LedgerStep ==
    ASSUME IInv, IInv', Shape
    PROVE  Ledger!Next
  <1> SUFFICES ASSUME NEW m \in MemoryId
               PROVE  Ledger!Written(m) \/ Ledger!Erased(m) \/ Ledger!Kept(m)
    BY DEF Ledger!Next
  <1>1. memories[m] \in Row /\ memories'[m] \in Row
    BY DEF IInv, TypeOK
  <1>2. CASE memories'[m] = memories[m]
    BY <1>2 DEF Ledger!Kept
  <1>3. CASE WriteStep(m)
    <2>1. PICK S \in SUBSET MemoryId : Writes(memories'[m], memories[m], S)
      BY <1>3 DEF WriteStep
    <2>2. /\ Ledger!Extends(Events(memories'[m]), Events(memories[m]))
          /\ Ledger!Extends(memories'[m].versions, memories[m].versions)
          /\ Len(memories'[m].versions) > Len(memories[m].versions)
      BY <1>1, <2>1, WrittenEvidence
    <2>3. Ledger!NoRepeats(Events(memories'[m]))
      <3>1. Distinct(memories'[m].observations)
        BY DEF IInv, EventsInv
      <3>2. QED
        BY <1>1, <3>1, EventsOf DEF Distinct, Ledger!NoRepeats
    <2>4. memories[m].status # "deleted" /\ memories'[m].status = "live"
      BY <1>3, <2>1 DEF WriteStep, Writes
    <2>5. QED
      BY <2>2, <2>3, <2>4 DEF Ledger!Written
  <1>4. CASE EraseStep(m)
    <2>1. Events(memories'[m]) = <<>>
      BY <1>1, <1>4, BlankRows, EventsOf DEF EraseStep
    <2>2. memories[m].status = "live" /\ memories'[m] = DeletedRow
      BY <1>4 DEF EraseStep, Live
    <2>3. DeletedRow.status = "deleted" /\ DeletedRow.versions = <<>>
      BY BlankRows
    <2>4. Ledger!Erased(m)
      BY <2>1, <2>2, <2>3 DEF Ledger!Erased
    <2>5. QED
      BY <2>4
  <1>5. QED
    BY <1>2, <1>3, <1>4 DEF Shape, RowStep

-----------------------------------------------------------------------------
LEMMA InitiallyInvariant ==
    ASSUME Init
    PROVE  IInv
  <1>1. \A m \in MemoryId : memories[m] = UnusedRow
    BY DEF Init
  <1>2. TypeOK
    <2>1. UnusedDecision \in Decision
      BY DEF UnusedDecision, Decision
    <2>2. UnusedRow \in Row
      BY BlankRows
    <2>3. reply \in Reply
      BY DEF Init, Refused, Reply
    <2>4. memories \in [MemoryId -> Row] /\ decisions \in [DecisionId -> Decision]
      BY <2>1, <2>2 DEF Init
    <2>5. QED
      BY <2>3, <2>4 DEF TypeOK
  <1>3. RowsInv
    BY <1>1, BlankRows DEF RowsInv, Live
  <1>4. EventsInv
    BY <1>1, BlankRows DEF EventsInv, Distinct, Placed, Absorbed
  <1>5. HistoryComplete /\ CanonicalsUnique
    BY <1>1, BlankRows DEF HistoryComplete, CanonicalsUnique, Live
  <1>6. OutcomesAttributed
    BY <1>1 DEF OutcomesAttributed, UnusedRow
  <1>7. QED
    BY <1>2, <1>3, <1>4, <1>5, <1>6 DEF IInv

LEMMA InvariantKept ==
    ASSUME IInv, LifecycleAssumption, [Next]_vars
    PROVE  IInv'
  <1>1. Shape
    BY StepShape
  <1>2. QED
    BY <1>1, TypesKept, RowsKept, EventsKept, HistoryKept, CanonicalsKept,
       OutcomesKept DEF IInv

LEMMA Invariant == Spec => []IInv
  <1>1. Init => IInv
    BY InitiallyInvariant
  <1>2. IInv /\ [Next]_vars => IInv'
    BY InvariantKept, LifecycleAssumption
  <1>3. QED
    BY <1>1, <1>2, PTL DEF Spec

(* Every reachable store is well typed.                                    *)
THEOREM TypeCorrect == Spec => []TypeOK
  <1>1. IInv => TypeOK
    BY DEF IInv
  <1>2. QED
    BY <1>1, Invariant, PTL

(* However requests to teach, correct, rename, merge and import follow one *)
(* another, no two stored memories have the same canonical form.           *)
THEOREM CanonicalsAreUnique == Spec => []CanonicalsUnique
  <1>1. IInv => CanonicalsUnique
    BY DEF IInv
  <1>2. QED
    BY <1>1, Invariant, PTL

(* The latest version of every stored memory was computed from all its     *)
(* evidence and shows its state: no request records its version too early. *)
THEOREM HistoryIsComplete == Spec => []HistoryComplete
  <1>1. IInv => HistoryComplete
    BY DEF IInv
  <1>2. QED
    BY <1>1, Invariant, PTL

(* Every ASR outcome belongs to the feedback it came from, to no other and *)
(* with its verdict, through merges that move both to another memory.      *)
THEOREM OutcomesAreAttributed == Spec => []OutcomesAttributed
  <1>1. IInv => OutcomesAttributed
    BY DEF IInv
  <1>2. QED
    BY <1>1, Invariant, PTL

(* The store implements the evidence ledger: no request rewrites evidence  *)
(* or history, repeats an event, or writes without recording a version.    *)
THEOREM LedgerImplemented == Spec => LedgerKept
  <1>1. Init => Ledger!Init
    <2>1. ASSUME Init
          PROVE  \A m \in MemoryId :
                    /\ memories[m].status = "unused"
                    /\ Events(memories[m]) = <<>>
                    /\ memories[m].versions = <<>>
      <3>1. \A m \in MemoryId : memories[m] = UnusedRow
        BY <2>1 DEF Init
      <3>2. Events(UnusedRow) = <<>>
        BY BlankRows, EventsOf
      <3>3. QED
        BY <3>1, <3>2, BlankRows
    <2>2. QED
      BY <2>1 DEF Ledger!Init
  <1>2. IInv /\ IInv' /\ [Next]_vars => [Ledger!Next]_(Ledger!vars)
    BY StepShape, LedgerStep, LifecycleAssumption
  <1>3. QED
    BY <1>1, <1>2, Invariant, PTL DEF Spec, LedgerKept, Ledger!Spec

(* A memory enters or leaves the suppressed state only by a request that   *)
(* sets its state, never by evidence, a merge or reconciliation.           *)
THEOREM SuppressionIsExplicit == Spec => SuppressionExplicit
  <1>1. ASSUME IInv, [Next]_vars, NEW m \in MemoryId, Live(m), Live(m)',
               memories[m].state # memories'[m].state,
               "suppressed" \in {memories[m].state, memories'[m].state}
        PROVE  m \in reply'.explicit
    <2>1. memories[m].state \in State
      BY <1>1 DEF IInv, TypeOK, Row
    <2>2. Moved(m)
      BY <1>1, StateMoves, LifecycleAssumption DEF StateStep
    <2>3. QED
      BY <1>1, <2>1, <2>2, ReconcileKeepsSuppression DEF Moved
  <1>2. IInv /\ [Next]_vars =>
          [\A m \in MemoryId :
              /\ Live(m) /\ Live(m)'
              /\ memories[m].state # memories'[m].state
              /\ "suppressed" \in {memories[m].state, memories'[m].state}
              => m \in reply'.explicit]_vars
    BY <1>1
  <1>3. QED
    BY <1>2, Invariant, PTL DEF Spec, SuppressionExplicit

(* A memory that nobody confirmed explicitly becomes confirmed only when   *)
(* its own evidence passes all three gates.                                *)
THEOREM PromotionIsEarned == Spec => PromotionEarned
  <1> DEFINE Earned(obs) ==
        /\ Cardinality(Positive(obs)) >= MinPositiveEvents
        /\ Cardinality({obs[i].context :
              i \in {j \in DOMAIN obs : obs[j].accepted /\ obs[j].context # NoContext}})
             >= MinDistinctContexts
        /\ PosteriorAtLeast(obs, AutoConfirm)
  <1>1. ASSUME IInv, [Next]_vars, IInv', NEW m \in MemoryId, Live(m), Live(m)',
               m \notin reply'.explicit,
               memories[m].state = "candidate", memories'[m].state = "confirmed"
        PROVE  Earned(memories'[m].observations)
    <2> DEFINE obs == memories'[m].observations
    <2>1. obs \in Seq(Observation)
      BY <1>1 DEF IInv, TypeOK, Row
    <2>2. Moved(m)
      BY <1>1, StateMoves, LifecycleAssumption DEF StateStep
    <2>3. Reconcile("candidate", obs, FALSE) = "confirmed"
      BY <1>1, <2>2 DEF Moved
    <2> HIDE DEF obs
    <2>4. ConfirmationGates(obs)
      BY <2>3 DEF Reconcile, Recommendation
    <2>5. QED
      BY <2>1, <2>4, ContextsCounted DEF ConfirmationGates, obs
  <1>2. IInv /\ IInv' /\ [Next]_vars =>
          [\A m \in MemoryId :
              /\ Live(m) /\ Live(m)' /\ m \notin reply'.explicit
              /\ memories[m].state = "candidate" /\ memories'[m].state = "confirmed"
              => LET obs == memories'[m].observations
                     positive == {i \in DOMAIN obs :
                                    obs[i].accepted /\ obs[i].context # NoContext}
                 IN /\ Cardinality(Positive(obs)) >= MinPositiveEvents
                    /\ Cardinality({obs[i].context : i \in positive}) >= MinDistinctContexts
                    /\ PosteriorAtLeast(obs, AutoConfirm)]_vars
    BY <1>1
  <1>3. QED
    BY <1>2, Invariant, PTL DEF Spec, PromotionEarned

(* A memory that loses its confirmation with a rejection in context was    *)
(* contradicted before it: the rejection itself weighs nothing.            *)
THEOREM ContextRejectionsAreHarmless == Spec => ContextRejectionHarmless
  <1> DEFINE old(m) == memories[m].observations
             new(m) == memories'[m].observations
  <1>1. ASSUME IInv, [Next]_vars, IInv', NEW m \in MemoryId, Live(m), Live(m)',
               Len(new(m)) = Len(old(m)) + 1,
               new(m)[Len(new(m))].reason = "USER_REJECTED_CONTEXT",
               memories[m].state = "confirmed", memories'[m].state = "candidate"
        PROVE  Contradicted(old(m))
    <2>1. old(m) \in Seq(Observation) /\ new(m) \in Seq(Observation)
      BY <1>1 DEF IInv, TypeOK, Row
    <2>2. Reconcile("confirmed", new(m), FALSE) = "candidate" /\ ~new(m)[Len(new(m))].accepted
      BY <1>1, StateMoves, LifecycleAssumption DEF StateStep, Moved
    <2>3. \A i \in 1 .. Len(old(m)) : new(m)[i] = old(m)[i]
      <3>1. RowStep(m)
        BY <1>1, StepShape, LifecycleAssumption DEF Shape
      <3>2. WriteStep(m)
        BY <1>1, <3>1, BlankRows DEF RowStep, EraseStep, Live
      <3>3. QED
        BY <3>2 DEF WriteStep, Writes, Continues
    <2> HIDE DEF old, new
    <2>4. Contradicted(new(m))
      BY <2>2 DEF Reconcile, Recommendation
    <2>5. QED
      BY <1>1, <2>1, <2>2, <2>3, <2>4, ContextRejectionWeightless
  <1>2. IInv /\ IInv' /\ [Next]_vars =>
          [\A m \in MemoryId :
              LET before == memories[m].observations
                  after == memories'[m].observations
              IN /\ Live(m) /\ Live(m)' /\ Len(after) = Len(before) + 1
                 /\ after[Len(after)].reason = "USER_REJECTED_CONTEXT"
                 /\ memories[m].state = "confirmed" /\ memories'[m].state = "candidate"
                 => Contradicted(before)]_vars
    BY <1>1
  <1>3. QED
    BY <1>2, Invariant, PTL DEF Spec, ContextRejectionHarmless

-----------------------------------------------------------------------------
(* Contradiction that a step brings takes the confirmation away.           *)
Demoted(m) ==
    /\ Live(m) /\ Live(m)'
    /\ memories[m].state = "confirmed"
    /\ ~Contradicted(memories[m].observations)
    /\ Contradicted(memories'[m].observations)
    => memories'[m].state # "confirmed"

Merges == \E target, source \in MemoryId : MergeMemory(target, source)

LEMMA DemotionKept ==
    ASSUME IInv, LifecycleAssumption, [Next]_vars, ~Merges, NEW m \in MemoryId
    PROVE  Demoted(m)
  <1>1. memories \in [MemoryId -> Row] /\ memories[m] \in Row
    BY DEF IInv, TypeOK
  <1>2. ASSUME memories'[m] = memories[m]
        PROVE  Demoted(m)
    BY <1>2 DEF Demoted
  <1>3. ASSUME NEW new, memories'[m] = new,
               Contradicted(new.observations) => Contradicted(memories[m].observations)
        PROVE  Demoted(m)
    BY <1>3 DEF Demoted
  <1>4. ASSUME NEW o \in Observation, o.accepted,
               memories'[m].observations = Append(memories[m].observations, o)
        PROVE  Demoted(m)
    <2>1. memories[m].observations \in Seq(Observation)
      BY <1>1 DEF Row
    <2>2. Contradicted(Append(memories[m].observations, o))
            => Contradicted(memories[m].observations)
      BY <1>4, <2>1, SupportNeverContradicts
    <2>3. QED
      BY <1>4, <2>2 DEF Demoted
  <1>5. ASSUME NEW form \in Form, NEW scope \in Scope,
               NEW variants \in SUBSET Form, NEW event \in ClientEvent \cup {NoEvent},
               NEW context \in Context \cup {NoContext},
               memories'[m].observations
                 = Teach(memories[m], form, scope, variants, event, context).observations
        PROVE  Demoted(m)
    <2> DEFINE o == [event |-> EventOr(memories[m], event), kind |-> "explicit_teach",
                     accepted |-> TRUE, reason |-> "ACCEPTED", context |-> context]
    <2>1. CASE event # NoEvent /\ Observed(memories[m], ClientId(event))
      BY <1>5, <2>1 DEF Demoted, Teach
    <2>2. CASE ~(event # NoEvent /\ Observed(memories[m], ClientId(event)))
      <3>1. memories'[m].observations = Append(memories[m].observations, o)
        BY <1>1, <1>5, <2>2 DEF Teach, Recorded, Row
      <3>2. o \in Observation /\ o.accepted
        BY <1>1, EventOrType DEF Observation, Kind, Reason
      <3> HIDE DEF o
      <3>3. QED
        BY <1>4, <3>1, <3>2
    <2>3. QED
      BY <2>1, <2>2
  <1>6. ASSUME NEW n \in MemoryId, NEW form \in Form, NEW scope \in TeachScopes,
               NEW variants \in TeachVariants, NEW event \in EventChoice,
               NEW context \in Context \cup {NoContext},
               ExplicitTeach(n, form, scope, variants, event, context)
        PROVE  Demoted(m)
    <2>1. /\ form \in Form /\ scope \in Scope /\ variants \in SUBSET Form
          /\ event \in ClientEvent \cup {NoEvent}
      BY DEF LifecycleAssumption, EventChoice
    <2>2. CASE m = n
      <3>1. memories'[m] = Teach(memories[m], form, scope, variants, event, context)
        BY <1>1, <1>6, <2>2 DEF ExplicitTeach
      <3>2. QED
        BY <1>5, <2>1, <3>1
    <2>3. CASE m # n
      BY <1>1, <1>2, <1>6, <2>3 DEF ExplicitTeach
    <2>4. QED
      BY <2>2, <2>3
  <1>7. ASSUME NEW hit \in SUBSET MemoryId,
               NEW target \in [hit -> Form], NEW source \in [hit -> Form],
               NEW context \in [hit -> Context], NEW event \in EventChoice,
               NEW confirm \in BOOLEAN,
               CorrectionObservation(hit, target, source, event, context, confirm)
        PROVE  Demoted(m)
    <2>1. CASE m \notin hit
      BY <1>1, <1>2, <1>7, <2>1 DEF CorrectionObservation
    <2>2. CASE m \in hit
      <3> DEFINE o == [event |-> EventOr(memories[m], event), kind |-> "accepted_correction",
                       accepted |-> TRUE, reason |-> "ACCEPTED", context |-> context[m]]
      <3>1. /\ event \in ClientEvent \cup {NoEvent} /\ context[m] \in Context
            /\ memories'[m] = Correct(memories[m], target[m], source[m], event,
                                      context[m], confirm)
        BY <1>1, <1>7, <2>2 DEF CorrectionObservation, EventChoice
      <3>2. CASE event # NoEvent /\ Observed(memories[m], ClientId(event))
        BY <1>2, <3>1, <3>2 DEF Correct
      <3>3. CASE ~(event # NoEvent /\ Observed(memories[m], ClientId(event)))
        <4>1. memories'[m].observations = Append(memories[m].observations, o)
          BY <1>1, <3>1, <3>3 DEF Correct, Recorded, Row
        <4>2. o \in Observation /\ o.accepted
          BY <1>1, <3>1, EventOrType DEF Observation, Kind, Reason
        <4> HIDE DEF o
        <4>3. QED
          BY <1>4, <4>1, <4>2
      <3>4. QED
        BY <3>2, <3>3
    <2>3. QED
      BY <2>1, <2>2
  <1>8. ASSUME NEW d \in DecisionId, NEW sel \in SUBSET decisions[d].candidates,
               NEW accepted \in BOOLEAN, NEW suppress \in BOOLEAN,
               NEW scope \in FeedbackScopes,
               DecisionFeedback(d, sel, accepted, scope, suppress)
        PROVE  Demoted(m)
    <2>1. CASE memories'[m] = memories[m]
      BY <1>2, <2>1
    <2>2. CASE memories'[m] # memories[m]
      <3>1. PICK c : memories'[m] = Feedback(memories[m], d, c, accepted, scope, suppress,
                                             c.context)
        BY <1>8, <2>2 DEF DecisionFeedback
      <3> DEFINE o == [event |-> FeedbackId(d, c.memory, c.start),
                       kind |-> "intervention_feedback", accepted |-> accepted,
                       reason |-> FeedbackReason(memories[m], accepted, scope),
                       context |-> c.context]
                 obs == Append(memories[m].observations, o)
      <3>2. /\ memories'[m].state \in {"suppressed", Reconcile(memories[m].state, obs, FALSE)}
            /\ memories'[m].observations = obs
        BY <1>1, <3>1 DEF Feedback, Recorded, Row
      <3> HIDE DEF obs
      <3>3. QED
        BY <3>2 DEF Demoted, Reconcile, Recommendation
    <2>3. QED
      BY <2>1, <2>2
  <1>9. ASSUME NEW n \in MemoryId, NEW change \in Changes, UpdateMemory(n, change)
        PROVE  Demoted(m)
    <2>1. CASE m = n
      <3>1. memories'[m] = Patch(memories[m], change) /\ change \in Change
        BY <1>1, <1>9, <2>1 DEF UpdateMemory, LifecycleAssumption
      <3>2. Contradicted(Patch(memories[m], change).observations)
              => Contradicted(memories[m].observations)
        BY <1>1, <3>1, PatchNeverContradicts
      <3>3. QED
        BY <1>3, <3>1, <3>2
    <2>2. CASE m # n
      BY <1>1, <1>2, <1>9, <2>2 DEF UpdateMemory
    <2>3. QED
      BY <2>1, <2>2
  <1>10. ASSUME NEW n \in MemoryId, DeleteMemory(n)
         PROVE  Demoted(m)
    <2>1. memories'[m] \in {memories[m], DeletedRow}
      BY <1>1, <1>10 DEF DeleteMemory
    <2>2. QED
      BY <1>2, <2>1, BlankRows DEF Demoted, Live
  <1>11. CASE DeleteUserState
    <2>1. memories'[m] \in {memories[m], DeletedRow}
      BY <1>11 DEF DeleteUserState
    <2>2. QED
      BY <1>2, <2>1, BlankRows DEF Demoted, Live
  <1>12. ASSUME NEW n \in MemoryId, NEW item \in BundleItems, ImportItem(n, item)
         PROVE  Demoted(m)
    <2>1. /\ item.event \in ClientEvent \cup {NoEvent} /\ item.canonical \in Form
          /\ item.variants \in SUBSET Form /\ item.scope \in Scope
      BY DEF LifecycleAssumption, BundleItem
    <2>2. CASE m = n
      <3> DEFINE taught == Teach(memories[m], item.canonical, item.scope, item.variants,
                                 item.event, NoContext)
      <3>1. memories'[m] = Recorded([taught EXCEPT !.state = item.state])
        BY <1>1, <1>12, <2>2 DEF ImportItem
      <3>2. taught \in Row
        BY <1>1, <2>1, TeachType
      <3> HIDE DEF taught
      <3>3. memories'[m].observations = taught.observations
        BY <3>1, <3>2 DEF Recorded, Row
      <3>4. QED
        BY <1>5, <2>1, <3>3 DEF taught
    <2>3. CASE m # n
      BY <1>1, <1>2, <1>12, <2>3 DEF ImportItem
    <2>4. QED
      BY <2>2, <2>3
  <1>13. CASE UNCHANGED memories
    BY <1>2, <1>13
  <1>14. QED
    BY <1>6, <1>7, <1>8, <1>9, <1>10, <1>11, <1>12, <1>13
       DEF Next, Infer, FeedbackRefused, FeedbackFailed, Merges, vars

(* Only a merge leaves a memory confirmed though the step itself brought   *)
(* its posterior below the threshold: every other write that adds          *)
(* contradicting evidence reconciles the state with it.                    *)
THEOREM OnlyMergesEscapeDemotion ==
    Spec => [][Merges \/ \A m \in MemoryId : Demoted(m)]_vars
  <1>1. IInv /\ [Next]_vars => [Merges \/ \A m \in MemoryId : Demoted(m)]_vars
    BY DemotionKept, LifecycleAssumption
  <1>2. QED
    BY <1>1, Invariant, PTL DEF Spec

(* A user whose memories cannot merge, having at most one, never sees a    *)
(* confirmed memory carried across the threshold and left confirmed.       *)
THEOREM DemotionDoesFollowEvidence ==
    ASSUME \A m, o \in MemoryId : m = o
    PROVE  Spec => DemotionFollowsEvidence
  <1>1. ~Merges
    BY DEF Merges, MergeMemory
  <1>2. IInv /\ [Next]_vars =>
          [\A m \in MemoryId :
              /\ Live(m) /\ Live(m)'
              /\ memories[m].state = "confirmed"
              /\ ~Contradicted(memories[m].observations)
              /\ Contradicted(memories'[m].observations)
              => memories'[m].state # "confirmed"]_vars
    BY <1>1, DemotionKept, LifecycleAssumption DEF Demoted
  <1>3. QED
    BY <1>2, Invariant, PTL DEF Spec, DemotionFollowsEvidence
=============================================================================
