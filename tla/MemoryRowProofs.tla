--------------------------- MODULE MemoryRowProofs ---------------------------
(***************************************************************************)
(* Lemmas about the operators of Trust and MemoryRow: every write maps a   *)
(* row to a row, only adds at the end of its observations and versions,    *)
(* and adds no event that the row holds already.                           *)
(***************************************************************************)
EXTENDS MemoryRow, FiniteSetTheorems, TLAPS

(* Reconciling never leaves the suppressed state and never enters it:      *)
(* "Suppression is never automatic".                                       *)
LEMMA ReconcileKeepsSuppression ==
    ASSUME NEW state \in State, NEW obs, NEW force \in BOOLEAN
    PROVE  /\ Reconcile(state, obs, force) \in State
           /\ Reconcile(state, obs, force) = "suppressed" <=> state = "suppressed"
  BY DEF Reconcile, Recommendation, State

-----------------------------------------------------------------------------
LEMMA BlankRows ==
    /\ UnusedRow \in Row /\ UnusedRow.status = "unused"
    /\ DeletedRow \in Row /\ DeletedRow.status = "deleted"
    /\ UnusedRow.observations = <<>> /\ UnusedRow.versions = <<>>
    /\ DeletedRow.observations = <<>> /\ DeletedRow.versions = <<>>
  <1>1. <<>> \in Seq(Observation) /\ <<>> \in Seq(Snapshot)
    OBVIOUS
  <1>2. /\ UnusedRow \in Row /\ UnusedRow.status = "unused"
        /\ UnusedRow.observations = <<>> /\ UnusedRow.versions = <<>>
    BY <1>1 DEF UnusedRow, Row, State, Scope
  <1>3. /\ DeletedRow \in Row /\ DeletedRow.status = "deleted"
        /\ DeletedRow.observations = <<>> /\ DeletedRow.versions = <<>>
    BY <1>2 DEF DeletedRow, Row
  <1>4. QED
    BY <1>2, <1>3

LEMMA EventsOf ==
    ASSUME NEW row \in Row
    PROVE  /\ Events(row) \in Seq(EventId)
           /\ Len(Events(row)) = Len(row.observations)
           /\ DOMAIN Events(row) = DOMAIN row.observations
           /\ \A i \in DOMAIN row.observations : Events(row)[i] = row.observations[i].event
  <1>1. row.observations \in Seq(Observation)
    BY DEF Row
  <1>2. \A i \in DOMAIN row.observations : row.observations[i].event \in EventId
    <2>1. \A i \in DOMAIN row.observations : row.observations[i] \in Observation
      BY <1>1
    <2>2. QED
      BY <2>1 DEF Observation
  <1>3. DOMAIN row.observations = 1 .. Len(row.observations) /\ Len(row.observations) \in Nat
    BY <1>1
  <1>4. Events(row) \in [1 .. Len(row.observations) -> EventId]
    BY <1>2, <1>3 DEF Events
  <1>5. Events(row) \in Seq(EventId) /\ Len(Events(row)) = Len(row.observations)
    BY <1>3, <1>4
  <1>6. QED
    BY <1>3, <1>4, <1>5 DEF Events

(* A sequence with another one in front begins with it.                    *)
LEMMA PrefixKept ==
    ASSUME NEW T, NEW a \in Seq(T), NEW b \in Seq(T), Len(a) <= Len(b),
           \A i \in 1 .. Len(a) : b[i] = a[i]
    PROVE  SubSeq(b, 1, Len(a)) = a
  <1>1. Len(a) \in Nat /\ Len(b) \in Nat
    OBVIOUS
  <1>2. QED
    BY <1>1

(* A row with more observations and versions extends the ledger's view of  *)
(* the row it grew from.                                                   *)
LEMMA GrownRow ==
    ASSUME NEW old \in Row, NEW new \in Row,
           Len(old.observations) <= Len(new.observations),
           \A i \in 1 .. Len(old.observations) : new.observations[i] = old.observations[i],
           Len(old.versions) < Len(new.versions),
           \A i \in 1 .. Len(old.versions) : new.versions[i] = old.versions[i]
    PROVE  /\ Len(Events(old)) <= Len(Events(new))
           /\ SubSeq(Events(new), 1, Len(Events(old))) = Events(old)
           /\ Len(old.versions) <= Len(new.versions)
           /\ SubSeq(new.versions, 1, Len(old.versions)) = old.versions
           /\ Len(new.versions) > Len(old.versions)
  <1>1. /\ old.observations \in Seq(Observation) /\ new.observations \in Seq(Observation)
        /\ old.versions \in Seq(Snapshot) /\ new.versions \in Seq(Snapshot)
    BY DEF Row
  <1>2. /\ DOMAIN old.observations = 1 .. Len(old.observations)
        /\ DOMAIN new.observations = 1 .. Len(new.observations)
        /\ Len(old.observations) \in Nat /\ Len(new.observations) \in Nat
        /\ Len(old.versions) \in Nat /\ Len(new.versions) \in Nat
    BY <1>1
  <1>3. /\ Events(new) \in Seq(EventId) /\ Events(old) \in Seq(EventId)
        /\ Len(Events(old)) = Len(old.observations) /\ Len(Events(new)) = Len(new.observations)
        /\ \A i \in DOMAIN old.observations : Events(old)[i] = old.observations[i].event
        /\ \A i \in DOMAIN new.observations : Events(new)[i] = new.observations[i].event
    BY EventsOf
  <1>4. \A i \in 1 .. Len(Events(old)) : Events(new)[i] = Events(old)[i]
    BY <1>2, <1>3
  <1>5. /\ Len(Events(old)) <= Len(Events(new))
        /\ SubSeq(Events(new), 1, Len(Events(old))) = Events(old)
    BY <1>3, <1>4, PrefixKept
  <1>6. Len(old.versions) <= Len(new.versions) /\ Len(new.versions) > Len(old.versions)
    BY <1>2
  <1>7. QED
    BY <1>1, <1>5, <1>6, PrefixKept

LEMMA RecordedType ==
    ASSUME NEW row \in Row
    PROVE  Recorded(row) \in Row
  <1>1. [state |-> row.state, upTo |-> Len(row.observations)] \in Snapshot
    BY DEF Row, Snapshot
  <1>2. Append(row.versions, [state |-> row.state, upTo |-> Len(row.observations)])
          \in Seq(Snapshot)
    BY <1>1 DEF Row
  <1>3. QED
    BY <1>2 DEF Recorded, Row

LEMMA EventOrType ==
    ASSUME NEW row \in Row, NEW event \in ClientEvent \cup {NoEvent}
    PROVE  EventOr(row, event) \in EventId
  BY DEF EventOr, ServerId, ClientId, EventId, Row

LEMMA TeachType ==
    ASSUME NEW row \in Row, NEW form \in Form, NEW scope \in Scope,
           NEW variants \in SUBSET Form, NEW event \in ClientEvent \cup {NoEvent},
           NEW context \in Context \cup {NoContext}
    PROVE  Teach(row, form, scope, variants, event, context) \in Row
  <1> DEFINE obs == [event |-> EventOr(row, event), kind |-> "explicit_teach",
                     accepted |-> TRUE, reason |-> "ACCEPTED", context |-> context]
             new == [row EXCEPT
                       !.status = "live", !.canonical = form, !.state = "confirmed",
                       !.scope = scope, !.variants = @ \cup variants,
                       !.observations = Append(@, obs)]
  <1>1. obs \in Observation
    BY EventOrType DEF Observation, Kind, Reason
  <1>2. Append(row.observations, obs) \in Seq(Observation)
    BY <1>1 DEF Row
  <1>3. new \in Row
    BY <1>2 DEF Row, State
  <1>4. QED
    BY <1>3, RecordedType DEF Teach

LEMMA CorrectType ==
    ASSUME NEW row \in Row, NEW form \in Form, NEW source \in Form,
           NEW event \in ClientEvent \cup {NoEvent}, NEW context \in Context,
           NEW confirm \in BOOLEAN
    PROVE  Correct(row, form, source, event, context, confirm) \in Row
  <1> DEFINE o == [event |-> EventOr(row, event), kind |-> "accepted_correction",
                   accepted |-> TRUE, reason |-> "ACCEPTED", context |-> context]
             obs == Append(row.observations, o)
             state == IF confirm THEN "confirmed"
                      ELSE IF row.status = "unused" THEN "candidate"
                      ELSE row.state
             new == [row EXCEPT
                       !.status = "live", !.canonical = form,
                       !.state = Reconcile(state, obs, confirm),
                       !.scope = IF row.status = "unused" THEN "contextual" ELSE @,
                       !.variants = @ \cup {source},
                       !.observations = obs]
  <1>1. o \in Observation
    BY EventOrType DEF Observation, Kind, Reason
  <1>2. state \in State
    BY DEF State, Row
  <1>3. Reconcile(state, obs, confirm) \in State
    BY <1>2, ReconcileKeepsSuppression
  <1>4. obs \in Seq(Observation)
    BY <1>1 DEF Row
  <1>5. new \in Row
    BY <1>3, <1>4 DEF Row, Scope
  <1>6. QED
    BY <1>5, RecordedType DEF Correct

LEMMA FeedbackType ==
    ASSUME NEW row \in Row, NEW decision \in DecisionId,
           NEW target \in [memory : MemoryId, start : Start, source : Form,
                           asr : BOOLEAN, context : Context],
           NEW accepted \in BOOLEAN, NEW scope \in FeedbackScope,
           NEW suppress \in BOOLEAN, NEW context \in Context
    PROVE  Feedback(row, decision, target, accepted, scope, suppress, context) \in Row
  <1> DEFINE o == [event |-> FeedbackId(decision, target.memory, target.start),
                   kind |-> "intervention_feedback", accepted |-> accepted,
                   reason |-> FeedbackReason(row, accepted, scope),
                   context |-> context]
             obs == Append(row.observations, o)
             outcome == [decision |-> decision, source |-> target.source,
                         observation |-> Len(obs), accepted |-> accepted]
             state == IF suppress /\ ~accepted THEN "suppressed"
                      ELSE Reconcile(row.state, obs, FALSE)
             outcomes == IF target.asr THEN row.outcomes \cup {outcome} ELSE row.outcomes
             new == [row EXCEPT
                       !.state = IF suppress /\ ~accepted THEN "suppressed"
                                 ELSE Reconcile(@, obs, FALSE),
                       !.observations = obs,
                       !.outcomes = IF target.asr THEN @ \cup {outcome} ELSE @]
  <1>1. o \in Observation
    <2>1. FeedbackId(decision, target.memory, target.start) \in EventId
      BY DEF FeedbackId, EventId
    <2>2. FeedbackReason(row, accepted, scope) \in Reason
      BY DEF FeedbackReason, RejectionReason, Reason
    <2>3. QED
      BY <2>1, <2>2 DEF Observation, Kind
  <1>2. obs \in Seq(Observation)
    BY <1>1 DEF Row
  <1>3. state \in State
    BY ReconcileKeepsSuppression DEF State, Row
  <1>4. outcomes \in SUBSET Outcome
    <2>1. Len(obs) \in Nat
      BY <1>2
    <2>2. outcome \in Outcome
      BY <2>1 DEF Outcome
    <2>3. QED
      BY <2>2 DEF Row
  <1>5. new \in Row
    BY <1>2, <1>3, <1>4 DEF Row
  <1>6. QED
    BY <1>5, RecordedType DEF Feedback

LEMMA OverrideType ==
    ASSUME NEW row \in Row, NEW state \in State \cup {Keep}
    PROVE  Override(row, state) \in Row
  <1>1. CASE state = Keep
    BY <1>1 DEF Override
  <1>2. CASE state # Keep
    <2> DEFINE o == [event |-> ServerId(Len(row.observations) + 1),
                     kind |-> IF state = "confirmed" THEN "state_override_confirmed"
                              ELSE "state_override",
                     accepted |-> state = "confirmed", reason |-> "USER_SET",
                     context |-> NoContext]
    <2>1. ServerId(Len(row.observations) + 1) \in EventId
      BY DEF ServerId, EventId, Row
    <2>2. o \in Observation
      <3>1. (state = "confirmed") \in BOOLEAN
        OBVIOUS
      <3>2. QED
        BY <2>1, <3>1 DEF Observation, Kind, Reason
    <2>3. Append(row.observations, o) \in Seq(Observation)
      BY <2>2 DEF Row
    <2>4. QED
      BY <1>2, <2>3 DEF Override, Row, State
  <1>3. QED
    BY <1>1, <1>2

LEMMA ManualContextType ==
    ASSUME NEW row \in Row, NEW manual \in BOOLEAN
    PROVE  ManualContext(row, manual) \in Row
  <1> DEFINE o == [event |-> NoEvent, kind |-> "manual_context_update",
                   accepted |-> TRUE, reason |-> "USER_OVERRIDE", context |-> NoContext]
  <1>1. o \in Observation
    BY DEF Observation, Kind, Reason, EventId
  <1>2. Append(row.observations, o) \in Seq(Observation)
    BY <1>1 DEF Row
  <1>3. QED
    BY <1>2 DEF ManualContext, Row

LEMMA PatchType ==
    ASSUME NEW row \in Row, NEW change \in Change
    PROVE  Patch(row, change) \in Row
  <1> DEFINE renamed == Rename(row, change.canonical)
             overridden == Override(renamed, change.state)
             rescoped == Rescope(overridden, change.scope)
  <1>1. renamed \in Row
    BY DEF Rename, Change, Row
  <1>2. overridden \in Row
    <2>1. change.state \in State \cup {Keep}
      BY DEF Change
    <2>2. QED
      BY <1>1, <2>1, OverrideType
  <1>3. rescoped \in Row
    <2>1. change.scope \in Scope \cup {Keep}
      BY DEF Change
    <2>2. QED
      BY <1>2, <2>1 DEF Rescope, Row
  <1>4. ManualContext(rescoped, change.manual) \in Row
    BY <1>3, ManualContextType DEF Change
  <1>5. QED
    BY <1>4, RecordedType DEF Patch

LEMMA CopiesType ==
    ASSUME NEW source \in Row, NEW m \in MemoryId
    PROVE  /\ Copies(source, m) \in Seq(Observation)
           /\ Len(Copies(source, m)) = Len(source.observations)
           /\ \A i \in 1 .. Len(source.observations) :
                  Copies(source, m)[i].event = MergeId(m, i)
  <1>1. source.observations \in Seq(Observation)
    BY DEF Row
  <1>2. ASSUME NEW i \in 1 .. Len(source.observations)
        PROVE  [source.observations[i] EXCEPT !.event = MergeId(m, i)] \in Observation
    <2>1. source.observations[i] \in Observation
      BY <1>1
    <2>2. MergeId(m, i) \in EventId
      BY DEF MergeId, EventId
    <2>3. QED
      BY <2>1, <2>2 DEF Observation
  <1>3. Len(source.observations) \in Nat
    BY <1>1
  <1>4. Copies(source, m) \in [1 .. Len(source.observations) -> Observation]
    BY <1>2 DEF Copies
  <1>5. Copies(source, m) \in Seq(Observation)
    BY <1>3, <1>4
  <1>6. Len(Copies(source, m)) = Len(source.observations)
    BY <1>3, <1>4, <1>5
  <1>7. ASSUME NEW i \in 1 .. Len(source.observations)
        PROVE  Copies(source, m)[i].event = MergeId(m, i)
    BY <1>1 DEF Copies, Observation
  <1>8. QED
    BY <1>5, <1>6, <1>7

LEMMA MergeType ==
    ASSUME NEW target \in Row, NEW source \in Row, NEW m \in MemoryId,
           source.canonical \in Form
    PROVE  Merge(target, source, m) \in Row
  <1>1. target.observations \o Copies(source, m) \in Seq(Observation)
    <2>1. target.observations \in Seq(Observation)
      BY DEF Row
    <2>2. Copies(source, m) \in Seq(Observation)
      BY CopiesType
    <2>3. QED
      BY <2>1, <2>2
  <1>2. MovedOutcomes(target, source, Len(target.observations)) \in SUBSET Outcome
    <2>1. Len(target.observations) \in Nat
      BY DEF Row
    <2>2. source.outcomes \in SUBSET Outcome
      BY DEF Row
    <2>3. QED
      BY <2>1, <2>2 DEF MovedOutcomes, Outcome
  <1>3. target.variants
          \cup (({source.canonical} \cup source.variants) \ {target.canonical})
          \in SUBSET Form
    BY DEF Row
  <1> DEFINE new == [target EXCEPT
            !.variants = @ \cup (({source.canonical} \cup source.variants)
                                   \ {target.canonical}),
            !.observations = @ \o Copies(source, m),
            !.outcomes = @ \cup MovedOutcomes(target, source, Len(target.observations))]
  <1>4. target.outcomes \cup MovedOutcomes(target, source, Len(target.observations))
          \in SUBSET Outcome
    BY <1>2 DEF Row
  <1>5. new \in Row
    BY <1>1, <1>3, <1>4 DEF Row
  <1>6. QED
    BY <1>5, RecordedType DEF Merge

-----------------------------------------------------------------------------
(* The events of a sequence of observations: no two are the same, and a    *)
(* generated one sits at the position it was generated for.                *)
Distinct(obs) ==
    \A i, j \in DOMAIN obs :
        obs[i].event = obs[j].event /\ obs[i].event # NoEvent => i = j

Placed(obs) ==
    \A i \in DOMAIN obs : \A n \in Nat :
        obs[i].event = ServerId(n) /\ obs[i].event # NoEvent => i = n

(* obs holds copies of the observations of m.                              *)
Absorbed(obs, m) == \E i \in DOMAIN obs : \E n \in Nat :
    obs[i].event = MergeId(m, n) /\ obs[i].event # NoEvent

(* A sequence of observations grown from another one: it has the old one   *)
(* in front, its events are as good, and it absorbed at most those of S.   *)
Continues(new, old, S) ==
    /\ Len(old) <= Len(new)
    /\ \A i \in 1 .. Len(old) : new[i] = old[i]
    /\ Distinct(old) /\ Placed(old) => Distinct(new) /\ Placed(new)
    /\ \A m \in MemoryId : Absorbed(new, m) => Absorbed(old, m) \/ m \in S

(* An event that may follow obs.                                           *)
Fits(obs, event) ==
    \/ event = NoEvent
    \/ event = ServerId(Len(obs) + 1)
    \/ /\ \A i \in DOMAIN obs : obs[i].event # event
       /\ \A n \in Nat : event # ServerId(n)
       /\ \A m \in MemoryId, n \in Nat : event # MergeId(m, n)

LEMMA AppendContinues ==
    ASSUME NEW obs \in Seq(Observation), NEW o \in Observation, Fits(obs, o.event)
    PROVE  Continues(Append(obs, o), obs, {})
  <1> DEFINE new == Append(obs, o)
  <1>1. /\ new \in Seq(Observation)
        /\ Len(new) = Len(obs) + 1
        /\ Len(obs) \in Nat
        /\ DOMAIN new = 1 .. Len(obs) + 1
        /\ DOMAIN obs = 1 .. Len(obs)
        /\ \A i \in 1 .. Len(obs) : new[i] = obs[i]
        /\ new[Len(obs) + 1] = o
    OBVIOUS
  <1> HIDE DEF new
  <1>2. ASSUME Distinct(obs), Placed(obs)
        PROVE  Distinct(new)
    <2>1. SUFFICES ASSUME NEW i \in 1 .. Len(obs), o.event # NoEvent,
                          obs[i].event = o.event
                   PROVE  FALSE
      BY <1>1, <1>2, <2>1 DEF Distinct
    <2>2. CASE o.event = ServerId(Len(obs) + 1)
      BY <1>1, <1>2, <2>1, <2>2 DEF Placed
    <2>3. QED
      BY <1>1, <2>1, <2>2 DEF Fits
  <1>3. ASSUME Distinct(obs), Placed(obs)
        PROVE  Placed(new)
    <2>1. ASSUME NEW n \in Nat, o.event = ServerId(n), o.event # NoEvent
          PROVE  n = Len(obs) + 1
      BY <2>1 DEF Fits, ServerId
    <2>2. QED
      BY <1>1, <1>3, <2>1 DEF Placed
  <1>4. ASSUME NEW m \in MemoryId, Absorbed(new, m)
        PROVE  Absorbed(obs, m)
    <2>1. PICK i \in 1 .. Len(obs) + 1, n \in Nat :
            new[i].event = MergeId(m, n) /\ new[i].event # NoEvent
      BY <1>1, <1>4 DEF Absorbed
    <2>2. i # Len(obs) + 1
      <3>1. SUFFICES ASSUME i = Len(obs) + 1
                     PROVE  FALSE
        OBVIOUS
      <3>2. o.event = MergeId(m, n) /\ o.event # NoEvent
        BY <1>1, <2>1, <3>1
      <3>3. o.event = ServerId(Len(obs) + 1)
        BY <3>2 DEF Fits
      <3>4. QED
        BY <3>2, <3>3 DEF ServerId, MergeId
    <2>3. i \in 1 .. Len(obs)
      BY <1>1, <2>2
    <2>4. QED
      BY <1>1, <2>1, <2>3 DEF Absorbed
  <1>5. QED
    BY <1>1, <1>2, <1>3, <1>4 DEF Continues, new

LEMMA ContinuesTransitive ==
    ASSUME NEW a \in Seq(Observation), NEW b \in Seq(Observation),
           NEW c \in Seq(Observation), NEW S,
           Continues(b, a, S), Continues(c, b, S)
    PROVE  Continues(c, a, S)
  <1>1. Len(a) \in Nat /\ Len(b) \in Nat /\ Len(c) \in Nat
    OBVIOUS
  <1>2. Len(a) <= Len(c) /\ \A i \in 1 .. Len(a) : c[i] = a[i]
    BY <1>1 DEF Continues
  <1>3. QED
    BY <1>2 DEF Continues

LEMMA ContinuesReflexive ==
    ASSUME NEW a \in Seq(Observation), NEW S
    PROVE  Continues(a, a, S)
  <1>1. Len(a) \in Nat
    OBVIOUS
  <1>2. QED
    BY <1>1 DEF Continues

LEMMA CopiesContinue ==
    ASSUME NEW target \in Row, NEW source \in Row, NEW m \in MemoryId,
           ~Absorbed(target.observations, m)
    PROVE  Continues(target.observations \o Copies(source, m), target.observations, {m})
  <1> DEFINE old == target.observations
             copies == Copies(source, m)
             new == old \o copies
             n == Len(old)
             k == Len(source.observations)
  <1>1. /\ old \in Seq(Observation) /\ copies \in Seq(Observation)
        /\ n \in Nat /\ k \in Nat
        /\ Len(copies) = k
    <2>1. old \in Seq(Observation) /\ source.observations \in Seq(Observation)
      BY DEF Row
    <2>2. copies \in Seq(Observation) /\ Len(copies) = k
      BY CopiesType
    <2>3. n \in Nat /\ k \in Nat
      BY <2>1
    <2>4. QED
      BY <2>1, <2>2, <2>3
  <1>2. \A i \in 1 .. k : copies[i].event = MergeId(m, i)
    BY CopiesType
  <1> HIDE DEF old, copies, k
  <1>3. /\ DOMAIN old = 1 .. n
        /\ Len(new) = n + k
        /\ DOMAIN new = 1 .. n + k
        /\ \A i \in 1 .. n : new[i] = old[i]
        /\ \A i \in n + 1 .. n + k : new[i] = copies[i - n]
    BY <1>1
  <1> HIDE DEF new
  <1>4. \A i \in n + 1 .. n + k : new[i].event = MergeId(m, i - n)
    BY <1>1, <1>2, <1>3
  <1>5. \A i \in 1 .. n, j \in n + 1 .. n + k :
           new[j].event # NoEvent => new[i].event # new[j].event
    BY <1>1, <1>3, <1>4, SMTT(20) DEF Absorbed, old
  <1> HIDE DEF n
  <1>6. ASSUME Distinct(old)
        PROVE  Distinct(new)
    <2>1. SUFFICES ASSUME NEW i \in 1 .. n + k, NEW j \in 1 .. n + k,
                          new[i].event = new[j].event, new[i].event # NoEvent
                   PROVE  i = j
      BY <1>3 DEF Distinct
    <2>2. CASE i \in 1 .. n /\ j \in 1 .. n
      BY <1>3, <1>6, <2>1, <2>2 DEF Distinct
    <2>3. CASE i \in n + 1 .. n + k /\ j \in n + 1 .. n + k
      <3>1. MergeId(m, i - n) = MergeId(m, j - n)
        BY <1>4, <2>1, <2>3
      <3>2. i - n = j - n
        BY <3>1 DEF MergeId
      <3>3. QED
        BY <1>1, <3>2
    <2>4. QED
      BY <1>1, <1>5, <2>1, <2>2, <2>3
  <1>7. ASSUME Placed(old)
        PROVE  Placed(new)
    <2>1. SUFFICES ASSUME NEW i \in 1 .. n + k, NEW p \in Nat,
                          new[i].event = ServerId(p), new[i].event # NoEvent
                   PROVE  i = p
      BY <1>3 DEF Placed
    <2>2. CASE i \in 1 .. n
      BY <1>3, <1>7, <2>1, <2>2 DEF Placed
    <2>3. CASE i \in n + 1 .. n + k
      <3>1. MergeId(m, i - n) = ServerId(p)
        BY <1>4, <2>1, <2>3
      <3>2. QED
        BY <3>1 DEF MergeId, ServerId
    <2>4. QED
      BY <1>1, <2>2, <2>3
  <1>8. ASSUME NEW o \in MemoryId, Absorbed(new, o), o # m
        PROVE  Absorbed(old, o)
    <2>1. PICK i \in 1 .. n + k, p \in Nat :
            new[i].event = MergeId(o, p) /\ new[i].event # NoEvent
      BY <1>3, <1>8 DEF Absorbed
    <2>2. CASE i \in 1 .. n
      BY <1>3, <2>1, <2>2 DEF Absorbed
    <2>3. CASE i \in n + 1 .. n + k
      <3>1. MergeId(m, i - n) = MergeId(o, p)
        BY <1>4, <2>1, <2>3
      <3>2. QED
        BY <1>8, <3>1 DEF MergeId
    <2>4. QED
      BY <1>1, <2>2, <2>3
  <1>9. n <= Len(new) /\ \A i \in 1 .. n : new[i] = old[i]
    BY <1>1, <1>3
  <1>10. QED
    BY <1>6, <1>7, <1>8, <1>9 DEF Continues, old, new, copies, n

-----------------------------------------------------------------------------
(* The latest version of row shows its state and all its evidence.         *)
UpToDate(row) ==
    /\ row.versions # <<>>
    /\ row.versions[Len(row.versions)] =
          [state |-> row.state, upTo |-> Len(row.observations)]

(* new is what a write makes of the row old: a stored memory with more     *)
(* evidence, at least one more version, and nothing of either lost.        *)
Writes(new, old, S) ==
    /\ new.status = "live"
    /\ Continues(new.observations, old.observations, S)
    /\ Len(old.versions) < Len(new.versions)
    /\ \A i \in 1 .. Len(old.versions) : new.versions[i] = old.versions[i]
    /\ UpToDate(new)

LEMMA RecordedWrites ==
    ASSUME NEW old \in Row, NEW new \in Row, NEW S,
           new.status = "live",
           Continues(new.observations, old.observations, S),
           Len(old.versions) <= Len(new.versions),
           \A i \in 1 .. Len(old.versions) : new.versions[i] = old.versions[i]
    PROVE  Writes(Recorded(new), old, S)
  <1> DEFINE v == [state |-> new.state, upTo |-> Len(new.observations)]
  <1>1. old.versions \in Seq(Snapshot) /\ new.versions \in Seq(Snapshot)
    BY DEF Row
  <1>2. v \in Snapshot
    BY DEF Snapshot, Row
  <1>3. /\ Recorded(new).status = "live"
        /\ Recorded(new).state = new.state
        /\ Recorded(new).observations = new.observations
        /\ Recorded(new).versions = Append(new.versions, v)
    BY DEF Recorded, Row
  <1> HIDE DEF v
  <1>4. /\ Len(Append(new.versions, v)) = Len(new.versions) + 1
        /\ Len(new.versions) \in Nat /\ Len(old.versions) \in Nat
        /\ \A i \in 1 .. Len(new.versions) : Append(new.versions, v)[i] = new.versions[i]
        /\ Append(new.versions, v)[Len(new.versions) + 1] = v
        /\ Append(new.versions, v) # <<>>
    BY <1>1, <1>2
  <1>5. UpToDate(Recorded(new))
    BY <1>3, <1>4 DEF UpToDate, v
  <1>6. QED
    BY <1>3, <1>4, <1>5 DEF Writes

LEMMA UnversionedWrites ==
    ASSUME NEW old \in Row, NEW new \in Row, NEW S,
           new.status = "live", new.versions = old.versions,
           Continues(new.observations, old.observations, S)
    PROVE  Writes(Recorded(new), old, S)
  <1>1. Len(old.versions) <= Len(new.versions)
    BY DEF Row
  <1>2. \A i \in 1 .. Len(old.versions) : new.versions[i] = old.versions[i]
    OBVIOUS
  <1>3. QED
    BY <1>1, <1>2, RecordedWrites

(* The event of a teach or a correction fits when the memory has not       *)
(* observed it.                                                            *)
LEMMA EventOrFits ==
    ASSUME NEW row \in Row, NEW event \in ClientEvent \cup {NoEvent},
           ~(event # NoEvent /\ Observed(row, ClientId(event)))
    PROVE  Fits(row.observations, EventOr(row, event))
  <1>1. CASE event = NoEvent
    BY <1>1 DEF EventOr, Fits
  <1>2. CASE event # NoEvent
    <2>1. EventOr(row, event) = ClientId(event)
      BY <1>2 DEF EventOr
    <2>2. \A i \in DOMAIN row.observations : row.observations[i].event # ClientId(event)
      BY <1>2 DEF Observed
    <2>3. \A n \in Nat : ClientId(event) # ServerId(n)
      BY DEF ClientId, ServerId
    <2>4. \A m \in MemoryId, n \in Nat : ClientId(event) # MergeId(m, n)
      BY DEF ClientId, MergeId
    <2>5. QED
      BY <2>1, <2>2, <2>3, <2>4 DEF Fits
  <1>3. QED
    BY <1>1, <1>2

LEMMA TeachWrites ==
    ASSUME NEW row \in Row, NEW form \in Form, NEW scope \in Scope,
           NEW variants \in SUBSET Form, NEW event \in ClientEvent \cup {NoEvent},
           NEW context \in Context \cup {NoContext},
           ~(event # NoEvent /\ Observed(row, ClientId(event)))
    PROVE  Writes(Teach(row, form, scope, variants, event, context), row, {})
  <1> DEFINE obs == [event |-> EventOr(row, event), kind |-> "explicit_teach",
                     accepted |-> TRUE, reason |-> "ACCEPTED", context |-> context]
             new == [row EXCEPT
                       !.status = "live", !.canonical = form, !.state = "confirmed",
                       !.scope = scope, !.variants = @ \cup variants,
                       !.observations = Append(@, obs)]
  <1>1. obs \in Observation
    BY EventOrType DEF Observation, Kind, Reason
  <1>2. row.observations \in Seq(Observation)
    BY DEF Row
  <1>3. Continues(Append(row.observations, obs), row.observations, {})
    BY <1>1, <1>2, EventOrFits, AppendContinues
  <1>4. Append(row.observations, obs) \in Seq(Observation)
    BY <1>1, <1>2
  <1>5. new \in Row
    BY <1>4 DEF Row, State
  <1>6. new.status = "live" /\ new.versions = row.versions
    BY DEF Row
  <1>7. Continues(new.observations, row.observations, {})
    BY <1>3 DEF Row
  <1> HIDE DEF new
  <1>8. Writes(Recorded(new), row, {})
    BY <1>5, <1>6, <1>7, UnversionedWrites
  <1>9. QED
    BY <1>8 DEF Teach, new

LEMMA CorrectWrites ==
    ASSUME NEW row \in Row, NEW form \in Form, NEW source \in Form,
           NEW event \in ClientEvent \cup {NoEvent}, NEW context \in Context,
           NEW confirm \in BOOLEAN,
           ~(event # NoEvent /\ Observed(row, ClientId(event)))
    PROVE  Writes(Correct(row, form, source, event, context, confirm), row, {})
  <1> DEFINE o == [event |-> EventOr(row, event), kind |-> "accepted_correction",
                   accepted |-> TRUE, reason |-> "ACCEPTED", context |-> context]
             obs == Append(row.observations, o)
             state == IF confirm THEN "confirmed"
                      ELSE IF row.status = "unused" THEN "candidate"
                      ELSE row.state
             new == [row EXCEPT
                       !.status = "live", !.canonical = form,
                       !.state = Reconcile(state, obs, confirm),
                       !.scope = IF row.status = "unused" THEN "contextual" ELSE @,
                       !.variants = @ \cup {source},
                       !.observations = obs]
  <1>1. o \in Observation
    BY EventOrType DEF Observation, Kind, Reason
  <1>2. row.observations \in Seq(Observation)
    BY DEF Row
  <1>3. Continues(obs, row.observations, {})
    BY <1>1, <1>2, EventOrFits, AppendContinues
  <1>4. obs \in Seq(Observation)
    BY <1>1, <1>2
  <1>5. Reconcile(state, obs, confirm) \in State
    <2>1. state \in State
      BY DEF State, Row
    <2>2. QED
      BY <2>1, ReconcileKeepsSuppression
  <1>6. new \in Row
    BY <1>4, <1>5 DEF Row, Scope
  <1>7. new.status = "live" /\ new.versions = row.versions
    BY DEF Row
  <1>8. Continues(new.observations, row.observations, {})
    BY <1>3 DEF Row
  <1> HIDE DEF new
  <1>9. Writes(Recorded(new), row, {})
    BY <1>6, <1>7, <1>8, UnversionedWrites
  <1>10. QED
    BY <1>9 DEF Correct, new

LEMMA FeedbackWrites ==
    ASSUME NEW row \in Row, NEW decision \in DecisionId,
           NEW target \in [memory : MemoryId, start : Start, source : Form,
                           asr : BOOLEAN, context : Context],
           NEW accepted \in BOOLEAN, NEW scope \in FeedbackScope,
           NEW suppress \in BOOLEAN, NEW context \in Context,
           row.status = "live",
           ~Observed(row, FeedbackId(decision, target.memory, target.start))
    PROVE  Writes(Feedback(row, decision, target, accepted, scope, suppress, context),
                  row, {})
  <1> DEFINE event == FeedbackId(decision, target.memory, target.start)
             o == [event |-> event,
                   kind |-> "intervention_feedback", accepted |-> accepted,
                   reason |-> FeedbackReason(row, accepted, scope),
                   context |-> context]
             obs == Append(row.observations, o)
             outcome == [decision |-> decision, source |-> target.source,
                         observation |-> Len(obs), accepted |-> accepted]
             state == IF suppress /\ ~accepted THEN "suppressed"
                      ELSE Reconcile(row.state, obs, FALSE)
             outcomes == IF target.asr THEN row.outcomes \cup {outcome} ELSE row.outcomes
             new == [row EXCEPT
                       !.state = IF suppress /\ ~accepted THEN "suppressed"
                                 ELSE Reconcile(@, obs, FALSE),
                       !.observations = obs,
                       !.outcomes = IF target.asr THEN @ \cup {outcome} ELSE @]
  <1>1. o \in Observation
    <2>1. event \in EventId
      BY DEF FeedbackId, EventId
    <2>2. FeedbackReason(row, accepted, scope) \in Reason
      BY DEF FeedbackReason, RejectionReason, Reason
    <2>3. QED
      BY <2>1, <2>2 DEF Observation, Kind
  <1>2. row.observations \in Seq(Observation)
    BY DEF Row
  <1>3. obs \in Seq(Observation) /\ Len(obs) \in Nat
    BY <1>1, <1>2
  <1>4. Fits(row.observations, event)
    <2>1. \A i \in DOMAIN row.observations : row.observations[i].event # event
      BY DEF Observed
    <2>2. \A n \in Nat : event # ServerId(n)
      BY DEF FeedbackId, ServerId
    <2>3. \A m \in MemoryId, n \in Nat : event # MergeId(m, n)
      BY DEF FeedbackId, MergeId
    <2>4. QED
      BY <2>1, <2>2, <2>3 DEF Fits
  <1>5. Continues(obs, row.observations, {})
    BY <1>1, <1>2, <1>4, AppendContinues
  <1>6. state \in State
    BY ReconcileKeepsSuppression DEF State, Row
  <1>7. outcomes \in SUBSET Outcome
    <2>1. outcome \in Outcome
      BY <1>3 DEF Outcome
    <2>2. QED
      BY <2>1 DEF Row
  <1>8. new \in Row
    BY <1>3, <1>6, <1>7 DEF Row
  <1>9. new.status = "live" /\ new.versions = row.versions
    BY DEF Row
  <1>10. Continues(new.observations, row.observations, {})
    BY <1>5 DEF Row
  <1> HIDE DEF new
  <1>11. Writes(Recorded(new), row, {})
    BY <1>8, <1>9, <1>10, UnversionedWrites
  <1>12. QED
    BY <1>11 DEF Feedback, new

LEMMA OverrideContinues ==
    ASSUME NEW row \in Row, NEW state \in State \cup {Keep}
    PROVE  /\ Override(row, state).status = row.status
           /\ Override(row, state).versions = row.versions
           /\ Continues(Override(row, state).observations, row.observations, {})
  <1>1. row.observations \in Seq(Observation)
    BY DEF Row
  <1>2. CASE state = Keep
    BY <1>1, <1>2, ContinuesReflexive DEF Override
  <1>3. CASE state # Keep
    <2> DEFINE o == [event |-> ServerId(Len(row.observations) + 1),
                     kind |-> IF state = "confirmed" THEN "state_override_confirmed"
                              ELSE "state_override",
                     accepted |-> state = "confirmed", reason |-> "USER_SET",
                     context |-> NoContext]
    <2>1. ServerId(Len(row.observations) + 1) \in EventId
      BY <1>1 DEF ServerId, EventId
    <2>2. o \in Observation
      <3>1. (state = "confirmed") \in BOOLEAN
        OBVIOUS
      <3>2. QED
        BY <2>1, <3>1 DEF Observation, Kind, Reason
    <2>3. Fits(row.observations, o.event)
      BY DEF Fits
    <2> HIDE DEF o
    <2>4. Continues(Append(row.observations, o), row.observations, {})
      BY <1>1, <2>2, <2>3, AppendContinues
    <2>5. QED
      BY <1>3, <2>4 DEF Override, Row, o
  <1>4. QED
    BY <1>2, <1>3

LEMMA ManualContextContinues ==
    ASSUME NEW row \in Row, NEW manual \in BOOLEAN
    PROVE  /\ ManualContext(row, manual).status = row.status
           /\ ManualContext(row, manual).versions = row.versions
           /\ Continues(ManualContext(row, manual).observations, row.observations, {})
  <1>1. row.observations \in Seq(Observation)
    BY DEF Row
  <1> DEFINE o == [event |-> NoEvent, kind |-> "manual_context_update",
                   accepted |-> TRUE, reason |-> "USER_OVERRIDE", context |-> NoContext]
  <1>2. o \in Observation
    BY DEF Observation, Kind, Reason, EventId
  <1>3. Fits(row.observations, o.event)
    BY DEF Fits
  <1> HIDE DEF o
  <1>4. Continues(Append(row.observations, o), row.observations, {})
    BY <1>1, <1>2, <1>3, AppendContinues
  <1>5. Continues(row.observations, row.observations, {})
    BY <1>1, ContinuesReflexive
  <1>6. QED
    BY <1>4, <1>5 DEF ManualContext, Row, o

LEMMA PatchWrites ==
    ASSUME NEW row \in Row, NEW change \in Change, row.status = "live"
    PROVE  Writes(Patch(row, change), row, {})
  <1> DEFINE renamed == Rename(row, change.canonical)
             overridden == Override(renamed, change.state)
             rescoped == Rescope(overridden, change.scope)
             new == ManualContext(rescoped, change.manual)
  <1>1. /\ change.state \in State \cup {Keep}
        /\ change.scope \in Scope \cup {Keep}
        /\ change.manual \in BOOLEAN
    BY DEF Change
  <1>2. /\ renamed \in Row /\ renamed.status = "live"
        /\ renamed.versions = row.versions /\ renamed.observations = row.observations
    BY DEF Rename, Change, Row
  <1> HIDE DEF renamed
  <1>3. /\ overridden \in Row /\ overridden.status = "live"
        /\ overridden.versions = row.versions
        /\ Continues(overridden.observations, row.observations, {})
    BY <1>1, <1>2, OverrideType, OverrideContinues
  <1> HIDE DEF overridden
  <1>4. /\ rescoped \in Row /\ rescoped.status = "live"
        /\ rescoped.versions = row.versions
        /\ rescoped.observations = overridden.observations
    BY <1>1, <1>3 DEF Rescope, Row
  <1> HIDE DEF rescoped
  <1>5. /\ new \in Row /\ new.status = "live"
        /\ new.versions = row.versions
        /\ Continues(new.observations, rescoped.observations, {})
    BY <1>1, <1>4, ManualContextType, ManualContextContinues
  <1> HIDE DEF new
  <1>6. Continues(new.observations, row.observations, {})
    <2>1. /\ row.observations \in Seq(Observation)
          /\ overridden.observations \in Seq(Observation)
          /\ new.observations \in Seq(Observation)
      BY <1>3, <1>5 DEF Row
    <2>2. QED
      BY <1>3, <1>4, <1>5, <2>1, ContinuesTransitive
  <1>7. Writes(Recorded(new), row, {})
    BY <1>5, <1>6, UnversionedWrites
  <1>8. QED
    BY <1>7 DEF Patch, new, rescoped, overridden, renamed

LEMMA MergeWrites ==
    ASSUME NEW target \in Row, NEW source \in Row, NEW m \in MemoryId,
           target.status = "live", source.canonical \in Form,
           ~Absorbed(target.observations, m)
    PROVE  Writes(Merge(target, source, m), target, {m})
  <1> DEFINE new == [target EXCEPT
            !.variants = @ \cup (({source.canonical} \cup source.variants)
                                   \ {target.canonical}),
            !.observations = @ \o Copies(source, m),
            !.outcomes = @ \cup MovedOutcomes(target, source, Len(target.observations))]
  <1>1. target.observations \o Copies(source, m) \in Seq(Observation)
    BY CopiesType DEF Row
  <1>2. target.outcomes \cup MovedOutcomes(target, source, Len(target.observations))
          \in SUBSET Outcome
    <2>1. Len(target.observations) \in Nat
      BY DEF Row
    <2>2. source.outcomes \in SUBSET Outcome /\ target.outcomes \in SUBSET Outcome
      BY DEF Row
    <2>3. QED
      BY <2>1, <2>2 DEF MovedOutcomes, Outcome
  <1>3. target.variants
          \cup (({source.canonical} \cup source.variants) \ {target.canonical})
          \in SUBSET Form
    BY DEF Row
  <1>4. new \in Row
    BY <1>1, <1>2, <1>3 DEF Row
  <1>5. new.status = "live" /\ new.versions = target.versions
    BY DEF Row
  <1>6. Continues(new.observations, target.observations, {m})
    BY CopiesContinue DEF Row
  <1> HIDE DEF new
  <1>7. Writes(Recorded(new), target, {m})
    BY <1>4, <1>5, <1>6, UnversionedWrites
  <1>8. QED
    BY <1>7 DEF Merge, new

(* A taught row whose state the import then sets.                          *)
LEMMA ImportWrites ==
    ASSUME NEW row \in Row, NEW taught \in Row, NEW state \in State,
           Writes(taught, row, {})
    PROVE  /\ Recorded([taught EXCEPT !.state = state]) \in Row
           /\ Writes(Recorded([taught EXCEPT !.state = state]), row, {})
  <1> DEFINE new == [taught EXCEPT !.state = state]
  <1>1. new \in Row
    BY DEF Row
  <1>2. /\ new.status = "live"
        /\ new.versions = taught.versions
        /\ new.observations = taught.observations
    BY DEF Row, Writes
  <1> HIDE DEF new
  <1>3. Len(row.versions) \in Nat /\ Len(taught.versions) \in Nat
    BY DEF Row
  <1>4. Writes(Recorded(new), row, {})
    <2>1. /\ Continues(new.observations, row.observations, {})
          /\ Len(row.versions) <= Len(new.versions)
          /\ \A i \in 1 .. Len(row.versions) : new.versions[i] = row.versions[i]
      BY <1>2, <1>3 DEF Writes
    <2>2. QED
      BY <1>1, <1>2, <2>1, RecordedWrites
  <1>5. QED
    BY <1>1, <1>4, RecordedType DEF new

(* A patch renames as it was asked to, or keeps the canonical form; its    *)
(* state too.                                                              *)
LEMMA PatchCanonical ==
    ASSUME NEW row \in Row, NEW change \in Change
    PROVE  /\ Patch(row, change).canonical =
                  IF change.canonical = NoForm THEN row.canonical ELSE change.canonical
           /\ Patch(row, change).state =
                  IF change.state = Keep THEN row.state ELSE change.state
  <1> DEFINE form == IF change.canonical = NoForm THEN row.canonical ELSE change.canonical
             state == IF change.state = Keep THEN row.state ELSE change.state
             renamed == Rename(row, change.canonical)
             overridden == Override(renamed, change.state)
             rescoped == Rescope(overridden, change.scope)
             new == ManualContext(rescoped, change.manual)
  <1>1. renamed \in Row /\ renamed.canonical = form /\ renamed.state = row.state
    BY DEF Rename, Change, Row
  <1> HIDE DEF renamed
  <1>2. overridden \in Row
    BY <1>1, OverrideType DEF Change
  <1>3. overridden.canonical = form /\ overridden.state = state
    BY <1>1 DEF Override, Row
  <1> HIDE DEF overridden
  <1>4. rescoped \in Row /\ rescoped.canonical = form /\ rescoped.state = state
    BY <1>2, <1>3 DEF Rescope, Change, Row
  <1> HIDE DEF rescoped
  <1>5. new.canonical = form /\ new.state = state /\ new \in Row
    BY <1>4, ManualContextType DEF ManualContext, Change, Row
  <1> HIDE DEF new
  <1>6. Recorded(new).canonical = form /\ Recorded(new).state = state
    BY <1>5 DEF Recorded, Row
  <1>7. QED
    BY <1>6 DEF Patch, new, rescoped, overridden, renamed

-----------------------------------------------------------------------------
(* Every outcome of row is that of a feedback stored with it, and no two   *)
(* are of the same one.                                                    *)
Attributed(row) ==
    \A o \in row.outcomes :
        /\ o.observation \in DOMAIN row.observations
        /\ row.observations[o.observation].kind = "intervention_feedback"
        /\ row.observations[o.observation].accepted = o.accepted
        /\ \A p \in row.outcomes : p.observation = o.observation => p = o

(* The outcomes new has and old had not are about observations that old    *)
(* had not either.                                                         *)
OutcomesFollow(new, old) ==
    \A o \in new.outcomes \ old.outcomes : Len(old.observations) < o.observation

LEMMA JoinedSequences ==
    ASSUME NEW S, NEW a \in Seq(S), NEW b \in Seq(S)
    PROVE  /\ a \o b \in Seq(S) /\ DOMAIN (a \o b) = 1 .. Len(a) + Len(b)
           /\ \A i \in 1 .. Len(a) : (a \o b)[i] = a[i]
           /\ \A i \in 1 .. Len(b) : (a \o b)[Len(a) + i] = b[i]
  <1>1. Len(a) \in Nat /\ Len(b) \in Nat
    OBVIOUS
  <1>2. a \o b \in Seq(S) /\ Len(a \o b) = Len(a) + Len(b)
    OBVIOUS
  <1>3. DOMAIN (a \o b) = 1 .. Len(a) + Len(b)
    BY <1>2
  <1>4. \A i \in 1 .. Len(a) : (a \o b)[i] = a[i]
    BY <1>1
  <1>5. ASSUME NEW i \in 1 .. Len(b)
        PROVE  (a \o b)[Len(a) + i] = b[i]
    <2>1. Len(a) + i \in 1 .. Len(a) + Len(b) /\ ~(Len(a) + i <= Len(a))
      BY <1>1, <1>5
    <2>2. (a \o b)[Len(a) + i] = b[Len(a) + i - Len(a)]
      BY <2>1
    <2>3. Len(a) + i - Len(a) = i
      BY <1>1, <1>5
    <2>4. QED
      BY <2>2, <2>3
  <1>6. QED
    BY <1>2, <1>3, <1>4, <1>5

(* More observations leave the outcomes where they are.                    *)
LEMMA AttributedStays ==
    ASSUME NEW old \in Row, NEW new \in Row, NEW S, Attributed(old),
           new.outcomes = old.outcomes,
           Continues(new.observations, old.observations, S)
    PROVE  Attributed(new) /\ OutcomesFollow(new, old)
  <1>1. /\ DOMAIN old.observations = 1 .. Len(old.observations)
        /\ DOMAIN new.observations = 1 .. Len(new.observations)
        /\ Len(old.observations) \in Nat /\ Len(new.observations) \in Nat
    BY DEF Row
  <1>2. QED
    BY <1>1 DEF Attributed, OutcomesFollow, Continues

(* Only feedback and merges add outcomes.                                  *)
LEMMA OutcomesUnchanged ==
    ASSUME NEW row \in Row
    PROVE  /\ \A form, scope, variants, event, context :
                 Teach(row, form, scope, variants, event, context).outcomes = row.outcomes
           /\ \A form, source, event, context, confirm :
                 Correct(row, form, source, event, context, confirm).outcomes = row.outcomes
           /\ \A change \in Change : Patch(row, change).outcomes = row.outcomes
  <1>1. \A form, scope, variants, event, context :
           Teach(row, form, scope, variants, event, context).outcomes = row.outcomes
    BY DEF Teach, Recorded, Row
  <1>2. \A form, source, event, context, confirm :
           Correct(row, form, source, event, context, confirm).outcomes = row.outcomes
    BY DEF Correct, Recorded, Row
  <1>3. ASSUME NEW change \in Change
        PROVE  Patch(row, change).outcomes = row.outcomes
    <2> DEFINE renamed == Rename(row, change.canonical)
               overridden == Override(renamed, change.state)
               rescoped == Rescope(overridden, change.scope)
               new == ManualContext(rescoped, change.manual)
    <2>1. renamed \in Row /\ renamed.outcomes = row.outcomes
      BY DEF Rename, Change, Row
    <2> HIDE DEF renamed
    <2>2. overridden \in Row /\ overridden.outcomes = row.outcomes
      BY <2>1, OverrideType DEF Change, Override, Row
    <2> HIDE DEF overridden
    <2>3. rescoped \in Row /\ rescoped.outcomes = row.outcomes
      BY <2>2 DEF Rescope, Change, Row
    <2> HIDE DEF rescoped
    <2>4. new \in Row /\ new.outcomes = row.outcomes
      BY <2>3, ManualContextType DEF ManualContext, Change, Row
    <2> HIDE DEF new
    <2>5. Recorded(new).outcomes = row.outcomes
      BY <2>4 DEF Recorded, Row
    <2>6. QED
      BY <2>5 DEF Patch, new, rescoped, overridden, renamed
  <1>4. QED
    BY <1>1, <1>2, <1>3

LEMMA FeedbackAttributed ==
    ASSUME NEW row \in Row, NEW decision \in DecisionId,
           NEW target \in [memory : MemoryId, start : Start, source : Form,
                           asr : BOOLEAN, context : Context],
           NEW accepted \in BOOLEAN, NEW scope \in FeedbackScope,
           NEW suppress \in BOOLEAN, NEW context \in Context, Attributed(row)
    PROVE  LET new == Feedback(row, decision, target, accepted, scope, suppress, context)
           IN  Attributed(new) /\ OutcomesFollow(new, row)
  <1> DEFINE o == [event |-> FeedbackId(decision, target.memory, target.start),
                   kind |-> "intervention_feedback", accepted |-> accepted,
                   reason |-> FeedbackReason(row, accepted, scope), context |-> context]
             obs == Append(row.observations, o)
             n == Len(row.observations)
             added == [decision |-> decision, source |-> target.source,
                       observation |-> Len(obs), accepted |-> accepted]
             new == Feedback(row, decision, target, accepted, scope, suppress, context)
  <1>1. /\ row.observations \in Seq(Observation) /\ n \in Nat
        /\ DOMAIN row.observations = 1 .. n
    BY DEF Row
  <1>2. /\ Len(obs) = n + 1 /\ DOMAIN obs = 1 .. n + 1
        /\ \A i \in 1 .. n : obs[i] = row.observations[i]
        /\ obs[n + 1] = o
    BY <1>1
  <1>3. /\ added.observation = n + 1 /\ added.accepted = accepted
        /\ o.kind = "intervention_feedback" /\ o.accepted = accepted
    BY <1>2
  <1>4. /\ new.observations = obs
        /\ new.outcomes = IF target.asr THEN row.outcomes \cup {added} ELSE row.outcomes
    BY DEF Feedback, Recorded, Row
  <1> HIDE DEF new, obs, added, o, n
  <1>5. new.outcomes \subseteq row.outcomes \cup {added}
    BY <1>4
  <1>6. \A p \in row.outcomes : p.observation \in 1 .. n
    BY <1>1 DEF Attributed
  <1>7. Attributed(new)
    BY <1>1, <1>2, <1>3, <1>4, <1>5, <1>6 DEF Attributed
  <1>8. OutcomesFollow(new, row)
    BY <1>1, <1>3, <1>5 DEF OutcomesFollow, n
  <1>9. QED
    BY <1>7, <1>8 DEF new

LEMMA MergeAttributed ==
    ASSUME NEW target \in Row, NEW source \in Row, NEW m \in MemoryId,
           Attributed(target), Attributed(source)
    PROVE  Attributed(Merge(target, source, m)) /\ OutcomesFollow(Merge(target, source, m), target)
  <1> DEFINE new == Merge(target, source, m)
             n == Len(target.observations)
             k == Len(source.observations)
             moved == MovedOutcomes(target, source, n)
             Shifted(o) == [o EXCEPT !.observation = n + o.observation]
  <1>1. /\ target.observations \in Seq(Observation) /\ n \in Nat
        /\ source.observations \in Seq(Observation) /\ k \in Nat
        /\ DOMAIN target.observations = 1 .. n /\ DOMAIN source.observations = 1 .. k
    BY DEF Row
  <1>2. /\ new.observations = target.observations \o Copies(source, m)
        /\ new.outcomes = target.outcomes \cup moved
    BY DEF Merge, Recorded, Row
  <1>3. /\ Copies(source, m) \in Seq(Observation) /\ Len(Copies(source, m)) = k
        /\ \A i \in 1 .. k : /\ Copies(source, m)[i].kind = source.observations[i].kind
                             /\ Copies(source, m)[i].accepted = source.observations[i].accepted
    <2>1. Copies(source, m) \in Seq(Observation) /\ Len(Copies(source, m)) = k
      BY CopiesType
    <2>2. ASSUME NEW i \in 1 .. k
          PROVE  /\ Copies(source, m)[i].kind = source.observations[i].kind
                 /\ Copies(source, m)[i].accepted = source.observations[i].accepted
      <3>1. source.observations[i] \in Observation
        BY <1>1, <2>2
      <3>2. Copies(source, m)[i] = [source.observations[i] EXCEPT !.event = MergeId(m, i)]
        BY <2>2 DEF Copies
      <3>3. QED
        BY <3>1, <3>2 DEF Observation
    <2>3. QED
      BY <2>1, <2>2
  <1>4. /\ DOMAIN new.observations = 1 .. n + k
        /\ \A i \in 1 .. n : new.observations[i] = target.observations[i]
        /\ \A i \in 1 .. k : new.observations[n + i] = Copies(source, m)[i]
    <2> DEFINE copies == Copies(source, m)
               old == target.observations
               joined == old \o copies
    <2>1. old \in Seq(Observation) /\ copies \in Seq(Observation)
      BY <1>1, <1>3
    <2>2. Len(old) = n /\ Len(copies) = k /\ new.observations = joined
      BY <1>2, <1>3
    <2> HIDE DEF copies, old, n, k, new
    <2>3. DOMAIN joined = 1 .. Len(old) + Len(copies)
      BY <2>1, JoinedSequences
    <2>4. \A i \in 1 .. Len(old) : joined[i] = old[i]
      BY <2>1, JoinedSequences
    <2>5. \A i \in 1 .. Len(copies) : joined[Len(old) + i] = copies[i]
      BY <2>1, JoinedSequences
    <2> HIDE DEF joined
    <2>6. QED
      BY <2>2, <2>3, <2>4, <2>5 DEF copies, old
  <1>5. \A p \in target.outcomes : p.observation \in 1 .. n
    BY <1>1 DEF Attributed
  <1>6. ASSUME NEW p \in moved
        PROVE  \E s \in source.outcomes :
                  /\ p = Shifted(s) /\ s \in Outcome
                  /\ s.observation \in 1 .. k /\ p.observation = n + s.observation
                  /\ p.accepted = s.accepted
    <2>1. PICK s \in source.outcomes : p = Shifted(s)
      BY <1>6 DEF MovedOutcomes
    <2>2. s \in Outcome /\ s.observation \in 1 .. k
      BY <1>1 DEF Row, Attributed
    <2>3. p.observation = n + s.observation /\ p.accepted = s.accepted
      BY <2>1, <2>2 DEF Outcome
    <2>4. QED
      BY <2>1, <2>2, <2>3
  <1> HIDE DEF new, moved, n, k, Shifted
  <1>7. ASSUME NEW p \in moved
        PROVE  /\ p.observation \in DOMAIN new.observations /\ n < p.observation
               /\ new.observations[p.observation].kind = "intervention_feedback"
               /\ new.observations[p.observation].accepted = p.accepted
               /\ \A q \in moved : q.observation = p.observation => q = p
    <2>1. PICK s \in source.outcomes :
             /\ p = Shifted(s)
             /\ s.observation \in 1 .. k /\ p.observation = n + s.observation
             /\ p.accepted = s.accepted
      BY <1>6, <1>7
    <2>2. p.observation \in DOMAIN new.observations /\ n < p.observation
      BY <1>1, <1>4, <2>1
    <2>3. new.observations[p.observation] = Copies(source, m)[s.observation]
      BY <1>4, <2>1
    <2>4. /\ source.observations[s.observation].kind = "intervention_feedback"
          /\ source.observations[s.observation].accepted = s.accepted
          /\ \A r \in source.outcomes : r.observation = s.observation => r = s
      BY DEF Attributed
    <2>5. /\ new.observations[p.observation].kind = "intervention_feedback"
          /\ new.observations[p.observation].accepted = p.accepted
      BY <1>3, <2>1, <2>3, <2>4
    <2>6. ASSUME NEW q \in moved, q.observation = p.observation
          PROVE  q = p
      <3>1. PICK r \in source.outcomes :
               /\ q = Shifted(r) /\ r.observation \in 1 .. k
               /\ q.observation = n + r.observation
        BY <1>6, <2>6
      <3>2. r.observation = s.observation
        BY <1>1, <2>1, <2>6, <3>1
      <3>3. QED
        BY <2>1, <2>4, <3>1, <3>2
    <2>7. QED
      BY <2>2, <2>5, <2>6
  <1>8. Attributed(new)
    <2>1. SUFFICES ASSUME NEW p \in target.outcomes \cup moved
                   PROVE  /\ p.observation \in DOMAIN new.observations
                          /\ new.observations[p.observation].kind = "intervention_feedback"
                          /\ new.observations[p.observation].accepted = p.accepted
                          /\ \A q \in target.outcomes \cup moved :
                                q.observation = p.observation => q = p
      BY <1>2 DEF Attributed
    <2>2. CASE p \in moved
      <3>1. \A q \in target.outcomes : q.observation # p.observation
        BY <1>1, <1>5, <1>7, <2>2
      <3>2. QED
        BY <1>7, <2>2, <3>1
    <2>3. CASE p \in target.outcomes
      <3>1. \A q \in moved : q.observation # p.observation
        BY <1>1, <1>5, <1>7, <2>3
      <3>2. QED
        BY <1>1, <1>4, <1>5, <2>3, <3>1 DEF Attributed
    <2>4. QED
      BY <2>2, <2>3
  <1>9. OutcomesFollow(new, target)
    BY <1>2, <1>7 DEF OutcomesFollow, n
  <1>10. QED
    BY <1>8, <1>9 DEF new

-----------------------------------------------------------------------------
LEMMA AppendedLast ==
    ASSUME NEW obs \in Seq(Observation), NEW o \in Observation
    PROVE  /\ Append(obs, o) \in Seq(Observation)
           /\ Append(obs, o)[Len(Append(obs, o))] = o
  <1>1. Len(obs) \in Nat /\ Len(Append(obs, o)) = Len(obs) + 1
    OBVIOUS
  <1>2. QED
    BY <1>1

(* The last observation of a patch that sets the state is the user's.      *)
LEMMA PatchLast ==
    ASSUME NEW row \in Row, NEW change \in Change, change.state # Keep
    PROVE  LET obs == Patch(row, change).observations
           IN  obs[Len(obs)].reason \in {"USER_SET", "USER_OVERRIDE"}
  <1> DEFINE renamed == Rename(row, change.canonical)
             set == [event |-> ServerId(Len(renamed.observations) + 1),
                     kind |-> IF change.state = "confirmed" THEN "state_override_confirmed"
                              ELSE "state_override",
                     accepted |-> change.state = "confirmed", reason |-> "USER_SET",
                     context |-> NoContext]
             manual == [event |-> NoEvent, kind |-> "manual_context_update",
                        accepted |-> TRUE, reason |-> "USER_OVERRIDE",
                        context |-> NoContext]
             overridden == Override(renamed, change.state)
             rescoped == Rescope(overridden, change.scope)
             new == ManualContext(rescoped, change.manual)
  <1>1. renamed \in Row
    BY DEF Rename, Change, Row
  <1>2. set \in Observation
    <2>1. ServerId(Len(renamed.observations) + 1) \in EventId
      BY <1>1 DEF ServerId, EventId, Row
    <2>2. (change.state = "confirmed") \in BOOLEAN
      OBVIOUS
    <2> HIDE DEF renamed
    <2>3. QED
      BY <2>1, <2>2 DEF Observation, Kind, Reason
  <1>3. manual \in Observation
    BY DEF Observation, Kind, Reason, EventId
  <1> HIDE DEF renamed
  <1>4. overridden.observations = Append(renamed.observations, set)
    BY <1>1 DEF Override, Row
  <1>5. overridden \in Row
    BY <1>1, OverrideType DEF Change
  <1> HIDE DEF overridden, set, manual
  <1>6. rescoped \in Row /\ rescoped.observations = Append(renamed.observations, set)
    BY <1>4, <1>5 DEF Rescope, Change, Row
  <1> HIDE DEF rescoped
  <1>7. /\ new \in Row
        /\ new.observations \in {rescoped.observations, Append(rescoped.observations, manual)}
    BY <1>6, ManualContextType DEF ManualContext, Change, Row, manual
  <1> HIDE DEF new
  <1>8. new.observations[Len(new.observations)] \in {set, manual}
    <2>1. renamed.observations \in Seq(Observation) /\ rescoped.observations \in Seq(Observation)
      BY <1>1, <1>6 DEF Row
    <2>2. QED
      BY <1>2, <1>3, <1>6, <1>7, <2>1, AppendedLast
  <1>9. Patch(row, change).observations = new.observations
    BY <1>7 DEF Patch, Recorded, Row, new, rescoped, overridden, renamed
  <1>10. QED
    BY <1>8, <1>9 DEF set, manual

-----------------------------------------------------------------------------
(* A rejection in context adds no weight to either side of the posterior.  *)
LEMMA ContextRejectionWeightless ==
    ASSUME NEW before \in Seq(Observation), NEW after \in Seq(Observation),
           Len(after) = Len(before) + 1,
           \A i \in 1 .. Len(before) : after[i] = before[i],
           after[Len(after)].reason = "USER_REJECTED_CONTEXT",
           ~after[Len(after)].accepted
    PROVE  Contradicted(after) <=> Contradicted(before)
  <1>1. /\ DOMAIN before = 1 .. Len(before) /\ DOMAIN after = 1 .. Len(before) + 1
        /\ Len(before) \in Nat
    OBVIOUS
  <1>2. \A i \in DOMAIN after : i \in DOMAIN before \/ i = Len(after)
    BY <1>1
  <1>3. \A i \in DOMAIN before : i \in DOMAIN after /\ after[i] = before[i]
    BY <1>1
  <1>4. \A kind : OfKind(after, kind) = OfKind(before, kind)
    BY <1>2, <1>3 DEF OfKind
  <1>5. /\ Taught(after) = Taught(before) /\ Corrected(after) = Corrected(before)
        /\ Confirmed(after) = Confirmed(before)
    BY <1>4 DEF Taught, Corrected, Confirmed
  <1>6. Rejected(after) = Rejected(before)
    BY <1>2, <1>3 DEF Rejected
  <1>7. Alpha(after) = Alpha(before) /\ Beta(after) = Beta(before)
    BY <1>5, <1>6 DEF Alpha, Beta
  <1>8. QED
    BY <1>6, <1>7 DEF Contradicted, PosteriorAtLeast

(* The contexts counted for promotion are those of accepted observations.  *)
LEMMA ContextsCounted ==
    ASSUME NEW obs \in Seq(Observation),
           Cardinality(Contexts(obs)) >= MinDistinctContexts
    PROVE  Cardinality({obs[i].context :
              i \in {j \in DOMAIN obs : obs[j].accepted /\ obs[j].context # NoContext}})
             >= MinDistinctContexts
  <1> DEFINE D == {j \in DOMAIN obs : obs[j].accepted /\ obs[j].context # NoContext}
             C == {obs[i].context : i \in D}
             f == [i \in D |-> obs[i].context]
  <1>1. IsFiniteSet(D)
    <2>1. DOMAIN obs = 1 .. Len(obs) /\ Len(obs) \in Int
      OBVIOUS
    <2>2. IsFiniteSet(1 .. Len(obs))
      BY <2>1, FS_Interval
    <2>3. D \subseteq 1 .. Len(obs)
      BY <2>1
    <2>4. QED
      BY <2>2, <2>3, FS_Subset
  <1>2. f \in Surjection(D, C)
    BY DEF Surjection
  <1>3. IsFiniteSet(C)
    BY <1>1, <1>2, FS_Surjection
  <1>4. Contexts(obs) \subseteq C
    BY DEF Contexts, Positive, Taught, Corrected, Confirmed, OfKind
  <1> HIDE DEF C, D, f
  <1>5. /\ IsFiniteSet(Contexts(obs))
        /\ Cardinality(Contexts(obs)) <= Cardinality(C)
    BY <1>3, <1>4, FS_Subset
  <1>6. Cardinality(C) \in Nat /\ Cardinality(Contexts(obs)) \in Nat
    BY <1>3, <1>5, FS_CardinalityType
  <1>7. MinDistinctContexts \in Nat
    BY TrustAssumption
  <1>8. QED
    BY <1>5, <1>6, <1>7 DEF C, D

-----------------------------------------------------------------------------
(* The weights of the evidence are natural numbers.                        *)
LEMMA WeightsType ==
    ASSUME NEW obs \in Seq(Observation)
    PROVE  Alpha(obs) \in Nat /\ Beta(obs) \in Nat
  <1>1. IsFiniteSet(DOMAIN obs)
    <2>1. DOMAIN obs = 1 .. Len(obs) /\ Len(obs) \in Int
      OBVIOUS
    <2>2. IsFiniteSet(1 .. Len(obs))
      BY <2>1, FS_Interval
    <2>3. QED
      BY <2>1, <2>2
  <1>2. \A S : S \subseteq DOMAIN obs => Cardinality(S) \in Nat
    BY <1>1, FS_Subset, FS_CardinalityType
  <1>3. /\ Cardinality(Taught(obs)) \in Nat
        /\ Cardinality(Corrected(obs)) \in Nat
        /\ Cardinality(Confirmed(obs)) \in Nat
        /\ Cardinality(Rejected(obs)) \in Nat
    <2>1. /\ Taught(obs) \subseteq DOMAIN obs /\ Corrected(obs) \subseteq DOMAIN obs
          /\ Confirmed(obs) \subseteq DOMAIN obs /\ Rejected(obs) \subseteq DOMAIN obs
      BY DEF Taught, Corrected, Confirmed, Rejected, OfKind
    <2>2. QED
      BY <1>2, <2>1
  <1>4. \A a, b \in Nat : a * b \in Nat
    OBVIOUS
  <1>5. /\ ExplicitWeight * Cardinality(Taught(obs)) \in Nat
        /\ CorrectionWeight * Cardinality(Corrected(obs)) \in Nat
        /\ ConfirmationWeight * Cardinality(Confirmed(obs)) \in Nat
        /\ RejectionWeight * Cardinality(Rejected(obs)) \in Nat
        /\ PriorAlpha \in Nat /\ PriorBeta \in Nat
    BY <1>3, <1>4, TrustAssumption
  <1>6. QED
    BY <1>5 DEF Alpha, Beta

(* Evidence good enough to confirm is never bad enough to demote.          *)
LEMMA ThresholdsOrdered ==
    ASSUME NEW obs \in Seq(Observation), PosteriorAtLeast(obs, AutoConfirm)
    PROVE  PosteriorAtLeast(obs, Demote)
  <1>1. ASSUME NEW a \in Nat, NEW b \in Nat, NEW high \in Nat, NEW low \in 0 .. high,
               100 * a >= high * (a + b)
        PROVE  100 * a >= low * (a + b)
    <2>1. (high - low) * (a + b) >= 0
      <3>1. \A x, y \in Nat : x * y \in Nat
        OBVIOUS
      <3>2. high - low \in Nat /\ a + b \in Nat
        OBVIOUS
      <3>3. QED
        BY <3>1, <3>2
    <2>2. high * (a + b) = low * (a + b) + (high - low) * (a + b)
      OBVIOUS
    <2>3. QED
      BY <1>1, <2>1, <2>2
  <1>2. AutoConfirm \in Nat /\ Demote \in 0 .. AutoConfirm
    BY TrustAssumption
  <1>3. QED
    BY <1>1, <1>2, WeightsType DEF PosteriorAtLeast

(* A reconciled state is stable: the same evidence moves it no further.    *)
LEMMA ReconcileSettles ==
    ASSUME NEW state \in State, NEW obs \in Seq(Observation)
    PROVE  Recommendation(Reconcile(state, obs, FALSE), obs) \in {"hold", "hold_suppressed"}
  <1>1. ~(ConfirmationGates(obs) /\ Contradicted(obs))
    BY ThresholdsOrdered DEF ConfirmationGates, Contradicted
  <1>2. QED
    BY <1>1 DEF Reconcile, Recommendation, State

(* Evidence that is not a rejection never makes a memory contradicted.     *)
LEMMA SupportNeverContradicts ==
    ASSUME NEW obs \in Seq(Observation), NEW o \in Observation,
           o.kind # "intervention_feedback" \/ o.accepted,
           Contradicted(Append(obs, o))
    PROVE  Contradicted(obs)
  <1> DEFINE all == Append(obs, o)
  <1>1. /\ all \in Seq(Observation) /\ Len(obs) \in Nat
        /\ DOMAIN obs = 1 .. Len(obs) /\ DOMAIN all = 1 .. Len(obs) + 1
        /\ \A i \in 1 .. Len(obs) : all[i] = obs[i]
        /\ all[Len(obs) + 1] = o
    OBVIOUS
  <1> HIDE DEF all
  <1>2. Rejected(all) = Rejected(obs)
    BY <1>1 DEF Rejected
  <1>3. /\ Taught(obs) \subseteq Taught(all)
        /\ Corrected(obs) \subseteq Corrected(all)
        /\ Confirmed(obs) \subseteq Confirmed(all)
    BY <1>1 DEF Taught, Corrected, Confirmed, OfKind
  <1>4. \A S, T : S \subseteq T /\ T \subseteq DOMAIN all =>
          /\ Cardinality(S) \in Nat /\ Cardinality(T) \in Nat
          /\ Cardinality(S) <= Cardinality(T)
    <2>1. IsFiniteSet(DOMAIN all)
      <3>1. Len(obs) + 1 \in Int
        BY <1>1
      <3>2. IsFiniteSet(1 .. Len(obs) + 1)
        BY <3>1, FS_Interval
      <3>3. QED
        BY <1>1, <3>2
    <2>2. QED
      BY <2>1, FS_Subset, FS_CardinalityType
  <1>5. /\ Taught(all) \subseteq DOMAIN all /\ Corrected(all) \subseteq DOMAIN all
        /\ Confirmed(all) \subseteq DOMAIN all
    BY DEF Taught, Corrected, Confirmed, OfKind
  <1>6. Alpha(obs) <= Alpha(all)
    <2>1. \A w, a, b \in Nat : a <= b => w * a <= w * b /\ w * a \in Nat /\ w * b \in Nat
      <3>1. ASSUME NEW w \in Nat, NEW a \in Nat, NEW b \in Nat, a <= b
            PROVE  w * a <= w * b /\ w * a \in Nat /\ w * b \in Nat
        <4>1. \A x, y \in Nat : x * y \in Nat
          OBVIOUS
        <4>2. b - a \in Nat
          BY <3>1
        <4>3. w * (b - a) \in Nat /\ w * a \in Nat /\ w * b \in Nat
          BY <4>1, <4>2
        <4>4. w * b = w * a + w * (b - a)
          OBVIOUS
        <4>5. QED
          BY <4>3, <4>4
      <3>2. QED
        BY <3>1
    <2> DEFINE t == Cardinality(Taught(obs))
               c == Cardinality(Corrected(obs))
               f == Cardinality(Confirmed(obs))
               t2 == Cardinality(Taught(all))
               c2 == Cardinality(Corrected(all))
               f2 == Cardinality(Confirmed(all))
    <2>2. /\ t \in Nat /\ t2 \in Nat /\ t <= t2
          /\ c \in Nat /\ c2 \in Nat /\ c <= c2
          /\ f \in Nat /\ f2 \in Nat /\ f <= f2
      BY <1>3, <1>4, <1>5
    <2>3. /\ Alpha(obs) = PriorAlpha + ExplicitWeight * t + CorrectionWeight * c
                            + ConfirmationWeight * f
          /\ Alpha(all) = PriorAlpha + ExplicitWeight * t2 + CorrectionWeight * c2
                            + ConfirmationWeight * f2
      BY DEF Alpha
    <2> HIDE DEF t, c, f, t2, c2, f2
    <2>4. /\ PriorAlpha \in Nat /\ ExplicitWeight \in Nat
          /\ CorrectionWeight \in Nat /\ ConfirmationWeight \in Nat
      BY TrustAssumption
    <2>5. /\ ExplicitWeight * t <= ExplicitWeight * t2
          /\ ExplicitWeight * t \in Nat /\ ExplicitWeight * t2 \in Nat
          /\ CorrectionWeight * c <= CorrectionWeight * c2
          /\ CorrectionWeight * c \in Nat /\ CorrectionWeight * c2 \in Nat
          /\ ConfirmationWeight * f <= ConfirmationWeight * f2
          /\ ConfirmationWeight * f \in Nat /\ ConfirmationWeight * f2 \in Nat
      BY <2>1, <2>2, <2>4
    <2>6. QED
      BY <2>3, <2>4, <2>5
  <1>7. Beta(all) = Beta(obs)
    BY <1>2 DEF Beta
  <1>8. ASSUME NEW a \in Nat, NEW b \in Nat, NEW c \in Nat, a <= c, NEW p \in 0 .. 100,
               100 * a >= p * (a + b)
        PROVE  100 * c >= p * (c + b)
    <2>1. 100 - p \in Nat /\ c - a \in Nat
      BY <1>8
    <2>2. (100 - p) * (c - a) \in Nat
      <3>1. \A x, y \in Nat : x * y \in Nat
        OBVIOUS
      <3>2. QED
        BY <2>1, <3>1
    <2>3. (100 - p) * (c - a) = (100 * c - p * (c + b)) - (100 * a - p * (a + b))
      OBVIOUS
    <2>4. p * (a + b) \in Int /\ p * (c + b) \in Int
      OBVIOUS
    <2>5. QED
      BY <1>8, <2>2, <2>3, <2>4
  <1>9. Demote \in 0 .. 100
    BY TrustAssumption
  <1>10. PosteriorAtLeast(obs, Demote) => PosteriorAtLeast(all, Demote)
    BY <1>1, <1>6, <1>7, <1>8, <1>9, WeightsType DEF PosteriorAtLeast
  <1>11. QED
    BY <1>2, <1>10 DEF Contradicted, all

(* Nothing a patch records counts against a memory.                        *)
LEMMA PatchNeverContradicts ==
    ASSUME NEW row \in Row, NEW change \in Change,
           Contradicted(Patch(row, change).observations)
    PROVE  Contradicted(row.observations)
  <1> DEFINE renamed == Rename(row, change.canonical)
             set == [event |-> ServerId(Len(renamed.observations) + 1),
                     kind |-> IF change.state = "confirmed" THEN "state_override_confirmed"
                              ELSE "state_override",
                     accepted |-> change.state = "confirmed", reason |-> "USER_SET",
                     context |-> NoContext]
             manual == [event |-> NoEvent, kind |-> "manual_context_update",
                        accepted |-> TRUE, reason |-> "USER_OVERRIDE",
                        context |-> NoContext]
             overridden == Override(renamed, change.state)
             rescoped == Rescope(overridden, change.scope)
             new == ManualContext(rescoped, change.manual)
  <1>1. renamed \in Row /\ renamed.observations = row.observations
    BY DEF Rename, Change, Row
  <1>2. change.state \in State \cup {Keep} /\ change.scope \in Scope \cup {Keep}
    BY DEF Change
  <1>3. set \in Observation /\ set.kind # "intervention_feedback"
    <2>1. ServerId(Len(renamed.observations) + 1) \in EventId
      BY <1>1 DEF ServerId, EventId, Row
    <2>2. (change.state = "confirmed") \in BOOLEAN
      OBVIOUS
    <2> HIDE DEF renamed
    <2>3. QED
      BY <2>1, <2>2 DEF Observation, Kind, Reason
  <1>4. manual \in Observation /\ manual.kind # "intervention_feedback"
    BY DEF Observation, Kind, Reason, EventId
  <1>5. overridden.observations \in {renamed.observations, Append(renamed.observations, set)}
    BY <1>1 DEF Override, Row
  <1> HIDE DEF renamed, set
  <1>6. overridden \in Row
    BY <1>1, <1>2, OverrideType
  <1> HIDE DEF overridden
  <1>7. rescoped \in Row /\ rescoped.observations = overridden.observations
    BY <1>2, <1>6 DEF Rescope, Row
  <1> HIDE DEF rescoped
  <1>8. new.observations \in {rescoped.observations, Append(rescoped.observations, manual)}
    BY <1>7 DEF ManualContext, Row
  <1> HIDE DEF manual
  <1>9. Patch(row, change).observations = new.observations
    <2>1. new \in Row
      BY <1>7, ManualContextType DEF Change
    <2>2. Patch(row, change) = Recorded(new)
      BY DEF Patch, new, rescoped, overridden, renamed
    <2> HIDE DEF new
    <2>3. QED
      BY <2>1, <2>2 DEF Recorded, Row
  <1> HIDE DEF new
  <1>10. /\ rescoped.observations \in Seq(Observation)
         /\ renamed.observations \in Seq(Observation)
    BY <1>1, <1>7 DEF Row
  <1>11. ASSUME NEW obs \in Seq(Observation), NEW o \in Observation,
                o.kind # "intervention_feedback", NEW all \in {obs, Append(obs, o)},
                Contradicted(all)
         PROVE  Contradicted(obs)
    <2>1. CASE all = obs
      BY <1>11, <2>1
    <2>2. CASE all = Append(obs, o)
      <3>1. Contradicted(Append(obs, o)) /\ (o.kind # "intervention_feedback" \/ o.accepted)
        BY <1>11, <2>2
      <3>2. QED
        BY <3>1, SupportNeverContradicts
    <2>3. QED
      BY <2>1, <2>2
  <1>12. Contradicted(renamed.observations)
    <2>1. Contradicted(new.observations)
      BY <1>9
    <2>2. Contradicted(rescoped.observations)
      BY <1>4, <1>8, <1>10, <1>11, <2>1
    <2>3. Contradicted(overridden.observations)
      BY <1>7, <2>2
    <2>4. QED
      BY <1>3, <1>5, <1>10, <1>11, <2>3
  <1>13. QED
    BY <1>1, <1>12
=============================================================================
