-------------------------- MODULE ConcurrentProofs --------------------------
(***************************************************************************)
(* Theorems about ConcurrentLifecycle, for every number of workers and     *)
(* every set of requests.                                                  *)
(*                                                                         *)
(* The row a handler loaded may be stale when it commits, but it was a     *)
(* good row once (Loaded): what the handler makes of it is a write of that *)
(* row (MemoryRowProofs), and the constraints of models.py let its         *)
(* insertions follow whatever the stored row has become.                   *)
(***************************************************************************)
EXTENDS ConcurrentLifecycle, MemoryRowProofs

(* Rows that are not stored are blank, and stored ones have a form.        *)
RowsInv ==
    \A m \in MemoryId :
        /\ memories[m].status = "unused" => memories[m] = UnusedRow
        /\ memories[m].status = "deleted" => memories[m] = DeletedRow
        /\ Live(m) => memories[m].canonical \in Form

Gone(s) == memories[s].status = "deleted"

(* The events of obs are unique: generated ones sit where they were        *)
(* generated, and only deleted memories have been absorbed.                *)
Sound(obs) ==
    /\ Distinct(obs) /\ Placed(obs)
    /\ \A s \in MemoryId : Absorbed(obs, s) => Gone(s)

EventsInv == \A m \in MemoryId : Sound(memories[m].observations)

(* What a handler relies on, however long ago it loaded its rows.          *)
Loaded(h) ==
    /\ Sound(h.row.observations)
    /\ Attributed(h.row)
    /\ \/ h.row = UnusedRow /\ h.request.op \in {"teach", "correct"}
       \/ h.row.status = "live" /\ h.row.canonical \in Form
    /\ h.request.op = "feedback" => h.request.target.memory = h.memory
    /\ h.request.op = "merge" =>
          /\ h.request.source # h.memory
          /\ memories[h.request.source].status \in {"live", "deleted"}
          /\ ~Absorbed(h.row.observations, h.request.source)
          /\ h.other.canonical \in Form
          /\ Attributed(h.other)

HandlersInv == \A w \in Worker : \A h \in handlers[w] : Loaded(h)

IInv ==
    /\ TypeOK /\ RowsInv /\ EventsInv /\ HandlersInv
    /\ CanonicalsUnique /\ OutcomesAttributed

(* The memories a request absorbs.                                         *)
Merged(h) == IF h.request.op = "merge" THEN {h.request.source} ELSE {}

-----------------------------------------------------------------------------
(* The fields of a request, by its operation.                              *)
LEMMA RequestFields ==
    ASSUME NEW r \in Request
    PROVE  /\ r.op \in {"teach", "correct", "feedback", "patch", "merge"}
           /\ r.op = "teach" =>
                 /\ r.form \in Form /\ r.scope \in Scope /\ r.variants \in SUBSET Form
                 /\ r.event \in ClientEvent \cup {NoEvent}
                 /\ r.context \in Context \cup {NoContext}
           /\ r.op = "correct" =>
                 /\ r.form \in Form /\ r.source \in Form
                 /\ r.event \in ClientEvent \cup {NoEvent}
                 /\ r.context \in Context /\ r.confirm \in BOOLEAN
           /\ r.op = "feedback" =>
                 /\ r.decision \in DecisionId /\ r.target \in Target
                 /\ r.accepted \in BOOLEAN /\ r.scope \in FeedbackScope
                 /\ r.suppress \in BOOLEAN
           /\ r.op = "patch" => r.memory \in MemoryId /\ r.change \in Change
           /\ r.op = "merge" => r.memory \in MemoryId /\ r.source \in MemoryId
  BY DEF Request

LEMMA RowsAttributed ==
    ASSUME OutcomesAttributed, NEW m \in MemoryId
    PROVE  Attributed(memories[m])
  BY DEF OutcomesAttributed, Attributed

(* What a handler makes of the row it loaded, when it makes anything.      *)
Made(h) ==
    /\ Computed(h) \in Row
    /\ Computed(h).canonical \in Form
    /\ Writes(Computed(h), h.row, Merged(h))
    /\ Attributed(Computed(h))
    /\ OutcomesFollow(Computed(h), h.row)

LEMMA TeachMakes ==
    ASSUME ConcurrentAssumption, NEW h \in Handler, Loaded(h), Computed(h) # h.row,
           h.request.op = "teach"
    PROVE  Made(h)
  <1> DEFINE r == h.request
             new == Teach(h.row, r.form, r.scope, r.variants, r.event, r.context)
  <1>1. /\ h.row \in Row /\ Attributed(h.row)
        /\ r.form \in Form /\ r.scope \in Scope /\ r.variants \in SUBSET Form
        /\ r.event \in ClientEvent \cup {NoEvent}
        /\ r.context \in Context \cup {NoContext}
    BY RequestFields DEF Handler, ConcurrentAssumption, Loaded
  <1>2. Computed(h) = new /\ Merged(h) = {}
    BY DEF Computed, Merged
  <1>3. ~(r.event # NoEvent /\ Observed(h.row, ClientId(r.event)))
    BY <1>2 DEF Teach
  <1>4. Writes(new, h.row, {}) /\ new \in Row
    BY <1>1, <1>3, TeachWrites, TeachType
  <1>5. new.canonical = r.form
    BY <1>1, <1>3 DEF Teach, Recorded, Row
  <1>6. new.outcomes = h.row.outcomes
    BY <1>1, OutcomesUnchanged
  <1> HIDE DEF new
  <1>7. Attributed(new) /\ OutcomesFollow(new, h.row)
    BY <1>1, <1>4, <1>6, AttributedStays DEF Writes
  <1>8. QED
    BY <1>1, <1>2, <1>4, <1>5, <1>7 DEF Made

LEMMA CorrectMakes ==
    ASSUME ConcurrentAssumption, NEW h \in Handler, Loaded(h), Computed(h) # h.row,
           h.request.op = "correct"
    PROVE  Made(h)
  <1> DEFINE r == h.request
             new == Correct(h.row, r.form, r.source, r.event, r.context, r.confirm)
  <1>1. /\ h.row \in Row /\ Attributed(h.row)
        /\ r.form \in Form /\ r.source \in Form
        /\ r.event \in ClientEvent \cup {NoEvent}
        /\ r.context \in Context /\ r.confirm \in BOOLEAN
    BY RequestFields DEF Handler, ConcurrentAssumption, Loaded
  <1>2. Computed(h) = new /\ Merged(h) = {}
    BY DEF Computed, Merged
  <1>3. ~(r.event # NoEvent /\ Observed(h.row, ClientId(r.event)))
    BY <1>2 DEF Correct
  <1>4. Writes(new, h.row, {}) /\ new \in Row
    BY <1>1, <1>3, CorrectWrites, CorrectType
  <1>5. new.canonical = r.form
    BY <1>1, <1>3 DEF Correct, Recorded, Row
  <1>6. new.outcomes = h.row.outcomes
    BY <1>1, OutcomesUnchanged
  <1> HIDE DEF new
  <1>7. Attributed(new) /\ OutcomesFollow(new, h.row)
    BY <1>1, <1>4, <1>6, AttributedStays DEF Writes
  <1>8. QED
    BY <1>1, <1>2, <1>4, <1>5, <1>7 DEF Made

LEMMA FeedbackMakes ==
    ASSUME ConcurrentAssumption, NEW h \in Handler, Loaded(h), Computed(h) # h.row,
           h.request.op = "feedback"
    PROVE  Made(h)
  <1> DEFINE r == h.request
             new == Feedback(h.row, r.decision, r.target, r.accepted, r.scope,
                             r.suppress, r.target.context)
  <1>1. /\ h.row \in Row /\ Attributed(h.row)
        /\ h.row.status = "live" /\ h.row.canonical \in Form
        /\ r.target.memory = h.memory
        /\ r.decision \in DecisionId /\ r.target \in Target
        /\ r.accepted \in BOOLEAN /\ r.scope \in FeedbackScope
        /\ r.suppress \in BOOLEAN
    BY RequestFields DEF Handler, ConcurrentAssumption, Loaded
  <1>2. /\ Computed(h) = new /\ Merged(h) = {}
        /\ ~Observed(h.row, FeedbackId(r.decision, r.target.memory, r.target.start))
    BY <1>1 DEF Computed, Merged
  <1>3. r.target.context \in Context
    BY <1>1 DEF Target
  <1>4. Writes(new, h.row, {}) /\ new \in Row
    BY <1>1, <1>2, <1>3, FeedbackWrites, FeedbackType DEF Target
  <1>5. new.canonical = h.row.canonical
    BY <1>1 DEF Feedback, Recorded, Row
  <1>6. Attributed(new) /\ OutcomesFollow(new, h.row)
    BY <1>1, <1>3, FeedbackAttributed DEF Target
  <1> HIDE DEF new
  <1>7. QED
    BY <1>1, <1>2, <1>4, <1>5, <1>6 DEF Made

LEMMA PatchMakes ==
    ASSUME ConcurrentAssumption, NEW h \in Handler, Loaded(h), h.request.op = "patch"
    PROVE  Made(h)
  <1> DEFINE new == Patch(h.row, h.request.change)
  <1>1. /\ h.row \in Row /\ Attributed(h.row)
        /\ h.row.status = "live" /\ h.row.canonical \in Form
        /\ h.request.change \in Change
    BY RequestFields DEF Handler, ConcurrentAssumption, Loaded
  <1>2. Computed(h) = new /\ Merged(h) = {}
    BY DEF Computed, Merged
  <1>3. Writes(new, h.row, {}) /\ new \in Row
    BY <1>1, PatchWrites, PatchType
  <1>4. new.canonical \in Form
    BY <1>1, PatchCanonical DEF Change
  <1>5. new.outcomes = h.row.outcomes
    BY <1>1, OutcomesUnchanged
  <1> HIDE DEF new
  <1>6. Attributed(new) /\ OutcomesFollow(new, h.row)
    BY <1>1, <1>3, <1>5, AttributedStays DEF Writes
  <1>7. QED
    BY <1>2, <1>3, <1>4, <1>6 DEF Made

LEMMA MergeMakes ==
    ASSUME ConcurrentAssumption, NEW h \in Handler, Loaded(h), h.request.op = "merge"
    PROVE  Made(h)
  <1> DEFINE source == h.request.source
             new == Merge(h.row, h.other, source)
  <1>1. /\ h.row \in Row /\ Attributed(h.row)
        /\ h.row.status = "live" /\ h.row.canonical \in Form
        /\ h.other \in Row /\ Attributed(h.other) /\ h.other.canonical \in Form
        /\ source \in MemoryId /\ ~Absorbed(h.row.observations, source)
    BY RequestFields DEF Handler, ConcurrentAssumption, Loaded
  <1>2. Computed(h) = new /\ Merged(h) = {source}
    BY DEF Computed, Merged
  <1>3. Writes(new, h.row, {source}) /\ new \in Row
    BY <1>1, MergeWrites, MergeType
  <1>4. new.canonical = h.row.canonical
    BY <1>1 DEF Merge, Recorded, Row
  <1>5. Attributed(new) /\ OutcomesFollow(new, h.row)
    BY <1>1, MergeAttributed
  <1> HIDE DEF new
  <1>6. QED
    BY <1>1, <1>2, <1>3, <1>4, <1>5 DEF Made

LEMMA HandlerMakes ==
    ASSUME ConcurrentAssumption, NEW h \in Handler, Loaded(h), Computed(h) # h.row
    PROVE  Made(h)
  <1>1. h.request.op \in {"teach", "correct", "feedback", "patch", "merge"}
    BY RequestFields DEF Handler, ConcurrentAssumption
  <1>2. QED
    BY <1>1, TeachMakes, CorrectMakes, FeedbackMakes, PatchMakes, MergeMakes

-----------------------------------------------------------------------------
(* The observations inserted are those computed beyond the loaded ones,    *)
(* with the generated events moved to where they are stored.               *)
LEMMA InsertedShape ==
    ASSUME NEW h \in Handler, Made(h), NEW n \in Nat
    PROVE  LET k == Len(h.row.observations)
               obs == Computed(h).observations
               j == Len(obs) - k
               ins == Inserted(h, n)
           IN  /\ j \in Nat /\ k \in Nat
               /\ ins \in Seq(Observation) /\ Len(ins) = j /\ DOMAIN ins = 1 .. j
               /\ \A i \in 1 .. j :
                     /\ k + i \in DOMAIN obs
                     /\ ins[i].event = IF obs[k + i].event = ServerId(k + i)
                                       THEN ServerId(n + i) ELSE obs[k + i].event
                     /\ ins[i].kind = obs[k + i].kind
                     /\ ins[i].accepted = obs[k + i].accepted
  <1> DEFINE k == Len(h.row.observations)
             obs == Computed(h).observations
             j == Len(obs) - k
             moved(i) == IF obs[k + i].event = ServerId(k + i)
                         THEN [obs[k + i] EXCEPT !.event = ServerId(n + i)]
                         ELSE obs[k + i]
             ins == Inserted(h, n)
  <1>1. /\ obs \in Seq(Observation) /\ Len(obs) \in Nat /\ DOMAIN obs = 1 .. Len(obs)
        /\ k \in Nat /\ k <= Len(obs)
    BY DEF Made, Writes, Continues, Handler, Row
  <1>2. ins = [i \in 1 .. j |-> moved(i)]
    BY DEF Inserted
  <1> HIDE DEF obs, k, ins
  <1>3. j \in Nat /\ \A i \in 1 .. j : k + i \in DOMAIN obs /\ n + i \in Nat
    BY <1>1
  <1>4. ASSUME NEW i \in 1 .. j
        PROVE  /\ moved(i) \in Observation
               /\ moved(i).event = IF obs[k + i].event = ServerId(k + i)
                                   THEN ServerId(n + i) ELSE obs[k + i].event
               /\ moved(i).kind = obs[k + i].kind
               /\ moved(i).accepted = obs[k + i].accepted
    <2>1. obs[k + i] \in Observation
      BY <1>1, <1>3
    <2>2. ServerId(n + i) \in EventId
      BY <1>3 DEF ServerId, EventId
    <2>3. QED
      BY <2>1, <2>2 DEF Observation
  <1> HIDE DEF moved, j
  <1>5. ins \in [1 .. j -> Observation]
    BY <1>2, <1>4
  <1>6. ins \in Seq(Observation) /\ Len(ins) = j /\ DOMAIN ins = 1 .. j
    BY <1>3, <1>5
  <1>7. \A i \in 1 .. j : ins[i] = moved(i)
    BY <1>2
  <1>8. QED
    BY <1>1, <1>3, <1>4, <1>6, <1>7 DEF ins, obs, k, j

(* Appended to whatever is stored, the insertions keep its events unique   *)
(* when uq_observation_user_event_memory accepts them.                     *)
LEMMA InsertionSound ==
    ASSUME NEW h \in Handler, Loaded(h), Made(h), NEW old \in Seq(Observation),
           Sound(old),
           \A i \in DOMAIN Inserted(h, Len(old)) :
              Inserted(h, Len(old))[i].event # NoEvent =>
                 \A p \in DOMAIN old : old[p].event # Inserted(h, Len(old))[i].event
    PROVE  /\ Distinct(old \o Inserted(h, Len(old)))
           /\ Placed(old \o Inserted(h, Len(old)))
           /\ \A s \in MemoryId :
                 Absorbed(old \o Inserted(h, Len(old)), s) => Gone(s) \/ s \in Merged(h)
  <1> DEFINE n == Len(old)
             k == Len(h.row.observations)
             obs == Computed(h).observations
             j == Len(obs) - k
             ins == Inserted(h, n)
             new == old \o ins
  <1>1. n \in Nat /\ DOMAIN old = 1 .. n
    OBVIOUS
  <1>2. /\ j \in Nat /\ k \in Nat
        /\ ins \in Seq(Observation) /\ Len(ins) = j /\ DOMAIN ins = 1 .. j
        /\ \A i \in 1 .. j :
              /\ k + i \in DOMAIN obs
              /\ ins[i].event = IF obs[k + i].event = ServerId(k + i)
                                THEN ServerId(n + i) ELSE obs[k + i].event
    BY <1>1, InsertedShape
  <1>3. Distinct(obs) /\ Placed(obs)
    BY DEF Made, Writes, Continues, Loaded, Sound
  <1>4. \A s \in MemoryId : Absorbed(obs, s) => Gone(s) \/ s \in Merged(h)
    BY DEF Made, Writes, Continues, Loaded, Sound
  <1>5. \A i \in 1 .. j : ins[i].event # NoEvent =>
           \A p \in 1 .. n : old[p].event # ins[i].event
    BY <1>1, <1>2
  <1>6. /\ DOMAIN new = 1 .. n + j
        /\ \A i \in 1 .. n : new[i] = old[i]
        /\ \A i \in 1 .. j : new[n + i] = ins[i]
    <2>1. ASSUME NEW b \in Seq(Observation)
          PROVE  /\ DOMAIN (old \o b) = 1 .. Len(old) + Len(b)
                 /\ \A i \in 1 .. Len(old) : (old \o b)[i] = old[i]
                 /\ \A i \in 1 .. Len(b) : (old \o b)[Len(old) + i] = b[i]
      BY JoinedSequences
    <2>2. ins \in Seq(Observation) /\ Len(ins) = j
      BY <1>2
    <2> HIDE DEF ins, j
    <2>3. QED
      BY <2>1, <2>2
  <1> HIDE DEF new, ins, obs, j, k, n
  <1>7. ASSUME NEW i \in 1 .. n + j, i \notin 1 .. n
        PROVE  \E p \in 1 .. j : i = n + p
    <2>1. i - n \in 1 .. j /\ i = n + (i - n)
      BY <1>1, <1>2, <1>7
    <2>2. QED
      BY <2>1
  <1>8. \A p, q \in 1 .. j :
           ins[p].event = ins[q].event /\ ins[p].event # NoEvent => p = q
    <2> SUFFICES ASSUME NEW p \in 1 .. j, NEW q \in 1 .. j,
                        ins[p].event = ins[q].event, ins[p].event # NoEvent
                 PROVE  p = q
      OBVIOUS
    <2>0. n + p \in Nat /\ n + q \in Nat /\ k + p \in Nat /\ k + q \in Nat
      BY <1>1, <1>2
    <2>1. CASE obs[k + p].event = ServerId(k + p) /\ obs[k + q].event = ServerId(k + q)
      <3>1. ServerId(n + p) = ServerId(n + q)
        BY <1>2, <2>1
      <3>2. n + p = n + q
        BY <3>1 DEF ServerId
      <3>3. QED
        BY <1>1, <3>2
    <2>2. CASE obs[k + p].event # ServerId(k + p) /\ obs[k + q].event # ServerId(k + q)
      <3>1. obs[k + p].event = obs[k + q].event /\ obs[k + p].event # NoEvent
        BY <1>2, <2>2
      <3>2. k + p = k + q
        BY <1>2, <1>3, <3>1 DEF Distinct
      <3>3. QED
        BY <1>2, <3>2
    <2>3. CASE obs[k + p].event = ServerId(k + p) /\ obs[k + q].event # ServerId(k + q)
      <3>1. obs[k + q].event = ServerId(n + p) /\ obs[k + q].event # NoEvent
        BY <1>2, <2>3
      <3>2. k + q = n + p
        BY <1>2, <1>3, <2>0, <3>1 DEF Placed
      <3>3. QED
        BY <2>3, <3>1, <3>2
    <2>4. CASE obs[k + p].event # ServerId(k + p) /\ obs[k + q].event = ServerId(k + q)
      <3>1. obs[k + p].event = ServerId(n + q) /\ obs[k + p].event # NoEvent
        BY <1>2, <2>4
      <3>2. k + p = n + q
        BY <1>2, <1>3, <2>0, <3>1 DEF Placed
      <3>3. QED
        BY <2>4, <3>1, <3>2
    <2>5. QED
      BY <2>1, <2>2, <2>3, <2>4
  <1>9. Distinct(new)
    <2> SUFFICES ASSUME NEW i \in 1 .. n + j, NEW p \in 1 .. n + j,
                        new[i].event = new[p].event, new[i].event # NoEvent
                 PROVE  i = p
      BY <1>6 DEF Distinct
    <2>1. CASE i \in 1 .. n /\ p \in 1 .. n
      BY <1>1, <1>6, <2>1 DEF Sound, Distinct
    <2>2. CASE i \in 1 .. n /\ p \notin 1 .. n
      BY <1>5, <1>6, <1>7, <2>2
    <2>3. CASE i \notin 1 .. n /\ p \in 1 .. n
      BY <1>5, <1>6, <1>7, <2>3
    <2>4. CASE i \notin 1 .. n /\ p \notin 1 .. n
      <3>1. PICK a \in 1 .. j, b \in 1 .. j : i = n + a /\ p = n + b
        BY <1>7, <2>4
      <3>2. ins[a].event = ins[b].event /\ ins[a].event # NoEvent
        BY <1>6, <3>1
      <3>3. QED
        BY <1>8, <3>1, <3>2
    <2>5. QED
      BY <2>1, <2>2, <2>3, <2>4
  <1>10. Placed(new)
    <2> SUFFICES ASSUME NEW i \in 1 .. n + j, NEW q \in Nat,
                        new[i].event = ServerId(q), new[i].event # NoEvent
                 PROVE  i = q
      BY <1>6 DEF Placed
    <2>1. CASE i \in 1 .. n
      BY <1>1, <1>6, <2>1 DEF Sound, Placed
    <2>2. CASE i \notin 1 .. n
      <3>1. PICK a \in 1 .. j : i = n + a
        BY <1>7, <2>2
      <3>2. ins[a].event = ServerId(q) /\ ins[a].event # NoEvent
        BY <1>6, <3>1
      <3>3. CASE obs[k + a].event = ServerId(k + a)
        <4>1. ServerId(n + a) = ServerId(q)
          BY <1>2, <3>2, <3>3
        <4>2. QED
          BY <3>1, <4>1 DEF ServerId
      <3>4. CASE obs[k + a].event # ServerId(k + a)
        <4>1. obs[k + a].event = ServerId(q) /\ obs[k + a].event # NoEvent
          BY <1>2, <3>2, <3>4
        <4>2. k + a = q
          BY <1>2, <1>3, <4>1 DEF Placed
        <4>3. QED
          BY <3>4, <4>1, <4>2
      <3>5. QED
        BY <3>3, <3>4
    <2>3. QED
      BY <2>1, <2>2
  <1>11. ASSUME NEW s \in MemoryId, Absorbed(new, s)
         PROVE  Gone(s) \/ s \in Merged(h)
    <2>1. PICK i \in 1 .. n + j, q \in Nat :
             new[i].event = MergeId(s, q) /\ new[i].event # NoEvent
      BY <1>6, <1>11 DEF Absorbed
    <2>2. CASE i \in 1 .. n
      <3>1. Absorbed(old, s)
        BY <1>1, <1>6, <2>1, <2>2 DEF Absorbed
      <3>2. QED
        BY <3>1 DEF Sound
    <2>3. CASE i \notin 1 .. n
      <3>1. PICK a \in 1 .. j : i = n + a
        BY <1>7, <2>3
      <3>2. ins[a].event = MergeId(s, q) /\ ins[a].event # NoEvent
        BY <1>6, <2>1, <3>1
      <3>3. ServerId(n + a) # MergeId(s, q)
        BY DEF ServerId, MergeId
      <3>4. obs[k + a].event = MergeId(s, q) /\ obs[k + a].event # NoEvent
        BY <1>2, <3>2, <3>3
      <3>5. Absorbed(obs, s)
        BY <1>2, <3>4 DEF Absorbed
      <3>6. QED
        BY <1>4, <3>5
    <2>4. QED
      BY <2>2, <2>3
  <1>12. QED
    BY <1>9, <1>10, <1>11 DEF new, ins, n

(* An outcome that is inserted belongs to one of the observations that     *)
(* are: its own feedback, or the copy of the feedback it came with.        *)
LEMMA OutcomesInserted ==
    ASSUME NEW h \in Handler, Loaded(h), Made(h), NEW n \in Nat
    PROVE  LET k == Len(h.row.observations)
               obs == Computed(h).observations
               j == Len(obs) - k
           IN  /\ \A p \in NewOutcomes(h, n) :
                     /\ p \in Outcome
                     /\ \E i \in 1 .. j :
                           /\ p.observation = n + i
                           /\ obs[k + i].kind = "intervention_feedback"
                           /\ obs[k + i].accepted = p.accepted
               /\ \A p, q \in NewOutcomes(h, n) : p.observation = q.observation => p = q
  <1> DEFINE k == Len(h.row.observations)
             obs == Computed(h).observations
             j == Len(obs) - k
             Follows(p) ==
                 /\ p \in Outcome
                 /\ \E i \in 1 .. j :
                       /\ p.observation = n + i
                       /\ obs[k + i].kind = "intervention_feedback"
                       /\ obs[k + i].accepted = p.accepted
  <1>1. j \in Nat /\ k \in Nat
    BY InsertedShape
  <1>2. CASE h.request.op = "merge"
    <2> DEFINE other == h.other
               Moved(o) == [o EXCEPT !.observation = n + o.observation]
               from == {s \in other.outcomes : ~OutcomeExists(memories[h.memory], s.decision, s.source)}
    <2>1. other \in Row /\ Attributed(other) /\ h.row \in Row
      BY <1>2 DEF Handler, Loaded
    <2>2. NewOutcomes(h, n) = {Moved(o) : o \in from}
      BY <1>2 DEF NewOutcomes, MovedOutcomes
    <2>3. obs = h.row.observations \o Copies(other, h.request.source)
      <3>1. Computed(h) = Merge(h.row, other, h.request.source)
        BY <1>2 DEF Computed
      <3> QED  BY <2>1, <3>1 DEF Merge, Recorded, Row
    <2> DEFINE copies == Copies(other, h.request.source)
               l == Len(other.observations)
    <2>4. /\ other.observations \in Seq(Observation) /\ h.row.observations \in Seq(Observation)
          /\ l \in Nat /\ DOMAIN other.observations = 1 .. l
      BY <2>1 DEF Row
    <2>5. /\ copies = [i \in 1 .. l |->
                [other.observations[i] EXCEPT !.event = MergeId(h.request.source, i)]]
          /\ \A i \in 1 .. l : /\ copies[i].kind = other.observations[i].kind
                               /\ copies[i].accepted = other.observations[i].accepted
      <3>1. copies = [i \in 1 .. l |->
                [other.observations[i] EXCEPT !.event = MergeId(h.request.source, i)]]
        BY DEF Copies
      <3>2. ASSUME NEW i \in 1 .. l
            PROVE  /\ copies[i].kind = other.observations[i].kind
                   /\ copies[i].accepted = other.observations[i].accepted
        <4>1. other.observations[i] \in Observation
          BY <2>4
        <4> QED  BY <3>1, <4>1 DEF Observation
      <3> QED  BY <3>1, <3>2
    <2> HIDE DEF copies, l
    <2>6. j = l /\ \A i \in 1 .. l : obs[k + i] = copies[i]
      <3>1. DOMAIN copies = 1 .. l /\ Len(copies) = l
        BY <2>4, <2>5
      <3>2. ASSUME NEW a \in Seq(Observation), NEW b, DOMAIN b = 1 .. l, Len(b) = l
            PROVE  Len(a \o b) = Len(a) + l /\ \A i \in 1 .. l : (a \o b)[Len(a) + i] = b[i]
        BY <2>4, <3>2
      <3>3. /\ Len(h.row.observations \o copies) = k + l
            /\ \A i \in 1 .. l : (h.row.observations \o copies)[k + i] = copies[i]
        BY <2>4, <3>1, <3>2
      <3>4. obs = h.row.observations \o copies
        BY <2>3 DEF copies
      <3>5. Len(obs) = k + l /\ \A i \in 1 .. l : obs[k + i] = copies[i]
        BY <3>3, <3>4, Zenon
      <3> HIDE DEF obs, k
      <3>6. j = l
        BY <1>1, <2>4, <3>5
      <3> QED  BY <3>5, <3>6
    <2>7. ASSUME NEW o \in from
          PROVE  /\ o \in Outcome /\ o.observation \in 1 .. l /\ Moved(o) \in Outcome
                 /\ Moved(o).observation = n + o.observation /\ Moved(o).accepted = o.accepted
                 /\ copies[o.observation].kind = "intervention_feedback"
                 /\ copies[o.observation].accepted = o.accepted
      <3>1. o \in Outcome
        BY <2>1, <2>7 DEF Row
      <3>2. /\ o.observation \in 1 .. l
            /\ other.observations[o.observation].kind = "intervention_feedback"
            /\ other.observations[o.observation].accepted = o.accepted
        BY <2>1, <2>4, <2>7 DEF Attributed
      <3>3. n + o.observation \in Nat
        BY <3>2
      <3>4. /\ Moved(o) \in Outcome /\ Moved(o).observation = n + o.observation
            /\ Moved(o).accepted = o.accepted
        BY <3>1, <3>3 DEF Outcome
      <3> QED  BY <2>5, <3>1, <3>2, <3>4
    <2>8. \A o \in from, p \in from : o.observation = p.observation => o = p
      BY <2>1 DEF Attributed
    <2> HIDE DEF Moved, from, obs, j, k, other
    <2>9. ASSUME NEW p \in NewOutcomes(h, n) PROVE Follows(p)
      BY <2>2, <2>6, <2>7
    <2>10. ASSUME NEW p \in NewOutcomes(h, n), NEW q \in NewOutcomes(h, n),
                  p.observation = q.observation
           PROVE  p = q
      <3>1. PICK o \in from, r \in from : p = Moved(o) /\ q = Moved(r)
        BY <2>2
      <3>2. o.observation = r.observation
        BY <2>7, <2>10, <3>1
      <3> QED  BY <2>8, <3>1, <3>2
    <2> QED  BY <2>9, <2>10 DEF obs, j, k
  <1>3. CASE h.request.op # "merge"
    <2> DEFINE fresh == Computed(h).outcomes \ h.row.outcomes
               Shifted(o) == [o EXCEPT !.observation = n + o.observation - k]
    <2>1. NewOutcomes(h, n) = {Shifted(o) : o \in fresh}
      BY <1>3 DEF NewOutcomes
    <2>2. DOMAIN obs = 1 .. k + j
      BY <1>1 DEF Made, Row
    <2>3. ASSUME NEW o \in fresh
          PROVE  /\ o \in Outcome /\ o.observation \in k + 1 .. k + j
                 /\ obs[o.observation].kind = "intervention_feedback"
                 /\ obs[o.observation].accepted = o.accepted
      <3>1. Attributed(Computed(h)) /\ OutcomesFollow(Computed(h), h.row)
            /\ Computed(h).outcomes \subseteq Outcome
        BY DEF Made, Row
      <3>2. o \in Outcome /\ k < o.observation /\ o.observation \in 1 .. k + j
        BY <2>2, <3>1 DEF Attributed, OutcomesFollow
      <3>3. o.observation \in k + 1 .. k + j
        BY <1>1, <3>2
      <3> QED  BY <3>1, <3>2, <3>3 DEF Attributed
    <2>4. \A o, p \in fresh : o.observation = p.observation => o = p
      BY DEF Made, Attributed
    <2> HIDE DEF fresh, obs, k, j
    <2>5. ASSUME NEW o \in fresh
          PROVE  /\ o.observation - k \in 1 .. j /\ k + (o.observation - k) = o.observation
                 /\ Shifted(o) \in Outcome /\ Shifted(o).accepted = o.accepted
                 /\ Shifted(o).observation = n + (o.observation - k)
      <3>1. ASSUME NEW x \in k + 1 .. k + j
            PROVE  /\ x - k \in 1 .. j /\ k + (x - k) = x /\ n + x - k = n + (x - k)
                   /\ n + x - k \in Nat
        BY <1>1
      <3>2. o \in Outcome /\ o.observation \in k + 1 .. k + j
        BY <2>3
      <3>3. /\ o.observation - k \in 1 .. j /\ k + (o.observation - k) = o.observation
            /\ n + o.observation - k = n + (o.observation - k)
            /\ n + o.observation - k \in Nat
        BY <3>1, <3>2
      <3>4. /\ Shifted(o) \in Outcome /\ Shifted(o).accepted = o.accepted
            /\ Shifted(o).observation = n + o.observation - k
        BY <3>2, <3>3 DEF Outcome
      <3> QED  BY <3>3, <3>4
    <2> HIDE DEF Shifted
    <2>6. ASSUME NEW p \in NewOutcomes(h, n) PROVE Follows(p)
      <3>1. PICK o \in fresh : p = Shifted(o)
        BY <2>1
      <3> DEFINE i == o.observation - k
      <3>2. i \in 1 .. j /\ k + i = o.observation /\ p \in Outcome
            /\ p.accepted = o.accepted /\ p.observation = n + i
        BY <2>5, <3>1
      <3> HIDE DEF i
      <3>3. obs[k + i].kind = "intervention_feedback" /\ obs[k + i].accepted = p.accepted
        BY <2>3, <3>2
      <3> QED  BY <3>2, <3>3
    <2>7. ASSUME NEW p \in NewOutcomes(h, n), NEW q \in NewOutcomes(h, n),
                 p.observation = q.observation
          PROVE  p = q
      <3>1. PICK o \in fresh, r \in fresh : p = Shifted(o) /\ q = Shifted(r)
        BY <2>1
      <3>2. /\ o.observation - k \in 1 .. j /\ r.observation - k \in 1 .. j
            /\ k + (o.observation - k) = o.observation /\ k + (r.observation - k) = r.observation
            /\ n + (o.observation - k) = n + (r.observation - k)
        BY <2>5, <2>7, <3>1
      <3>3. \A x, y \in 1 .. j : n + x = n + y => x = y
        BY <1>1
      <3>4. o.observation = r.observation
        BY <3>2, <3>3
      <3> QED  BY <2>4, <3>1, <3>4
    <2> QED  BY <2>6, <2>7 DEF obs, j, k
  <1> QED  BY <1>2, <1>3

(* The outcomes inserted follow the observations they came with.           *)
LEMMA InsertionAttributed ==
    ASSUME NEW h \in Handler, Loaded(h), Made(h), NEW old \in Row, NEW new \in Row,
           Attributed(old),
           new.observations =
              old.observations \o Inserted(h, Len(old.observations)),
           new.outcomes = old.outcomes \cup NewOutcomes(h, Len(old.observations))
    PROVE  Attributed(new)
  <1> DEFINE n == Len(old.observations)
             k == Len(h.row.observations)
             obs == Computed(h).observations
             j == Len(obs) - k
             ins == Inserted(h, n)
             moved == NewOutcomes(h, n)
  <1>1. /\ old.observations \in Seq(Observation) /\ n \in Nat
        /\ DOMAIN old.observations = 1 .. n
    BY DEF Row
  <1>2. /\ j \in Nat /\ k \in Nat
        /\ ins \in Seq(Observation) /\ Len(ins) = j
        /\ \A i \in 1 .. j : /\ k + i \in DOMAIN obs
                             /\ ins[i].kind = obs[k + i].kind
                             /\ ins[i].accepted = obs[k + i].accepted
    BY <1>1, InsertedShape
  <1>3. \A p, q \in moved : p.observation = q.observation => p = q
    BY <1>1, OutcomesInserted
  <1>6. /\ DOMAIN new.observations = 1 .. n + j
        /\ \A i \in 1 .. n : new.observations[i] = old.observations[i]
        /\ \A i \in 1 .. j : new.observations[n + i] = ins[i]
    <2>1. ASSUME NEW a \in Seq(Observation), NEW b \in Seq(Observation)
          PROVE  /\ DOMAIN (a \o b) = 1 .. Len(a) + Len(b)
                 /\ \A i \in 1 .. Len(a) : (a \o b)[i] = a[i]
                 /\ \A i \in 1 .. Len(b) : (a \o b)[Len(a) + i] = b[i]
      BY JoinedSequences
    <2> HIDE DEF ins, j
    <2>2. /\ DOMAIN (old.observations \o ins) = 1 .. n + Len(ins)
          /\ \A i \in 1 .. n : (old.observations \o ins)[i] = old.observations[i]
          /\ \A i \in 1 .. Len(ins) : (old.observations \o ins)[n + i] = ins[i]
      BY <1>1, <1>2, <2>1
    <2>3. new.observations = old.observations \o ins
      BY DEF ins
    <2>4. QED
      BY <1>2, <2>2, <2>3
    <1>7. \A p \in moved : \E i \in 1 .. j :
           /\ p.observation = n + i
           /\ obs[k + i].kind = "intervention_feedback"
           /\ obs[k + i].accepted = p.accepted
    BY <1>1, OutcomesInserted
  <1> HIDE DEF ins, j, obs, k, moved, n
  <1>8. \A p \in old.outcomes : p.observation \in 1 .. n
    BY <1>1 DEF Attributed
  <1>9. ASSUME NEW p \in moved
        PROVE  /\ p.observation \in DOMAIN new.observations /\ n < p.observation
               /\ new.observations[p.observation].kind = "intervention_feedback"
               /\ new.observations[p.observation].accepted = p.accepted
               /\ \A q \in moved : q.observation = p.observation => q = p
    <2>1. PICK i \in 1 .. j :
             /\ p.observation = n + i
             /\ obs[k + i].kind = "intervention_feedback"
             /\ obs[k + i].accepted = p.accepted
      BY <1>7, <1>9
    <2>2. n + i \in 1 .. n + j /\ n < n + i
      BY <1>1, <1>2
    <2>3. new.observations[p.observation] = ins[i]
      BY <1>6, <2>1
    <2>4. ins[i].kind = obs[k + i].kind /\ ins[i].accepted = obs[k + i].accepted
      BY <1>2
    <2>5. QED
      BY <1>3, <1>6, <2>1, <2>2, <2>3, <2>4
  <1>10. SUFFICES ASSUME NEW p \in old.outcomes \cup moved
                  PROVE  /\ p.observation \in DOMAIN new.observations
                         /\ new.observations[p.observation].kind = "intervention_feedback"
                         /\ new.observations[p.observation].accepted = p.accepted
                         /\ \A q \in old.outcomes \cup moved :
                               q.observation = p.observation => q = p
    BY DEF Attributed, moved, n
  <1>11. CASE p \in moved
    <2>1. n < p.observation
      BY <1>9, <1>11
    <2>2. \A q \in old.outcomes : q.observation # p.observation
      BY <1>1, <1>8, <2>1
    <2>3. QED
      BY <1>9, <1>11, <2>2
  <1>12. CASE p \in old.outcomes
    <2>1. ASSUME NEW q \in moved
          PROVE  q.observation # p.observation
      <3>1. n < q.observation
        BY <1>9
      <3>2. p.observation \in 1 .. n
        BY <1>8, <1>12
      <3>3. QED
        BY <1>1, <3>1, <3>2
    <2>2. p.observation \in DOMAIN new.observations
      BY <1>1, <1>2, <1>6, <1>8, <1>12
    <2>3. QED
      BY <1>6, <1>8, <1>12, <2>1, <2>2 DEF Attributed
  <1>13. QED
    BY <1>11, <1>12

-----------------------------------------------------------------------------
(* A write of the stored row: good evidence and history that go on from    *)
(* what there was.                                                         *)
WriteStep(m) ==
    LET old == memories[m]
        new == memories'[m]
    IN  /\ old.status # "deleted"
        /\ new \in Row /\ new.status = "live" /\ new.canonical \in Form
        /\ Distinct(new.observations) /\ Placed(new.observations)
        /\ \A s \in MemoryId : Absorbed(new.observations, s) => Gone(s)'
        /\ Attributed(new)
        /\ Len(old.observations) <= Len(new.observations)
        /\ \A i \in 1 .. Len(old.observations) : new.observations[i] = old.observations[i]
        /\ Len(old.versions) < Len(new.versions)
        /\ \A i \in 1 .. Len(old.versions) : new.versions[i] = old.versions[i]

RowStep(m) ==
    \/ memories'[m] = memories[m]
    \/ WriteStep(m)
    \/ memories[m].status \in {"live", "deleted"} /\ memories'[m] = DeletedRow

(* Rows take a row step, and a handler is new, stays or is done.           *)
Shape ==
    /\ memories' = [m \in MemoryId |-> memories'[m]]
    /\ \A m \in MemoryId : RowStep(m)
    /\ handlers' \in [Worker -> SUBSET Handler]
    /\ \A w \in Worker :
          \/ handlers'[w] = {}
          \/ handlers'[w] = handlers[w]
          \/ \E h \in Handler : handlers'[w] = {h} /\ Loaded(h)

LEMMA StoredRow ==
    ASSUME NEW h \in Handler, Loaded(h), Made(h), Accepted(h),
           NEW now \in Row, now = memories[h.memory],
           now.status = "live" => now.canonical \in Form
    PROVE  LET n == Len(now.observations)
               new == Stored(h)
           IN  /\ now.status # "deleted"
               /\ new \in Row /\ new.status = "live" /\ new.canonical \in Form
               /\ new.observations = now.observations \o Inserted(h, n)
               /\ new.outcomes = now.outcomes \cup NewOutcomes(h, n)
               /\ Len(now.versions) < Len(new.versions)
               /\ \A i \in 1 .. Len(now.versions) : new.versions[i] = now.versions[i]
  <1> DEFINE n == Len(now.observations)
             c == Computed(h)
             ins == Inserted(h, n)
             version == c.versions[Len(c.versions)]
             canonical == Written(h.row.canonical, c.canonical, now.canonical)
             state == Written(h.row.state, c.state, now.state)
             scope == Written(h.row.scope, c.scope, now.scope)
             variants == now.variants \cup (c.variants \ h.row.variants)
             observations == now.observations \o ins
             versions == Append(now.versions, version)
             outcomes == now.outcomes \cup NewOutcomes(h, n)
             new == Stored(h)
  <1>1. /\ n \in Nat /\ h.row \in Row /\ c \in Row /\ c.canonical \in Form
        /\ now.status = h.row.status
    BY DEF Made, Handler, Row, Accepted
  <1>2. h.row.status # "deleted"
    BY BlankRows DEF Loaded
  <1>3. canonical \in Form
    <2>1. CASE h.row.status = "live"
      BY <1>1, <2>1 DEF Written
    <2>2. CASE h.row.status # "live"
      <3>1. h.row.canonical = NoForm
        BY <2>2 DEF Loaded, UnusedRow
      <3>2. c.canonical # h.row.canonical
        BY <1>1, <3>1, ConcurrentAssumption
      <3>3. QED
        BY <1>1, <3>2 DEF Written
    <2>3. QED
      BY <2>1, <2>2
  <1>4. state \in State /\ scope \in Scope /\ variants \in SUBSET Form
    BY <1>1 DEF Written, Row
  <1>5. observations \in Seq(Observation)
    <2>1. ins \in Seq(Observation)
      BY <1>1, InsertedShape
    <2> HIDE DEF ins
    <2>2. QED
      BY <2>1 DEF Row
  <1>6. version \in Snapshot
    <2>1. Len(h.row.versions) < Len(c.versions)
      BY DEF Made, Writes
    <2>2. c.versions \in Seq(Snapshot) /\ Len(h.row.versions) \in Nat
      BY <1>1 DEF Row
    <2> HIDE DEF c
    <2>3. QED
      BY <2>1, <2>2
  <1>7. outcomes \in SUBSET Outcome
    <2>1. NewOutcomes(h, n) \in SUBSET Outcome
      BY <1>1, OutcomesInserted
    <2>2. now.outcomes \in SUBSET Outcome
      BY DEF Row
    <2>3. QED
      BY <2>1, <2>2
  <1>8. versions \in Seq(Snapshot)
    BY <1>6 DEF Row
  <1>9. new = [now EXCEPT !.status = "live", !.canonical = canonical, !.state = state,
                 !.scope = scope, !.variants = variants, !.observations = observations,
                 !.versions = versions, !.outcomes = outcomes]
    BY DEF Stored
  <1> HIDE DEF new, canonical, state, scope, variants, observations, versions, outcomes
  <1>10. /\ new \in Row /\ new.status = "live" /\ new.canonical \in Form
         /\ new.observations = observations /\ new.versions = versions
         /\ new.outcomes = outcomes
    BY <1>3, <1>4, <1>5, <1>7, <1>8, <1>9 DEF Row
  <1>11. /\ Len(now.versions) < Len(versions)
         /\ \A i \in 1 .. Len(now.versions) : versions[i] = now.versions[i]
    <2>1. now.versions \in Seq(Snapshot)
      BY DEF Row
    <2> HIDE DEF version
    <2>2. QED
      BY <1>6, <2>1 DEF versions
  <1>12. QED
    BY <1>1, <1>2, <1>10, <1>11 DEF observations, outcomes, new, n

(* What is known of the row a request is about.                            *)
LEMMA AboutRow ==
    ASSUME IInv, ConcurrentAssumption, NEW r \in Requests, NEW m \in MemoryId, About(r, m)
    PROVE  /\ \/ memories[m] = UnusedRow /\ r.op \in {"teach", "correct"}
              \/ memories[m].status = "live" /\ memories[m].canonical \in Form
           /\ r.op = "feedback" => r.target.memory = m
           /\ r.op = "merge" => /\ r.source \in MemoryId /\ r.source # m
                                /\ memories[r.source].status = "live"
                                /\ memories[r.source].canonical \in Form
  <1>1. r.op \in {"teach", "correct", "feedback", "patch", "merge"}
    BY RequestFields DEF ConcurrentAssumption
  <1>2. \A o \in MemoryId : Live(o) => memories[o].canonical \in Form
    BY DEF IInv, RowsInv
  <1>3. r.op = "merge" => r.source \in MemoryId
    BY RequestFields DEF ConcurrentAssumption
  <1>4. CASE r.op \in {"teach", "correct"}
    <2>1. Live(m) \/ memories[m].status = "unused"
      BY <1>4 DEF About
    <2>2. memories[m].status = "unused" => memories[m] = UnusedRow
      BY DEF IInv, RowsInv
    <2>3. QED
      BY <1>2, <1>4, <2>1, <2>2 DEF Live
  <1>5. CASE r.op \in {"feedback", "patch", "merge"}
    BY <1>2, <1>3, <1>5 DEF About, Live
  <1>6. QED
    BY <1>1, <1>4, <1>5

LEMMA LoadShape ==
    ASSUME IInv, ConcurrentAssumption, NEW w \in Worker, NEW r \in Requests,
           NEW m \in MemoryId, Load(w, r, m)
    PROVE  Shape
  <1> DEFINE other == IF r.op = "merge" THEN memories[r.source] ELSE UnusedRow
             h == [request |-> r, memory |-> m, row |-> memories[m], other |-> other]
  <1>1. /\ memories \in [MemoryId -> Row] /\ memories' = memories
        /\ handlers \in [Worker -> SUBSET Handler]
        /\ handlers' = [handlers EXCEPT ![w] = {h}]
    BY DEF Load, IInv, TypeOK
  <1>2. /\ \/ memories[m] = UnusedRow /\ r.op \in {"teach", "correct"}
           \/ memories[m].status = "live" /\ memories[m].canonical \in Form
        /\ r.op = "feedback" => r.target.memory = m
        /\ r.op = "merge" => /\ r.source \in MemoryId /\ r.source # m
                             /\ memories[r.source].status = "live"
                             /\ memories[r.source].canonical \in Form
    BY AboutRow DEF Load
  <1>3. memories[m] \in Row /\ other \in Row
    BY <1>1, <1>2, BlankRows
  <1>4. h \in Handler
    BY <1>3 DEF Handler
  <1>5. /\ h.request = r /\ h.memory = m /\ h.row = memories[m]
        /\ r.op = "merge" => h.other = memories[r.source]
    OBVIOUS
  <1> HIDE DEF h, other
  <1>6. Attributed(memories[m]) /\ (r.op = "merge" => Attributed(memories[r.source]))
    BY <1>2, RowsAttributed DEF IInv
  <1>7. Sound(memories[m].observations)
    BY DEF IInv, EventsInv
  <1>8. r.op = "merge" => ~Absorbed(memories[m].observations, r.source)
    BY <1>2, <1>7 DEF Sound, Gone
  <1>9. Loaded(h)
    BY <1>2, <1>5, <1>6, <1>7, <1>8 DEF Loaded
  <1>10. \A v \in Worker : handlers'[v] = handlers[v] \/ handlers'[v] = {h}
    BY <1>1
  <1>11. handlers' \in [Worker -> SUBSET Handler]
    BY <1>1, <1>4
  <1>12. QED
    BY <1>1, <1>4, <1>9, <1>10, <1>11 DEF Shape, RowStep

LEMMA CommitShape ==
    ASSUME IInv, ConcurrentAssumption, NEW w \in Worker, Commit(w)
    PROVE  Shape
  <1>1. PICK h \in handlers[w] :
          /\ Computed(h) # h.row /\ Accepted(h)
          /\ memories' = [m \in MemoryId |->
                IF m = h.memory THEN Stored(h)
                ELSE IF h.request.op = "merge" /\ m = h.request.source THEN DeletedRow
                ELSE memories[m]]
          /\ handlers' = [handlers EXCEPT ![w] = {}]
    BY DEF Commit
  <1>2. /\ memories \in [MemoryId -> Row] /\ handlers \in [Worker -> SUBSET Handler]
        /\ h \in Handler /\ Loaded(h) /\ h.memory \in MemoryId
    BY DEF IInv, TypeOK, HandlersInv, Handler
  <1>3. Made(h)
    BY <1>1, <1>2, HandlerMakes
  <1> DEFINE now == memories[h.memory]
             n == Len(now.observations)
             new == Stored(h)
  <1>4. /\ now \in Row /\ now.observations \in Seq(Observation)
        /\ now.status = "live" => now.canonical \in Form
        /\ Attributed(now) /\ Sound(now.observations)
    BY <1>2, RowsAttributed DEF IInv, RowsInv, EventsInv, Live, Row
  <1>5. /\ now.status # "deleted"
        /\ new \in Row /\ new.status = "live" /\ new.canonical \in Form
        /\ new.observations = now.observations \o Inserted(h, n)
        /\ new.outcomes = now.outcomes \cup NewOutcomes(h, n)
        /\ Len(now.versions) < Len(new.versions)
        /\ \A i \in 1 .. Len(now.versions) : new.versions[i] = now.versions[i]
    BY <1>1, <1>2, <1>3, <1>4, StoredRow
  <1>6. \A i \in DOMAIN Inserted(h, n) : Inserted(h, n)[i].event # NoEvent =>
           \A p \in DOMAIN now.observations :
              now.observations[p].event # Inserted(h, n)[i].event
    BY <1>1 DEF Accepted, UniqueEvents, Observed
  <1>7. /\ Distinct(new.observations) /\ Placed(new.observations)
        /\ \A s \in MemoryId :
              Absorbed(new.observations, s) => Gone(s) \/ s \in Merged(h)
    BY <1>2, <1>3, <1>4, <1>5, <1>6, InsertionSound
  <1>8. Attributed(new)
    BY <1>2, <1>3, <1>4, <1>5, InsertionAttributed
  <1>9. /\ Len(now.observations) <= Len(new.observations)
        /\ \A i \in 1 .. n : new.observations[i] = now.observations[i]
    <2>1. ASSUME NEW a \in Seq(Observation), NEW b \in Seq(Observation)
          PROVE  /\ Len(a) <= Len(a \o b)
                 /\ \A i \in 1 .. Len(a) : (a \o b)[i] = a[i]
      BY <2>1
    <2>2. n \in Nat
      BY <1>4
    <2> DEFINE ins == Inserted(h, n)
               old == now.observations
    <2>3. ins \in Seq(Observation) /\ old \in Seq(Observation)
      BY <1>2, <1>3, <1>4, <2>2, InsertedShape
    <2>4. new.observations = old \o ins
      BY <1>5
    <2> HIDE DEF ins, old, new, now, n
    <2>5. Len(old) <= Len(old \o ins) /\ \A i \in 1 .. Len(old) : (old \o ins)[i] = old[i]
      BY <2>1, <2>3
    <2>6. QED
      BY <2>4, <2>5 DEF old, n
  <1>10. memories'[h.memory] = new
    BY <1>1, <1>2
  <1>11. \A s \in MemoryId : Gone(s) \/ s \in Merged(h) => Gone(s)'
    <2>1. \A s \in MemoryId : Gone(s) => s # h.memory
      BY <1>5 DEF Gone
    <2>2. \A s \in Merged(h) : s # h.memory /\ h.request.op = "merge" /\ s = h.request.source
      BY <1>2 DEF Merged, Loaded
    <2>3. QED
      BY <1>1, <1>2, <2>1, <2>2, BlankRows DEF Gone
  <1> HIDE DEF new, now, n
  <1>12. WriteStep(h.memory)
    BY <1>4, <1>5, <1>7, <1>8, <1>9, <1>10, <1>11 DEF WriteStep, now, n
  <1>13. ASSUME NEW m \in MemoryId
         PROVE  RowStep(m)
    <2>1. CASE m = h.memory
      BY <1>12, <2>1 DEF RowStep
    <2>2. CASE m # h.memory /\ h.request.op = "merge" /\ m = h.request.source
      BY <1>1, <1>2, <2>2 DEF RowStep, Loaded
    <2>3. CASE m # h.memory /\ ~(h.request.op = "merge" /\ m = h.request.source)
      BY <1>1, <2>3 DEF RowStep
    <2>4. QED
      BY <2>1, <2>2, <2>3
  <1>14. QED
    BY <1>1, <1>2, <1>13 DEF Shape

LEMMA StepShape ==
    ASSUME IInv, ConcurrentAssumption, [Next]_vars
    PROVE  Shape
  <1>1. memories \in [MemoryId -> Row] /\ handlers \in [Worker -> SUBSET Handler]
    BY DEF IInv, TypeOK
  <1>2. ASSUME NEW w \in Worker, Leave(w)
        PROVE  Shape
    BY <1>1, <1>2 DEF Leave, Shape, RowStep
  <1>3. ASSUME NEW gone \in SUBSET MemoryId, Delete(gone)
        PROVE  Shape
    <2>1. \A m \in gone : memories[m].status = "live"
      BY <1>3 DEF Delete, Live
    <2>2. QED
      BY <1>1, <1>3, <2>1 DEF Delete, Shape, RowStep
  <1>4. CASE UNCHANGED vars
    BY <1>1, <1>4 DEF vars, Shape, RowStep
  <1>5. QED
    BY <1>2, <1>3, <1>4, LoadShape, CommitShape DEF Next

-----------------------------------------------------------------------------
(* A row that is gone stays so, and one that is stored stays or goes.      *)
LEMMA StatusKept ==
    ASSUME IInv, Shape, NEW m \in MemoryId
    PROVE  /\ Gone(m) => Gone(m)'
           /\ memories[m].status \in {"live", "deleted"} =>
                 memories'[m].status \in {"live", "deleted"}
  <1>1. RowStep(m)
    BY DEF Shape
  <1>2. memories[m].status = "deleted" => memories[m] = DeletedRow
    BY DEF IInv, RowsInv
  <1>3. QED
    BY <1>1, BlankRows DEF RowStep, WriteStep, Gone

LEMMA TypesKept ==
    ASSUME IInv, Shape
    PROVE  TypeOK'
  <1>1. \A m \in MemoryId : memories'[m] \in Row
    BY BlankRows DEF IInv, TypeOK, Shape, RowStep, WriteStep
  <1>2. memories' \in [MemoryId -> Row]
    BY <1>1 DEF Shape
  <1>3. \A w \in Worker : \A g, h \in handlers'[w] : g = h
    BY DEF IInv, TypeOK, Shape
  <1>4. QED
    BY <1>2, <1>3 DEF TypeOK, Shape

LEMMA RowsKept ==
    ASSUME IInv, Shape
    PROVE  RowsInv'
  <1> SUFFICES ASSUME NEW m \in MemoryId
               PROVE  /\ memories'[m].status = "unused" => memories'[m] = UnusedRow
                      /\ memories'[m].status = "deleted" => memories'[m] = DeletedRow
                      /\ memories'[m].status = "live" => memories'[m].canonical \in Form
    BY DEF RowsInv, Live
  <1>1. RowStep(m)
    BY DEF Shape
  <1>2. QED
    BY <1>1, BlankRows DEF IInv, RowsInv, RowStep, WriteStep, Live

LEMMA EventsKept ==
    ASSUME IInv, Shape
    PROVE  EventsInv'
  <1> SUFFICES ASSUME NEW m \in MemoryId
               PROVE  /\ Distinct(memories'[m].observations)
                      /\ Placed(memories'[m].observations)
                      /\ \A s \in MemoryId :
                            Absorbed(memories'[m].observations, s) => Gone(s)'
    BY DEF EventsInv, Sound
  <1>1. RowStep(m)
    BY DEF Shape
  <1>2. CASE memories'[m] = memories[m]
    BY <1>2, StatusKept DEF IInv, EventsInv, Sound
  <1>3. CASE WriteStep(m)
    BY <1>3 DEF WriteStep
  <1>4. CASE memories'[m] = DeletedRow
    BY <1>4, BlankRows DEF Distinct, Placed, Absorbed
  <1>5. QED
    BY <1>1, <1>2, <1>3, <1>4 DEF RowStep

LEMMA OutcomesKept ==
    ASSUME IInv, Shape
    PROVE  OutcomesAttributed'
  <1>1. ASSUME NEW m \in MemoryId
        PROVE  Attributed(memories'[m])
    <2>1. RowStep(m)
      BY DEF Shape
    <2>2. Attributed(memories[m])
      BY RowsAttributed DEF IInv
    <2>3. Attributed(DeletedRow)
      BY DEF Attributed, DeletedRow, UnusedRow
    <2>4. QED
      BY <2>1, <2>2, <2>3 DEF RowStep, WriteStep
  <1>2. QED
    BY <1>1 DEF Attributed, OutcomesAttributed

(* What a handler relies on outlives what others do to the store.          *)
LEMMA HandlersKept ==
    ASSUME IInv, ConcurrentAssumption, Shape
    PROVE  HandlersInv'
  <1>1. ASSUME NEW h \in Handler, Loaded(h)
        PROVE  Loaded(h)'
    <2>1. Sound(h.row.observations)'
      BY <1>1, StatusKept DEF Loaded, Sound
    <2>2. h.request.op = "merge" =>
             memories'[h.request.source].status \in {"live", "deleted"}
      <3>1. h.request.op = "merge" => h.request.source \in MemoryId
        BY RequestFields DEF Handler, ConcurrentAssumption
      <3>2. QED
        BY <1>1, <3>1, StatusKept DEF Loaded
    <2>3. QED
      BY <1>1, <2>1, <2>2 DEF Loaded
  <1>2. ASSUME NEW w \in Worker, NEW h \in handlers'[w]
        PROVE  h \in Handler /\ Loaded(h)
    BY <1>2 DEF Shape, IInv, TypeOK, HandlersInv
  <1>3. QED
    BY <1>1, <1>2 DEF HandlersInv

LEMMA CanonicalsKept ==
    ASSUME IInv, ConcurrentAssumption, [Next]_vars
    PROVE  CanonicalsUnique'
  <1>1. memories \in [MemoryId -> Row] /\ CanonicalsUnique
    BY DEF IInv, TypeOK
  <1>2. CASE memories' = memories
    BY <1>1, <1>2 DEF CanonicalsUnique, Live
  <1>3. ASSUME NEW gone \in SUBSET MemoryId, Delete(gone)
        PROVE  CanonicalsUnique'
    <2>1. \A m \in MemoryId : Live(m)' => memories'[m] = memories[m]
      BY <1>3, BlankRows DEF Delete, Live
    <2>2. QED
      BY <1>1, <2>1 DEF CanonicalsUnique, Live
  <1>4. ASSUME NEW w \in Worker, Commit(w)
        PROVE  CanonicalsUnique'
    <2>1. PICK h \in handlers[w] :
            /\ Computed(h) # h.row /\ Accepted(h)
            /\ memories' = [m \in MemoryId |->
                  IF m = h.memory THEN Stored(h)
                  ELSE IF h.request.op = "merge" /\ m = h.request.source THEN DeletedRow
                  ELSE memories[m]]
      BY <1>4 DEF Commit
    <2>2. h \in Handler /\ Loaded(h) /\ h.memory \in MemoryId
      BY DEF IInv, TypeOK, HandlersInv, Handler
    <2>3. \A m \in MemoryId \ {h.memory} : Live(m)' => memories'[m] = memories[m]
      BY <2>1, BlankRows DEF Live
    <2>4. ASSUME NEW m \in MemoryId \ {h.memory}, Live(m)
          PROVE  memories[m].canonical # memories'[h.memory].canonical
      <3> DEFINE now == memories[h.memory]
                 c == Computed(h)
      <3>1. memories'[h.memory].canonical = Written(h.row.canonical, c.canonical, now.canonical)
        BY <1>1, <2>1, <2>2 DEF Stored, Row
      <3>2. CASE c.canonical # h.row.canonical
        BY <2>1, <2>4, <3>1, <3>2 DEF Accepted, UniqueCanonical, Written
      <3>3. CASE c.canonical = h.row.canonical
        <4>1. Made(h)
          BY <2>1, <2>2, HandlerMakes
        <4>2. h.row.canonical \in Form
          BY <3>3, <4>1 DEF Made
        <4>3. h.row.status = "live"
          BY <2>2, <4>2, ConcurrentAssumption DEF Loaded, UnusedRow
        <4>4. Live(h.memory)
          BY <2>1, <4>3 DEF Accepted, Live
        <4>5. memories[m].canonical # now.canonical
          BY <1>1, <2>2, <2>4, <4>4 DEF CanonicalsUnique
        <4>6. QED
          BY <3>1, <3>3, <4>5 DEF Written
      <3>4. QED
        BY <3>2, <3>3
    <2>5. QED
      BY <1>1, <2>3, <2>4 DEF CanonicalsUnique, Live
  <1>5. QED
    BY <1>2, <1>3, <1>4 DEF Next, Load, Leave, vars

LEMMA InitiallyInvariant ==
    ASSUME Init
    PROVE  IInv
  <1>1. \A m \in MemoryId : memories[m] = UnusedRow
    BY DEF Init
  <1>2. TypeOK
    BY BlankRows DEF Init, TypeOK
  <1>3. RowsInv
    BY <1>1, BlankRows DEF RowsInv, Live
  <1>4. EventsInv
    BY <1>1, BlankRows DEF EventsInv, Sound, Distinct, Placed, Absorbed
  <1>5. HandlersInv
    BY DEF Init, HandlersInv
  <1>6. CanonicalsUnique /\ OutcomesAttributed
    BY <1>1, BlankRows DEF CanonicalsUnique, OutcomesAttributed, Live, UnusedRow
  <1>7. QED
    BY <1>2, <1>3, <1>4, <1>5, <1>6 DEF IInv

LEMMA InvariantKept ==
    ASSUME IInv, ConcurrentAssumption, [Next]_vars
    PROVE  IInv'
  <1>1. Shape
    BY StepShape
  <1>2. QED
    BY <1>1, TypesKept, RowsKept, EventsKept, HandlersKept, CanonicalsKept,
       OutcomesKept DEF IInv

LEMMA Invariant == Spec => []IInv
  <1>1. Init => IInv
    BY InitiallyInvariant
  <1>2. IInv /\ [Next]_vars => IInv'
    BY InvariantKept, ConcurrentAssumption
  <1>3. QED
    BY <1>1, <1>2, PTL DEF Spec

(* Every reachable store is well typed, and a worker handles one request   *)
(* at a time.                                                              *)
THEOREM TypeCorrect == Spec => []TypeOK
  <1>1. IInv => TypeOK
    BY DEF IInv
  <1>2. QED
    BY <1>1, Invariant, PTL

(* However many requests find a form untaken and then create or rename a   *)
(* memory to it, uq_memory_user_canonical keeps stored forms unique.       *)
THEOREM CanonicalsAreUnique == Spec => []CanonicalsUnique
  <1>1. IInv => CanonicalsUnique
    BY DEF IInv
  <1>2. QED
    BY <1>1, Invariant, PTL

(* An ASR outcome belongs to the feedback it came from, whatever others    *)
(* inserted between the load and the commit of that feedback, and merges   *)
(* of rows that are out of date keep it so.                                *)
THEOREM OutcomesAreAttributed == Spec => []OutcomesAttributed
  <1>1. IInv => OutcomesAttributed
    BY DEF IInv
  <1>2. QED
    BY <1>1, Invariant, PTL

-----------------------------------------------------------------------------
LEMMA LedgerStep ==
    ASSUME IInv, IInv', Shape
    PROVE  Ledger!Next
  <1> SUFFICES ASSUME NEW m \in MemoryId
               PROVE  Ledger!Written(m) \/ Ledger!Erased(m) \/ Ledger!Kept(m)
    BY DEF Ledger!Next
  <1>1. memories[m] \in Row /\ memories'[m] \in Row
    BY DEF IInv, TypeOK
  <1>2. CASE memories'[m] = memories[m]
    BY <1>2 DEF Ledger!Kept
  <1>3. CASE WriteStep(m)
    <2>1. /\ Ledger!Extends(Events(memories'[m]), Events(memories[m]))
          /\ Ledger!Extends(memories'[m].versions, memories[m].versions)
          /\ Len(memories'[m].versions) > Len(memories[m].versions)
      BY <1>1, <1>3, GrownRow DEF WriteStep, Ledger!Extends
    <2>2. Ledger!NoRepeats(Events(memories'[m]))
      BY <1>1, <1>3, EventsOf DEF WriteStep, Distinct, Ledger!NoRepeats
    <2>3. memories[m].status # "deleted" /\ memories'[m].status = "live"
      BY <1>3 DEF WriteStep
    <2>4. QED
      BY <2>1, <2>2, <2>3 DEF Ledger!Written
  <1>4. CASE memories[m].status = "live" /\ memories'[m] = DeletedRow
    <2>1. Events(memories'[m]) = <<>>
      BY <1>1, <1>4, BlankRows, EventsOf
    <2>2. QED
      BY <1>4, <2>1, BlankRows DEF Ledger!Erased
  <1>5. memories[m].status = "deleted" => memories[m] = DeletedRow
    BY DEF IInv, RowsInv
  <1>6. QED
    BY <1>2, <1>3, <1>4, <1>5 DEF Shape, RowStep

(* Overlapping requests implement the evidence ledger: of two that carry   *)
(* the same event only one is stored, and a stale handler neither rewrites *)
(* evidence or history nor writes without recording a version.             *)
THEOREM LedgerImplemented == Spec => LedgerKept
  <1>1. Init => Ledger!Init
    <2>1. ASSUME Init
          PROVE  \A m \in MemoryId :
                    /\ memories[m].status = "unused"
                    /\ Events(memories[m]) = <<>>
                    /\ memories[m].versions = <<>>
      <3>1. \A m \in MemoryId : memories[m] = UnusedRow
        BY <2>1 DEF Init
      <3>2. Events(UnusedRow) = <<>>
        BY BlankRows, EventsOf
      <3>3. QED
        BY <3>1, <3>2, BlankRows
    <2>2. QED
      BY <2>1 DEF Ledger!Init
  <1>2. IInv /\ IInv' /\ [Next]_vars => [Ledger!Next]_(Ledger!vars)
    BY StepShape, LedgerStep, ConcurrentAssumption
  <1>3. QED
    BY <1>1, <1>2, Invariant, PTL DEF Spec, LedgerKept, Ledger!Spec

-----------------------------------------------------------------------------
(* A handler that saw the memory suppressed keeps it so unless its request *)
(* sets the state.                                                         *)
LEMMA SeenSuppressionStays ==
    ASSUME ConcurrentAssumption, NEW h \in Handler, Loaded(h),
           h.row.state = "suppressed", ~Explicit(h.request)
    PROVE  Computed(h).state = "suppressed"
  <1> DEFINE r == h.request
  <1>1. /\ h.row \in Row /\ h.row.state \in State
        /\ r.op \in {"teach", "correct", "feedback", "patch", "merge"}
    BY RequestFields DEF Handler, ConcurrentAssumption, Row
  <1>2. h.row.status = "live"
    BY DEF Loaded, UnusedRow
  <1>3. CASE r.op = "correct"
    <2> DEFINE obs == Append(h.row.observations,
                  [event |-> EventOr(h.row, r.event), kind |-> "accepted_correction",
                   accepted |-> TRUE, reason |-> "ACCEPTED", context |-> r.context])
               new == Correct(h.row, r.form, r.source, r.event, r.context, r.confirm)
    <2>1. r.confirm = FALSE
      BY <1>3, RequestFields DEF Explicit, Handler, ConcurrentAssumption
    <2>2. new.state \in {"suppressed", Reconcile(h.row.state, obs, r.confirm)}
      BY <1>1, <1>2, <2>1 DEF Correct, Recorded, Row
    <2>3. Computed(h) = new
      BY <1>3 DEF Computed
    <2> HIDE DEF new, obs
    <2>4. Reconcile(h.row.state, obs, r.confirm) = "suppressed"
      BY <1>1, <2>1, ReconcileKeepsSuppression
    <2>5. QED
      BY <2>2, <2>3, <2>4
  <1>4. CASE r.op = "feedback"
    <2> DEFINE obs == Append(h.row.observations,
                 [event |-> FeedbackId(r.decision, r.target.memory, r.target.start),
                  kind |-> "intervention_feedback", accepted |-> r.accepted,
                  reason |-> FeedbackReason(h.row, r.accepted, r.scope),
                  context |-> r.target.context])
               new == Feedback(h.row, r.decision, r.target, r.accepted, r.scope,
                               r.suppress, r.target.context)
    <2>1. new.state = Reconcile(h.row.state, obs, FALSE)
      BY <1>1, <1>4 DEF Explicit, Feedback, Recorded, Row
    <2>2. Computed(h) \in {h.row, new}
      BY <1>4 DEF Computed
    <2> HIDE DEF new, obs
    <2>3. Reconcile(h.row.state, obs, FALSE) = "suppressed"
      BY <1>1, ReconcileKeepsSuppression
    <2>4. QED
      BY <2>1, <2>2, <2>3
  <1>5. CASE r.op = "patch"
    <2>1. r.change \in Change
      BY <1>5, RequestFields DEF Handler, ConcurrentAssumption
    <2>2. Patch(h.row, r.change).state = h.row.state
      BY <1>1, <1>5, <2>1, PatchCanonical DEF Explicit
    <2>3. QED
      BY <1>5, <2>2 DEF Computed
  <1>6. CASE r.op = "merge"
    <2>1. Merge(h.row, h.other, r.source).state = h.row.state
      BY <1>1 DEF Merge, Recorded, Row
    <2>2. QED
      BY <1>6, <2>1 DEF Computed
  <1>7. QED
    BY <1>1, <1>3, <1>4, <1>5, <1>6 DEF Explicit

LEMMA SuppressionKept ==
    ASSUME IInv, ConcurrentAssumption, [Next]_vars, NEW m \in MemoryId,
           Live(m), Live(m)', memories[m].state = "suppressed",
           memories'[m].state # "suppressed"
    PROVE  \E w \in Worker : \E h \in handlers[w] :
              /\ Committing(m, h)
              /\ Explicit(h.request) \/ h.row.state # "suppressed"
  <1>1. memories \in [MemoryId -> Row]
    BY DEF IInv, TypeOK
  <1>2. memories'[m] # memories[m]
    OBVIOUS
  <1>3. ASSUME NEW gone \in SUBSET MemoryId, Delete(gone)
        PROVE  FALSE
    BY <1>2, <1>3, BlankRows DEF Delete, Live
  <1>4. ASSUME NEW w \in Worker, Commit(w)
        PROVE  \E h \in handlers[w] :
                  /\ Committing(m, h)
                  /\ Explicit(h.request) \/ h.row.state # "suppressed"
    <2>1. PICK h \in handlers[w] :
            /\ memories' = [o \in MemoryId |->
                  IF o = h.memory THEN Stored(h)
                  ELSE IF h.request.op = "merge" /\ o = h.request.source THEN DeletedRow
                  ELSE memories[o]]
            /\ handlers' = [handlers EXCEPT ![w] = {}]
      BY <1>4 DEF Commit
    <2>2. h \in Handler /\ Loaded(h) /\ handlers'[w] = {}
      BY <2>1 DEF IInv, TypeOK, HandlersInv
    <2>3. h.memory = m
      BY <1>2, <2>1, BlankRows DEF Live
    <2>4. Committing(m, h)
      BY <2>2, <2>3 DEF Committing
    <2>5. memories'[m].state = Written(h.row.state, Computed(h).state, memories[m].state)
      BY <1>1, <2>1, <2>3 DEF Stored, Row
    <2>6. Computed(h).state # "suppressed"
      BY <2>5 DEF Written
    <2>7. Explicit(h.request) \/ h.row.state # "suppressed"
      BY <2>2, <2>6, SeenSuppressionStays
    <2>8. QED
      BY <2>4, <2>7
  <1>5. QED
    BY <1>2, <1>3, <1>4 DEF Next, Load, Leave, vars

(* The explicit suppression of a memory can be lost under overlap, but     *)
(* only to a request that asks for another state or that loaded the memory *)
(* before it was suppressed.                                               *)
THEOREM SuppressionSticks == Spec => SuppressionSticksOnceSeen
  <1>1. IInv /\ [Next]_vars =>
          [\A m \in MemoryId :
              /\ Live(m) /\ Live(m)'
              /\ memories[m].state = "suppressed" /\ memories'[m].state # "suppressed"
              => \E w \in Worker : \E h \in handlers[w] :
                    /\ Committing(m, h)
                    /\ Explicit(h.request) \/ h.row.state # "suppressed"]_vars
    BY SuppressionKept, ConcurrentAssumption
  <1>2. QED
    BY <1>1, Invariant, PTL DEF Spec, SuppressionSticksOnceSeen

-----------------------------------------------------------------------------
(* A request that judges leaves the state that follows from the evidence   *)
(* it leaves.                                                              *)
LEMMA JudgedStateSettles ==
    ASSUME ConcurrentAssumption, NEW h \in Handler, Loaded(h), Made(h),
           Judges(h.request), Computed(h) # h.row
    PROVE  Recommendation(Computed(h).state, Computed(h).observations)
              \in {"hold", "hold_suppressed"}
  <1> DEFINE r == h.request
  <1>1. /\ h.row \in Row /\ h.row.state \in State
        /\ Computed(h).observations \in Seq(Observation)
    BY DEF Handler, Row, Made
  <1>2. CASE r.op = "correct"
    <2> DEFINE obs == Append(h.row.observations,
                  [event |-> EventOr(h.row, r.event), kind |-> "accepted_correction",
                   accepted |-> TRUE, reason |-> "ACCEPTED", context |-> r.context])
               old == IF h.row.status = "unused" THEN "candidate" ELSE h.row.state
               new == Correct(h.row, r.form, r.source, r.event, r.context, r.confirm)
    <2>1. r.confirm = FALSE
      BY <1>2, RequestFields DEF Judges, Explicit, Handler, ConcurrentAssumption
    <2>2. Computed(h) = new
      BY <1>2 DEF Computed
    <2>3. ~(r.event # NoEvent /\ Observed(h.row, ClientId(r.event)))
      BY <2>2 DEF Correct
    <2>4. new.state = Reconcile(old, obs, FALSE) /\ new.observations = obs
      BY <1>1, <2>1, <2>3 DEF Correct, Recorded, Row
    <2>5. old \in State
      BY <1>1 DEF State
    <2> HIDE DEF new, obs, old
    <2>6. QED
      BY <1>1, <2>2, <2>4, <2>5, ReconcileSettles
  <1>3. CASE r.op = "feedback"
    <2> DEFINE obs == Append(h.row.observations,
                 [event |-> FeedbackId(r.decision, r.target.memory, r.target.start),
                  kind |-> "intervention_feedback", accepted |-> r.accepted,
                  reason |-> FeedbackReason(h.row, r.accepted, r.scope),
                  context |-> r.target.context])
               new == Feedback(h.row, r.decision, r.target, r.accepted, r.scope,
                               r.suppress, r.target.context)
    <2>1. new.state = Reconcile(h.row.state, obs, FALSE) /\ new.observations = obs
      BY <1>1, <1>3 DEF Judges, Explicit, Feedback, Recorded, Row
    <2>2. Computed(h) = new
      BY <1>3 DEF Computed
    <2> HIDE DEF new, obs
    <2>3. QED
      BY <1>1, <2>1, <2>2, ReconcileSettles
  <1>4. QED
    BY <1>2, <1>3 DEF Judges

(* Appended to the row it was computed from, a write is what was computed. *)
LEMMA FreshEvidence ==
    ASSUME NEW h \in Handler, Made(h)
    PROVE  LET old == h.row.observations
           IN  old \o Inserted(h, Len(old)) = Computed(h).observations
  <1> DEFINE old == h.row.observations
             k == Len(old)
             obs == Computed(h).observations
             ins == Inserted(h, k)
             j == Len(obs) - k
             all == old \o ins
  <1>1. /\ old \in Seq(Observation) /\ obs \in Seq(Observation)
        /\ k \in Nat /\ Len(obs) \in Nat /\ k <= Len(obs)
        /\ \A i \in 1 .. k : obs[i] = old[i]
    BY DEF Made, Writes, Continues, Handler, Row
  <1>2. /\ ins \in Seq(Observation) /\ Len(ins) = j
    BY <1>1, InsertedShape
  <1>3. ASSUME NEW i \in 1 .. j
        PROVE  ins[i] = obs[k + i]
    <2>1. k + i \in 1 .. Len(obs)
      BY <1>1
    <2>2. obs[k + i] \in Observation
      BY <1>1, <2>1
    <2>3. ins[i] = IF obs[k + i].event = ServerId(k + i)
                   THEN [obs[k + i] EXCEPT !.event = ServerId(k + i)]
                   ELSE obs[k + i]
      BY DEF Inserted
    <2> HIDE DEF obs, ins, k
    <2>4. QED
      BY <2>2, <2>3 DEF Observation
  <1> HIDE DEF obs, ins, old
  <1>4. /\ all \in Seq(Observation) /\ DOMAIN all = 1 .. k + Len(ins)
        /\ \A i \in 1 .. k : all[i] = old[i]
        /\ \A i \in 1 .. Len(ins) : all[k + i] = ins[i]
    BY <1>1, <1>2, JoinedSequences
  <1> HIDE DEF all, k
  <1>5. DOMAIN all = 1 .. Len(obs) /\ DOMAIN obs = 1 .. Len(obs)
    BY <1>1, <1>2, <1>4
  <1>6. ASSUME NEW i \in 1 .. Len(obs)
        PROVE  all[i] = obs[i]
    <2>1. CASE i \in 1 .. k
      BY <1>1, <1>4, <2>1
    <2>2. CASE i \notin 1 .. k
      <3>1. i - k \in 1 .. j /\ k + (i - k) = i
        BY <1>1, <2>2
      <3>2. QED
        BY <1>2, <1>3, <1>4, <3>1
    <2>3. QED
      BY <2>1, <2>2
  <1>7. all = obs
    <2>1. all = [i \in DOMAIN all |-> all[i]] /\ obs = [i \in DOMAIN obs |-> obs[i]]
      BY <1>1, <1>4
    <2>2. QED
      BY <1>5, <1>6, <2>1
  <1>8. QED
    BY <1>7 DEF all, obs, ins, k, old

LEMMA FreshSettles ==
    ASSUME IInv, ConcurrentAssumption, [Next]_vars,
           NEW m \in MemoryId, NEW w \in Worker, NEW h \in handlers[w],
           Committing(m, h), Judges(h.request),
           h.row = memories[m], memories'[m] # memories[m]
    PROVE  Recommendation(memories'[m].state, memories'[m].observations)
              \in {"hold", "hold_suppressed"}
  <1>1. /\ memories \in [MemoryId -> Row] /\ handlers \in [Worker -> SUBSET Handler]
        /\ \A v \in Worker : \A f, g \in handlers[v] : f = g
    BY DEF IInv, TypeOK
  <1>2. PICK u \in Worker : h \in handlers[u] /\ handlers'[u] = {} /\ h.memory = m
    BY DEF Committing
  <1>3. PICK v \in Worker : Commit(v)
    BY <1>2 DEF Next, Load, Leave, Delete, vars
  <1>4. PICK g \in handlers[v] :
          /\ Computed(g) # g.row /\ Accepted(g)
          /\ memories' = [o \in MemoryId |->
                IF o = g.memory THEN Stored(g)
                ELSE IF g.request.op = "merge" /\ o = g.request.source THEN DeletedRow
                ELSE memories[o]]
          /\ handlers' = [handlers EXCEPT ![v] = {}]
    BY <1>3 DEF Commit
  <1>5. u = v
    BY <1>1, <1>2, <1>4
  <1>6. g = h
    BY <1>1, <1>2, <1>5
  <1>7. h \in Handler /\ Loaded(h) /\ Made(h)
    BY <1>1, <1>2, <1>4, <1>6, HandlerMakes DEF IInv, HandlersInv
  <1>8. memories'[m] = Stored(h) /\ memories[h.memory] = h.row
    BY <1>2, <1>4, <1>6
  <1>9. memories'[m].state = Computed(h).state
    BY <1>1, <1>8 DEF Stored, Written, Row
  <1>10. memories'[m].observations = Computed(h).observations
    <2>1. Stored(h).observations
            = memories[h.memory].observations
                \o Inserted(h, Len(memories[h.memory].observations))
      <3>1. memories[h.memory] \in Row /\ (memories[h.memory].status = "live"
                                             => memories[h.memory].canonical \in Form)
        BY <1>1, <1>2 DEF IInv, RowsInv, Live
      <3>2. QED
        BY <1>4, <1>6, <1>7, <3>1, StoredRow
    <2>2. QED
      BY <1>7, <1>8, <2>1, FreshEvidence
  <1>11. QED
    BY <1>4, <1>6, <1>7, <1>9, <1>10, JudgedStateSettles

(* Under overlap a transition can be lost, but it is made up for by the    *)
(* next correction or feedback that loaded the current row: what it leaves *)
(* is a state that its evidence does not ask to change.                    *)
THEOREM FreshRequestsDoSettle == Spec => FreshRequestsSettle
  <1>1. IInv /\ [Next]_vars =>
          [\A m \in MemoryId : \A w \in Worker : \A h \in handlers[w] :
              /\ Committing(m, h) /\ Judges(h.request)
              /\ h.row = memories[m] /\ memories'[m] # memories[m]
              => Recommendation(memories'[m].state, memories'[m].observations)
                    \in {"hold", "hold_suppressed"}]_vars
    BY FreshSettles, ConcurrentAssumption
  <1>2. QED
    BY <1>1, Invariant, PTL DEF Spec, FreshRequestsSettle
=============================================================================
