------------------------ MODULE PortableImportProofs ------------------------
(***************************************************************************)
(* Theorems about PortableImport, for any bundle, any number of requests,  *)
(* overlaps, interruptions and edits.                                      *)
(***************************************************************************)
EXTENDS PortableImport, MemoryRowProofs

(* A row that was written: more evidence and versions than before.         *)
Grows(new, old) ==
    /\ old.status # "deleted" /\ new.status = "live"
    /\ Continues(new.observations, old.observations, {})
    /\ Len(old.versions) < Len(new.versions)
    /\ \A i \in 1 .. Len(old.versions) : new.versions[i] = old.versions[i]

RowStep(new, old) ==
    \/ new = old
    \/ Grows(new, old)
    \/ old.status = "live" /\ new = DeletedRow

RestoredIn(i, rows, done) == \E m \in MemoryId : rows[m].status = "live" /\ i \in done[m]

AtWork == {"teach", "write", "refresh", "state"}

(* What a handler knows by where it is: the entry it works on is not among *)
(* those restored all along, and once taught it is evidence of the memory. *)
(* The row a session keeps has seen nothing the stored row has not.        *)
HandlerOK(h, rows, done, entries) ==
    /\ h.phase \in AtWork => h.index \in DOMAIN entries /\ h.index \notin h.known
    /\ h.memory # NoMemory => rows[h.memory].status # "unused"
    /\ h.phase \in {"refresh", "state"} =>
          /\ h.memory # NoMemory
          /\ rows[h.memory].status = "live" => Observed(rows[h.memory], ClientId(h.index))
    /\ h.phase = "write" => ~Observed(h.row, ClientId(h.index))
    /\ h.memory # NoMemory /\ rows[h.memory].status = "live" =>
          \A e : Observed(h.row, e) => Observed(rows[h.memory], e)
    /\ \A i \in h.known : RestoredIn(i, rows, done)

(* What was restored is evidence.                                          *)
RestoredOK ==
    \A m \in MemoryId :
        /\ Live(m) => \A i \in restored[m] : Observed(memories[m], ClientId(i))
        /\ memories[m].status = "unused" => restored[m] = {}

EventsInv ==
    \A m \in MemoryId : Distinct(memories[m].observations) /\ Placed(memories[m].observations)

IInv ==
    /\ TypeOK
    /\ EventsInv
    /\ RestoredOK
    /\ \A a \in Attempt : HandlerOK(imports[a], memories, restored, bundle)

(* What every step does to the rows and to the handlers it is not about.   *)
Shape ==
    /\ bundle' = bundle /\ edits' \in 0 .. MaxEdits
    /\ memories' \in [MemoryId -> Row] /\ \A m \in MemoryId : RowStep(memories'[m], memories[m])
    /\ restored' \in [MemoryId -> SUBSET ClientEvent]
    /\ imports' \in [Attempt -> Import]

Undisturbed(new, old) ==
    /\ new.phase = old.phase /\ new.index = old.index
    /\ new.memory = old.memory /\ new.row = old.row
    /\ new.known \subseteq old.known

-----------------------------------------------------------------------------
LEMMA ItemType ==
    ASSUME TypeOK, NEW a \in Attempt, imports[a].index \in DOMAIN bundle
    PROVE  /\ Item(a) \in Entry /\ imports[a].index \in ClientEvent
           /\ {Item(a).variants[i] : i \in DOMAIN Item(a).variants} \in SUBSET Form
  <1>1. bundle \in Seq(Entry) /\ DOMAIN bundle \subseteq ClientEvent
    BY ImportAssumption DEF TypeOK
  <1>2. Item(a) \in Entry
    BY <1>1 DEF Item
  <1>3. Item(a).variants \in Seq(Form)
    BY <1>2 DEF Entry
  <1>4. \A i \in DOMAIN Item(a).variants : Item(a).variants[i] \in Form
    BY <1>3
  <1> QED  BY <1>1, <1>2, <1>4

LEMMA UnsentType == Unsent \in Import
  BY BlankRows, ImportAssumption DEF Unsent, Import, Mode, Phase

LEMMA RestoredIs ==
    \A i : Restored(i) <=> RestoredIn(i, memories, restored)
  BY DEF Restored, RestoredIn, Live

(* What a row has observed stays observed as long as it lives.             *)
LEMMA ObservedStays ==
    ASSUME NEW old \in Row, NEW new \in Row, RowStep(new, old), new.status = "live",
           old.status # "unused", NEW e, Observed(old, e)
    PROVE  Observed(new, e) /\ old.status = "live"
  <1>1. CASE new = old
    BY <1>1
  <1>2. CASE Grows(new, old)
    <2>1. old.observations \in Seq(Observation) /\ new.observations \in Seq(Observation)
          /\ old.status = "live"
      BY <1>2 DEF Row, Grows
    <2>2. PICK i \in DOMAIN old.observations : old.observations[i].event = e
      BY DEF Observed
    <2>3. i \in 1 .. Len(old.observations) /\ i \in DOMAIN new.observations
      BY <1>2, <2>1, <2>2 DEF Grows, Continues
    <2>4. new.observations[i].event = e
      BY <1>2, <2>2, <2>3 DEF Grows, Continues
    <2> QED  BY <2>1, <2>3, <2>4 DEF Observed
  <1>3. CASE new = DeletedRow
    BY <1>3, BlankRows
  <1> QED  BY <1>1, <1>2, <1>3 DEF RowStep

(* A row that lives on lived before, or came to be.                        *)
LEMMA LiveBefore ==
    ASSUME NEW old, NEW new, RowStep(new, old)
    PROVE  /\ new.status = "live" => old.status # "deleted"
           /\ old.status # "unused" => new.status # "unused"
           /\ old.status = "live" => new.status = "live" \/ new = DeletedRow
  BY BlankRows DEF RowStep, Grows

LEMMA HandlerKept ==
    ASSUME NEW rows \in [MemoryId -> Row], NEW rows2 \in [MemoryId -> Row],
           \A m \in MemoryId : RowStep(rows2[m], rows[m]),
           NEW done, NEW done2, NEW entries,
           NEW h \in Import, NEW h2 \in Import, Undisturbed(h2, h),
           \A i \in h2.known : RestoredIn(i, rows2, done2),
           HandlerOK(h, rows, done, entries)
    PROVE  HandlerOK(h2, rows2, done2, entries)
  <1>1. h2.memory = h.memory /\ h.memory \in MemoryId \cup {NoMemory} /\ h2.row = h.row
        /\ h2.phase = h.phase /\ h2.index = h.index /\ h2.known \subseteq h.known
    BY DEF Undisturbed, Import
  <1>2. ASSUME h.memory # NoMemory
        PROVE  /\ rows[h.memory].status # "unused" /\ rows2[h.memory].status # "unused"
               /\ rows2[h.memory].status = "live" => rows[h.memory].status = "live"
               /\ \A e : /\ rows2[h.memory].status = "live" /\ Observed(rows[h.memory], e)
                         => Observed(rows2[h.memory], e)
    <2>1. h.memory \in MemoryId /\ rows[h.memory] \in Row /\ rows2[h.memory] \in Row
          /\ RowStep(rows2[h.memory], rows[h.memory])
      BY <1>1, <1>2
    <2>2. rows[h.memory].status # "unused" /\ rows[h.memory].status \in {"unused", "live", "deleted"}
      BY <1>2, <2>1 DEF HandlerOK, Row
    <2> QED  BY <2>1, <2>2, LiveBefore, ObservedStays
  <1> QED  BY <1>1, <1>2 DEF HandlerOK

-----------------------------------------------------------------------------
(* The steps, by what they change.                                         *)
HandlersOK == \A a \in Attempt : HandlerOK(imports[a], memories, restored, bundle)

Result == Shape /\ RestoredOK' /\ HandlersOK'

(* A step of one handler that writes nothing.                              *)
LEMMA ReadResult ==
    ASSUME IInv, NEW a \in Attempt, NEW h \in Import, imports' = Goes(a, h),
           UNCHANGED <<bundle, memories, restored, edits>>,
           HandlerOK(h, memories, restored, bundle)
    PROVE  Result
  <1>1. /\ imports \in [Attempt -> Import] /\ imports' = [imports EXCEPT ![a] = h]
        /\ memories \in [MemoryId -> Row] /\ restored \in [MemoryId -> SUBSET ClientEvent]
        /\ edits \in 0 .. MaxEdits
    BY DEF IInv, TypeOK, Goes
  <1>2. Shape
    BY <1>1 DEF Shape, RowStep
  <1>3. HandlersOK'
    <2> SUFFICES ASSUME NEW b \in Attempt
                 PROVE  HandlerOK(imports'[b], memories', restored', bundle')
      BY DEF HandlersOK
    <2> QED  BY <1>1 DEF IInv
  <1>4. RestoredOK'
    BY DEF IInv, RestoredOK, Live
  <1> QED  BY <1>2, <1>3, <1>4 DEF Result

(* The handlers that did not commit lose their solitude only.              *)
LEMMA OthersKept ==
    ASSUME IInv, Shape, NEW b \in Attempt, Undisturbed(imports'[b], imports[b]),
           \A i \in imports'[b].known : RestoredIn(i, memories', restored')
    PROVE  HandlerOK(imports'[b], memories', restored', bundle')
  <1>1. HandlerOK(imports[b], memories, restored, bundle)
    BY DEF IInv
  <1>2. /\ memories \in [MemoryId -> Row] /\ memories' \in [MemoryId -> Row]
        /\ imports[b] \in Import /\ imports'[b] \in Import
        /\ \A m \in MemoryId : RowStep(memories'[m], memories[m])
        /\ bundle' = bundle
    BY DEF IInv, TypeOK, Shape
  <1>3. HandlerOK(imports'[b], memories', restored', bundle)
    BY <1>1, <1>2, HandlerKept
  <1> QED  BY <1>2, <1>3

(* A step of one handler that writes.                                      *)
LEMMA WriteResult ==
    ASSUME IInv, NEW a \in Attempt, NEW h \in Import, imports' = Commits(a, h),
           UNCHANGED <<bundle, edits>>,
           memories' \in [MemoryId -> Row],
           \A m \in MemoryId : RowStep(memories'[m], memories[m]) /\ (Live(m) => Live(m)'),
           restored' \in [MemoryId -> SUBSET ClientEvent],
           \A m \in MemoryId : restored[m] \subseteq restored'[m],
           HandlerOK(h, memories', restored', bundle'), RestoredOK'
    PROVE  Result
  <1>1. /\ imports \in [Attempt -> Import]
        /\ imports' = [b \in Attempt |-> IF b = a THEN h ELSE [imports[b] EXCEPT !.alone = FALSE]]
        /\ edits \in 0 .. MaxEdits
    BY DEF IInv, TypeOK, Commits
  <1>2. \A b \in Attempt : [imports[b] EXCEPT !.alone = FALSE] \in Import
    BY <1>1 DEF Import
  <1>3. Shape
    BY <1>1, <1>2 DEF Shape
  <1>4. \A i : RestoredIn(i, memories, restored) => RestoredIn(i, memories', restored')
    BY DEF RestoredIn, Live
  <1>5. ASSUME NEW b \in Attempt, b # a
        PROVE  HandlerOK(imports'[b], memories', restored', bundle')
    <2>1. imports'[b] = [imports[b] EXCEPT !.alone = FALSE] /\ imports[b] \in Import
      BY <1>1, <1>5
    <2>2. Undisturbed(imports'[b], imports[b]) /\ imports'[b].known = imports[b].known
      BY <2>1 DEF Undisturbed, Import
    <2>3. \A i \in imports[b].known : RestoredIn(i, memories, restored)
      BY DEF IInv, HandlerOK
    <2> QED  BY <1>3, <1>4, <2>2, <2>3, OthersKept
  <1>6. imports'[a] = h
    BY <1>1
  <1>7. HandlersOK'
    BY <1>5, <1>6 DEF HandlersOK
  <1> QED  BY <1>3, <1>7 DEF Result

-----------------------------------------------------------------------------
(* The handler's own steps.                                                *)
LEMMA HandlerFacts ==
    ASSUME IInv, NEW a \in Attempt
    PROVE  /\ imports[a] \in Import
           /\ HandlerOK(imports[a], memories, restored, bundle)
           /\ imports[a].memory \in MemoryId \cup {NoMemory}
           /\ imports[a].index \in Nat /\ imports[a].row \in Row
           /\ imports[a].known \in SUBSET ClientEvent
           /\ imports[a].mode \in Mode /\ imports[a].alone \in BOOLEAN
  BY DEF IInv, TypeOK, Import

LEMMA NextEntryType ==
    ASSUME NEW h \in Import
    PROVE  [h EXCEPT !.phase = "lookup", !.index = h.index + 1] \in Import
  <1>1. h.index + 1 \in Nat
    BY DEF Import
  <1> QED  BY <1>1 DEF Import, Phase

(* An entry that has been restored all along is known.                     *)
LEMMA KnownIsKnown ==
    ASSUME IInv, NEW a \in Attempt, imports[a].index \in imports[a].known
    PROVE  Known(a)
  <1>1. PICK m \in MemoryId : Live(m) /\ imports[a].index \in restored[m]
    BY HandlerFacts DEF HandlerOK, RestoredIn, Live
  <1> QED  BY <1>1 DEF IInv, RestoredOK, Known

LEMMA SkipResult == ASSUME IInv, NEW a \in Attempt, Skip(a) PROVE Result
  <1> DEFINE h == NextEntry(a)
  <1>1. imports[a] \in Import /\ HandlerOK(imports[a], memories, restored, bundle)
    BY HandlerFacts
  <1>2. h = [imports[a] EXCEPT !.phase = "lookup", !.index = imports[a].index + 1]
    BY <1>1 DEF NextEntry, At, Import
  <1>3. h \in Import
    BY <1>1, <1>2, NextEntryType
  <1>4. HandlerOK(h, memories, restored, bundle)
    BY <1>1, <1>2 DEF HandlerOK, AtWork, Import
  <1>5. imports' = Goes(a, h) /\ UNCHANGED <<bundle, memories, restored, edits>>
    BY DEF Skip
  <1> HIDE DEF h
  <1> QED  BY <1>3, <1>4, <1>5, ReadResult

LEMMA LookupResult == ASSUME IInv, NEW a \in Attempt, Lookup(a) PROVE Result
  <1> DEFINE h == At(a, "teach")
  <1>1. imports[a] \in Import /\ HandlerOK(imports[a], memories, restored, bundle)
    BY HandlerFacts
  <1>2. h \in Import
    BY <1>1 DEF At, Import, Phase
  <1>3. imports[a].index \in DOMAIN bundle /\ imports[a].index \notin imports[a].known
    BY KnownIsKnown DEF Lookup
  <1>4. HandlerOK(h, memories, restored, bundle)
    BY <1>1, <1>3 DEF HandlerOK, AtWork, Import, At
  <1>5. imports' = Goes(a, h) /\ UNCHANGED <<bundle, memories, restored, edits>>
    BY DEF Lookup
  <1> HIDE DEF h
  <1> QED  BY <1>2, <1>4, <1>5, ReadResult

LEMMA LoadResult == ASSUME IInv, NEW a \in Attempt, LoadMemory(a) PROVE Result
  <1> DEFINE event == ClientId(imports[a].index)
  <1>1. /\ imports[a] \in Import /\ HandlerOK(imports[a], memories, restored, bundle)
        /\ memories \in [MemoryId -> Row] /\ imports[a].phase = "teach"
        /\ UNCHANGED <<bundle, memories, restored, edits>>
    BY HandlerFacts DEF LoadMemory, IInv, TypeOK
  <1>2. imports[a].index \in DOMAIN bundle /\ imports[a].index \notin imports[a].known
        /\ \A i \in imports[a].known : RestoredIn(i, memories, restored)
    BY <1>1 DEF HandlerOK, AtWork
  <1>3. CASE \E m \in MemoryId :
              /\ Live(m)
              /\ imports' = Goes(a,
                  [imports[a] EXCEPT
                      !.memory = m,
                      !.row = IF m = imports[a].memory THEN @ ELSE memories[m],
                      !.phase = IF Observed(memories[m], event) THEN "state" ELSE "write"])
    <2>1. PICK m \in MemoryId :
              /\ Live(m)
              /\ imports' = Goes(a,
                  [imports[a] EXCEPT
                      !.memory = m,
                      !.row = IF m = imports[a].memory THEN @ ELSE memories[m],
                      !.phase = IF Observed(memories[m], event) THEN "state" ELSE "write"])
      BY <1>3
    <2> DEFINE row == IF m = imports[a].memory THEN imports[a].row ELSE memories[m]
               phase == IF Observed(memories[m], event) THEN "state" ELSE "write"
               h == [imports[a] EXCEPT !.memory = m, !.row = row, !.phase = phase]
    <2>2. row \in Row
      BY <1>1, HandlerFacts
    <2>3. \A e : Observed(row, e) => Observed(memories[m], e)
      BY <1>1, <2>1, ImportAssumption DEF HandlerOK, Live
    <2>4. phase \in {"state", "write"}
          /\ (phase = "state" <=> Observed(memories[m], event))
      OBVIOUS
    <2>5. imports' = Goes(a, h)
      BY <2>1
    <2>6. m # NoMemory
      BY ImportAssumption
    <2> HIDE DEF row, phase
    <2>7. h \in Import
      BY <1>1, <2>2, <2>4 DEF Import, Phase
    <2>8. /\ h.memory = m /\ h.row = row /\ h.phase = phase
          /\ h.index = imports[a].index /\ h.known = imports[a].known
      BY <1>1 DEF Import
    <2> HIDE DEF h
    <2>9. phase = "write" => ~Observed(row, event)
      BY <2>3, <2>4
    <2> HIDE DEF event
    <2>10. ClientId(h.index) = event
      BY <2>8 DEF event
    <2>11. HandlerOK(h, memories, restored, bundle)
      BY <1>2, <2>1, <2>3, <2>4, <2>6, <2>8, <2>9, <2>10 DEF HandlerOK, Live
    <2> QED  BY <1>1, <2>5, <2>7, <2>11, ReadResult
  <1>4. CASE imports' = Goes(a, [At(a, "write") EXCEPT !.memory = NoMemory, !.row = UnusedRow])
    <2> DEFINE h == [imports[a] EXCEPT !.phase = "write", !.memory = NoMemory, !.row = UnusedRow]
    <2>1. h = [At(a, "write") EXCEPT !.memory = NoMemory, !.row = UnusedRow]
      BY <1>1 DEF At, Import
    <2>2. h \in Import
      BY <1>1, BlankRows DEF Import, Phase
    <2>3. /\ h.memory = NoMemory /\ h.row = UnusedRow /\ h.phase = "write"
          /\ h.index = imports[a].index /\ h.known = imports[a].known
      BY <1>1 DEF Import
    <2>4. ~Observed(UnusedRow, event)
      BY BlankRows DEF Observed
    <2> HIDE DEF h
    <2>5. HandlerOK(h, memories, restored, bundle)
      BY <1>2, <2>3, <2>4 DEF HandlerOK
    <2> QED  BY <1>1, <1>4, <2>1, <2>2, <2>5, ReadResult
  <1> QED  BY <1>3, <1>4 DEF LoadMemory

(* A handler that stops, or goes on to its answer.                         *)
LEMMA RestResult ==
    ASSUME IInv, NEW a \in Attempt, Answer(a) \/ TeachFails(a) \/ Orphaned(a) \/ Breaks(a)
    PROVE  Result
  <1>1. /\ imports[a] \in Import /\ HandlerOK(imports[a], memories, restored, bundle)
        /\ UNCHANGED <<bundle, memories, restored, edits>>
        /\ \A i \in imports[a].known : RestoredIn(i, memories, restored)
    BY HandlerFacts DEF Answer, TeachFails, Orphaned, Breaks, HandlerOK
  <1>2. \A e : ~Observed(UnusedRow, e)
    BY BlankRows DEF Observed
  <1>3. CASE Answer(a)
    <2>1. At(a, "answered") \in Import
      BY <1>1 DEF At, Import, Phase
    <2>2. HandlerOK(At(a, "answered"), memories, restored, bundle)
      BY <1>1 DEF HandlerOK, AtWork, Import, At
    <2>3. imports' = Goes(a, At(a, "answered"))
      BY <1>3 DEF Answer
    <2> QED  BY <1>1, <2>1, <2>2, <2>3, ReadResult
  <1>4. CASE ~Answer(a)
    <2>1. PICK memory \in {imports[a].memory, NoMemory} :
             imports' = Goes(a, [At(a, "failed") EXCEPT !.row = UnusedRow, !.memory = memory])
      BY <1>4 DEF TeachFails, Orphaned, Breaks, Ended, At
    <2> DEFINE h == [At(a, "failed") EXCEPT !.row = UnusedRow, !.memory = memory]
    <2>2. h \in Import
      BY <1>1, BlankRows DEF At, Import, Phase
    <2>3. /\ h.memory = memory /\ h.row = UnusedRow /\ h.phase = "failed"
          /\ h.known = imports[a].known
      BY <1>1 DEF Import, At
    <2> HIDE DEF h
    <2>4. HandlerOK(h, memories, restored, bundle)
      BY <1>1, <1>2, <2>3 DEF HandlerOK, AtWork
    <2> QED  BY <1>1, <2>1, <2>2, <2>4, ReadResult DEF h
  <1> QED  BY <1>3, <1>4

LEMMA RefreshResult == ASSUME IInv, NEW a \in Attempt, Refresh(a) PROVE Result
  <1>1. /\ imports[a] \in Import /\ HandlerOK(imports[a], memories, restored, bundle)
        /\ imports[a].phase = "refresh" /\ Live(imports[a].memory)
        /\ memories \in [MemoryId -> Row]
    BY HandlerFacts DEF Refresh, IInv, TypeOK
  <1> DEFINE h == [imports[a] EXCEPT !.phase = "state", !.row = memories[imports[a].memory]]
  <1>2. imports[a].memory \in MemoryId
    BY <1>1 DEF HandlerOK, Import
  <1>3. h \in Import
    BY <1>1, <1>2 DEF Import, Phase
  <1>4. HandlerOK(h, memories, restored, bundle)
    BY <1>1 DEF HandlerOK, AtWork, Import
  <1>5. imports' = Goes(a, h) /\ UNCHANGED <<bundle, memories, restored, edits>>
    BY <1>1 DEF Refresh, At, Import
  <1> HIDE DEF h
  <1> QED  BY <1>3, <1>4, <1>5, ReadResult

-----------------------------------------------------------------------------
(* The two commits.                                                        *)
LEMMA WrittenType ==
    ASSUME NEW S, NEW loaded \in S, NEW computed \in S, NEW now \in S
    PROVE  Written(loaded, computed, now) \in S
  BY DEF Written

LEMMA TaughtType ==
    ASSUME IInv, NEW a \in Attempt, imports[a].phase = "write"
    PROVE  LET new == TaughtRow(a) IN
           /\ new \in Row /\ new.canonical \in Form
           /\ new.observations[Len(new.observations)] \in Observation
           /\ new.observations[Len(new.observations)].event = ClientId(imports[a].index)
           /\ new.versions[Len(new.versions)] \in Snapshot
  <1> DEFINE row == imports[a].row
             index == imports[a].index
             variants == {Item(a).variants[i] : i \in DOMAIN Item(a).variants}
             form == Item(a).canonical
             scope == Item(a).scope
             obs == [event |-> EventOr(row, index), kind |-> "explicit_teach",
                     accepted |-> TRUE, reason |-> "ACCEPTED", context |-> NoContext]
             base == [row EXCEPT
                        !.status = "live", !.canonical = form, !.state = "confirmed",
                        !.scope = scope, !.variants = @ \cup variants,
                        !.observations = Append(@, obs)]
  <1>1. row \in Row /\ HandlerOK(imports[a], memories, restored, bundle) /\ TypeOK
    BY HandlerFacts DEF IInv
  <1>2. index \in DOMAIN bundle /\ ~Observed(row, ClientId(index))
    BY <1>1 DEF HandlerOK, AtWork
  <1>3. Item(a) \in Entry /\ index \in ClientEvent /\ variants \in SUBSET Form
    BY <1>1, <1>2, ItemType
  <1>4. index # NoEvent /\ form \in Form /\ scope \in Scope
    BY <1>3, ImportAssumption DEF Entry
  <1>5. EventOr(row, index) = ClientId(index)
    BY <1>4 DEF EventOr
  <1>6. TaughtRow(a) = Recorded(base)
    BY <1>2 DEF TaughtRow, Teach
  <1>7. obs \in Observation
    BY <1>1, <1>3, EventOrType DEF Observation, Kind, Reason
  <1> HIDE DEF obs
  <1>8. row.observations \in Seq(Observation)
    BY <1>1 DEF Row
  <1>9. /\ Append(row.observations, obs) \in Seq(Observation)
        /\ Append(row.observations, obs)[Len(Append(row.observations, obs))] = obs
    BY <1>7, <1>8
  <1>10. base \in Row /\ base.observations = Append(row.observations, obs)
         /\ base.canonical = form
    BY <1>1, <1>3, <1>4, <1>9 DEF Row, State
  <1> HIDE DEF base
  <1>11. Recorded(base) \in Row
    BY <1>10, RecordedType
  <1> DEFINE v == [state |-> base.state, upTo |-> Len(base.observations)]
  <1>12. v \in Snapshot /\ base.versions \in Seq(Snapshot)
    BY <1>10 DEF Row, Snapshot
  <1>13. /\ Recorded(base).observations = base.observations
         /\ Recorded(base).canonical = base.canonical
         /\ Recorded(base).versions = Append(base.versions, v)
    BY <1>10 DEF Recorded, Row
  <1> HIDE DEF v
  <1>14. Append(base.versions, v)[Len(Append(base.versions, v))] = v
    BY <1>12
  <1>15. obs.event = ClientId(index)
    BY <1>5 DEF obs
  <1> QED  BY <1>4, <1>6, <1>7, <1>9, <1>10, <1>11, <1>12, <1>13, <1>14, <1>15

(* A row that gets one more observation, of an event it has not, and one   *)
(* more version.                                                           *)
LEMMA RowGrows ==
    ASSUME NEW old \in Row, NEW new \in Row, NEW o \in Observation, NEW v \in Snapshot,
           NEW e, o.event = ClientId(e), ~Observed(old, ClientId(e)),
           old.status # "deleted", new.status = "live",
           new.observations = Append(old.observations, o),
           new.versions = Append(old.versions, v)
    PROVE  Grows(new, old) /\ Observed(new, ClientId(e))
  <1>1. old.observations \in Seq(Observation) /\ old.versions \in Seq(Snapshot)
    BY DEF Row
  <1>2. Fits(old.observations, o.event)
    BY DEF Fits, Observed, ClientId, ServerId, MergeId
  <1>3. Continues(new.observations, old.observations, {})
    BY <1>1, <1>2, AppendContinues
  <1>4. /\ Len(old.versions) < Len(new.versions)
        /\ \A i \in 1 .. Len(old.versions) : new.versions[i] = old.versions[i]
    BY <1>1
  <1>5. Len(new.observations) \in DOMAIN new.observations
        /\ new.observations[Len(new.observations)] = o
    BY <1>1
  <1> QED  BY <1>3, <1>4, <1>5 DEF Grows, Observed

LEMMA TeachCommitResult == ASSUME IInv, NEW a \in Attempt, TeachCommit(a) PROVE Result
  <1> DEFINE new == TaughtRow(a)
             index == imports[a].index
             row == imports[a].row
             o == new.observations[Len(new.observations)]
             v == new.versions[Len(new.versions)]
  <1>1. PICK m \in Targets(a) :
          /\ Accepted(a, m)
          /\ memories' = [memories EXCEPT ![m] = Committed(@, a)]
          /\ imports' = Commits(a,
                [imports[a] EXCEPT !.phase = "refresh", !.memory = m, !.row = UnusedRow])
    BY DEF TeachCommit
  <1>2. /\ imports[a].phase = "write" /\ restored' = restored /\ UNCHANGED <<bundle, edits>>
        /\ bundle' = bundle
    BY DEF TeachCommit
  <1>3. /\ imports[a] \in Import /\ HandlerOK(imports[a], memories, restored, bundle)
        /\ row \in Row /\ index \in Nat
        /\ memories \in [MemoryId -> Row] /\ restored \in [MemoryId -> SUBSET ClientEvent]
    BY HandlerFacts DEF IInv, TypeOK
  <1>4. /\ new \in Row /\ new.canonical \in Form /\ o \in Observation
        /\ o.event = ClientId(index) /\ v \in Snapshot
    BY <1>2, TaughtType
  <1> DEFINE old == memories[m]
             now == Committed(old, a)
  <1>0. now = [old EXCEPT
                !.status = "live", !.canonical = Written(row.canonical, new.canonical, @),
                !.state = Written(row.state, new.state, @),
                !.scope = Written(row.scope, new.scope, @),
                !.variants = @ \cup new.variants,
                !.observations = Append(@, o),
                !.versions = Append(@, v)]
    BY DEF Committed
  <1> HIDE DEF o, v, new, now
  <1>5. m \in MemoryId /\ old.status \in {"unused", "live"} /\ ~Observed(old, ClientId(index))
    <2>1. imports[a].memory \in MemoryId \cup {NoMemory}
      BY HandlerFacts
    <2>2. m \in MemoryId /\ (imports[a].memory = NoMemory => old.status = "unused")
      BY <2>1 DEF Targets
    <2>3. /\ imports[a].memory # NoMemory => old.status = "live"
          /\ ~Observed(old, ClientId(index))
      BY <1>1 DEF Accepted, UniqueEvent
    <2> QED  BY <2>2, <2>3
  <1>6. old \in Row
    BY <1>3, <1>5
  <1>7. /\ Append(old.observations, o) \in Seq(Observation)
        /\ Append(old.versions, v) \in Seq(Snapshot)
        /\ Written(row.canonical, new.canonical, old.canonical) \in Form \cup {NoForm}
        /\ Written(row.state, new.state, old.state) \in State
        /\ Written(row.scope, new.scope, old.scope) \in Scope
        /\ old.variants \cup new.variants \in SUBSET Form
    <2>1. old.observations \in Seq(Observation) /\ old.versions \in Seq(Snapshot)
      BY <1>6 DEF Row
    <2>2. Append(old.observations, o) \in Seq(Observation) /\ Append(old.versions, v) \in Seq(Snapshot)
      BY <1>4, <2>1
    <2> HIDE DEF old, row
    <2>3. /\ Written(row.canonical, new.canonical, old.canonical) \in Form \cup {NoForm}
          /\ Written(row.state, new.state, old.state) \in State
          /\ Written(row.scope, new.scope, old.scope) \in Scope
          /\ old.variants \cup new.variants \in SUBSET Form
      BY <1>3, <1>4, <1>6 DEF Row, Written
    <2> QED  BY <2>2, <2>3
  <1>8. /\ now \in Row /\ now.status = "live"
        /\ now.observations = Append(old.observations, o)
        /\ now.versions = Append(old.versions, v)
    BY <1>0, <1>6, <1>7 DEF Row
  <1>9. Grows(now, old) /\ Observed(now, ClientId(index))
    BY <1>4, <1>5, <1>6, <1>8, RowGrows
  <1>10. memories' = [memories EXCEPT ![m] = now]
    BY <1>1 DEF now
  <1> HIDE DEF old
  <1>11. /\ memories' \in [MemoryId -> Row] /\ memories'[m] = now
         /\ \A n \in MemoryId : n # m => memories'[n] = memories[n]
    BY <1>3, <1>5, <1>8, <1>10
  <1>12. \A n \in MemoryId : RowStep(memories'[n], memories[n]) /\ (Live(n) => Live(n)')
    BY <1>8, <1>9, <1>11 DEF RowStep, Live, old
  <1>13. RestoredOK'
    <2> SUFFICES ASSUME NEW n \in MemoryId
                 PROVE  /\ Live(n)' => \A i \in restored'[n] : Observed(memories'[n], ClientId(i))
                        /\ memories'[n].status = "unused" => restored'[n] = {}
      BY DEF RestoredOK
    <2>1. CASE n # m
      BY <1>2, <1>11, <2>1 DEF IInv, RestoredOK, Live
    <2>2. CASE n = m /\ old.status = "unused"
      BY <1>2, <1>8, <1>11, <2>2 DEF IInv, RestoredOK, old
    <2>3. CASE n = m /\ old.status = "live"
      <3>1. \A i \in restored[n] : Observed(old, ClientId(i))
        BY <2>3 DEF IInv, RestoredOK, Live, old
      <3>2. ASSUME NEW e, Observed(old, e)
            PROVE  Observed(now, e)
        BY <1>6, <1>8, <1>9, <2>3, <3>2, ObservedStays DEF RowStep
      <3> QED  BY <1>2, <1>8, <1>11, <2>3, <3>1, <3>2
    <2> QED  BY <1>5, <2>1, <2>2, <2>3
  <1> DEFINE h == [imports[a] EXCEPT !.phase = "refresh", !.memory = m, !.row = UnusedRow]
  <1>14. h \in Import
    BY <1>3, <1>5, BlankRows DEF Import, Phase
  <1>15. /\ h.phase = "refresh" /\ h.memory = m /\ h.row = UnusedRow
         /\ h.index = index /\ h.known = imports[a].known
    BY <1>3 DEF Import
  <1>16. imports' = Commits(a, h)
    BY <1>1
  <1> HIDE DEF h, index
  <1>17. /\ h.index \in DOMAIN bundle' /\ h.index \notin h.known
         /\ \A i \in h.known : RestoredIn(i, memories, restored)
    BY <1>2, <1>3, <1>15 DEF HandlerOK, AtWork, index
  <1>18. \A i \in h.known : RestoredIn(i, memories', restored')
    BY <1>2, <1>12, <1>17 DEF RestoredIn, Live
  <1>19. \A e : ~Observed(UnusedRow, e)
    BY BlankRows DEF Observed
  <1>20. HandlerOK(h, memories', restored', bundle')
    BY <1>5, <1>8, <1>9, <1>11, <1>15, <1>17, <1>18, <1>19, ImportAssumption DEF HandlerOK
  <1>21. \A n \in MemoryId : restored[n] \subseteq restored'[n]
    BY <1>2
  <1>22. restored' \in [MemoryId -> SUBSET ClientEvent]
    BY <1>2, <1>3
  <1> QED  BY <1>2, <1>11, <1>12, <1>13, <1>14, <1>16, <1>20, <1>21, <1>22, WriteResult

LEMMA SetStateResult == ASSUME IInv, NEW a \in Attempt, SetState(a) PROVE Result
  <1> DEFINE m == imports[a].memory
             row == imports[a].row
             index == imports[a].index
             state == Item(a).state
             old == memories[m]
             v == [state |-> state, upTo |-> Len(row.observations)]
             now == [old EXCEPT !.state = Written(row.state, state, @), !.versions = Append(@, v)]
  <1>1. /\ imports[a].phase = "state" /\ Live(m) /\ UNCHANGED <<bundle, edits>>
        /\ memories' = [memories EXCEPT ![m] = now]
        /\ restored' = [restored EXCEPT ![m] = @ \cup {index}]
        /\ imports' = Commits(a, [NextEntry(a) EXCEPT !.row.state = state])
    BY DEF SetState, Imported, Restated
  <1>2. /\ imports[a] \in Import /\ HandlerOK(imports[a], memories, restored, bundle)
        /\ row \in Row /\ index \in Nat /\ TypeOK
        /\ memories \in [MemoryId -> Row] /\ restored \in [MemoryId -> SUBSET ClientEvent]
    BY HandlerFacts DEF IInv, TypeOK
  <1>3. /\ m \in MemoryId /\ m # NoMemory /\ Observed(old, ClientId(index))
        /\ index \in DOMAIN bundle
        /\ \A e : Observed(row, e) => Observed(old, e)
        /\ \A i \in imports[a].known : RestoredIn(i, memories, restored)
    <2>1. m \in MemoryId \cup {NoMemory}
      BY <1>2 DEF Import
    <2>2. m # NoMemory /\ old.status = "live" /\ index \in DOMAIN bundle
      BY <1>1, <1>2 DEF HandlerOK, AtWork, Live
    <2> QED  BY <1>1, <1>2, <2>1, <2>2 DEF HandlerOK
  <1>4. index \in ClientEvent /\ state \in State
    BY <1>2, <1>3, ItemType DEF Entry
  <1>5. old \in Row /\ old.status = "live"
    BY <1>1, <1>2, <1>3 DEF Live
  <1>6. Len(row.observations) \in Nat
    BY <1>2 DEF Row
  <1>7. v \in Snapshot
    BY <1>4, <1>6 DEF Snapshot
  <1> HIDE DEF v
  <1>8. /\ Append(old.versions, v) \in Seq(Snapshot)
        /\ Written(row.state, state, old.state) \in State
        /\ Len(old.versions) < Len(Append(old.versions, v))
        /\ \A i \in 1 .. Len(old.versions) : Append(old.versions, v)[i] = old.versions[i]
    <2>1. old.versions \in Seq(Snapshot)
      BY <1>5 DEF Row
    <2>2. Written(row.state, state, old.state) \in State
      BY <1>2, <1>4, <1>5 DEF Row, Written
    <2> HIDE DEF old
    <2>3. /\ Append(old.versions, v) \in Seq(Snapshot)
          /\ Len(old.versions) < Len(Append(old.versions, v))
          /\ \A i \in 1 .. Len(old.versions) : Append(old.versions, v)[i] = old.versions[i]
      BY <1>7, <2>1
    <2> QED  BY <2>2, <2>3
  <1>9. /\ now \in Row /\ now.status = "live" /\ now.observations = old.observations
        /\ now.versions = Append(old.versions, v)
    BY <1>5, <1>8 DEF Row
  <1>10. Continues(old.observations, old.observations, {})
    BY <1>5, ContinuesReflexive DEF Row
  <1>11. Grows(now, old)
    BY <1>5, <1>8, <1>9, <1>10 DEF Grows
  <1>12. \A e : Observed(now, e) <=> Observed(old, e)
    BY <1>9 DEF Observed
  <1> HIDE DEF now, old
  <1>13. /\ memories' \in [MemoryId -> Row] /\ memories'[m] = now
         /\ \A n \in MemoryId : n # m => memories'[n] = memories[n]
    BY <1>1, <1>2, <1>3, <1>9
  <1>14. /\ restored' \in [MemoryId -> SUBSET ClientEvent]
         /\ restored'[m] = restored[m] \cup {index}
         /\ \A n \in MemoryId : n # m => restored'[n] = restored[n]
    BY <1>1, <1>2, <1>3, <1>4
  <1>15. \A n \in MemoryId : RowStep(memories'[n], memories[n]) /\ (Live(n) => Live(n)')
    BY <1>9, <1>11, <1>13 DEF RowStep, Live, old
  <1>16. RestoredOK'
    <2> SUFFICES ASSUME NEW n \in MemoryId
                 PROVE  /\ Live(n)' => \A i \in restored'[n] : Observed(memories'[n], ClientId(i))
                        /\ memories'[n].status = "unused" => restored'[n] = {}
      BY DEF RestoredOK
    <2>1. CASE n # m
      BY <1>13, <1>14, <2>1 DEF IInv, RestoredOK, Live
    <2>2. CASE n = m
      <3>1. \A i \in restored[m] : Observed(old, ClientId(i))
        BY <1>1, <1>3 DEF IInv, RestoredOK, old
      <3>2. \A i \in restored[m] \cup {index} : Observed(now, ClientId(i))
        BY <1>3, <1>12, <3>1
      <3> QED  BY <1>9, <1>13, <1>14, <2>2, <3>2
    <2> QED  BY <2>1, <2>2
  <1> DEFINE next == [imports[a] EXCEPT !.phase = "lookup", !.index = index + 1]
             kept == [row EXCEPT !.state = state]
             h == [next EXCEPT !.row = kept]
  <1>17. next \in Import
    BY <1>2, NextEntryType
  <1>18. kept \in Row /\ kept.observations = row.observations
    BY <1>2, <1>4 DEF Row
  <1>19. [NextEntry(a) EXCEPT !.row.state = state] = h
    BY <1>2 DEF NextEntry, At, Import
  <1> HIDE DEF kept
  <1>20. /\ h \in Import /\ h.phase = "lookup" /\ h.memory = m /\ h.row = kept
         /\ h.known = imports[a].known
    BY <1>2, <1>17, <1>18 DEF Import
  <1> HIDE DEF h, next
  <1>21. imports' = Commits(a, h)
    BY <1>1, <1>19
  <1>22. \A n \in MemoryId : restored[n] \subseteq restored'[n]
    BY <1>14
  <1>23. \A i \in h.known : RestoredIn(i, memories', restored')
    BY <1>3, <1>15, <1>20, <1>22 DEF RestoredIn, Live
  <1>24. \A e : Observed(h.row, e) => Observed(memories'[m], e)
    BY <1>3, <1>12, <1>13, <1>18, <1>20 DEF Observed
  <1>25. memories'[m].status = "live"
    BY <1>9, <1>13
  <1> HIDE DEF m
  <1>26. HandlerOK(h, memories', restored', bundle')
    BY <1>20, <1>23, <1>24, <1>25 DEF HandlerOK, AtWork
  <1> QED  BY <1>1, <1>13, <1>14, <1>15, <1>16, <1>20, <1>21, <1>22, <1>26, WriteResult

-----------------------------------------------------------------------------
(* The request arrives, and the user's own edits.                          *)
LEMMA UpdateResult ==
    ASSUME IInv, NEW n \in MemoryId, NEW change \in Edits, UpdateMemory(n, change)
    PROVE  Result
  <1> DEFINE old == memories[n]
             now == Patch(old, change)
  <1>1. /\ Live(n) /\ memories' = [memories EXCEPT ![n] = now] /\ imports' = Disturbed
        /\ UNCHANGED <<bundle, restored>> /\ edits < MaxEdits /\ edits' = edits + 1
    BY DEF UpdateMemory, Intervenes
  <1>2. /\ TypeOK /\ memories \in [MemoryId -> Row] /\ imports \in [Attempt -> Import]
        /\ restored \in [MemoryId -> SUBSET ClientEvent] /\ edits \in 0 .. MaxEdits
    BY DEF IInv, TypeOK
  <1>3. old \in Row /\ old.status = "live" /\ change \in Change
    BY <1>1, <1>2, ImportAssumption DEF Live
  <1>4. now \in Row /\ Writes(now, old, {})
    BY <1>3, PatchType, PatchWrites
  <1>5. Grows(now, old) /\ now.status = "live"
    BY <1>3, <1>4 DEF Writes, Grows
  <1> HIDE DEF now
  <1>6. /\ memories' \in [MemoryId -> Row] /\ memories'[n] = now
        /\ \A m \in MemoryId : m # n => memories'[m] = memories[m]
    BY <1>1, <1>2, <1>4
  <1>7. \A m \in MemoryId : RowStep(memories'[m], memories[m]) /\ (Live(m) => Live(m)')
    BY <1>5, <1>6 DEF RowStep, Live
  <1>8. \A b \in Attempt : /\ imports'[b] = [imports[b] EXCEPT !.alone = FALSE]
                           /\ imports[b] \in Import
    BY <1>1, <1>2 DEF Disturbed
  <1>9. \A b \in Attempt : /\ imports'[b] \in Import /\ Undisturbed(imports'[b], imports[b])
                           /\ imports'[b].known = imports[b].known
    <2> SUFFICES ASSUME NEW b \in Attempt
                 PROVE  /\ imports'[b] \in Import /\ Undisturbed(imports'[b], imports[b])
                        /\ imports'[b].known = imports[b].known
      OBVIOUS
    <2>1. imports'[b] = [imports[b] EXCEPT !.alone = FALSE] /\ imports[b] \in Import
      BY <1>8
    <2>2. imports'[b] \in Import
      BY <2>1 DEF Import
    <2>3. Undisturbed(imports'[b], imports[b]) /\ imports'[b].known = imports[b].known
      BY <2>1 DEF Import, Undisturbed
    <2> QED  BY <2>2, <2>3
  <1>10. imports' \in [Attempt -> Import]
    BY <1>1, <1>9 DEF Disturbed
  <1>11. edits' \in 0 .. MaxEdits
    BY <1>1, <1>2, ImportAssumption
  <1>12. Shape
    BY <1>1, <1>2, <1>6, <1>7, <1>10, <1>11 DEF Shape
  <1>13. HandlersOK'
    <2>1. \A b \in Attempt : \A i \in imports'[b].known : RestoredIn(i, memories', restored')
      BY <1>1, <1>7, <1>9 DEF IInv, HandlerOK, RestoredIn, Live
    <2> QED  BY <1>9, <1>12, <2>1, OthersKept DEF HandlersOK
  <1>14. RestoredOK'
    <2> SUFFICES ASSUME NEW m \in MemoryId
                 PROVE  /\ Live(m)' => \A i \in restored'[m] : Observed(memories'[m], ClientId(i))
                        /\ memories'[m].status = "unused" => restored'[m] = {}
      BY DEF RestoredOK
    <2>1. CASE m # n
      BY <1>1, <1>6, <2>1 DEF IInv, RestoredOK, Live
    <2>2. CASE m = n
      <3>1. \A i \in restored[n] : Observed(old, ClientId(i))
        BY <1>1 DEF IInv, RestoredOK
      <3>2. ASSUME NEW e, Observed(old, e)
            PROVE  Observed(now, e)
        BY <1>3, <1>4, <1>5, <3>2, ObservedStays DEF RowStep
      <3> QED  BY <1>1, <1>5, <1>6, <2>2, <3>1, <3>2
    <2> QED  BY <2>1, <2>2
  <1> QED  BY <1>12, <1>13, <1>14 DEF Result

(* A handler that loses what it knows of entries that are gone.            *)
LEMMA Narrowed ==
    ASSUME NEW h \in Import, NEW h2, NEW S,
           h2 = [h EXCEPT !.known = {i \in h.known : i \in S}]
    PROVE  h2 \in Import /\ Undisturbed(h2, h) /\ h2.known \subseteq S
  BY DEF Import, Undisturbed

LEMMA StillKnownIs ==
    ASSUME NEW handlers \in [Attempt -> Import], imports' = StillKnown(handlers)
    PROVE  /\ imports' \in [Attempt -> Import]
           /\ \A b \in Attempt :
                 /\ Undisturbed(imports'[b], handlers[b])
                 /\ \A i \in imports'[b].known : RestoredIn(i, memories', restored')
  <1> DEFINE still == {i \in ClientEvent : Restored(i)'}
  <1>1. \A i \in still : RestoredIn(i, memories', restored')
    BY DEF Restored, RestoredIn, Live
  <1>2. \A b \in Attempt : handlers[b] \in Import /\ handlers[b].known \subseteq ClientEvent
    BY DEF Import
  <1>3. \A b \in Attempt : {i \in handlers[b].known : Restored(i)'}
                               = {i \in handlers[b].known : i \in still}
    BY <1>2
  <1>4. imports' = [b \in Attempt |-> [handlers[b] EXCEPT
                                !.known = {i \in handlers[b].known : Restored(i)'}]]
    BY DEF StillKnown
  <1> HIDE DEF still
  <1>5. ASSUME NEW b \in Attempt
        PROVE  /\ imports'[b] \in Import /\ Undisturbed(imports'[b], handlers[b])
               /\ imports'[b].known \subseteq still
    <2>1. imports'[b] = [handlers[b] EXCEPT !.known = {i \in handlers[b].known : Restored(i)'}]
      BY <1>4
    <2>2. imports'[b] = [handlers[b] EXCEPT !.known = {i \in handlers[b].known : i \in still}]
      BY <1>3, <2>1
    <2> QED  BY <1>2, <2>2, Narrowed
  <1>6. imports' \in [Attempt -> Import]
    BY <1>4, <1>5
  <1> QED  BY <1>1, <1>5, <1>6

(* A deletion: what was restored in the memory is not known any more.      *)
LEMMA DeleteResult == ASSUME IInv, NEW n \in MemoryId, DeleteMemory(n) PROVE Result
  <1>1. /\ Live(n) /\ memories' = [memories EXCEPT ![n] = DeletedRow]
        /\ restored' = [restored EXCEPT ![n] = {}] /\ imports' = StillKnown(Disturbed)
        /\ bundle' = bundle /\ edits < MaxEdits /\ edits' = edits + 1
    BY DEF DeleteMemory, Intervenes
  <1>2. /\ TypeOK /\ memories \in [MemoryId -> Row] /\ imports \in [Attempt -> Import]
        /\ restored \in [MemoryId -> SUBSET ClientEvent] /\ edits \in 0 .. MaxEdits
    BY DEF IInv, TypeOK
  <1>3. /\ memories' \in [MemoryId -> Row] /\ restored' \in [MemoryId -> SUBSET ClientEvent]
        /\ \A m \in MemoryId : RowStep(memories'[m], memories[m])
    BY <1>1, <1>2, BlankRows DEF RowStep, Live
  <1>4. Disturbed \in [Attempt -> Import]
    <2>1. \A b \in Attempt : [imports[b] EXCEPT !.alone = FALSE] \in Import
      BY <1>2 DEF Import
    <2> QED  BY <2>1 DEF Disturbed
  <1>5. \A b \in Attempt : Undisturbed(Disturbed[b], imports[b])
    BY <1>2 DEF Disturbed, Import, Undisturbed
  <1>6. Shape
    <2>1. imports' \in [Attempt -> Import]
      BY <1>1, <1>4, StillKnownIs
    <2>2. edits' \in 0 .. MaxEdits
      BY <1>1, <1>2, ImportAssumption
    <2> QED  BY <1>1, <1>3, <2>1, <2>2 DEF Shape
  <1>7. HandlersOK'
    <2> SUFFICES ASSUME NEW b \in Attempt
                 PROVE  HandlerOK(imports'[b], memories', restored', bundle')
      BY DEF HandlersOK
    <2>1. /\ Undisturbed(imports'[b], Disturbed[b])
          /\ \A i \in imports'[b].known : RestoredIn(i, memories', restored')
      BY <1>1, <1>4, StillKnownIs
    <2>2. Undisturbed(imports'[b], imports[b])
      BY <1>5, <2>1 DEF Undisturbed
    <2> QED  BY <1>6, <2>1, <2>2, OthersKept
  <1>8. RestoredOK'
    BY <1>1, <1>2, BlankRows DEF IInv, RestoredOK, Live
  <1> QED  BY <1>6, <1>7, <1>8 DEF Result

LEMMA SendResult ==
    ASSUME IInv, NEW a \in Attempt, NEW mode \in Modes, Send(a, mode)
    PROVE  Result
  <1> DEFINE h == [Unsent EXCEPT !.phase = "lookup", !.mode = mode, !.known = ClientEvent,
                                 !.alone = \A b \in Attempt : ~Running(b)]
             sent == Commits(a, h)
  <1>1. /\ memories' = Cleared(mode)
        /\ restored' = [m \in MemoryId |-> IF mode = "replace" THEN {} ELSE restored[m]]
        /\ imports' = StillKnown(sent)
        /\ UNCHANGED <<bundle, edits>>
    BY DEF Send
  <1>2. /\ TypeOK /\ memories \in [MemoryId -> Row] /\ imports \in [Attempt -> Import]
        /\ restored \in [MemoryId -> SUBSET ClientEvent] /\ edits \in 0 .. MaxEdits
        /\ mode \in {"merge", "replace"}
    BY ImportAssumption DEF IInv, TypeOK, Mode
  <1>3. /\ memories' \in [MemoryId -> Row]
        /\ \A m \in MemoryId : RowStep(memories'[m], memories[m])
    BY <1>1, <1>2, BlankRows DEF RowStep, Live, Cleared
  <1>4. restored' \in [MemoryId -> SUBSET ClientEvent]
    BY <1>1, <1>2
  <1>5. /\ h.phase = "lookup" /\ h.memory = NoMemory /\ h.row = UnusedRow
        /\ h.known = ClientEvent /\ h \in Import
    <2>1. (\A b \in Attempt : ~Running(b)) \in BOOLEAN
      OBVIOUS
    <2> QED  BY <1>2, <2>1, BlankRows DEF Unsent, Import, Phase, Mode
  <1> HIDE DEF h
  <1>6. /\ sent \in [Attempt -> Import] /\ sent[a] = h
        /\ \A b \in Attempt : b # a => Undisturbed(sent[b], imports[b])
    <2>1. \A b \in Attempt : /\ [imports[b] EXCEPT !.alone = FALSE] \in Import
                             /\ Undisturbed([imports[b] EXCEPT !.alone = FALSE], imports[b])
      BY <1>2 DEF Import, Undisturbed
    <2> QED  BY <1>5, <2>1 DEF Commits
  <1> HIDE DEF sent
  <1>7. /\ imports' \in [Attempt -> Import]
        /\ \A b \in Attempt :
              /\ Undisturbed(imports'[b], sent[b])
              /\ \A i \in imports'[b].known : RestoredIn(i, memories', restored')
    BY <1>1, <1>6, StillKnownIs
  <1>9. Shape
    BY <1>1, <1>2, <1>3, <1>4, <1>7 DEF Shape
  <1>11. ASSUME NEW b \in Attempt, b # a
         PROVE  HandlerOK(imports'[b], memories', restored', bundle')
    <2>1. Undisturbed(imports'[b], imports[b])
      BY <1>6, <1>7, <1>11 DEF Undisturbed
    <2> QED  BY <1>7, <1>9, <2>1, OthersKept
  <1>12. HandlerOK(imports'[a], memories', restored', bundle')
    <2>1. imports'[a].phase = "lookup" /\ imports'[a].memory = NoMemory
      BY <1>5, <1>6, <1>7 DEF Undisturbed
    <2> QED  BY <1>7, <2>1 DEF HandlerOK, AtWork
  <1>13. HandlersOK'
    BY <1>11, <1>12 DEF HandlersOK
  <1>14. RestoredOK'
    <2>1. CASE mode = "merge"
      BY <1>1, <1>2, <2>1 DEF IInv, RestoredOK, Live, Cleared
    <2>2. CASE mode = "replace"
      BY <1>1, <2>2 DEF RestoredOK
    <2> QED  BY <1>2, <2>1, <2>2
  <1> QED  BY <1>9, <1>13, <1>14 DEF Result

-----------------------------------------------------------------------------
LEMMA NextResult == ASSUME IInv, Next PROVE Result
  <1>1. ASSUME NEW a \in Attempt, NEW mode \in Modes, Send(a, mode) PROVE Result
    BY <1>1, SendResult
  <1>2. ASSUME NEW a \in Attempt, Handle(a) PROVE Result
    BY <1>2, SkipResult, LookupResult, LoadResult, TeachCommitResult, RefreshResult,
       SetStateResult, RestResult DEF Handle
  <1>3. ASSUME NEW a \in Attempt, Breaks(a) PROVE Result
    BY <1>3, RestResult
  <1>4. ASSUME NEW n \in MemoryId, NEW change \in Edits, UpdateMemory(n, change) PROVE Result
    BY <1>4, UpdateResult
  <1>5. ASSUME NEW n \in MemoryId, DeleteMemory(n) PROVE Result
    BY <1>5, DeleteResult
  <1> QED  BY <1>1, <1>2, <1>3, <1>4, <1>5 DEF Next

LEMMA EventsKept == ASSUME IInv, Shape PROVE EventsInv'
  <1> SUFFICES ASSUME NEW m \in MemoryId
               PROVE  Distinct(memories'[m].observations) /\ Placed(memories'[m].observations)
    BY DEF EventsInv
  <1>1. Distinct(memories[m].observations) /\ Placed(memories[m].observations)
    BY DEF IInv, EventsInv
  <1>2. CASE memories'[m] = memories[m]
    BY <1>1, <1>2
  <1>3. CASE Grows(memories'[m], memories[m])
    BY <1>1, <1>3 DEF Grows, Continues
  <1>4. CASE memories'[m] = DeletedRow
    BY <1>4, BlankRows DEF Distinct, Placed
  <1> QED  BY <1>2, <1>3, <1>4 DEF Shape, RowStep

LEMMA InitiallyInvariant == ASSUME Init PROVE IInv
  <1>1. /\ \A m \in MemoryId : memories[m] = UnusedRow /\ restored[m] = {}
        /\ \A a \in Attempt : imports[a] = Unsent
    BY DEF Init
  <1>2. /\ Unsent.phase = "unsent" /\ Unsent.memory = NoMemory /\ Unsent.known = {}
    BY DEF Unsent
  <1>3. TypeOK
    <2>1. edits \in 0 .. MaxEdits
      BY ImportAssumption DEF Init
    <2> QED  BY <2>1, BlankRows, UnsentType DEF Init, TypeOK
  <1>4. EventsInv /\ RestoredOK
    BY <1>1, BlankRows DEF EventsInv, Distinct, Placed, RestoredOK, Live
  <1>5. \A a \in Attempt : HandlerOK(imports[a], memories, restored, bundle)
    BY <1>1, <1>2 DEF HandlerOK, AtWork
  <1> QED  BY <1>3, <1>4, <1>5 DEF IInv

LEMMA InvariantKept == ASSUME IInv, [Next]_vars PROVE IInv'
  <1>1. CASE Next
    <2>1. Result
      BY <1>1, NextResult
    <2>2. TypeOK'
      BY <2>1 DEF IInv, TypeOK, Result, Shape
    <2> QED  BY <2>1, <2>2, EventsKept DEF IInv, Result, HandlersOK
  <1>2. CASE UNCHANGED vars
    BY <1>2 DEF vars, IInv, TypeOK, EventsInv, RestoredOK, Live
  <1> QED  BY <1>1, <1>2

LEMMA Safe == Spec => Init /\ [][Next]_vars
  BY PTL DEF Spec

LEMMA Invariant == Spec => []IInv
  <1>1. Init => IInv
    BY InitiallyInvariant
  <1>2. IInv /\ [Next]_vars => IInv'
    BY InvariantKept
  <1> QED  BY <1>1, <1>2, Safe, PTL

(* Every reachable state of the store and of the import requests is well   *)
(* typed.                                                                  *)
THEOREM TypeCorrect == Spec => []TypeOK
  <1>1. IInv => TypeOK
    BY DEF IInv
  <1> QED  BY <1>1, Invariant, PTL

(* An entry that has been restored ever since a request began is skipped   *)
(* by it: none of its two commits touches what the user made of the        *)
(* memory, whatever other requests, edits and interruptions there are.     *)
THEOREM RestoredEntriesAreKept == Spec => RestoredEntriesStay
  <1>1. IInv => \A a \in Attempt : Commit(a) => imports[a].index \notin imports[a].known
    BY DEF IInv, HandlerOK, AtWork, Commit
  <1>2. IInv /\ [Next]_vars =>
          [\A a \in Attempt : Commit(a) => imports[a].index \notin imports[a].known]_vars
    BY <1>1
  <1> QED  BY <1>2, Invariant, Safe, PTL DEF RestoredEntriesStay

-----------------------------------------------------------------------------
LEMMA GrownEvidence ==
    ASSUME NEW old \in Row, NEW new \in Row, Grows(new, old)
    PROVE  /\ Ledger!Extends(Events(new), Events(old))
           /\ Ledger!Extends(new.versions, old.versions)
           /\ Len(new.versions) > Len(old.versions)
  BY GrownRow DEF Grows, Continues, Ledger!Extends

LEMMA LedgerStep == ASSUME IInv, IInv', Shape PROVE Ledger!Next
  <1> SUFFICES ASSUME NEW m \in MemoryId
               PROVE  Ledger!Written(m) \/ Ledger!Erased(m) \/ Ledger!Kept(m)
    BY DEF Ledger!Next
  <1>1. memories[m] \in Row /\ memories'[m] \in Row
    BY DEF IInv, TypeOK
  <1>2. CASE memories'[m] = memories[m]
    BY <1>2 DEF Ledger!Kept
  <1>3. CASE Grows(memories'[m], memories[m])
    <2>1. Ledger!NoRepeats(Events(memories'[m]))
      <3>1. Distinct(memories'[m].observations)
        BY DEF IInv, EventsInv
      <3> QED  BY <1>1, <3>1, EventsOf DEF Distinct, Ledger!NoRepeats
    <2>2. memories[m].status # "deleted" /\ memories'[m].status = "live"
      BY <1>3 DEF Grows
    <2> QED  BY <1>1, <1>3, <2>1, <2>2, GrownEvidence DEF Ledger!Written
  <1>4. CASE memories[m].status = "live" /\ memories'[m] = DeletedRow
    <2>1. Events(memories'[m]) = <<>>
      BY <1>1, <1>4, BlankRows, EventsOf
    <2> QED  BY <1>4, <2>1, BlankRows DEF Ledger!Erased
  <1> QED  BY <1>2, <1>3, <1>4 DEF Shape, RowStep

(* The imports implement the evidence ledger: however often a bundle is    *)
(* sent, wherever a request ends and whatever overlaps, no step rewrites   *)
(* evidence or history or stores an entry in a memory a second time.       *)
THEOREM LedgerImplemented == Spec => LedgerKept
  <1>1. Init => Ledger!Init
    <2>1. ASSUME Init
          PROVE  \A m \in MemoryId :
                    /\ memories[m].status = "unused"
                    /\ Events(memories[m]) = <<>>
                    /\ memories[m].versions = <<>>
      <3>1. \A m \in MemoryId : memories[m] = UnusedRow
        BY <2>1 DEF Init
      <3>2. Events(UnusedRow) = <<>>
        BY BlankRows, EventsOf
      <3> QED  BY <3>1, <3>2, BlankRows
    <2> QED  BY <2>1 DEF Ledger!Init
  <1>2. IInv /\ IInv' /\ [Next]_vars => [Ledger!Next]_(Ledger!vars)
    <2>1. IInv /\ IInv' /\ Next => Ledger!Next
      BY NextResult, LedgerStep DEF Result
    <2>2. UNCHANGED vars => UNCHANGED Ledger!vars
      BY DEF vars, Ledger!vars
    <2> QED  BY <2>1, <2>2
  <1> QED  BY <1>1, <1>2, Invariant, Safe, PTL DEF LedgerKept, Ledger!Spec

-----------------------------------------------------------------------------
(* Alone with the store.  A request in replace mode that nobody has        *)
(* disturbed knows all there is: every memory is of an entry gone through, *)
(* one memory to a canonical form; an event is stored no sooner than its   *)
(* entry is taught; and the row its session keeps says what is stored.     *)
Blank ==
    \A m \in MemoryId :
        /\ memories[m].status = "unused" => memories[m] = UnusedRow
        /\ memories[m].status = "deleted" => memories[m] = DeletedRow

(* The variants of the entries of a form before position n.                *)
Spelled(entries, form, n) ==
    UNION {{entries[j].variants[k] : k \in DOMAIN entries[j].variants} :
           j \in {o \in 1 .. n - 1 : entries[o].canonical = form}}

OneEach(rows) ==
    \A m, n \in MemoryId :
        /\ rows[m].status = "live" /\ rows[n].status = "live"
        /\ rows[m].canonical = rows[n].canonical
        => m = n

Covered(rows, n, entries) ==
    \A i \in 1 .. n - 1 :
        \E m \in MemoryId : rows[m].status = "live" /\ rows[m].canonical = entries[i].canonical

(* The memory says what the entries before position n say.                 *)
Says(row, n, entries) ==
    \E i \in 1 .. n - 1 :
        /\ entries[i].canonical = row.canonical
        /\ \A j \in i + 1 .. n - 1 : entries[j].canonical # row.canonical
        /\ row.variants = Spelled(entries, row.canonical, n)
        /\ row.scope = entries[i].scope /\ row.state = entries[i].state

Halfway == {"refresh", "state", "failed"}

(* The present entry has been taught.                                      *)
AtPresent(row, h, entries) == h.phase \in Halfway /\ row.canonical = entries[h.index].canonical

NotAhead(rows, h) ==
    \A m \in MemoryId : \A i \in ClientEvent :
        Observed(rows[m], ClientId(i)) => i < h.index \/ (i = h.index /\ h.phase \in Halfway)

(* What a session keeps of a memory is what is stored.                     *)
Agree(row, stored) ==
    /\ row.canonical = stored.canonical /\ row.scope = stored.scope
    /\ row.state = stored.state /\ row.variants = stored.variants

SessionOK(h, rows, entries) ==
    /\ h.phase \in {"lookup", "teach", "write", "state"} /\ h.memory # NoMemory =>
          rows[h.memory].status = "live" /\ Agree(h.row, rows[h.memory])
    /\ h.phase = "write" /\ h.memory # NoMemory =>
          rows[h.memory].canonical = entries[h.index].canonical
    /\ h.phase = "write" /\ h.memory = NoMemory => h.row = UnusedRow
    /\ h.phase \in {"refresh", "state"} =>
          /\ h.memory # NoMemory /\ rows[h.memory].status = "live"
          /\ rows[h.memory].canonical = entries[h.index].canonical
          /\ rows[h.memory].scope = entries[h.index].scope
          /\ rows[h.memory].variants = Spelled(entries, entries[h.index].canonical, h.index + 1)

AloneOK(h, rows, entries) ==
    h.mode = "replace" /\ h.alone =>
        /\ OneEach(rows) /\ Covered(rows, h.index, entries) /\ NotAhead(rows, h)
        /\ SessionOK(h, rows, entries)
        /\ \A m \in MemoryId :
              rows[m].status = "live" =>
                 Says(rows[m], h.index, entries) \/ AtPresent(rows[m], h, entries)

AloneInv == Blank /\ \A a \in Attempt : AloneOK(imports[a], memories, bundle)

(* An entry that is evidence but not restored was left half-way by someone.*)
Unrestored ==
    \A m \in MemoryId : \A i \in DOMAIN bundle :
        Live(m) /\ Observed(memories[m], ClientId(i)) /\ i \notin restored[m]
        => \E b \in Attempt :
              imports[b].phase \in Halfway /\ imports[b].memory = m /\ imports[b].index = i

-----------------------------------------------------------------------------
(* What the writes make of the stored rows, field by field.                *)
LEMMA TaughtFields ==
    ASSUME IInv, NEW a \in Attempt, imports[a].phase = "write"
    PROVE  LET new == TaughtRow(a) IN
           /\ new.canonical = Item(a).canonical /\ new.scope = Item(a).scope
           /\ new.variants = imports[a].row.variants
                \cup {Item(a).variants[i] : i \in DOMAIN Item(a).variants}
  <1> DEFINE row == imports[a].row
             spelled == {Item(a).variants[i] : i \in DOMAIN Item(a).variants}
             o == [event |-> EventOr(row, imports[a].index), kind |-> "explicit_teach",
                   accepted |-> TRUE, reason |-> "ACCEPTED", context |-> NoContext]
             base == [row EXCEPT
                        !.status = "live", !.canonical = Item(a).canonical,
                        !.state = "confirmed", !.scope = Item(a).scope,
                        !.variants = @ \cup spelled, !.observations = Append(@, o)]
  <1>1. row \in Row /\ HandlerOK(imports[a], memories, restored, bundle)
    BY HandlerFacts
  <1>2. ~Observed(row, ClientId(imports[a].index))
    BY <1>1 DEF HandlerOK
  <1>3. TaughtRow(a) = Recorded(base)
    BY <1>2 DEF TaughtRow, Teach
  <1> HIDE DEF o, spelled
  <1>4. /\ base.canonical = Item(a).canonical /\ base.scope = Item(a).scope
        /\ base.variants = row.variants \cup spelled
        /\ DOMAIN base = {"status", "canonical", "state", "scope", "variants", "observations",
                          "versions", "outcomes"}
    BY <1>1 DEF Row
  <1> HIDE DEF base
  <1>5. /\ Recorded(base).canonical = base.canonical /\ Recorded(base).scope = base.scope
        /\ Recorded(base).variants = base.variants
    BY <1>4 DEF Recorded
  <1> QED  BY <1>3, <1>4, <1>5 DEF spelled

LEMMA CommittedFields ==
    ASSUME IInv, NEW a \in Attempt, imports[a].phase = "write", NEW stored \in Row
    PROVE  LET now == Committed(stored, a) IN
           /\ now.status = "live"
           /\ now.canonical = Written(imports[a].row.canonical, Item(a).canonical, stored.canonical)
           /\ now.scope = Written(imports[a].row.scope, Item(a).scope, stored.scope)
           /\ now.variants = stored.variants \cup imports[a].row.variants
                \cup {Item(a).variants[i] : i \in DOMAIN Item(a).variants}
           /\ \A e : Observed(now, e) <=> Observed(stored, e) \/ e = ClientId(imports[a].index)
  <1> DEFINE new == TaughtRow(a)
             o == new.observations[Len(new.observations)]
             v == new.versions[Len(new.versions)]
             spelled == {Item(a).variants[i] : i \in DOMAIN Item(a).variants}
             row == imports[a].row
             now == Committed(stored, a)
  <1>1. /\ new.canonical = Item(a).canonical /\ new.scope = Item(a).scope
        /\ new.variants = row.variants \cup spelled
    BY TaughtFields
  <1>2. o \in Observation /\ o.event = ClientId(imports[a].index)
    BY TaughtType
  <1>3. stored.observations \in Seq(Observation)
    BY DEF Row
  <1>4. now = [stored EXCEPT
                !.status = "live", !.canonical = Written(row.canonical, new.canonical, @),
                !.state = Written(row.state, new.state, @),
                !.scope = Written(row.scope, new.scope, @),
                !.variants = @ \cup new.variants,
                !.observations = Append(@, o),
                !.versions = Append(@, v)]
    BY DEF Committed
  <1> HIDE DEF new, o, v, spelled, now
  <1>5. /\ now.status = "live"
        /\ now.canonical = Written(row.canonical, new.canonical, stored.canonical)
        /\ now.scope = Written(row.scope, new.scope, stored.scope)
        /\ now.variants = stored.variants \cup new.variants
        /\ now.observations = Append(stored.observations, o)
    BY <1>4 DEF Row
  <1>6. ASSUME NEW e
        PROVE  Observed(now, e) <=> Observed(stored, e) \/ e = ClientId(imports[a].index)
    <2>1. /\ DOMAIN now.observations = 1 .. Len(stored.observations) + 1
          /\ DOMAIN stored.observations = 1 .. Len(stored.observations)
          /\ Len(stored.observations) \in Nat
          /\ now.observations[Len(stored.observations) + 1] = o
          /\ \A i \in 1 .. Len(stored.observations) : now.observations[i] = stored.observations[i]
      BY <1>2, <1>3, <1>5
    <2>2. Observed(now, e) => Observed(stored, e) \/ e = ClientId(imports[a].index)
      BY <1>2, <2>1 DEF Observed
    <2>3. Observed(stored, e) => Observed(now, e)
      BY <2>1 DEF Observed
    <2>4. e = ClientId(imports[a].index) => Observed(now, e)
      BY <1>2, <2>1 DEF Observed
    <2> QED  BY <2>2, <2>3, <2>4
  <1>7. stored.variants \cup new.variants = stored.variants \cup row.variants \cup spelled
    BY <1>1
  <1> QED  BY <1>1, <1>5, <1>6, <1>7 DEF now, spelled

(* A PATCH stores no import event.                                         *)
LEMMA PatchClient ==
    ASSUME NEW row \in Row, NEW change \in Change, NEW e \in ClientEvent,
           Observed(Patch(row, change), ClientId(e))
    PROVE  Observed(row, ClientId(e))
  <1> DEFINE renamed == Rename(row, change.canonical)
             overridden == Override(renamed, change.state)
             rescoped == Rescope(overridden, change.scope)
             new == ManualContext(rescoped, change.manual)
             event == ClientId(e)
  <1>0. /\ \A n : ServerId(n) # event
        /\ NoEvent # event
    BY ImportAssumption DEF ServerId, ClientId
  <1>1. ASSUME NEW r \in Row, NEW o, o.event # event, NEW r2,
               r2.observations = Append(r.observations, o), o \in Observation, Observed(r2, event)
        PROVE  Observed(r, event)
    <2> HIDE DEF event
    <2>1. r.observations \in Seq(Observation)
      BY DEF Row
    <2>2. /\ DOMAIN r2.observations = 1 .. Len(r.observations) + 1
          /\ DOMAIN r.observations = 1 .. Len(r.observations)
          /\ Len(r.observations) \in Nat
          /\ r2.observations[Len(r.observations) + 1] = o
          /\ \A i \in 1 .. Len(r.observations) : r2.observations[i] = r.observations[i]
      BY <1>1, <2>1
    <2> QED  BY <1>1, <2>2 DEF Observed
  <1>2. /\ change.state \in State \cup {Keep} /\ change.scope \in Scope \cup {Keep}
        /\ change.manual \in BOOLEAN
    BY DEF Change
  <1>3. renamed \in Row /\ renamed.observations = row.observations
    BY DEF Rename, Change, Row
  <1> HIDE DEF renamed
  <1>4. /\ overridden \in Row
        /\ Observed(overridden, event) => Observed(renamed, event)
    <2>1. overridden \in Row
      BY <1>2, <1>3, OverrideType
    <2> DEFINE o == [event |-> ServerId(Len(renamed.observations) + 1),
                     kind |-> IF change.state = "confirmed" THEN "state_override_confirmed"
                              ELSE "state_override",
                     accepted |-> change.state = "confirmed", reason |-> "USER_SET",
                     context |-> NoContext]
    <2>2. o \in Observation
      <3>1. ServerId(Len(renamed.observations) + 1) \in EventId
        BY <1>3 DEF ServerId, EventId, Row
      <3>2. (change.state = "confirmed") \in BOOLEAN
        OBVIOUS
      <3> QED  BY <3>1, <3>2 DEF Observation, Kind, Reason
    <2>3. o.event # event
      BY <1>0
    <2> HIDE DEF o, event
    <2>4. change.state # Keep => overridden.observations = Append(renamed.observations, o)
      BY <1>3 DEF Override, Row, o
    <2>5. change.state = Keep => overridden = renamed
      BY DEF Override
    <2> HIDE DEF overridden
    <2>6. change.state # Keep /\ Observed(overridden, event) => Observed(renamed, event)
      BY <1>1, <1>3, <2>2, <2>3, <2>4
    <2> QED  BY <2>1, <2>5, <2>6 DEF overridden
  <1> HIDE DEF overridden
  <1>5. /\ rescoped \in Row /\ rescoped.observations = overridden.observations
    BY <1>2, <1>4 DEF Rescope, Row
  <1> HIDE DEF rescoped
  <1>6. Observed(new, event) => Observed(rescoped, event)
    <2> DEFINE o == [event |-> NoEvent, kind |-> "manual_context_update",
                     accepted |-> TRUE, reason |-> "USER_OVERRIDE", context |-> NoContext]
    <2>1. o \in Observation /\ o.event # event
      BY <1>0 DEF Observation, Kind, Reason, EventId
    <2> HIDE DEF o, event
    <2>2. change.manual => new.observations = Append(rescoped.observations, o)
      BY <1>5 DEF ManualContext, Row, o
    <2>3. ~change.manual => new = rescoped
      BY DEF ManualContext
    <2> HIDE DEF new
    <2>4. change.manual /\ Observed(new, event) => Observed(rescoped, event)
      BY <1>1, <1>5, <2>1, <2>2
    <2> QED  BY <1>2, <2>3, <2>4 DEF new
  <1>7. new \in Row
    BY <1>2, <1>5, ManualContextType
  <1>8. Recorded(new).observations = new.observations
    BY <1>7 DEF Recorded, Row
  <1>9. Patch(row, change) = Recorded(new)
    BY DEF Patch, new, rescoped, overridden, renamed
  <1> HIDE DEF new, event
  <1>10. Observed(new, event)
    BY <1>8, <1>9 DEF Observed, event
  <1> QED  BY <1>3, <1>4, <1>5, <1>6, <1>10 DEF Observed, event

(* Rows that hold nothing stay or come to be blank.                        *)
LEMMA BlankKept == ASSUME IInv, Blank, Shape PROVE Blank'
  <1> SUFFICES ASSUME NEW m \in MemoryId
               PROVE  /\ memories'[m].status = "unused" => memories'[m] = UnusedRow
                      /\ memories'[m].status = "deleted" => memories'[m] = DeletedRow
    BY DEF Blank
  <1>1. RowStep(memories'[m], memories[m])
    BY DEF Shape
  <1> QED  BY <1>1, BlankRows DEF RowStep, Grows, Blank

LEMMA ObservedLive ==
    ASSUME IInv, Blank, NEW m \in MemoryId, NEW e, Observed(memories[m], e)
    PROVE  Live(m)
  <1>1. memories[m] \in Row
    BY DEF IInv, TypeOK
  <1>2. memories[m] # UnusedRow /\ memories[m] # DeletedRow
    BY BlankRows DEF Observed
  <1> QED  BY <1>1, <1>2 DEF Blank, Live, Row

LEMMA UnrestoredRead ==
    ASSUME IInv, Unrestored, NEW a \in Attempt, NEW h, imports' = Goes(a, h),
           UNCHANGED <<bundle, memories, restored>>,
           imports[a].phase \in Halfway =>
              /\ h.phase \in Halfway /\ h.memory = imports[a].memory
              /\ h.index = imports[a].index
    PROVE  Unrestored'
  <1>1. imports' = [imports EXCEPT ![a] = h] /\ imports \in [Attempt -> Import]
    BY DEF Goes, IInv, TypeOK
  <1> SUFFICES ASSUME NEW m \in MemoryId, NEW i \in DOMAIN bundle,
                      Live(m), Observed(memories[m], ClientId(i)), i \notin restored[m]
               PROVE  \E b \in Attempt :
                         /\ imports'[b].phase \in Halfway /\ imports'[b].memory = m
                         /\ imports'[b].index = i
    BY DEF Unrestored, Live
  <1>2. PICK b \in Attempt :
          imports[b].phase \in Halfway /\ imports[b].memory = m /\ imports[b].index = i
    BY DEF Unrestored
  <1>3. /\ imports'[b].phase \in Halfway /\ imports'[b].memory = m
        /\ imports'[b].index = i
    BY <1>1, <1>2
  <1> QED  BY <1>3

LEMMA UnrestoredTaught ==
    ASSUME IInv, Blank, Unrestored, NEW a \in Attempt, TeachCommit(a)
    PROVE  Unrestored'
  <1> DEFINE index == imports[a].index
             h(n) == [imports[a] EXCEPT !.phase = "refresh", !.memory = n, !.row = UnusedRow]
  <1>1. PICK n \in Targets(a) :
          /\ memories' = [memories EXCEPT ![n] = Committed(@, a)]
          /\ imports' = Commits(a, h(n))
    BY DEF TeachCommit
  <1>2. /\ imports[a].phase = "write" /\ restored' = restored /\ bundle' = bundle
        /\ \E o \in Targets(a) : Accepted(a, o)
    BY DEF TeachCommit
  <1>3. /\ imports[a] \in Import /\ memories \in [MemoryId -> Row]
        /\ imports \in [Attempt -> Import] /\ n \in MemoryId
        /\ restored \in [MemoryId -> SUBSET ClientEvent]
    <2>1. imports[a].memory \in MemoryId \cup {NoMemory}
      BY HandlerFacts
    <2> QED  BY <1>1, <2>1, HandlerFacts DEF IInv, TypeOK, Targets
  <1> DEFINE now == Committed(memories[n], a)
  <1>4. \A e : Observed(now, e) <=> Observed(memories[n], e) \/ e = ClientId(index)
    BY <1>2, <1>3, CommittedFields
  <1>5. h(n).phase = "refresh" /\ h(n).memory = n /\ h(n).index = index
    BY <1>3 DEF Import
  <1>6. /\ imports'[a] = h(n)
        /\ \A b \in Attempt : b # a => /\ imports'[b].phase = imports[b].phase
                                       /\ imports'[b].memory = imports[b].memory
                                       /\ imports'[b].index = imports[b].index
    BY <1>1, <1>3 DEF Commits, Import
  <1>7. memories'[n] = now /\ \A m \in MemoryId : m # n => memories'[m] = memories[m]
    BY <1>1, <1>3
  <1> HIDE DEF h, now
  <1> SUFFICES ASSUME NEW m \in MemoryId, NEW i \in DOMAIN bundle,
                      Live(m)', Observed(memories'[m], ClientId(i)), i \notin restored[m]
               PROVE  \E b \in Attempt :
                         /\ imports'[b].phase \in Halfway /\ imports'[b].memory = m
                         /\ imports'[b].index = i
    BY <1>2 DEF Unrestored, Live
  <1>8. CASE m = n /\ i = index
    BY <1>5, <1>6, <1>8 DEF Halfway
  <1>9. CASE ~(m = n /\ i = index)
    <2>1. Observed(memories[m], ClientId(i))
      <3>1. ClientId(i) = ClientId(index) => i = index
        BY DEF ClientId
      <3> QED  BY <1>4, <1>7, <1>9, <3>1
    <2>2. Live(m)
      BY <2>1, ObservedLive
    <2>3. PICK b \in Attempt :
            imports[b].phase \in Halfway /\ imports[b].memory = m /\ imports[b].index = i
      BY <2>1, <2>2 DEF Unrestored
    <2>4. b # a
      BY <1>2, <2>3 DEF Halfway
    <2> QED  BY <1>6, <2>3, <2>4
  <1> QED  BY <1>8, <1>9

LEMMA UnrestoredStated ==
    ASSUME IInv, Unrestored, NEW a \in Attempt, SetState(a)
    PROVE  Unrestored'
  <1> DEFINE n == imports[a].memory
             index == imports[a].index
             old == memories[n]
             h == [NextEntry(a) EXCEPT !.row.state = Item(a).state]
  <1>1. /\ Live(n) /\ bundle' = bundle
        /\ memories' = [memories EXCEPT ![n] = Restated(@, a)]
        /\ restored' = [restored EXCEPT ![n] = @ \cup {index}]
        /\ imports' = Commits(a, h)
        /\ imports[a].phase = "state"
    BY DEF SetState, Imported
  <1>2. /\ imports[a] \in Import /\ memories \in [MemoryId -> Row]
        /\ imports \in [Attempt -> Import]
        /\ restored \in [MemoryId -> SUBSET ClientEvent]
        /\ HandlerOK(imports[a], memories, restored, bundle)
    BY HandlerFacts DEF IInv, TypeOK
  <1>3. n \in MemoryId
    BY <1>1, <1>2 DEF HandlerOK, Import
  <1>4. Restated(old, a).observations = old.observations
    BY <1>2, <1>3 DEF Restated, Row
  <1>5. /\ memories'[n].observations = old.observations
        /\ memories'[n].status = "live" => Live(n)
        /\ \A m \in MemoryId : m # n => memories'[m] = memories[m]
        /\ restored'[n] = restored[n] \cup {index}
        /\ \A m \in MemoryId : m # n => restored'[m] = restored[m]
    BY <1>1, <1>2, <1>3, <1>4
  <1>6. \A b \in Attempt : b # a => /\ imports'[b].phase = imports[b].phase
                                   /\ imports'[b].memory = imports[b].memory
                                   /\ imports'[b].index = imports[b].index
    BY <1>1, <1>2 DEF Commits, Import
  <1> SUFFICES ASSUME NEW m \in MemoryId, NEW i \in DOMAIN bundle,
                      Live(m)', Observed(memories'[m], ClientId(i)), i \notin restored'[m]
               PROVE  \E b \in Attempt :
                         /\ imports'[b].phase \in Halfway /\ imports'[b].memory = m
                         /\ imports'[b].index = i
    BY <1>1 DEF Unrestored, Live
  <1>7. Live(m) /\ Observed(memories[m], ClientId(i)) /\ i \notin restored[m]
        /\ ~(m = n /\ i = index)
    <2>1. CASE m = n
      BY <1>1, <1>5, <2>1 DEF Observed
    <2>2. CASE m # n
      BY <1>5, <2>2 DEF Live
    <2> QED  BY <2>1, <2>2
  <1>8. PICK b \in Attempt :
          imports[b].phase \in Halfway /\ imports[b].memory = m /\ imports[b].index = i
    BY <1>7 DEF Unrestored
  <1>9. b # a
    BY <1>7, <1>8
  <1>10. /\ imports'[b].phase \in Halfway /\ imports'[b].memory = m
         /\ imports'[b].index = i
    BY <1>6, <1>8, <1>9
  <1> QED  BY <1>10

(* A step that leaves the handlers where they are.                         *)
LEMMA UnrestoredOther ==
    ASSUME IInv, Unrestored, bundle' = bundle,
           \A b \in Attempt : imports[b].phase \in Halfway =>
              /\ imports'[b].phase = imports[b].phase
              /\ imports'[b].memory = imports[b].memory
              /\ imports'[b].index = imports[b].index,
           \A m \in MemoryId : Live(m)' =>
              /\ Live(m) /\ restored'[m] = restored[m]
              /\ \A e \in ClientEvent :
                    Observed(memories'[m], ClientId(e)) => Observed(memories[m], ClientId(e))
    PROVE  Unrestored'
  <1>1. DOMAIN bundle \subseteq ClientEvent
    BY ImportAssumption DEF IInv, TypeOK
  <1> SUFFICES ASSUME NEW m \in MemoryId, NEW i \in DOMAIN bundle,
                      Live(m)', Observed(memories'[m], ClientId(i)), i \notin restored'[m]
               PROVE  \E b \in Attempt :
                         /\ imports'[b].phase \in Halfway /\ imports'[b].memory = m
                         /\ imports'[b].index = i
    BY DEF Unrestored, Live
  <1>2. Live(m) /\ Observed(memories[m], ClientId(i)) /\ i \notin restored[m]
    BY <1>1
  <1>3. PICK b \in Attempt :
          imports[b].phase \in Halfway /\ imports[b].memory = m /\ imports[b].index = i
    BY <1>2 DEF Unrestored
  <1> QED  BY <1>3

LEMMA UnrestoredKept == ASSUME IInv, Blank, Unrestored, Next PROVE Unrestored'
  <1>0. /\ \A b \in Attempt : imports[b] \in Import
        /\ memories \in [MemoryId -> Row] /\ imports \in [Attempt -> Import]
        /\ restored \in [MemoryId -> SUBSET ClientEvent]
    BY DEF IInv, TypeOK
  <1>1. ASSUME NEW a \in Attempt, Skip(a) PROVE Unrestored'
    <2>1. imports' = Goes(a, NextEntry(a)) /\ imports[a].phase \notin Halfway
          /\ UNCHANGED <<bundle, memories, restored>>
      BY <1>1 DEF Skip, Halfway
    <2> QED  BY <2>1, UnrestoredRead
  <1>2. ASSUME NEW a \in Attempt, Lookup(a) PROVE Unrestored'
    <2>1. imports' = Goes(a, At(a, "teach")) /\ imports[a].phase \notin Halfway
          /\ UNCHANGED <<bundle, memories, restored>>
      BY <1>2 DEF Lookup, Halfway
    <2> QED  BY <2>1, UnrestoredRead
  <1>3. ASSUME NEW a \in Attempt, LoadMemory(a) PROVE Unrestored'
    <2>1. PICK h : imports' = Goes(a, h)
      BY <1>3 DEF LoadMemory
    <2>2. imports[a].phase \notin Halfway /\ UNCHANGED <<bundle, memories, restored>>
      BY <1>3 DEF LoadMemory, Halfway
    <2> QED  BY <2>1, <2>2, UnrestoredRead
  <1>4. ASSUME NEW a \in Attempt, TeachFails(a) \/ Answer(a) PROVE Unrestored'
    <2>1. PICK h : imports' = Goes(a, h)
      BY <1>4 DEF TeachFails, Answer
    <2>2. imports[a].phase \notin Halfway /\ UNCHANGED <<bundle, memories, restored>>
      BY <1>4 DEF TeachFails, Answer, Halfway
    <2> QED  BY <2>1, <2>2, UnrestoredRead
  <1>5. ASSUME NEW a \in Attempt, Refresh(a) PROVE Unrestored'
    <2> DEFINE h == [At(a, "state") EXCEPT !.row = memories[imports[a].memory]]
    <2>1. imports' = Goes(a, h) /\ UNCHANGED <<bundle, memories, restored>>
      BY <1>5 DEF Refresh
    <2>2. h.phase = "state" /\ h.memory = imports[a].memory /\ h.index = imports[a].index
      BY <1>0 DEF At, Import
    <2> HIDE DEF h
    <2> QED  BY <2>1, <2>2, UnrestoredRead DEF Halfway
  <1>6. ASSUME NEW a \in Attempt, Orphaned(a) \/ Breaks(a) PROVE Unrestored'
    <2> DEFINE h == Ended(a)
    <2>1. imports' = Goes(a, h) /\ UNCHANGED <<bundle, memories, restored>>
          /\ imports[a].phase # "failed"
      BY <1>6 DEF Orphaned, Breaks, Running
    <2>2. /\ h.phase = "failed" /\ h.index = imports[a].index
          /\ imports[a].phase \in {"refresh", "state"} => h.memory = imports[a].memory
      BY <1>0 DEF Ended, At, Import
    <2> HIDE DEF h
    <2> QED  BY <2>1, <2>2, UnrestoredRead DEF Halfway
  <1>7. ASSUME NEW a \in Attempt, NEW mode \in Modes, Send(a, mode) PROVE Unrestored'
    <2> DEFINE h == [Unsent EXCEPT !.phase = "lookup", !.mode = mode, !.known = ClientEvent,
                                   !.alone = \A b \in Attempt : ~Running(b)]
               sent == Commits(a, h)
    <2>1. /\ memories' = Cleared(mode) /\ imports' = StillKnown(sent) /\ bundle' = bundle
          /\ restored' = [m \in MemoryId |-> IF mode = "replace" THEN {} ELSE restored[m]]
          /\ imports[a].phase = "unsent" /\ mode \in {"merge", "replace"}
      BY <1>7, ImportAssumption DEF Send, Mode
    <2>2. ASSUME NEW b \in Attempt, imports[b].phase \in Halfway
          PROVE  /\ imports'[b].phase = imports[b].phase
                 /\ imports'[b].memory = imports[b].memory
                 /\ imports'[b].index = imports[b].index
      <3>1. b # a
        BY <2>1, <2>2 DEF Halfway
      <3> HIDE DEF h
      <3>2. sent[b] = [imports[b] EXCEPT !.alone = FALSE]
        BY <3>1 DEF Commits
      <3> HIDE DEF sent
      <3>3. imports'[b] = [sent[b] EXCEPT !.known = {i \in sent[b].known : Restored(i)'}]
        BY <2>1 DEF StillKnown
      <3>4. /\ sent[b].phase = imports[b].phase /\ sent[b].memory = imports[b].memory
            /\ sent[b].index = imports[b].index /\ sent[b] \in Import
        BY <1>0, <3>2 DEF Import
      <3> QED  BY <3>3, <3>4 DEF Import
    <2>3. ASSUME NEW m \in MemoryId, Live(m)'
          PROVE  Live(m) /\ memories'[m] = memories[m] /\ restored'[m] = restored[m]
      BY <1>0, <2>1, <2>3, BlankRows DEF Cleared, Live
    <2> QED  BY <2>1, <2>2, <2>3, UnrestoredOther
  <1>8. \A b \in Attempt : /\ Disturbed[b].phase = imports[b].phase
                           /\ Disturbed[b].memory = imports[b].memory
                           /\ Disturbed[b].index = imports[b].index
                           /\ Disturbed[b] \in Import
    BY <1>0 DEF Disturbed, Import
  <1>9. ASSUME NEW n \in MemoryId, NEW change \in Edits, UpdateMemory(n, change)
        PROVE  Unrestored'
    <2>1. /\ Live(n) /\ memories' = [memories EXCEPT ![n] = Patch(@, change)]
          /\ imports' = Disturbed /\ restored' = restored /\ bundle' = bundle
          /\ change \in Change
      BY <1>9, ImportAssumption DEF UpdateMemory, Intervenes
    <2>2. ASSUME NEW m \in MemoryId, Live(m)'
          PROVE  /\ Live(m) /\ restored'[m] = restored[m]
                 /\ \A e \in ClientEvent :
                       Observed(memories'[m], ClientId(e)) => Observed(memories[m], ClientId(e))
      <3>1. m # n => memories'[m] = memories[m]
        BY <1>0, <2>1
      <3>2. memories'[n] = Patch(memories[n], change) /\ memories[n] \in Row
        BY <1>0, <2>1
      <3> QED  BY <2>1, <2>2, <3>1, <3>2, PatchClient DEF Live
    <2> QED  BY <1>8, <2>1, <2>2, UnrestoredOther
  <1>10. ASSUME NEW n \in MemoryId, DeleteMemory(n) PROVE Unrestored'
    <2>1. /\ memories' = [memories EXCEPT ![n] = DeletedRow]
          /\ imports' = StillKnown(Disturbed) /\ bundle' = bundle
          /\ restored' = [restored EXCEPT ![n] = {}]
      BY <1>10 DEF DeleteMemory, Intervenes
    <2>2. ASSUME NEW m \in MemoryId, Live(m)'
          PROVE  Live(m) /\ memories'[m] = memories[m] /\ restored'[m] = restored[m]
      BY <1>0, <2>1, <2>2, BlankRows DEF Live
    <2>3. ASSUME NEW b \in Attempt
          PROVE  /\ imports'[b].phase = imports[b].phase
                 /\ imports'[b].memory = imports[b].memory
                 /\ imports'[b].index = imports[b].index
      <3>1. imports'[b] = [Disturbed[b] EXCEPT !.known = {i \in @ : Restored(i)'}]
        BY <2>1 DEF StillKnown
      <3> QED  BY <1>8, <3>1 DEF Import
    <2> QED  BY <2>1, <2>2, <2>3, UnrestoredOther
  <1> QED  BY <1>1, <1>2, <1>3, <1>4, <1>5, <1>6, <1>7, <1>9, <1>10,
              UnrestoredTaught, UnrestoredStated DEF Next, Handle

(* A step of one handler that writes nothing, and keeps its place.         *)
LEMMA AloneRead ==
    ASSUME IInv, AloneInv, NEW a \in Attempt, NEW h, imports' = Goes(a, h),
           UNCHANGED <<bundle, memories>>,
           h.mode = imports[a].mode, h.alone = imports[a].alone, h.index = imports[a].index,
           imports[a].phase \in Halfway => h.phase \in Halfway,
           imports[a].mode = "replace" /\ imports[a].alone => SessionOK(h, memories, bundle)
    PROVE  \A b \in Attempt : AloneOK(imports'[b], memories', bundle')
  <1>1. imports' = [imports EXCEPT ![a] = h] /\ imports \in [Attempt -> Import]
    BY DEF Goes, IInv, TypeOK
  <1>2. AloneOK(imports[a], memories, bundle)
    BY DEF AloneInv
  <1>3. AloneOK(h, memories, bundle)
    BY <1>2 DEF AloneOK, NotAhead, AtPresent
  <1>4. \A b \in Attempt : AloneOK(imports'[b], memories, bundle)
    BY <1>1, <1>3 DEF AloneInv
  <1> QED  BY <1>4

(* The other handlers are not alone once one commits.                      *)
LEMMA AloneCommit ==
    ASSUME IInv, NEW a \in Attempt, NEW h, imports' = Commits(a, h), AloneOK(h, memories', bundle')
    PROVE  \A b \in Attempt : AloneOK(imports'[b], memories', bundle')
  <1>1. /\ imports \in [Attempt -> Import] /\ \A b \in Attempt : imports[b] \in Import
        /\ imports' = [b \in Attempt |-> IF b = a THEN h ELSE [imports[b] EXCEPT !.alone = FALSE]]
    BY DEF Commits, IInv, TypeOK
  <1>2. \A b \in Attempt : b # a => imports'[b].alone = FALSE
    BY <1>1 DEF Import
  <1>3. imports'[a] = h
    BY <1>1
  <1> QED  BY <1>2, <1>3 DEF AloneOK

LEMMA SpelledNext ==
    ASSUME NEW entries, NEW n \in Nat \ {0}, NEW form
    PROVE  /\ form # entries[n].canonical =>
                 Spelled(entries, form, n + 1) = Spelled(entries, form, n)
           /\ Spelled(entries, entries[n].canonical, n + 1) =
                 Spelled(entries, entries[n].canonical, n)
                    \cup {entries[n].variants[k] : k \in DOMAIN entries[n].variants}
  <1> DEFINE before(f, m) == {o \in 1 .. m - 1 : entries[o].canonical = f}
             spelled(j) == {entries[j].variants[k] : k \in DOMAIN entries[j].variants}
  <1>1. \A f, m : Spelled(entries, f, m) = UNION {spelled(j) : j \in before(f, m)}
    BY DEF Spelled
  <1>2. 1 .. (n + 1) - 1 = (1 .. n - 1) \cup {n}
    OBVIOUS
  <1>3. /\ form # entries[n].canonical => before(form, n + 1) = before(form, n)
        /\ before(entries[n].canonical, n + 1) = before(entries[n].canonical, n) \cup {n}
    BY <1>2
  <1> HIDE DEF before, spelled
  <1>4. UNION {spelled(j) : j \in before(entries[n].canonical, n) \cup {n}}
          = (UNION {spelled(j) : j \in before(entries[n].canonical, n)}) \cup spelled(n)
    OBVIOUS
  <1> DEFINE here == entries[n].canonical
  <1>5. /\ Spelled(entries, form, n) = UNION {spelled(j) : j \in before(form, n)}
        /\ Spelled(entries, form, n + 1) = UNION {spelled(j) : j \in before(form, n + 1)}
        /\ Spelled(entries, here, n) = UNION {spelled(j) : j \in before(here, n)}
        /\ Spelled(entries, here, n + 1) = UNION {spelled(j) : j \in before(here, n + 1)}
    BY <1>1
  <1>6. form # here => Spelled(entries, form, n + 1) = Spelled(entries, form, n)
    <2> SUFFICES ASSUME form # here
                 PROVE  Spelled(entries, form, n + 1) = Spelled(entries, form, n)
      OBVIOUS
    <2>1. before(form, n + 1) = before(form, n)
      BY <1>3
    <2> QED  BY <1>5, <2>1
  <1>7. Spelled(entries, here, n + 1) = Spelled(entries, here, n) \cup spelled(n)
    <2>1. before(here, n + 1) = before(here, n) \cup {n}
      BY <1>3
    <2>2. Spelled(entries, here, n + 1)
             = UNION {spelled(j) : j \in before(here, n) \cup {n}}
      BY <1>5, <2>1
    <2> QED  BY <1>4, <1>5, <2>2
  <1> QED  BY <1>6, <1>7 DEF spelled

(* After the first commit of an entry.                                     *)
LEMMA AloneTaught ==
    ASSUME NEW rows, NEW rows2, NEW entries, NEW n \in MemoryId, NEW h, NEW h2,
           \A m \in MemoryId \ {n} : rows2[m] = rows[m],
           h.index \in Nat \ {0}, h.phase = "write",
           h2.phase = "refresh", h2.memory = n, h2.index = h.index,
           rows2[n].status = "live", rows2[n].canonical = entries[h.index].canonical,
           rows2[n].scope = entries[h.index].scope,
           rows2[n].variants = Spelled(entries, entries[h.index].canonical, h.index + 1),
           \A e : Observed(rows2[n], e) => Observed(rows[n], e) \/ e = ClientId(h.index),
           \A m \in MemoryId \ {n} :
              rows[m].status = "live" => rows[m].canonical # entries[h.index].canonical,
           rows[n].status = "live" => rows[n].canonical = entries[h.index].canonical,
           h.mode = "replace", h.alone, AloneOK(h, rows, entries)
    PROVE  AloneOK(h2, rows2, entries)
  <1>1. /\ OneEach(rows) /\ Covered(rows, h.index, entries) /\ NotAhead(rows, h)
        /\ \A m \in MemoryId :
              rows[m].status = "live" =>
                 Says(rows[m], h.index, entries) \/ AtPresent(rows[m], h, entries)
    BY DEF AloneOK
  <1>2. OneEach(rows2)
    BY <1>1 DEF OneEach
  <1>3. Covered(rows2, h2.index, entries)
    <2> SUFFICES ASSUME NEW i \in 1 .. h.index - 1
                 PROVE  \E m \in MemoryId :
                           rows2[m].status = "live" /\ rows2[m].canonical = entries[i].canonical
      BY DEF Covered
    <2>1. PICK m \in MemoryId : rows[m].status = "live" /\ rows[m].canonical = entries[i].canonical
      BY <1>1 DEF Covered
    <2> QED  BY <2>1
  <1>4. NotAhead(rows2, h2)
    <2> SUFFICES ASSUME NEW m \in MemoryId, NEW i \in ClientEvent, Observed(rows2[m], ClientId(i))
                 PROVE  i < h.index \/ i = h.index
      BY DEF NotAhead, Halfway
    <2>1. Observed(rows[m], ClientId(i)) \/ ClientId(i) = ClientId(h.index)
      OBVIOUS
    <2> QED  BY <1>1, <2>1 DEF NotAhead, Halfway, ClientId
  <1>5. SessionOK(h2, rows2, entries)
    BY ImportAssumption DEF SessionOK
  <1>6. ASSUME NEW m \in MemoryId, rows2[m].status = "live"
        PROVE  Says(rows2[m], h2.index, entries) \/ AtPresent(rows2[m], h2, entries)
    BY <1>1, <1>6 DEF AtPresent, Halfway
  <1> QED  BY <1>2, <1>3, <1>4, <1>5, <1>6 DEF AloneOK

(* After the second.                                                       *)
LEMMA AloneStated ==
    ASSUME NEW rows, NEW rows2, NEW entries, NEW n \in MemoryId, NEW h, NEW h2,
           \A m \in MemoryId \ {n} : rows2[m] = rows[m],
           h.index \in Nat \ {0}, h.phase = "state", h.memory = n,
           h2.phase = "lookup", h2.memory = n, h2.index = h.index + 1,
           h2.row.canonical = h.row.canonical, h2.row.scope = h.row.scope,
           h2.row.variants = h.row.variants, h2.row.state = entries[h.index].state,
           rows2[n].status = "live", rows2[n].canonical = rows[n].canonical,
           rows2[n].scope = rows[n].scope, rows2[n].variants = rows[n].variants,
           rows2[n].state = Written(h.row.state, entries[h.index].state, rows[n].state),
           \A e : Observed(rows2[n], e) => Observed(rows[n], e),
           h.mode = "replace", h.alone, AloneOK(h, rows, entries)
    PROVE  AloneOK(h2, rows2, entries)
  <1>1. /\ OneEach(rows) /\ Covered(rows, h.index, entries) /\ NotAhead(rows, h)
        /\ SessionOK(h, rows, entries)
        /\ \A m \in MemoryId :
              rows[m].status = "live" =>
                 Says(rows[m], h.index, entries) \/ AtPresent(rows[m], h, entries)
    BY DEF AloneOK
  <1> DEFINE form == entries[h.index].canonical
  <1>2. /\ rows[n].status = "live" /\ Agree(h.row, rows[n])
        /\ rows[n].canonical = form /\ rows[n].scope = entries[h.index].scope
        /\ rows[n].variants = Spelled(entries, form, h.index + 1)
    BY <1>1, ImportAssumption DEF SessionOK
  <1>3. rows2[n].state = entries[h.index].state
    BY <1>2 DEF Agree, Written
  <1>4. OneEach(rows2)
    BY <1>1, <1>2 DEF OneEach
  <1>5. Covered(rows2, h2.index, entries)
    <2> SUFFICES ASSUME NEW i \in 1 .. (h.index + 1) - 1
                 PROVE  \E m \in MemoryId :
                           rows2[m].status = "live" /\ rows2[m].canonical = entries[i].canonical
      BY DEF Covered
    <2>1. CASE i = h.index
      BY <1>2, <2>1
    <2>2. CASE i # h.index
      <3>1. i \in 1 .. h.index - 1
        BY <2>2
      <3>2. PICK m \in MemoryId : rows[m].status = "live" /\ rows[m].canonical = entries[i].canonical
        BY <1>1, <3>1 DEF Covered
      <3> QED  BY <1>2, <3>2
    <2> QED  BY <2>1, <2>2
  <1>6. NotAhead(rows2, h2)
    <2> SUFFICES ASSUME NEW m \in MemoryId, NEW i \in ClientEvent, Observed(rows2[m], ClientId(i))
                 PROVE  i < h.index + 1
      BY DEF NotAhead
    <2>1. Observed(rows[m], ClientId(i))
      OBVIOUS
    <2>2. i \in Nat
      BY ImportAssumption
    <2> QED  BY <1>1, <2>1, <2>2 DEF NotAhead
  <1>7. SessionOK(h2, rows2, entries)
    BY <1>2, <1>3 DEF SessionOK, Agree
  <1>8. Says(rows2[n], h2.index, entries)
    <2>1. h.index \in 1 .. (h.index + 1) - 1 /\ (h.index + 1) .. (h.index + 1) - 1 = {}
      OBVIOUS
    <2> QED  BY <1>2, <1>3, <2>1 DEF Says
  <1>9. ASSUME NEW m \in MemoryId \ {n}, rows[m].status = "live"
        PROVE  Says(rows[m], h.index + 1, entries)
    <2>1. rows[m].canonical # form
      BY <1>1, <1>2, <1>9 DEF OneEach
    <2>2. Says(rows[m], h.index, entries)
      BY <1>1, <1>9, <2>1 DEF AtPresent
    <2>3. PICK i \in 1 .. h.index - 1 :
            /\ entries[i].canonical = rows[m].canonical
            /\ \A j \in i + 1 .. h.index - 1 : entries[j].canonical # rows[m].canonical
            /\ rows[m].variants = Spelled(entries, rows[m].canonical, h.index)
            /\ rows[m].scope = entries[i].scope /\ rows[m].state = entries[i].state
      BY <2>2 DEF Says
    <2>4. Spelled(entries, rows[m].canonical, h.index + 1)
            = Spelled(entries, rows[m].canonical, h.index)
      BY <2>1, SpelledNext
    <2>5. i \in 1 .. (h.index + 1) - 1
      OBVIOUS
    <2>6. \A j \in i + 1 .. (h.index + 1) - 1 : entries[j].canonical # rows[m].canonical
      <3>1. i + 1 .. (h.index + 1) - 1 \subseteq (i + 1 .. h.index - 1) \cup {h.index}
        OBVIOUS
      <3> QED  BY <2>1, <2>3, <3>1
    <2> QED  BY <2>3, <2>4, <2>5, <2>6 DEF Says
  <1> QED  BY <1>4, <1>5, <1>6, <1>7, <1>8, <1>9 DEF AloneOK

AlonesOK == \A b \in Attempt : AloneOK(imports[b], memories, bundle)

(* A known entry has been gone through.                                    *)
LEMMA NothingAhead ==
    ASSUME IInv, AloneInv, NEW a \in Attempt, NEW m \in MemoryId,
           imports[a].mode = "replace", imports[a].alone,
           imports[a].index \in DOMAIN bundle, imports[a].phase \notin Halfway
    PROVE  ~Observed(memories[m], ClientId(imports[a].index))
  <1>1. imports[a].index \in ClientEvent /\ imports[a].index \in Nat
    BY ImportAssumption DEF IInv, TypeOK
  <1>2. NotAhead(memories, imports[a])
    BY DEF AloneInv, AloneOK
  <1> QED  BY <1>1, <1>2 DEF NotAhead

(* The steps of a handler that write nothing.                              *)
LEMMA AloneReads ==
    ASSUME IInv, AloneInv, NEW a \in Attempt,
           Lookup(a) \/ LoadMemory(a) \/ TeachFails(a) \/ Refresh(a) \/ Orphaned(a)
           \/ Answer(a) \/ Breaks(a)
    PROVE  AlonesOK'
  <1>1. /\ imports[a] \in Import /\ HandlerOK(imports[a], memories, restored, bundle)
        /\ AloneOK(imports[a], memories, bundle)
        /\ memories \in [MemoryId -> Row]
        /\ imports[a].memory \in MemoryId \cup {NoMemory}
    BY HandlerFacts DEF AloneInv, IInv, TypeOK
  <1>2. UNCHANGED <<bundle, memories>>
    BY DEF Lookup, LoadMemory, TeachFails, Refresh, Orphaned, Answer, Breaks
  <1>3. imports[a].mode = "replace" /\ imports[a].alone => SessionOK(imports[a], memories, bundle)
    BY <1>1 DEF AloneOK
  <1>4. CASE Lookup(a) \/ Answer(a)
    <2>1. PICK phase \in {"teach", "answered"} : imports' = Goes(a, At(a, phase))
      BY <1>4 DEF Lookup, Answer
    <2>2. imports[a].phase = "lookup"
      BY <1>4 DEF Lookup, Answer
    <2> DEFINE h == At(a, phase)
    <2>3. /\ h.phase = phase /\ h.mode = imports[a].mode /\ h.alone = imports[a].alone
          /\ h.index = imports[a].index /\ h.memory = imports[a].memory /\ h.row = imports[a].row
      BY <1>1 DEF At, Import
    <2> HIDE DEF h
    <2>4. imports[a].mode = "replace" /\ imports[a].alone => SessionOK(h, memories, bundle)
      BY <1>3, <2>2, <2>3 DEF SessionOK
    <2>5. imports' = Goes(a, h)
      BY <2>1 DEF h
    <2>6. imports[a].phase \notin Halfway
      BY <2>2 DEF Halfway
    <2> QED  BY <1>2, <2>3, <2>4, <2>5, <2>6, AloneRead DEF AlonesOK
  <1>5. CASE LoadMemory(a)
    <2>1. imports[a].phase = "teach" /\ imports[a].index \in DOMAIN bundle
      BY <1>1, <1>5 DEF LoadMemory, HandlerOK, AtWork
    <2>2. imports[a].phase \notin Halfway
      BY <2>1 DEF Halfway
    <2>3. CASE \E m \in MemoryId :
            /\ Live(m) /\ memories[m].canonical = Item(a).canonical
            /\ imports' = Goes(a,
                  [imports[a] EXCEPT
                      !.memory = m,
                      !.row = IF m = imports[a].memory THEN @ ELSE memories[m],
                      !.phase = IF Observed(memories[m], ClientId(imports[a].index))
                                THEN "state" ELSE "write"])
      <3>1. PICK m \in MemoryId :
            /\ Live(m) /\ memories[m].canonical = Item(a).canonical
            /\ imports' = Goes(a,
                  [imports[a] EXCEPT
                      !.memory = m,
                      !.row = IF m = imports[a].memory THEN @ ELSE memories[m],
                      !.phase = IF Observed(memories[m], ClientId(imports[a].index))
                                THEN "state" ELSE "write"])
        BY <2>3
      <3> DEFINE row == IF m = imports[a].memory THEN imports[a].row ELSE memories[m]
                 phase == IF Observed(memories[m], ClientId(imports[a].index))
                          THEN "state" ELSE "write"
                 h == [imports[a] EXCEPT !.memory = m, !.row = row, !.phase = phase]
      <3>2. imports' = Goes(a, h)
        BY <3>1
      <3>3. imports[a].mode = "replace" /\ imports[a].alone => phase = "write"
        BY <2>1, <2>2, NothingAhead
      <3>4. m # NoMemory
        BY ImportAssumption
      <3>5. imports[a].mode = "replace" /\ imports[a].alone => Agree(row, memories[m])
        BY <1>3, <2>1, <3>4 DEF SessionOK, Agree
      <3> HIDE DEF row, phase
      <3>6. /\ h.phase = phase /\ h.mode = imports[a].mode /\ h.alone = imports[a].alone
            /\ h.index = imports[a].index /\ h.memory = m /\ h.row = row
        BY <1>1 DEF Import
      <3> HIDE DEF h
      <3>7. imports[a].mode = "replace" /\ imports[a].alone => SessionOK(h, memories, bundle)
        BY <3>1, <3>3, <3>4, <3>5, <3>6 DEF SessionOK, Live, Item
      <3> QED  BY <1>2, <2>2, <3>2, <3>6, <3>7, AloneRead DEF AlonesOK
    <2>4. CASE imports' = Goes(a, [At(a, "write") EXCEPT !.memory = NoMemory, !.row = UnusedRow])
      <3> DEFINE h == [At(a, "write") EXCEPT !.memory = NoMemory, !.row = UnusedRow]
      <3>1. /\ h.phase = "write" /\ h.mode = imports[a].mode /\ h.alone = imports[a].alone
            /\ h.index = imports[a].index /\ h.memory = NoMemory /\ h.row = UnusedRow
        BY <1>1 DEF At, Import
      <3> HIDE DEF h
      <3>2. SessionOK(h, memories, bundle)
        BY <3>1 DEF SessionOK
      <3>3. imports' = Goes(a, h)
        BY <2>4 DEF h
      <3> QED  BY <1>2, <2>2, <3>1, <3>2, <3>3, AloneRead DEF AlonesOK
    <2> QED  BY <1>5, <2>3, <2>4 DEF LoadMemory
  <1>6. CASE Refresh(a)
    <2> DEFINE h == [At(a, "state") EXCEPT !.row = memories[imports[a].memory]]
    <2>1. imports[a].phase = "refresh" /\ imports' = Goes(a, h)
      BY <1>6 DEF Refresh
    <2>2. /\ h.phase = "state" /\ h.mode = imports[a].mode /\ h.alone = imports[a].alone
          /\ h.index = imports[a].index /\ h.memory = imports[a].memory
          /\ h.row = memories[imports[a].memory]
      BY <1>1 DEF At, Import
    <2> HIDE DEF h
    <2>3. imports[a].mode = "replace" /\ imports[a].alone => SessionOK(h, memories, bundle)
      BY <1>3, <2>1, <2>2 DEF SessionOK, Agree
    <2> QED  BY <1>2, <2>1, <2>2, <2>3, AloneRead DEF AlonesOK, Halfway
  <1>7. CASE TeachFails(a) \/ Orphaned(a) \/ Breaks(a)
    <2>1. PICK memory \in {imports[a].memory, NoMemory} :
             imports' = Goes(a, [At(a, "failed") EXCEPT !.row = UnusedRow, !.memory = memory])
      BY <1>7 DEF TeachFails, Orphaned, Breaks, Ended, At
    <2> DEFINE h == [At(a, "failed") EXCEPT !.row = UnusedRow, !.memory = memory]
    <2>2. /\ h.phase = "failed" /\ h.mode = imports[a].mode /\ h.alone = imports[a].alone
          /\ h.index = imports[a].index
      BY <1>1 DEF At, Import
    <2>3. imports' = Goes(a, h)
      BY <2>1
    <2> HIDE DEF h
    <2>4. SessionOK(h, memories, bundle)
      BY <2>2 DEF SessionOK
    <2>5. h.phase \in Halfway
      BY <2>2 DEF Halfway
    <2> QED  BY <1>2, <2>2, <2>3, <2>4, <2>5, AloneRead DEF AlonesOK
  <1> QED  BY <1>4, <1>5, <1>6, <1>7

(* An alone request in replace mode skips nothing.                         *)
LEMMA AloneSkip == ASSUME IInv, AloneInv, NEW a \in Attempt, Skip(a) PROVE AlonesOK'
  <1>1. /\ imports' = [imports EXCEPT ![a] = NextEntry(a)] /\ UNCHANGED <<bundle, memories>>
        /\ imports[a] \in Import /\ imports \in [Attempt -> Import]
        /\ imports[a].phase = "lookup" /\ imports[a].index \in DOMAIN bundle
        /\ \E m \in MemoryId : Observed(memories[m], ClientId(imports[a].index))
    BY DEF Skip, Goes, IInv, TypeOK, Known
  <1>2. /\ NextEntry(a).mode = imports[a].mode /\ NextEntry(a).alone = imports[a].alone
    BY <1>1 DEF NextEntry, At, Import
  <1>3. ~(imports[a].mode = "replace" /\ imports[a].alone)
    BY <1>1, NothingAhead DEF Halfway
  <1>4. AloneOK(NextEntry(a), memories, bundle)
    BY <1>2, <1>3 DEF AloneOK
  <1>5. \A b \in Attempt : AloneOK(imports'[b], memories, bundle)
    BY <1>1, <1>4 DEF AloneInv
  <1> QED  BY <1>1, <1>5 DEF AlonesOK

LEMMA AloneTeaches == ASSUME IInv, AloneInv, NEW a \in Attempt, TeachCommit(a) PROVE AlonesOK'
  <1> DEFINE old == imports[a]
             h(m) == [imports[a] EXCEPT !.phase = "refresh", !.memory = m, !.row = UnusedRow]
             spelled == {Item(a).variants[i] : i \in DOMAIN Item(a).variants}
             form == Item(a).canonical
  <1>1. PICK n \in Targets(a) :
          /\ Accepted(a, n)
          /\ memories' = [memories EXCEPT ![n] = Committed(@, a)]
          /\ imports' = Commits(a, h(n))
    BY DEF TeachCommit
  <1>2. /\ imports[a].phase = "write" /\ bundle' = bundle
        /\ imports[a] \in Import /\ HandlerOK(imports[a], memories, restored, bundle)
        /\ memories \in [MemoryId -> Row] /\ imports[a].memory \in MemoryId \cup {NoMemory}
    BY HandlerFacts DEF TeachCommit, IInv, TypeOK
  <1>3. n \in MemoryId /\ memories[n] \in Row
        /\ (old.memory # NoMemory => n = old.memory)
        /\ (old.memory = NoMemory => memories[n].status = "unused")
    BY <1>1, <1>2 DEF Targets
  <1>4. old.index \in DOMAIN bundle /\ old.index \in Nat \ {0}
    BY <1>2, ImportAssumption DEF HandlerOK, AtWork, IInv, TypeOK
  <1>5. /\ h(n).phase = "refresh" /\ h(n).memory = n /\ h(n).index = old.index
        /\ h(n).mode = old.mode /\ h(n).alone = old.alone
    BY <1>2 DEF Import
  <1> DEFINE now == Committed(memories[n], a)
  <1>6. /\ memories'[n] = now
        /\ \A m \in MemoryId \ {n} : memories'[m] = memories[m]
    BY <1>1, <1>2, <1>3
  <1>7. /\ now.status = "live"
        /\ now.canonical = Written(old.row.canonical, form, memories[n].canonical)
        /\ now.scope = Written(old.row.scope, Item(a).scope, memories[n].scope)
        /\ now.variants = memories[n].variants \cup old.row.variants \cup spelled
        /\ \A e : Observed(now, e) => Observed(memories[n], e) \/ e = ClientId(old.index)
    BY <1>2, <1>3, CommittedFields
  <1> HIDE DEF now, h
  <1>8. ASSUME old.mode = "replace", old.alone
        PROVE  AloneOK(h(n), memories', bundle)
    <2> HIDE DEF spelled
    <2>1. /\ AloneOK(old, memories, bundle) /\ OneEach(memories)
          /\ Covered(memories, old.index, bundle) /\ SessionOK(old, memories, bundle)
          /\ \A m \in MemoryId :
                memories[m].status = "live" =>
                   Says(memories[m], old.index, bundle) \/ AtPresent(memories[m], old, bundle)
      BY <1>8 DEF AloneInv, AloneOK
    <2>2. Spelled(bundle, form, old.index + 1) = Spelled(bundle, form, old.index) \cup spelled
      BY <1>4, SpelledNext DEF spelled, Item
    <2>3. /\ now.canonical = form /\ now.scope = Item(a).scope
          /\ now.variants = Spelled(bundle, form, old.index + 1)
          /\ memories[n].status = "live" => memories[n].canonical = form
          /\ \A m \in MemoryId \ {n} :
                memories[m].status = "live" => memories[m].canonical # form
      <3>1. CASE old.memory # NoMemory
        <4>1. /\ memories[n].status = "live" /\ Agree(old.row, memories[n])
              /\ memories[n].canonical = form
          BY <1>2, <1>3, <2>1, <3>1 DEF SessionOK, Item
        <4>2. Says(memories[n], old.index, bundle)
          BY <1>2, <1>3, <2>1, <4>1 DEF AtPresent, Halfway
        <4>3. memories[n].variants = Spelled(bundle, form, old.index)
          BY <4>1, <4>2 DEF Says
        <4>4. /\ now.canonical = form /\ now.scope = Item(a).scope
              /\ now.variants = Spelled(bundle, form, old.index + 1)
          BY <1>7, <2>2, <4>1, <4>3 DEF Agree, Written
        <4> QED  BY <1>3, <2>1, <4>1, <4>4 DEF OneEach
      <3>2. CASE old.memory = NoMemory
        <4>1. old.row = UnusedRow /\ memories[n] = UnusedRow
          BY <1>2, <1>3, <2>1, <3>2 DEF SessionOK, AloneInv, Blank
        <4>2. \A m \in MemoryId : memories[m].status = "live" => memories[m].canonical # form
          BY <1>1, <3>2 DEF Accepted, Live
        <4>3. \A i \in 1 .. old.index - 1 : bundle[i].canonical # form
          BY <2>1, <4>2 DEF Covered
        <4>4. Spelled(bundle, form, old.index) = {}
          BY <4>3 DEF Spelled
        <4>5. /\ UnusedRow.variants = {} /\ UnusedRow.status = "unused"
              /\ UnusedRow.canonical = NoForm /\ UnusedRow.scope = "global"
          BY DEF UnusedRow
        <4>6. now.canonical = form /\ now.scope = Item(a).scope
          BY <1>7, <4>1, <4>5 DEF Written
        <4>7. now.variants = Spelled(bundle, form, old.index + 1)
          BY <1>7, <2>2, <4>1, <4>4, <4>5
        <4> QED  BY <4>1, <4>2, <4>5, <4>6, <4>7
      <3> QED  BY <3>1, <3>2
    <2> DEFINE rows2 == memories'
    <2>4. /\ \A m \in MemoryId \ {n} : rows2[m] = memories[m]
          /\ rows2[n].status = "live" /\ rows2[n].canonical = bundle[old.index].canonical
          /\ rows2[n].scope = bundle[old.index].scope
          /\ rows2[n].variants
                = Spelled(bundle, bundle[old.index].canonical, old.index + 1)
          /\ \A e : Observed(rows2[n], e) => Observed(memories[n], e) \/ e = ClientId(old.index)
          /\ \A m \in MemoryId \ {n} : memories[m].status = "live" =>
                memories[m].canonical # bundle[old.index].canonical
          /\ memories[n].status = "live" => memories[n].canonical = bundle[old.index].canonical
      BY <1>6, <1>7, <2>3 DEF Item
    <2> HIDE DEF rows2
    <2>5. AloneOK(h(n), rows2, bundle)
      BY <1>2, <1>3, <1>4, <1>5, <1>8, <2>1, <2>4, AloneTaught
    <2> QED  BY <2>5 DEF rows2
  <1>9. AloneOK(h(n), memories', bundle')
    BY <1>2, <1>5, <1>8 DEF AloneOK
  <1> QED  BY <1>1, <1>9, AloneCommit DEF AlonesOK

LEMMA AloneStates == ASSUME IInv, AloneInv, NEW a \in Attempt, SetState(a) PROVE AlonesOK'
  <1> DEFINE old == imports[a]
             n == imports[a].memory
             kept == [imports[a].row EXCEPT !.state = Item(a).state]
             h == [NextEntry(a) EXCEPT !.row.state = Item(a).state]
  <1>1. /\ imports[a].phase = "state" /\ Live(n) /\ bundle' = bundle
        /\ memories' = [memories EXCEPT ![n] = Restated(@, a)]
        /\ imports' = Commits(a, h)
    BY DEF SetState
  <1>2. /\ imports[a] \in Import /\ HandlerOK(imports[a], memories, restored, bundle)
        /\ memories \in [MemoryId -> Row] /\ imports[a].row \in Row
    BY HandlerFacts DEF IInv, TypeOK
  <1>3. /\ n \in MemoryId /\ old.index \in DOMAIN bundle /\ old.index \in Nat \ {0}
    BY <1>1, <1>2, ImportAssumption DEF HandlerOK, AtWork, IInv, TypeOK, Import
  <1>4. memories[n] \in Row
    BY <1>2, <1>3
  <1> DEFINE now == Restated(memories[n], a)
  <1>5. /\ now.status = memories[n].status /\ now.canonical = memories[n].canonical
        /\ now.scope = memories[n].scope /\ now.variants = memories[n].variants
        /\ now.observations = memories[n].observations
        /\ now.state = Written(old.row.state, Item(a).state, memories[n].state)
    BY <1>4 DEF Restated, Row
  <1>6. /\ kept.canonical = old.row.canonical /\ kept.scope = old.row.scope
        /\ kept.variants = old.row.variants /\ kept.state = Item(a).state
    BY <1>2 DEF Row
  <1>7. h = [imports[a] EXCEPT !.phase = "lookup", !.index = old.index + 1, !.row = kept]
    BY <1>2 DEF NextEntry, At, Import
  <1> HIDE DEF kept, now
  <1>8. /\ h.phase = "lookup" /\ h.memory = n /\ h.index = old.index + 1
        /\ h.mode = old.mode /\ h.alone = old.alone /\ h.row = kept
    BY <1>2, <1>7 DEF Import
  <1>9. memories'[n] = now /\ \A m \in MemoryId \ {n} : memories'[m] = memories[m]
    BY <1>1, <1>2, <1>3 DEF now
  <1> HIDE DEF h
  <1>10. ASSUME old.mode = "replace", old.alone
         PROVE  AloneOK(h, memories', bundle)
    <2>1. AloneOK(old, memories, bundle)
      BY DEF AloneInv
    <2> DEFINE rows2 == memories'
    <2>2. /\ \A m \in MemoryId \ {n} : rows2[m] = memories[m]
          /\ rows2[n].status = "live" /\ rows2[n].canonical = memories[n].canonical
          /\ rows2[n].scope = memories[n].scope /\ rows2[n].variants = memories[n].variants
          /\ rows2[n].state = Written(old.row.state, bundle[old.index].state, memories[n].state)
          /\ \A e : Observed(rows2[n], e) => Observed(memories[n], e)
      BY <1>1, <1>5, <1>9 DEF Live, Item, Observed
    <2> HIDE DEF rows2
    <2>3. /\ h.row.canonical = old.row.canonical /\ h.row.scope = old.row.scope
          /\ h.row.variants = old.row.variants /\ h.row.state = bundle[old.index].state
      BY <1>6, <1>8 DEF Item
    <2>4. AloneOK(h, rows2, bundle)
      BY <1>1, <1>3, <1>8, <1>10, <2>1, <2>2, <2>3, AloneStated
    <2> QED  BY <2>4 DEF rows2
  <1>11. AloneOK(h, memories', bundle')
    BY <1>1, <1>8, <1>10 DEF AloneOK
  <1> QED  BY <1>1, <1>11, AloneCommit DEF AlonesOK

LEMMA AloneSends ==
    ASSUME IInv, AloneInv, NEW a \in Attempt, NEW mode \in Modes, Send(a, mode)
    PROVE  AlonesOK'
  <1> DEFINE h == [Unsent EXCEPT !.phase = "lookup", !.mode = mode, !.known = ClientEvent,
                                 !.alone = \A b \in Attempt : ~Running(b)]
             sent == Commits(a, h)
  <1>1. /\ memories' = Cleared(mode) /\ imports' = StillKnown(sent) /\ bundle' = bundle
        /\ mode \in {"merge", "replace"}
    BY ImportAssumption DEF Send, Mode
  <1>2. /\ imports \in [Attempt -> Import] /\ memories \in [MemoryId -> Row]
        /\ \A b \in Attempt : imports[b] \in Import
    BY DEF IInv, TypeOK
  <1>3. /\ h.phase = "lookup" /\ h.mode = mode /\ h.memory = NoMemory /\ h.index = 1
        /\ h \in Import
    <2>1. (\A b \in Attempt : ~Running(b)) \in BOOLEAN
      OBVIOUS
    <2> QED  BY <1>1, <2>1, BlankRows, ImportAssumption DEF Unsent, Import, Phase, Mode
  <1> HIDE DEF h
  <1>4. sent[a] = h /\ \A b \in Attempt : b # a => sent[b] = [imports[b] EXCEPT !.alone = FALSE]
    BY DEF Commits
  <1> HIDE DEF sent
  <1>5. ASSUME NEW b \in Attempt, b # a PROVE sent[b] \in Import /\ sent[b].alone = FALSE
    <2>1. imports[b] \in Import /\ sent[b] = [imports[b] EXCEPT !.alone = FALSE]
      BY <1>2, <1>4, <1>5
    <2> QED  BY <2>1 DEF Import
  <1>6. \A b \in Attempt :
           /\ sent[b] \in Import
           /\ imports'[b] = [sent[b] EXCEPT !.known = {i \in sent[b].known : Restored(i)'}]
    BY <1>1, <1>3, <1>4, <1>5 DEF StillKnown
  <1>7. ASSUME NEW b \in Attempt, b # a PROVE imports'[b].alone = FALSE
    BY <1>5, <1>6, <1>7 DEF Import
  <1>8. /\ imports'[a].phase = "lookup" /\ imports'[a].mode = mode
        /\ imports'[a].memory = NoMemory /\ imports'[a].index = 1
    BY <1>3, <1>4, <1>6 DEF Import
  <1>9. ASSUME mode = "replace"
        PROVE  \A m \in MemoryId : memories'[m].status # "live" /\ memories'[m].observations = <<>>
    <2> SUFFICES ASSUME NEW m \in MemoryId
                 PROVE  memories'[m].status # "live" /\ memories'[m].observations = <<>>
      OBVIOUS
    <2>1. memories'[m] = IF Live(m) THEN DeletedRow ELSE memories[m]
      BY <1>1, <1>9 DEF Cleared
    <2>2. CASE Live(m)
      BY <2>1, <2>2, BlankRows
    <2>3. CASE ~Live(m)
      <3>1. memories[m] \in {UnusedRow, DeletedRow}
        BY <1>2, <2>3 DEF AloneInv, Blank, Live, Row
      <3> QED  BY <2>1, <2>3, <3>1, BlankRows
    <2> QED  BY <2>2, <2>3
  <1> DEFINE new == imports'[a]
             rows2 == memories'
  <1>10. AloneOK(new, rows2, bundle)
    <2>1. mode = "replace" =>
            \A m \in MemoryId : rows2[m].status # "live" /\ rows2[m].observations = <<>>
      BY <1>9
    <2>2. new.phase = "lookup" /\ new.mode = mode /\ new.memory = NoMemory /\ new.index = 1
      BY <1>8
    <2> HIDE DEF new, rows2
    <2>3. SessionOK(new, rows2, bundle)
      BY <2>2 DEF SessionOK
    <2>4. mode = "replace" => NotAhead(rows2, new)
      BY <2>1 DEF NotAhead, Observed
    <2>5. mode = "replace" => OneEach(rows2)
      BY <2>1 DEF OneEach
    <2>6. mode = "replace" => Covered(rows2, new.index, bundle)
      BY <2>2 DEF Covered
    <2> QED  BY <2>1, <2>2, <2>3, <2>4, <2>5, <2>6 DEF AloneOK
  <1> QED  BY <1>1, <1>7, <1>10 DEF AlonesOK, AloneOK

LEMMA AloneEdits ==
    ASSUME IInv, NEW n \in MemoryId,
           DeleteMemory(n) \/ \E change \in Edits : UpdateMemory(n, change)
    PROVE  AlonesOK'
  <1>1. \A b \in Attempt : imports[b] \in Import
    BY DEF IInv, TypeOK
  <1>2. \A b \in Attempt : Disturbed[b] \in Import /\ Disturbed[b].alone = FALSE
    BY <1>1 DEF Disturbed, Import
  <1>3. ASSUME NEW b \in Attempt PROVE imports'[b].alone = FALSE
    <2>1. CASE imports' = Disturbed
      BY <1>2, <2>1
    <2>2. CASE imports' = StillKnown(Disturbed)
      <3>1. imports'[b] = [Disturbed[b] EXCEPT !.known = {i \in @ : Restored(i)'}]
        BY <2>2 DEF StillKnown
      <3> QED  BY <1>2, <3>1 DEF Import
    <2> QED  BY <2>1, <2>2 DEF DeleteMemory, UpdateMemory
  <1> QED  BY <1>3 DEF AlonesOK, AloneOK

LEMMA AloneKept == ASSUME IInv, AloneInv, Next PROVE AloneInv'
  <1>1. Blank'
    BY BlankKept, NextResult DEF Result, AloneInv
  <1>2. AlonesOK'
    <2>1. ASSUME NEW a \in Attempt, Handle(a) PROVE AlonesOK'
      BY <2>1, AloneReads, AloneSkip, AloneTeaches, AloneStates DEF Handle
    <2>2. ASSUME NEW a \in Attempt, Breaks(a) PROVE AlonesOK'
      BY <2>2, AloneReads
    <2> QED  BY <2>1, <2>2, AloneSends, AloneEdits DEF Next
  <1> QED  BY <1>1, <1>2 DEF AloneInv, AlonesOK

LEMMA AloneInvariant == Spec => [](IInv /\ AloneInv /\ Unrestored)
  <1>1. Init => AloneInv /\ Unrestored
    <2> SUFFICES ASSUME Init PROVE AloneInv /\ Unrestored
      OBVIOUS
    <2>1. /\ \A m \in MemoryId : memories[m] = UnusedRow
          /\ \A a \in Attempt : imports[a] = Unsent
      BY DEF Init
    <2>2. Unsent.mode = "merge"
      BY DEF Unsent
    <2> QED  BY <2>1, <2>2, BlankRows DEF AloneInv, Blank, AloneOK, Unrestored, Live
  <1>2. IInv /\ (AloneInv /\ Unrestored) /\ [Next]_vars => (AloneInv /\ Unrestored)'
    <2> SUFFICES ASSUME IInv, AloneInv, Unrestored, [Next]_vars PROVE (AloneInv /\ Unrestored)'
      OBVIOUS
    <2>1. CASE Next
      BY <2>1, AloneKept, UnrestoredKept DEF AloneInv
    <2>2. CASE UNCHANGED vars
      <3>1. UNCHANGED <<bundle, memories, restored, imports>>
        BY <2>2 DEF vars
      <3> QED  BY <3>1 DEF AloneInv, Blank, Unrestored, Live
    <2> QED  BY <2>1, <2>2
  <1> QED  BY <1>1, <1>2, Invariant, Safe, PTL

(* A store that was replaced, and disturbed by nobody since, exports what  *)
(* the entries gone through say, wherever the request is or ended, for any *)
(* bundle, repeated canonical forms included.                              *)
THEOREM ReplacedStoreFollowsBundle == Spec => []ReplacedByPrefix
  <1>1. IInv /\ AloneInv => ReplacedByPrefix
    <2> SUFFICES ASSUME IInv, AloneInv, NEW a \in Attempt,
                        imports[a].mode = "replace", imports[a].alone
                 PROVE  /\ \A i \in 1 .. imports[a].index - 1 :
                              \E m \in MemoryId :
                                 Live(m) /\ memories[m].canonical = bundle[i].canonical
                        /\ \A m \in MemoryId : Live(m) =>
                              \/ \E i \in LastEntry(m, imports[a].index) :
                                    Exported(memories[m]) = Described(i, imports[a].index)
                              \/ /\ imports[a].phase \in {"refresh", "state", "failed"}
                                 /\ memories[m].canonical = bundle[imports[a].index].canonical
      BY DEF ReplacedByPrefix
    <2>1. AloneOK(imports[a], memories, bundle)
      BY DEF AloneInv
    <2>2. \A i \in 1 .. imports[a].index - 1 :
             \E m \in MemoryId : Live(m) /\ memories[m].canonical = bundle[i].canonical
      BY <2>1 DEF AloneOK, Covered, Live
    <2>3. ASSUME NEW m \in MemoryId, Says(memories[m], imports[a].index, bundle)
          PROVE  \E i \in LastEntry(m, imports[a].index) :
                    Exported(memories[m]) = Described(i, imports[a].index)
      <3>1. PICK i \in 1 .. imports[a].index - 1 :
              /\ bundle[i].canonical = memories[m].canonical
              /\ \A j \in i + 1 .. imports[a].index - 1 :
                    bundle[j].canonical # memories[m].canonical
              /\ memories[m].variants = Spelled(bundle, memories[m].canonical, imports[a].index)
              /\ memories[m].scope = bundle[i].scope /\ memories[m].state = bundle[i].state
        BY <2>3 DEF Says
      <3>2. i \in LastEntry(m, imports[a].index)
        BY <3>1 DEF LastEntry
      <3>3. Exported(memories[m]) = Described(i, imports[a].index)
        BY <3>1 DEF Exported, Described, Spelled
      <3> QED  BY <3>2, <3>3
    <2> QED  BY <2>1, <2>2, <2>3 DEF AloneOK, AtPresent, Halfway, Live
  <1> QED  BY <1>1, AloneInvariant, PTL

(* When a request is answered, an entry that is evidence without its state *)
(* having been restored is one a request that ended, or is at work, had    *)
(* taught: nothing else makes a retry leave it out.                        *)
THEOREM OnlyInterruptionsShow == Spec => OnlyInterruptedEntriesDiffer
  <1>1. Unrestored =>
          \A a \in Attempt : \A m \in MemoryId : \A i \in DOMAIN bundle :
             /\ imports[a].phase # "answered" /\ imports'[a].phase = "answered"
             /\ Live(m) /\ Observed(memories[m], ClientId(i)) /\ i \notin restored[m]
             => \E b \in Attempt :
                   /\ imports[b].phase \in {"refresh", "state", "failed"}
                   /\ imports[b].memory = m /\ imports[b].index = i
    BY DEF Unrestored, Halfway
  <1>2. [](IInv /\ AloneInv /\ Unrestored) => OnlyInterruptedEntriesDiffer
    BY <1>1, PTL DEF OnlyInterruptedEntriesDiffer
  <1> QED  BY <1>2, AloneInvariant, PTL
=============================================================================
