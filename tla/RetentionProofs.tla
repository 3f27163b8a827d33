-------------------------- MODULE RetentionProofs --------------------------
(***************************************************************************)
(* Proofs about SemanticRetention, for every cap, every set of memories,   *)
(* models and contexts and every symmetric distance.                       *)
(***************************************************************************)
EXTENDS SemanticRetention, FiniteSetTheorems, TLAPS

Finite == \A m \in Memory : IsFiniteSet(embeddings[m])

(* The entries of a selection are the current model's rows and the new     *)
(* one, whose observation no stored row names.                             *)
EntriesOf(j) ==
    /\ j.new.observation = Len(observations[j.memory])
    /\ observations[j.memory] # <<>>
    /\ observations[j.memory][j.new.observation]
          = [polarity |-> j.new.polarity, context |-> j.new.context]
    /\ j.new.model = model
    /\ \A e \in embeddings[j.memory] : e.observation # j.new.observation
    /\ j.entries = Existing(j.memory, j.new.polarity) \cup {j.new}
    /\ Cardinality(AllExisting(j.memory, j.new.polarity)) >= Cap
    /\ Cardinality(j.selected) <= Slots(j.entries)

(* What is not selected is as near to the selected entries as any two of   *)
(* them are to each other.                                                 *)
Spread(j) ==
    \A d \in j.entries \ j.selected : \A e, f \in j.selected :
        e # f => \E s \in j.selected : Dist(d, s) <= Dist(e, f)

IInv ==
    /\ TypeOK
    /\ Finite
    /\ EvidenceAttributed
    /\ job # Idle => EntriesOf(job) /\ Spread(job)

-----------------------------------------------------------------------------
LEMMA ObservationsLength ==
    ASSUME TypeOK, NEW m \in Memory
    PROVE  /\ observations[m] \in Seq(Observation)
           /\ Len(observations[m]) \in Nat
           /\ DOMAIN observations[m] = 1 .. Len(observations[m])
  BY DEF TypeOK

LEMMA DistanceFacts ==
    ASSUME RetentionAssumption, TypeOK, NEW e \in Embedding, NEW f \in Embedding
    PROVE  Dist(e, f) \in Nat /\ Dist(e, f) = Dist(f, e)
  <1>1. model \in Model /\ e.context \in Context /\ f.context \in Context
    BY DEF TypeOK, Embedding
  <1>2. Distance[model] \in [Context \X Context -> Nat]
    BY <1>1 DEF RetentionAssumption
  <1>3. /\ <<e.context, f.context>> \in Context \X Context
        /\ <<f.context, e.context>> \in Context \X Context
    BY <1>1
  <1>4. Dist(e, f) \in Nat
    BY <1>2, <1>3 DEF Dist
  <1>5. Dist(e, f) = Dist(f, e)
    BY <1>1 DEF Dist, RetentionAssumption
  <1>6. QED
    BY <1>4, <1>5

(* The rows a handler appends an observation for are still attributed.     *)
LEMMA AppendedObservation ==
    ASSUME IInv, NEW m \in Memory, NEW o \in Observation,
           observations' = [observations EXCEPT ![m] = Append(@, o)]
    PROVE  /\ observations' \in [Memory -> Seq(Observation)]
           /\ Len(observations'[m]) = Len(observations[m]) + 1
           /\ observations'[m] # <<>>
           /\ observations'[m][Len(observations[m]) + 1] = o
           /\ \A k \in Memory : \A i \in DOMAIN observations[k] :
                 i \in DOMAIN observations'[k] /\ observations'[k][i] = observations[k][i]
  <1>1. \A k \in Memory : /\ observations[k] \in Seq(Observation)
                          /\ Len(observations[k]) \in Nat
                          /\ DOMAIN observations[k] = 1 .. Len(observations[k])
    BY ObservationsLength DEF IInv
  <1>2. observations \in [Memory -> Seq(Observation)]
    BY DEF IInv, TypeOK
  <1>3. /\ Append(observations[m], o) \in Seq(Observation)
        /\ Len(Append(observations[m], o)) = Len(observations[m]) + 1
        /\ Append(observations[m], o)[Len(observations[m]) + 1] = o
        /\ \A i \in 1 .. Len(observations[m]) :
              Append(observations[m], o)[i] = observations[m][i]
    BY <1>1
  <1>4. \A k \in Memory :
          observations'[k] = IF k = m THEN Append(observations[m], o) ELSE observations[k]
    BY <1>2
  <1>5. observations' \in [Memory -> Seq(Observation)]
    BY <1>2, <1>3
  <1>6. observations'[m] = Append(observations[m], o)
    BY <1>4
  <1>7. ASSUME NEW k \in Memory, NEW i \in DOMAIN observations[k]
        PROVE  i \in DOMAIN observations'[k] /\ observations'[k][i] = observations[k][i]
    <2>1. CASE k = m
      <3>1. i \in 1 .. Len(observations[m])
        BY <1>1, <2>1
      <3>2. DOMAIN Append(observations[m], o) = 1 .. (Len(observations[m]) + 1)
        BY <1>1, <1>3
      <3>3. QED
        BY <1>1, <1>3, <1>6, <2>1, <3>1, <3>2
    <2>2. QED
      BY <1>4, <2>1
  <1>8. observations'[m] # <<>>
    BY <1>1, <1>3, <1>6
  <1>9. QED
    BY <1>3, <1>5, <1>6, <1>7, <1>8

LEMMA NewEvidenceFacts ==
    ASSUME IInv, NEW m \in Memory, NEW o \in Observation, o.context # NoContext
    PROVE  /\ NewEvidence(m, o) \in Embedding
           /\ NewEvidence(m, o).observation = Len(observations[m]) + 1
           /\ NewEvidence(m, o).model = model
           /\ NewEvidence(m, o).polarity = o.polarity
           /\ NewEvidence(m, o).context = o.context
           /\ \A e \in embeddings[m] : e.observation # Len(observations[m]) + 1
  <1>1. Len(observations[m]) \in Nat /\ DOMAIN observations[m] = 1 .. Len(observations[m])
    BY ObservationsLength DEF IInv
  <1>2. model \in Model /\ o.polarity \in Polarity /\ o.context \in Context
    BY DEF IInv, TypeOK, Observation
  <1>3. NewEvidence(m, o) \in Embedding
    BY <1>1, <1>2 DEF NewEvidence, Embedding
  <1>4. \A e \in embeddings[m] : e.observation \in 1 .. Len(observations[m])
    BY <1>1 DEF IInv, EvidenceAttributed
  <1>5. QED
    BY <1>1, <1>3, <1>4 DEF NewEvidence

(* Evidence stays attributed where observations are only added and rows    *)
(* only removed.                                                           *)
LEMMA AttributedKept ==
    ASSUME EvidenceAttributed,
           \A k \in Memory : embeddings'[k] \subseteq embeddings[k],
           \A k \in Memory : \A i \in DOMAIN observations[k] :
              i \in DOMAIN observations'[k] /\ observations'[k][i] = observations[k][i]
    PROVE  EvidenceAttributed'
  <1> SUFFICES ASSUME NEW m \in Memory, NEW e \in embeddings'[m]
               PROVE  /\ e.observation \in DOMAIN observations'[m]
                      /\ observations'[m][e.observation]
                            = [polarity |-> e.polarity, context |-> e.context]
                      /\ \A f \in embeddings'[m] :
                            e.observation = f.observation /\ e.model = f.model => e = f
    BY DEF EvidenceAttributed
  <1>1. e \in embeddings[m]
    OBVIOUS
  <1>2. /\ e.observation \in DOMAIN observations[m]
        /\ observations[m][e.observation] = [polarity |-> e.polarity, context |-> e.context]
        /\ \A f \in embeddings[m] :
              e.observation = f.observation /\ e.model = f.model => e = f
    BY <1>1 DEF EvidenceAttributed
  <1>3. /\ e.observation \in DOMAIN observations'[m]
        /\ observations'[m][e.observation] = observations[m][e.observation]
    BY <1>2
  <1>4. QED
    BY <1>2, <1>3

-----------------------------------------------------------------------------
LEMMA ObserveOnlyStep ==
    ASSUME IInv, NEW m \in Memory, NEW o \in Observation, ObserveOnly(m, o)
    PROVE  IInv'
  <1>1. /\ observations' = [observations EXCEPT ![m] = Append(@, o)]
        /\ job = Idle
        /\ model' = model /\ embeddings' = embeddings /\ job' = job
    BY DEF ObserveOnly, Observe
  <1>2. TypeOK'
    BY <1>1, AppendedObservation DEF IInv, TypeOK
  <1>3. Finite'
    BY <1>1 DEF IInv, Finite
  <1>4. EvidenceAttributed'
    BY <1>1, AppendedObservation, AttributedKept DEF IInv
  <1>5. QED
    BY <1>1, <1>2, <1>3, <1>4 DEF IInv

LEMMA StoreWithRoomStep ==
    ASSUME IInv, NEW m \in Memory, NEW o \in Observation, StoreWithRoom(m, o)
    PROVE  IInv'
  <1> DEFINE new == NewEvidence(m, o)
  <1>1. /\ observations' = [observations EXCEPT ![m] = Append(@, o)]
        /\ job = Idle /\ job' = Idle
        /\ model' = model
        /\ embeddings' = [embeddings EXCEPT ![m] = @ \cup {new}]
        /\ o.context # NoContext
    BY DEF StoreWithRoom, Observe, Stores
  <1>2. embeddings \in [Memory -> SUBSET Embedding]
    BY DEF IInv, TypeOK
  <1>3. \A k \in Memory :
          embeddings'[k] = IF k = m THEN embeddings[m] \cup {new} ELSE embeddings[k]
    BY <1>1, <1>2
  <1>4. new \in Embedding
    BY <1>1, NewEvidenceFacts
  <1>5. TypeOK'
    <2>1. embeddings' \in [Memory -> SUBSET Embedding]
      BY <1>1, <1>2, <1>4
    <2>2. QED
      BY <1>1, <2>1, AppendedObservation DEF IInv, TypeOK
  <1>6. Finite'
    <2> SUFFICES ASSUME NEW k \in Memory
                 PROVE  IsFiniteSet(embeddings'[k])
      BY DEF Finite
    <2> HIDE DEF new
    <2>1. IsFiniteSet(embeddings[k]) /\ IsFiniteSet(embeddings[k] \cup {new})
      BY FS_AddElement DEF IInv, Finite
    <2>2. QED
      BY <1>3, <2>1
  <1>7. EvidenceAttributed'
    <2> SUFFICES ASSUME NEW k \in Memory, NEW e \in embeddings'[k]
                 PROVE  /\ e.observation \in DOMAIN observations'[k]
                        /\ observations'[k][e.observation]
                              = [polarity |-> e.polarity, context |-> e.context]
                        /\ \A f \in embeddings'[k] :
                              e.observation = f.observation /\ e.model = f.model => e = f
      BY DEF EvidenceAttributed
    <2>1. /\ new.observation = Len(observations[m]) + 1
          /\ new.polarity = o.polarity /\ new.context = o.context
          /\ \A f \in embeddings[m] : f.observation # new.observation
      BY <1>1, NewEvidenceFacts
    <2>2. /\ new.observation \in DOMAIN observations'[m]
          /\ observations'[m][new.observation] = o
      <3>1. /\ observations'[m] \in Seq(Observation)
            /\ Len(observations'[m]) = Len(observations[m]) + 1
            /\ observations'[m][Len(observations[m]) + 1] = o
            /\ Len(observations[m]) \in Nat
        BY <1>1, AppendedObservation, ObservationsLength DEF IInv
      <3>2. QED
        BY <2>1, <3>1
    <2>3. o = [polarity |-> o.polarity, context |-> o.context]
      BY DEF Observation
    <2> HIDE DEF new
    <2>4. CASE e \in embeddings[k]
      <3>1. /\ e.observation \in DOMAIN observations[k]
            /\ observations[k][e.observation]
                  = [polarity |-> e.polarity, context |-> e.context]
            /\ \A f \in embeddings[k] :
                  e.observation = f.observation /\ e.model = f.model => e = f
        BY <2>4 DEF IInv, EvidenceAttributed
      <3>2. /\ e.observation \in DOMAIN observations'[k]
            /\ observations'[k][e.observation] = observations[k][e.observation]
        BY <1>1, <3>1, AppendedObservation
      <3>3. QED
        BY <1>3, <2>1, <2>4, <3>1, <3>2
    <2>5. CASE k = m /\ e = new
      BY <1>3, <2>1, <2>2, <2>3, <2>5
    <2>6. QED
      BY <1>3, <2>4, <2>5
  <1>8. QED
    BY <1>1, <1>5, <1>6, <1>7 DEF IInv

LEMMA SeedStep ==
    ASSUME RetentionAssumption, IInv, NEW m \in Memory, NEW o \in Observation, NEW seed,
           Seed(m, o, seed)
    PROVE  IInv'
  <1> DEFINE new == NewEvidence(m, o)
             entries == Existing(m, o.polarity) \cup {new}
  <1>1. /\ observations' = [observations EXCEPT ![m] = Append(@, o)]
        /\ model' = model /\ embeddings' = embeddings
        /\ o.context # NoContext
        /\ Cardinality(AllExisting(m, o.polarity)) >= Cap
        /\ seed \in entries
        /\ job' = [memory |-> m, new |-> new, entries |-> entries, selected |-> {seed}]
    BY DEF Seed, Observe, Stores
  <1>2. /\ new \in Embedding
        /\ new.observation = Len(observations[m]) + 1
        /\ new.model = model /\ new.polarity = o.polarity /\ new.context = o.context
        /\ \A e \in embeddings[m] : e.observation # Len(observations[m]) + 1
    BY <1>1, NewEvidenceFacts
  <1>3. embeddings[m] \subseteq Embedding /\ IsFiniteSet(embeddings[m])
    BY DEF IInv, TypeOK, Finite
  <1>4. entries \subseteq embeddings[m] \cup {new}
    BY DEF Existing, AllExisting
  <1>5. IsFiniteSet(entries) /\ Cardinality(entries) \in Nat \ {0}
    <2> HIDE DEF new, entries
    <2>1. IsFiniteSet(embeddings[m] \cup {new})
      BY <1>3, FS_AddElement
    <2>2. IsFiniteSet(entries)
      BY <1>4, <2>1, FS_Subset
    <2>3. QED
      BY <1>1, <2>2, FS_CardinalityType, FS_EmptySet
  <1> HIDE DEF new
  <1>6. TypeOK'
    <2>1. job' \in Job /\ job'.new \in job'.entries
      BY <1>1, <1>2, <1>3, <1>4 DEF Job
    <2>2. job'.selected # {} /\ job'.selected \subseteq job'.entries
      BY <1>1
    <2>3. QED
      BY <1>1, <2>1, <2>2, AppendedObservation DEF IInv, TypeOK
  <1>7. Finite'
    BY <1>1 DEF IInv, Finite
  <1>8. EvidenceAttributed'
    BY <1>1, AppendedObservation, AttributedKept DEF IInv
  <1>9. EntriesOf(job)'
    <2>1. /\ Len(observations'[m]) = Len(observations[m]) + 1
          /\ observations'[m] # <<>>
          /\ observations'[m][Len(observations[m]) + 1] = o
      BY <1>1, AppendedObservation
    <2>2. o = [polarity |-> o.polarity, context |-> o.context]
      BY DEF Observation
    <2>3. Cardinality({seed}) = 1
      BY FS_Singleton
    <2>4. 1 <= Slots(entries)
      BY <1>5 DEF Slots, RetentionAssumption
    <2>5. /\ job'.memory = m /\ job'.new = new
          /\ job'.entries = entries /\ job'.selected = {seed}
      BY <1>1
    <2>6. /\ AllExisting(job.memory, job.new.polarity)' = AllExisting(m, o.polarity)
          /\ Existing(job.memory, job.new.polarity)' = Existing(m, o.polarity)
      BY <1>1, <1>2, <2>5 DEF AllExisting, Existing
    <2>7. Slots(job.entries)' = Slots(entries)
      BY <2>5 DEF Slots
    <2>8. job'.entries = Existing(m, o.polarity) \cup {new}
      BY <2>5
    <2> HIDE DEF entries
    <2>9. /\ job'.new.observation = Len(observations'[job'.memory])
          /\ observations'[job'.memory] # <<>>
          /\ observations'[job'.memory][job'.new.observation]
                = [polarity |-> job'.new.polarity, context |-> job'.new.context]
          /\ job'.new.model = model'
          /\ \A e \in embeddings'[job'.memory] : e.observation # job'.new.observation
      BY <1>1, <1>2, <2>1, <2>2, <2>5
    <2>10. Cardinality(job'.selected) <= Slots(job.entries)'
      BY <2>3, <2>4, <2>5, <2>7
    <2>11. QED
      BY <1>1, <2>5, <2>6, <2>8, <2>9, <2>10 DEF EntriesOf
  <1>10. Spread(job)'
    BY <1>1 DEF Spread
  <1>11. QED
    BY <1>6, <1>7, <1>8, <1>9, <1>10 DEF IInv

LEMMA JobFacts ==
    ASSUME RetentionAssumption, IInv, job # Idle
    PROVE  /\ job.memory \in Memory
           /\ job.new \in Embedding
           /\ job.entries \subseteq Embedding
           /\ job.selected \subseteq job.entries
           /\ IsFiniteSet(job.entries) /\ IsFiniteSet(job.selected)
           /\ Cardinality(job.entries) \in Nat /\ Cardinality(job.selected) \in Nat
           /\ Slots(job.entries) \in Nat
  <1>1. job \in Job /\ job.selected \subseteq job.entries
    BY DEF IInv, TypeOK
  <1>2. /\ job.memory \in Memory /\ job.new \in Embedding
        /\ job.entries \subseteq Embedding
    BY <1>1 DEF Job
  <1>3. job.entries \subseteq embeddings[job.memory] \cup {job.new}
    BY DEF IInv, EntriesOf, Existing, AllExisting
  <1>4. IsFiniteSet(embeddings[job.memory] \cup {job.new})
    BY <1>2, FS_AddElement DEF IInv, Finite
  <1>5. IsFiniteSet(job.entries) /\ IsFiniteSet(job.selected)
    BY <1>1, <1>3, <1>4, FS_Subset
  <1>6. Cardinality(job.entries) \in Nat /\ Cardinality(job.selected) \in Nat
    BY <1>5, FS_CardinalityType
  <1>7. Slots(job.entries) \in Nat
    BY <1>6 DEF Slots, RetentionAssumption
  <1>8. QED
    BY <1>1, <1>2, <1>5, <1>6, <1>7

LEMMA PickStep ==
    ASSUME RetentionAssumption, IInv, NEW p, Pick(p)
    PROVE  IInv'
  <1>1. /\ job # Idle
        /\ Cardinality(job.selected) < Slots(job.entries)
        /\ p \in job.entries /\ p \notin job.selected
        /\ \A f \in job.entries \ job.selected : AsFar(p, f, job.selected)
        /\ job' = [job EXCEPT !.selected = @ \cup {p}]
        /\ model' = model /\ observations' = observations /\ embeddings' = embeddings
    BY DEF Pick, Remaining, Beats
  <1>2. job \in Job
    BY <1>1 DEF IInv, TypeOK
  <1>3. /\ job'.memory = job.memory /\ job'.new = job.new /\ job'.entries = job.entries
        /\ job'.selected = job.selected \cup {p}
        /\ job'.selected \subseteq job.entries
        /\ job' \in Job
    BY <1>1, <1>2, JobFacts DEF Job
  <1>4. TypeOK'
    BY <1>1, <1>3 DEF IInv, TypeOK
  <1>5. Finite' /\ EvidenceAttributed'
    BY <1>1 DEF IInv, Finite, EvidenceAttributed
  <1>6. EntriesOf(job)'
    <2>1. Cardinality(job.selected \cup {p}) = Cardinality(job.selected) + 1
      BY <1>1, JobFacts, FS_AddElement
    <2>2. Cardinality(job'.selected) <= Slots(job.entries)
      <3>1. /\ Cardinality(job.selected) \in Nat /\ Slots(job.entries) \in Nat
            /\ Cardinality(job.selected) < Slots(job.entries)
        BY <1>1, JobFacts
      <3>2. Cardinality(job.selected) + 1 <= Slots(job.entries)
        BY <3>1
      <3>3. Cardinality(job'.selected) = Cardinality(job.selected) + 1
        BY <1>3, <2>1
      <3>4. QED
        BY <3>2, <3>3
    <2>3. /\ Slots(job.entries)' = Slots(job.entries)
          /\ AllExisting(job.memory, job.new.polarity)'
                = AllExisting(job.memory, job.new.polarity)
          /\ Existing(job.memory, job.new.polarity)' = Existing(job.memory, job.new.polarity)
      BY <1>1, <1>3 DEF Slots, AllExisting, Existing
    <2>4. EntriesOf(job)
      BY <1>1 DEF IInv
    <2>5. QED
      BY <1>1, <1>3, <2>2, <2>3, <2>4 DEF EntriesOf
  <1>7. Spread(job)'
    <2> SUFFICES ASSUME NEW d \in job.entries \ (job.selected \cup {p}),
                        NEW e \in job.selected \cup {p}, NEW f \in job.selected \cup {p},
                        e # f
                 PROVE  \E s \in job.selected : Dist(d, s) <= Dist(e, f)
      BY <1>1, <1>3 DEF Spread, Dist
    <2>1. \A s \in job.selected : \E t \in job.selected : Dist(d, t) <= Dist(p, s)
      BY <1>1 DEF AsFar
    <2>2. CASE e \in job.selected /\ f \in job.selected
      BY <1>1, <2>2 DEF IInv, Spread
    <2>3. CASE e = p /\ f \in job.selected
      BY <2>1, <2>3
    <2>4. CASE f = p /\ e \in job.selected
      <3>1. Dist(e, f) = Dist(p, e)
        BY <1>1, <2>4, JobFacts, DistanceFacts DEF IInv
      <3>2. QED
        BY <2>1, <2>4, <3>1
    <2>5. QED
      BY <2>2, <2>3, <2>4
  <1>8. QED
    BY <1>4, <1>5, <1>6, <1>7 DEF IInv

(* What is stored of the polarity after an eviction: the selected rows and *)
(* the rows of other models that are kept.                                 *)
LEMMA EvictFacts ==
    ASSUME RetentionAssumption, IInv, NEW kept, Evict(kept)
    PROVE  /\ job # Idle /\ job' = Idle
           /\ model' = model /\ observations' = observations
           /\ kept \subseteq AllExisting(job.memory, job.new.polarity)
           /\ \A e \in kept : e.model # model
           /\ embeddings' \in [Memory -> SUBSET Embedding]
           /\ embeddings'[job.memory]
                 = (embeddings[job.memory] \ AllExisting(job.memory, job.new.polarity))
                   \cup job.selected \cup kept
           /\ \A m \in Memory \ {job.memory} : embeddings'[m] = embeddings[m]
  <1>1. /\ job # Idle /\ job' = Idle
        /\ model' = model /\ observations' = observations
        /\ kept \subseteq OldOf(job)
        /\ embeddings' = [embeddings EXCEPT ![job.memory] =
              (@ \ AllExisting(job.memory, job.new.polarity)) \cup job.selected \cup kept]
    BY DEF Evict
  <1>2. /\ kept \subseteq AllExisting(job.memory, job.new.polarity)
        /\ \A e \in kept : e.model # model
    BY <1>1 DEF OldOf
  <1>3. /\ embeddings \in [Memory -> SUBSET Embedding] /\ job.memory \in Memory
        /\ job.selected \subseteq Embedding
    BY <1>1, JobFacts DEF IInv, TypeOK
  <1>4. kept \subseteq embeddings[job.memory]
    BY <1>2 DEF AllExisting
  <1> DEFINE rows == (embeddings[job.memory] \ AllExisting(job.memory, job.new.polarity))
                     \cup job.selected \cup kept
  <1>5. rows \subseteq Embedding
    BY <1>3, <1>4
  <1>6. embeddings' = [embeddings EXCEPT ![job.memory] = rows]
    BY <1>1
  <1> HIDE DEF rows
  <1>7. /\ embeddings' \in [Memory -> SUBSET Embedding]
        /\ embeddings'[job.memory] = rows
        /\ \A m \in Memory \ {job.memory} : embeddings'[m] = embeddings[m]
    BY <1>3, <1>5, <1>6
  <1>8. QED
    BY <1>1, <1>2, <1>7 DEF rows

(* The new row belongs to the observation the store has flushed.           *)
LEMMA EvictStep ==
    ASSUME RetentionAssumption, IInv, NEW kept, Evict(kept)
    PROVE  IInv'
  <1> DEFINE h == job.memory
  <1>1. /\ job # Idle /\ job' = Idle
        /\ model' = model /\ observations' = observations
        /\ embeddings' \in [Memory -> SUBSET Embedding]
        /\ \A m \in Memory \ {h} : embeddings'[m] = embeddings[m]
    BY EvictFacts
  <1>2. embeddings'[h] \subseteq embeddings[h] \cup {job.new}
    <2>1. job.selected \subseteq embeddings[h] \cup {job.new}
      BY <1>1, JobFacts DEF IInv, EntriesOf, Existing, AllExisting
    <2>2. kept \subseteq embeddings[h]
      BY EvictFacts DEF AllExisting
    <2>3. embeddings'[h]
             = (embeddings[h] \ AllExisting(h, job.new.polarity)) \cup job.selected \cup kept
      BY EvictFacts
    <2>4. QED
      BY <2>1, <2>2, <2>3
  <1>3. /\ h \in Memory
        /\ job.new.observation \in DOMAIN observations[h]
        /\ observations[h][job.new.observation]
              = [polarity |-> job.new.polarity, context |-> job.new.context]
        /\ \A e \in embeddings[h] : e.observation # job.new.observation
    <2>1. EntriesOf(job) /\ h \in Memory
      BY <1>1, JobFacts DEF IInv
    <2>2. /\ observations[h] \in Seq(Observation) /\ observations[h] # <<>>
          /\ DOMAIN observations[h] = 1 .. Len(observations[h])
          /\ Len(observations[h]) \in Nat
      BY <2>1, ObservationsLength DEF IInv, EntriesOf
    <2>3. Len(observations[h]) \in DOMAIN observations[h]
      BY <2>2
    <2>4. QED
      BY <2>1, <2>3 DEF EntriesOf
  <1> HIDE DEF h
  <1>4. TypeOK'
    BY <1>1 DEF IInv, TypeOK
  <1>5. Finite'
    <2> SUFFICES ASSUME NEW m \in Memory
                 PROVE  IsFiniteSet(embeddings'[m])
      BY DEF Finite
    <2>1. IsFiniteSet(embeddings[m]) /\ IsFiniteSet(embeddings[m] \cup {job.new})
      BY FS_AddElement DEF IInv, Finite
    <2>2. embeddings'[m] \subseteq embeddings[m] \cup {job.new}
      BY <1>1, <1>2
    <2>3. QED
      BY <2>1, <2>2, FS_Subset
  <1>6. EvidenceAttributed'
    <2> SUFFICES ASSUME NEW m \in Memory, NEW e \in embeddings'[m]
                 PROVE  /\ e.observation \in DOMAIN observations[m]
                        /\ observations[m][e.observation]
                              = [polarity |-> e.polarity, context |-> e.context]
                        /\ \A f \in embeddings'[m] :
                              e.observation = f.observation /\ e.model = f.model => e = f
      BY <1>1 DEF EvidenceAttributed
    <2>1. EvidenceAttributed
      BY DEF IInv
    <2>2. CASE e \in embeddings[m]
      BY <1>1, <1>2, <1>3, <2>1, <2>2 DEF EvidenceAttributed
    <2>3. CASE m = h /\ e = job.new
      BY <1>2, <1>3, <2>3
    <2>4. QED
      BY <1>1, <1>2, <2>2, <2>3
  <1>7. QED
    BY <1>1, <1>4, <1>5, <1>6 DEF IInv

(* A backfilled row belongs to an observation that had none of the model.  *)
LEMMA MissingFacts ==
    ASSUME IInv, NEW m \in Memory
    PROVE  /\ IsFiniteSet(Missing(m))
           /\ Missing(m) \subseteq Embedding
           /\ \A e \in Missing(m) :
                 /\ e.observation \in DOMAIN observations[m]
                 /\ observations[m][e.observation]
                       = [polarity |-> e.polarity, context |-> e.context]
                 /\ \A f \in embeddings[m] \cup Missing(m) :
                       e.observation = f.observation /\ e.model = f.model => e = f
  <1> DEFINE J == {j \in DOMAIN observations[m] :
                      /\ observations[m][j].context # NoContext
                      /\ ~\E e \in embeddings[m] : e.observation = j /\ e.model = model}
             Row(i) == [observation |-> i, polarity |-> observations[m][i].polarity,
                        model |-> model, context |-> observations[m][i].context]
  <1>1. Missing(m) = {Row(i) : i \in J}
    BY DEF Missing
  <1>2. /\ Len(observations[m]) \in Nat
        /\ DOMAIN observations[m] = 1 .. Len(observations[m])
        /\ observations[m] \in Seq(Observation)
        /\ model \in Model
    BY ObservationsLength DEF IInv, TypeOK
  <1>3. IsFiniteSet(J)
    <2>1. IsFiniteSet(1 .. Len(observations[m]))
      BY <1>2, FS_Interval
    <2>2. J \in SUBSET (1 .. Len(observations[m]))
      BY <1>2
    <2>3. QED
      BY <2>1, <2>2, FS_Subset
  <1>4. IsFiniteSet(Missing(m))
    <2> DEFINE rowOf == [i \in J |-> Row(i)]
    <2> HIDE DEF J, Row
    <2>1. rowOf \in Surjection(J, Missing(m))
      BY <1>1 DEF Surjection
    <2>2. QED
      BY <1>3, <2>1, FS_Surjection
  <1>5. \A i \in DOMAIN observations[m] : observations[m][i] \in Observation
    BY <1>2
  <1>6. ASSUME NEW i \in J
        PROVE  /\ Row(i) \in Embedding
               /\ Row(i).observation = i /\ Row(i).model = model
               /\ observations[m][i]
                     = [polarity |-> Row(i).polarity, context |-> Row(i).context]
    <2>1. i \in Nat
      BY <1>2
    <2>2. observations[m][i] \in Observation /\ observations[m][i].context # NoContext
      BY <1>5
    <2>3. /\ observations[m][i].polarity \in Polarity
          /\ observations[m][i].context \in Context
          /\ observations[m][i] = [polarity |-> observations[m][i].polarity,
                                   context |-> observations[m][i].context]
      BY <2>2 DEF Observation
    <2>4. QED
      BY <1>2, <2>1, <2>3 DEF Embedding
  <1>7. \A i \in J : \A f \in embeddings[m] : f.observation = i => f.model # model
    OBVIOUS
  <1>8. J \subseteq DOMAIN observations[m]
    OBVIOUS
  <1> HIDE DEF J, Row
  <1>9. Missing(m) \subseteq Embedding
    BY <1>1, <1>6
  <1>10. ASSUME NEW e \in Missing(m)
         PROVE  /\ e.observation \in DOMAIN observations[m]
                /\ observations[m][e.observation]
                      = [polarity |-> e.polarity, context |-> e.context]
                /\ \A f \in embeddings[m] \cup Missing(m) :
                      e.observation = f.observation /\ e.model = f.model => e = f
    <2>1. PICK i \in J : e = Row(i)
      BY <1>1
    <2>2. ASSUME NEW f \in Missing(m), e.observation = f.observation
          PROVE  e = f
      BY <1>1, <1>6, <2>1, <2>2
    <2>3. ASSUME NEW f \in embeddings[m], e.observation = f.observation
          PROVE  e.model # f.model
      BY <1>6, <1>7, <2>1, <2>3
    <2>4. QED
      BY <1>6, <1>8, <2>1, <2>2, <2>3
  <1>11. QED
    BY <1>4, <1>9, <1>10

LEMMA BackfillStep ==
    ASSUME IInv, NEW encoded, Backfill(encoded)
    PROVE  IInv'
  <1>1. /\ job = Idle /\ job' = job
        /\ model' = model /\ observations' = observations
        /\ embeddings' = [m \in Memory |->
              embeddings[m] \cup {e \in Missing(m) : e.context \in encoded}]
    BY DEF Backfill
  <1>2. \A m \in Memory :
          /\ embeddings[m] \subseteq embeddings[m] \cup Missing(m)
          /\ embeddings'[m] \subseteq embeddings[m] \cup Missing(m)
    BY <1>1
  <1>3. embeddings' \in [Memory -> SUBSET Embedding]
    <2>1. \A m \in Memory : embeddings[m] \cup Missing(m) \subseteq Embedding
      BY MissingFacts DEF IInv, TypeOK
    <2>2. QED
      BY <1>1, <2>1
  <1>4. TypeOK'
    BY <1>1, <1>3 DEF IInv, TypeOK
  <1>5. Finite'
    <2> SUFFICES ASSUME NEW m \in Memory
                 PROVE  IsFiniteSet(embeddings'[m])
      BY DEF Finite
    <2>1. IsFiniteSet(embeddings[m] \cup Missing(m))
      BY MissingFacts, FS_Union DEF IInv, Finite
    <2>2. QED
      BY <1>2, <2>1, FS_Subset
  <1>6. EvidenceAttributed'
    <2> SUFFICES ASSUME NEW m \in Memory, NEW e \in embeddings'[m]
                 PROVE  /\ e.observation \in DOMAIN observations'[m]
                        /\ observations'[m][e.observation]
                              = [polarity |-> e.polarity, context |-> e.context]
                        /\ \A f \in embeddings'[m] :
                              e.observation = f.observation /\ e.model = f.model => e = f
      BY DEF EvidenceAttributed
    <2>5. observations' = observations
      BY <1>1
    <2>1. EvidenceAttributed
      BY DEF IInv
    <2>2. CASE e \in Missing(m)
      BY <1>2, <2>2, <2>5, MissingFacts
    <2>3. CASE e \in embeddings[m]
      <3>1. ASSUME NEW f \in Missing(m), e.observation = f.observation, e.model = f.model
            PROVE  e = f
        BY <2>3, <3>1, MissingFacts
      <3>2. QED
        BY <1>2, <2>1, <2>3, <2>5, <3>1 DEF EvidenceAttributed
    <2>4. QED
      BY <1>2, <2>2, <2>3
  <1>7. QED
    BY <1>1, <1>4, <1>5, <1>6 DEF IInv

LEMMA Shift ==
    ASSUME NEW a \in Nat, NEW b \in Nat, NEW i \in 1 .. b, NEW j \in 1 .. b
    PROVE  /\ a + i \in 1 .. (a + b)
           /\ a + i \notin 1 .. a
           /\ a + i = a + j => i = j
  OBVIOUS

LEMMA MergeStep ==
    ASSUME IInv, NEW target \in Memory, NEW source \in Memory,
           MergeMemories(target, source)
    PROVE  IInv'
  <1> DEFINE n == Len(observations[target])
             copies == {Copy(e, n) : e \in embeddings[source]}
             joined == observations[target] \o observations[source]
  <1>1. /\ job = Idle /\ job' = job /\ model' = model /\ target # source
        /\ observations' = [observations EXCEPT ![target] = joined, ![source] = <<>>]
        /\ embeddings' = [embeddings EXCEPT ![target] = @ \cup copies, ![source] = {}]
    BY DEF MergeMemories
  <1>2. /\ observations \in [Memory -> Seq(Observation)]
        /\ embeddings \in [Memory -> SUBSET Embedding]
        /\ n \in Nat /\ Len(observations[source]) \in Nat
        /\ DOMAIN observations[target] = 1 .. n
        /\ DOMAIN observations[source] = 1 .. Len(observations[source])
    BY ObservationsLength DEF IInv, TypeOK
  <1>3. /\ joined \in Seq(Observation)
        /\ DOMAIN joined = 1 .. (n + Len(observations[source]))
        /\ \A i \in 1 .. n : joined[i] = observations[target][i]
        /\ \A i \in 1 .. Len(observations[source]) : joined[n + i] = observations[source][i]
    BY <1>2
  <1>4. ASSUME NEW e \in embeddings[source]
        PROVE  /\ e.observation \in 1 .. Len(observations[source])
               /\ observations[source][e.observation]
                     = [polarity |-> e.polarity, context |-> e.context]
               /\ Copy(e, n) \in Embedding
               /\ Copy(e, n).observation = n + e.observation
               /\ Copy(e, n).polarity = e.polarity
               /\ Copy(e, n).model = e.model
               /\ Copy(e, n).context = e.context
    <2>1. e \in Embedding
      BY <1>2
    <2>2. /\ e.observation \in 1 .. Len(observations[source])
          /\ observations[source][e.observation]
                = [polarity |-> e.polarity, context |-> e.context]
      BY <1>2 DEF IInv, EvidenceAttributed
    <2> HIDE DEF n
    <2>3. n + e.observation \in Nat
      BY <1>2, <2>2
    <2>4. Copy(e, n) = [observation |-> n + e.observation, polarity |-> e.polarity,
                        model |-> e.model, context |-> e.context]
      BY <2>1 DEF Copy, Embedding
    <2>5. QED
      BY <2>1, <2>2, <2>3, <2>4 DEF Embedding
  <1> HIDE DEF n, joined
  <1>5. IsFiniteSet(copies)
    <2> DEFINE copyOf == [e \in embeddings[source] |-> Copy(e, n)]
    <2>1. copyOf \in Surjection(embeddings[source], copies)
      BY DEF Surjection
    <2>2. IsFiniteSet(embeddings[source])
      BY DEF IInv, Finite
    <2> HIDE DEF copyOf, copies
    <2>3. QED
      BY <2>1, <2>2, FS_Surjection
  <1>6. copies \subseteq Embedding
    BY <1>4
  <1>7. ASSUME NEW c \in copies
        PROVE  /\ c.observation \in DOMAIN joined
               /\ c.observation \notin DOMAIN observations[target]
               /\ joined[c.observation] = [polarity |-> c.polarity, context |-> c.context]
    <2>1. PICK e \in embeddings[source] : c = Copy(e, n)
      OBVIOUS
    <2>2. /\ e.observation \in 1 .. Len(observations[source])
          /\ c.observation = n + e.observation
          /\ observations[source][e.observation]
                = [polarity |-> c.polarity, context |-> c.context]
      BY <1>4, <2>1
    <2>3. /\ n + e.observation \in 1 .. (n + Len(observations[source]))
          /\ n + e.observation \notin 1 .. n
      BY <1>2, <2>2, Shift
    <2>4. joined[n + e.observation] = observations[source][e.observation]
      BY <1>3, <2>2
    <2>5. QED
      BY <1>2, <1>3, <2>2, <2>3, <2>4
  <1>8. ASSUME NEW c \in copies, NEW d \in copies,
               c.observation = d.observation, c.model = d.model
        PROVE  c = d
    <2>1. PICK e \in embeddings[source] : c = Copy(e, n)
      OBVIOUS
    <2>2. PICK f \in embeddings[source] : d = Copy(f, n)
      OBVIOUS
    <2>3. /\ e.observation \in 1 .. Len(observations[source])
          /\ f.observation \in 1 .. Len(observations[source])
          /\ n + e.observation = n + f.observation
          /\ e.model = f.model
      <3>1. /\ e.observation \in 1 .. Len(observations[source])
            /\ c.observation = n + e.observation /\ c.model = e.model
        BY <1>4, <2>1
      <3>2. /\ f.observation \in 1 .. Len(observations[source])
            /\ d.observation = n + f.observation /\ d.model = f.model
        BY <1>4, <2>2
      <3>3. QED
        BY <1>8, <3>1, <3>2
    <2>4. e.observation = f.observation
      BY <1>2, <2>3, Shift
    <2>5. e = f
      BY <2>3, <2>4 DEF IInv, EvidenceAttributed
    <2>6. QED
      BY <2>1, <2>2, <2>5
  <1> HIDE DEF copies
  <1>9. \A k \in Memory :
          /\ observations'[k] = IF k = source THEN <<>>
                                ELSE IF k = target THEN joined ELSE observations[k]
          /\ embeddings'[k] = IF k = source THEN {}
                              ELSE IF k = target THEN embeddings[target] \cup copies
                              ELSE embeddings[k]
    BY <1>1, <1>2
  <1>10. TypeOK'
    <2>1. observations' \in [Memory -> Seq(Observation)]
      BY <1>1, <1>2, <1>3
    <2>2. embeddings' \in [Memory -> SUBSET Embedding]
      BY <1>1, <1>2, <1>6
    <2>3. QED
      BY <1>1, <2>1, <2>2 DEF IInv, TypeOK
  <1>11. Finite'
    <2>1. IsFiniteSet(embeddings[target] \cup copies) /\ IsFiniteSet({})
      BY <1>5, FS_Union, FS_EmptySet DEF IInv, Finite
    <2>2. QED
      BY <1>9, <2>1 DEF IInv, Finite
  <1>12. EvidenceAttributed'
    <2> SUFFICES ASSUME NEW k \in Memory, NEW e \in embeddings'[k]
                 PROVE  /\ e.observation \in DOMAIN observations'[k]
                        /\ observations'[k][e.observation]
                              = [polarity |-> e.polarity, context |-> e.context]
                        /\ \A f \in embeddings'[k] :
                              e.observation = f.observation /\ e.model = f.model => e = f
      BY DEF EvidenceAttributed
    <2>1. EvidenceAttributed
      BY DEF IInv
    <2>2. CASE k # source /\ k # target
      BY <1>9, <2>1, <2>2 DEF EvidenceAttributed
    <2>3. CASE k = target
      <3>1. observations'[k] = joined /\ embeddings'[k] = embeddings[target] \cup copies
        BY <1>1, <1>9, <2>3
      <3>2. CASE e \in copies
        <4>1. \A f \in embeddings[target] : f.observation # e.observation
          <5>1. \A f \in embeddings[target] : f.observation \in DOMAIN observations[target]
            BY <2>1 DEF EvidenceAttributed
          <5>2. QED
            BY <1>7, <3>2, <5>1
        <4>2. QED
          BY <1>7, <1>8, <3>1, <3>2, <4>1, SMTT(20)
      <3>3. CASE e \in embeddings[target]
        <4>1. /\ e.observation \in 1 .. n
              /\ observations[target][e.observation]
                    = [polarity |-> e.polarity, context |-> e.context]
              /\ \A f \in embeddings[target] :
                    e.observation = f.observation /\ e.model = f.model => e = f
          BY <1>2, <2>1, <3>3 DEF EvidenceAttributed
        <4>2. \A f \in copies : f.observation # e.observation
          BY <1>2, <1>7, <4>1
        <4>3. e.observation \in DOMAIN joined
          BY <1>2, <1>3, <4>1
        <4>4. QED
          BY <1>3, <3>1, <4>1, <4>2, <4>3
      <3>4. QED
        BY <3>1, <3>2, <3>3
    <2>4. QED
      BY <1>9, <2>2, <2>3
  <1>13. QED
    BY <1>1, <1>10, <1>11, <1>12 DEF IInv

LEMMA DeleteStep ==
    ASSUME IInv, NEW m \in Memory, DeleteMemory(m)
    PROVE  IInv'
  <1>1. /\ job = Idle /\ job' = job /\ model' = model
        /\ observations' = [observations EXCEPT ![m] = <<>>]
        /\ embeddings' = [embeddings EXCEPT ![m] = {}]
    BY DEF DeleteMemory
  <1>2. /\ observations \in [Memory -> Seq(Observation)]
        /\ embeddings \in [Memory -> SUBSET Embedding]
    BY DEF IInv, TypeOK
  <1>3. \A k \in Memory :
          /\ observations'[k] = IF k = m THEN <<>> ELSE observations[k]
          /\ embeddings'[k] = IF k = m THEN {} ELSE embeddings[k]
    BY <1>1, <1>2
  <1>4. TypeOK'
    BY <1>1, <1>2 DEF IInv, TypeOK
  <1>5. Finite'
    BY <1>3, FS_EmptySet DEF IInv, Finite
  <1>6. EvidenceAttributed'
    <2> SUFFICES ASSUME NEW k \in Memory, NEW e \in embeddings'[k]
                 PROVE  /\ e.observation \in DOMAIN observations'[k]
                        /\ observations'[k][e.observation]
                              = [polarity |-> e.polarity, context |-> e.context]
                        /\ \A f \in embeddings'[k] :
                              e.observation = f.observation /\ e.model = f.model => e = f
      BY DEF EvidenceAttributed
    <2>1. /\ e \in embeddings[k] /\ embeddings'[k] = embeddings[k]
          /\ observations'[k] = observations[k]
      BY <1>3
    <2>2. QED
      BY <2>1 DEF IInv, EvidenceAttributed
  <1>7. QED
    BY <1>1, <1>4, <1>5, <1>6 DEF IInv

(* No stored row names the observation that is rolled back.                *)
LEMMA RestartStep ==
    ASSUME RetentionAssumption, IInv, NEW name \in Model, Restart(name)
    PROVE  IInv'
  <1>1. /\ model' = name /\ job' = Idle /\ embeddings' = embeddings
        /\ job = Idle => observations' = observations
        /\ job # Idle =>
              observations' = [observations EXCEPT ![job.memory] = Front(@)]
    BY DEF Restart
  <1>2. CASE job = Idle
    BY <1>1, <1>2 DEF IInv, TypeOK, Finite, EvidenceAttributed
  <1>3. CASE job # Idle
    <2> DEFINE h == job.memory
    <2>1. h \in Memory /\ EntriesOf(job)
      BY <1>3, JobFacts DEF IInv
    <2>2. /\ observations \in [Memory -> Seq(Observation)]
          /\ Len(observations[h]) \in Nat
          /\ DOMAIN observations[h] = 1 .. Len(observations[h])
          /\ observations[h] # <<>>
      BY <2>1, ObservationsLength DEF IInv, TypeOK, EntriesOf
    <2>3. /\ Front(observations[h]) \in Seq(Observation)
          /\ DOMAIN Front(observations[h]) = 1 .. (Len(observations[h]) - 1)
          /\ \A i \in 1 .. (Len(observations[h]) - 1) :
                Front(observations[h])[i] = observations[h][i]
      BY <2>1, <2>2 DEF Front
    <2>4. \A k \in Memory : observations'[k] =
            IF k = h THEN Front(observations[h]) ELSE observations[k]
      BY <1>1, <1>3, <2>2
    <2>5. observations' \in [Memory -> Seq(Observation)]
      BY <1>1, <1>3, <2>2, <2>3
    <2>6. TypeOK' /\ Finite'
      BY <1>1, <2>5 DEF IInv, TypeOK, Finite
    <2>7. \A e \in embeddings[h] : e.observation # Len(observations[h])
      BY <2>1 DEF EntriesOf
    <2> HIDE DEF h
    <2>8. \A e \in embeddings[h] : e.observation \in 1 .. (Len(observations[h]) - 1)
      <3> SUFFICES ASSUME NEW e \in embeddings[h]
                   PROVE  e.observation \in 1 .. (Len(observations[h]) - 1)
        OBVIOUS
      <3>1. e.observation \in 1 .. Len(observations[h])
        BY <2>1, <2>2 DEF IInv, EvidenceAttributed
      <3>2. QED
        BY <2>2, <2>7, <3>1
    <2>9. EvidenceAttributed'
      <3> SUFFICES ASSUME NEW k \in Memory, NEW e \in embeddings'[k]
                   PROVE  /\ e.observation \in DOMAIN observations'[k]
                          /\ observations'[k][e.observation]
                                = [polarity |-> e.polarity, context |-> e.context]
                          /\ \A f \in embeddings'[k] :
                                e.observation = f.observation /\ e.model = f.model => e = f
        BY DEF EvidenceAttributed
      <3>1. /\ embeddings'[k] = embeddings[k]
            /\ e.observation \in DOMAIN observations[k]
            /\ observations[k][e.observation] = [polarity |-> e.polarity, context |-> e.context]
            /\ \A f \in embeddings[k] :
                  e.observation = f.observation /\ e.model = f.model => e = f
        BY <1>1 DEF IInv, EvidenceAttributed
      <3>2. CASE k = h
        BY <2>3, <2>4, <2>8, <3>1, <3>2
      <3>3. CASE k # h
        BY <2>4, <3>1, <3>3
      <3>4. QED
        BY <3>2, <3>3
    <2>10. QED
      BY <1>1, <2>6, <2>9 DEF IInv
  <1>4. QED
    BY <1>2, <1>3

LEMMA InitIInv ==
    ASSUME Init
    PROVE  IInv
  <1>1. \A m \in Memory : observations[m] = <<>> /\ embeddings[m] = {}
    BY DEF Init
  <1>2. TypeOK
    BY DEF Init, TypeOK
  <1>3. Finite /\ EvidenceAttributed
    BY <1>1, FS_EmptySet DEF Finite, EvidenceAttributed
  <1>4. QED
    BY <1>2, <1>3 DEF Init, IInv

LEMMA NextIInv ==
    ASSUME RetentionAssumption, IInv, [Next]_vars
    PROVE  IInv'
  <1>1. Evidence \subseteq Observation
    BY DEF RetentionAssumption
  <1>2. CASE \E m \in Memory, o \in Evidence : ObserveOnly(m, o)
    BY <1>1, <1>2, ObserveOnlyStep
  <1>3. CASE \E m \in Memory, o \in Evidence : StoreWithRoom(m, o)
    BY <1>1, <1>3, StoreWithRoomStep
  <1>4. CASE \E m \in Memory, o \in Evidence :
                \E seed \in Existing(m, o.polarity) \cup {NewEvidence(m, o)} : Seed(m, o, seed)
    BY <1>1, <1>4, SeedStep
  <1>5. CASE Select
    BY <1>5, PickStep, EvictStep DEF Select
  <1>6. CASE \E encoded \in SUBSET Context : Backfill(encoded)
    BY <1>6, BackfillStep
  <1>7. CASE \E target, source \in Memory : MergeMemories(target, source)
    BY <1>7, MergeStep
  <1>8. CASE \E m \in Memory : DeleteMemory(m)
    BY <1>8, DeleteStep
  <1>9. CASE \E name \in Model : Restart(name)
    BY <1>9, RestartStep
  <1>10. CASE UNCHANGED vars
    <2>1. /\ model' = model /\ observations' = observations
          /\ embeddings' = embeddings /\ job' = job
      BY <1>10 DEF vars
    <2>2. TypeOK' /\ Finite' /\ EvidenceAttributed'
      BY <2>1 DEF IInv, TypeOK, Finite, EvidenceAttributed
    <2>3. job # Idle => EntriesOf(job)' /\ Spread(job)'
      BY <2>1 DEF IInv, EntriesOf, Slots, AllExisting, Existing, Spread, Dist
    <2>4. QED
      BY <2>1, <2>2, <2>3 DEF IInv
  <1>11. QED
    BY <1>2, <1>3, <1>4, <1>5, <1>6, <1>7, <1>8, <1>9, <1>10 DEF Next

(* The inductive invariant holds in every reachable state.                 *)
THEOREM Inductive == Spec => []IInv
  <1>1. Init => IInv
    BY InitIInv
  <1>2. IInv /\ [Next]_vars => IInv'
    BY NextIInv, RetentionAssumption
  <1>3. QED
    BY <1>1, <1>2, PTL DEF Spec

(* Every variable keeps its type, and a selection in progress holds the    *)
(* new row and at least one selected one.                                  *)
THEOREM TypeCorrect == Spec => []TypeOK
  <1>1. IInv => TypeOK
    BY DEF IInv
  <1>2. QED
    BY <1>1, Inductive, PTL

(* Through stores, evictions, merges, backfills, deletions and rollbacks   *)
(* every embedding describes an observation of its own memory, with its    *)
(* polarity and context, and is the only one its model has of it.          *)
THEOREM EvidenceIsAttributed == Spec => []EvidenceAttributed
  <1>1. IInv => EvidenceAttributed
    BY DEF IInv
  <1>2. QED
    BY <1>1, Inductive, PTL

-----------------------------------------------------------------------------
(* Only an eviction ends a selection and keeps the observation.            *)
LEMMA SelectingEvicts ==
    ASSUME RetentionAssumption, IInv, [Next]_vars, Selecting
    PROVE  \E kept : Evict(kept)
  <1>1. job # Idle /\ job' = Idle /\ observations' = observations
    BY DEF Selecting
  <1>2. ~ UNCHANGED vars
    BY <1>1 DEF vars
  <1>3. /\ ~\E m \in Memory, o \in Evidence : ObserveOnly(m, o)
        /\ ~\E m \in Memory, o \in Evidence : StoreWithRoom(m, o)
        /\ ~\E m \in Memory, o \in Evidence :
              \E seed \in Existing(m, o.polarity) \cup {NewEvidence(m, o)} : Seed(m, o, seed)
        /\ ~\E encoded \in SUBSET Context : Backfill(encoded)
        /\ ~\E target, source \in Memory : MergeMemories(target, source)
        /\ ~\E m \in Memory : DeleteMemory(m)
    BY <1>1 DEF ObserveOnly, StoreWithRoom, Seed, Observe, Backfill, MergeMemories, DeleteMemory
  <1>4. ~\E p \in Remaining(job) : Pick(p)
    <2> SUFFICES ASSUME NEW p \in Remaining(job), Pick(p)
                 PROVE  FALSE
      OBVIOUS
    <2>1. job' = [job EXCEPT !.selected = @ \cup {p}]
      BY DEF Pick
    <2>2. job \in Job /\ p \in job.entries
      BY <1>1 DEF IInv, TypeOK, Remaining
    <2>3. job' \in Job
      BY <2>1, <2>2 DEF Job
    <2>4. QED
      BY <1>1, <2>3, IdleAssumption
  <1>5. ~\E name \in Model : Restart(name)
    <2> SUFFICES ASSUME NEW name \in Model, Restart(name)
                 PROVE  FALSE
      OBVIOUS
    <2> DEFINE h == job.memory
    <2>1. observations' = [observations EXCEPT ![h] = Front(@)]
      BY <1>1 DEF Restart
    <2>2. h \in Memory /\ observations[h] # <<>>
      BY <1>1, JobFacts DEF IInv, EntriesOf
    <2>3. observations \in [Memory -> Seq(Observation)] /\ Len(observations[h]) \in Nat
      BY <2>2, ObservationsLength DEF IInv, TypeOK
    <2>4. observations'[h] = Front(observations[h])
      BY <2>1, <2>2, <2>3
    <2>5. observations[h] \in Seq(Observation) /\ Front(observations[h]) = observations[h]
      BY <1>1, <2>2, <2>3, <2>4
    <2>6. Len(Front(observations[h])) = Len(observations[h]) - 1
      BY <2>2, <2>5 DEF Front
    <2>7. QED
      BY <2>3, <2>5, <2>6
  <1>6. Select
    BY <1>2, <1>3, <1>5 DEF Next
  <1>7. QED
    BY <1>4, <1>6 DEF Select

(* What is left of the polarity is the selection and what is kept of other *)
(* models, which is nothing unless every entry was selected.               *)
LEMMA EvictLeaves ==
    ASSUME RetentionAssumption, IInv, NEW kept, Evict(kept)
    PROVE  /\ Stored = job.selected \cup kept
           /\ Stored \cap job.entries = job.selected
           /\ job.selected \cap kept = {}
           /\ IsFiniteSet(kept)
           /\ Cardinality(job.selected) + Cardinality(kept) = Cap
           /\ \A e \in job.selected : e.model = model
           /\ kept = {} \/ job.selected = job.entries
  <1> DEFINE A == AllExisting(job.memory, job.new.polarity)
             E == Existing(job.memory, job.new.polarity)
             O == OldOf(job)
  <1>1. /\ job # Idle
        /\ Cardinality(job.selected) = Slots(job.entries)
        /\ kept \subseteq O
        /\ Cardinality(kept) <= Spare(job)
        /\ kept # O => Cardinality(kept) = Spare(job)
    BY DEF Evict
  <1>2. /\ job.memory \in Memory
        /\ job.selected \subseteq job.entries
        /\ IsFiniteSet(job.entries) /\ IsFiniteSet(job.selected)
        /\ Cardinality(job.entries) \in Nat /\ Cardinality(job.selected) \in Nat
    BY <1>1, JobFacts
  <1>3. /\ job.entries = E \cup {job.new} /\ job.new \notin E
        /\ job.new.model = model
        /\ Cardinality(A) >= Cap
    BY <1>1 DEF IInv, EntriesOf, Existing, AllExisting
  <1>4. /\ \A e \in A : e \in embeddings[job.memory] /\ e.polarity = job.new.polarity
        /\ \A e \in E : e \in A /\ e.model = model
        /\ \A e \in O : e \in A /\ e.model # model
        /\ E \cup O = A /\ E \cap O = {}
        /\ \A e \in embeddings[job.memory] : e.polarity = job.new.polarity => e \in A
    BY DEF AllExisting, Existing, OldOf
  <1>5. embeddings'[job.memory] = (embeddings[job.memory] \ A) \cup job.selected \cup kept
    BY EvictFacts
  <1> HIDE DEF A, E, O
  <1>6. \A e \in job.entries : e.polarity = job.new.polarity /\ e.model = model
    BY <1>3, <1>4
  <1>7. Stored = job.selected \cup kept
    <2>1. \A e \in embeddings[job.memory] \ A : e.polarity # job.new.polarity
      BY <1>4
    <2>2. \A e \in job.selected \cup kept : e.polarity = job.new.polarity
      BY <1>1, <1>2, <1>4, <1>6
    <2>3. QED
      BY <1>5, <2>1, <2>2 DEF Stored
  <1>8. job.selected \cap kept = {} /\ kept \cap job.entries = {}
    BY <1>1, <1>2, <1>4, <1>6
  <1>9. Stored \cap job.entries = job.selected
    BY <1>2, <1>7, <1>8
  <1>10. /\ IsFiniteSet(A) /\ IsFiniteSet(E) /\ IsFiniteSet(O) /\ IsFiniteSet(kept)
         /\ Cardinality(E) \in Nat /\ Cardinality(O) \in Nat /\ Cardinality(kept) \in Nat
         /\ Cardinality(A) = Cardinality(E) + Cardinality(O)
    <2>1. IsFiniteSet(embeddings[job.memory])
      BY <1>2 DEF IInv, Finite
    <2>2. A \subseteq embeddings[job.memory]
      BY <1>4
    <2>3. IsFiniteSet(A)
      BY <2>1, <2>2, FS_Subset
    <2>4. E \subseteq A /\ O \subseteq A
      BY <1>4
    <2>5. IsFiniteSet(E) /\ IsFiniteSet(O)
      BY <2>3, <2>4, FS_Subset
    <2>6. IsFiniteSet(kept)
      BY <1>1, <2>5, FS_Subset
    <2>7. /\ Cardinality(E) \in Nat /\ Cardinality(O) \in Nat /\ Cardinality(kept) \in Nat
      BY <2>5, <2>6, FS_CardinalityType
    <2>8. Cardinality(E \cup O)
             = Cardinality(E) + Cardinality(O) - Cardinality(E \cap O)
      BY <2>5, FS_Union
    <2>9. Cardinality(E \cap O) = 0
      BY <1>4, FS_EmptySet
    <2>10. Cardinality(E \cup O) = Cardinality(E) + Cardinality(O)
      BY <2>7, <2>8, <2>9
    <2>11. E \cup O = A
      BY <1>4
    <2>12. QED
      BY <2>3, <2>5, <2>6, <2>7, <2>10, <2>11
  <1>11. Cardinality(job.entries) = Cardinality(E) + 1
    <2>1. IsFiniteSet(E) /\ Cardinality(E) \in Nat
      BY <1>10, FS_CardinalityType
    <2>2. QED
      BY <1>3, <2>1, FS_AddElement
  <1>12. Cap \in Nat /\ Spare(job) = Cap - Cardinality(job.selected)
    BY DEF Spare, RetentionAssumption
  <1>13. CASE Cardinality(job.entries) >= Cap
    <2>1. Cardinality(job.selected) = Cap
      BY <1>1, <1>2, <1>12, <1>13 DEF Slots
    <2>2. Cardinality(kept) = 0
      BY <1>1, <1>10, <1>12, <2>1
    <2>3. kept = {}
      BY <1>10, <2>2, FS_EmptySet
    <2>4. QED
      BY <1>2, <1>6, <1>7, <1>8, <1>9, <1>10, <1>12, <2>1, <2>2, <2>3
  <1>14. CASE Cardinality(job.entries) < Cap
    <2>1. Cardinality(job.selected) = Cardinality(job.entries)
      BY <1>1, <1>14 DEF Slots
    <2>2. job.selected = job.entries
      BY <1>2, <2>1, FS_Subset
    <2>3. Cardinality(O) > Spare(job)
      BY <1>2, <1>3, <1>10, <1>11, <1>12, <2>1
    <2>4. kept # O
      BY <1>1, <1>2, <1>10, <1>12, <2>3
    <2>5. Cardinality(job.selected) + Cardinality(kept) = Cap
      BY <1>1, <1>2, <1>12, <2>4
    <2>6. QED
      BY <1>2, <1>6, <1>7, <1>8, <1>9, <1>10, <2>2, <2>5
  <1>15. QED
    BY <1>2, <1>12, <1>13, <1>14

(* A store that has to select leaves exactly Cap rows of its polarity,     *)
(* whatever merges and backfills had left there, and no other row changes. *)
THEOREM CapIsRestored == Spec => CapRestored
  <1>1. ASSUME RetentionAssumption, IInv, [Next]_vars, Selecting
        PROVE  /\ Cardinality(Stored) = Cap
               /\ \A m \in Memory : \A e \in embeddings[m] :
                     m # job.memory \/ e.polarity # job.new.polarity => e \in embeddings'[m]
    <2>1. PICK kept : Evict(kept)
      BY <1>1, SelectingEvicts
    <2>2. Cardinality(job.selected \cup kept) = Cap
      <3>1. /\ IsFiniteSet(job.selected) /\ IsFiniteSet(kept)
            /\ Cardinality(job.selected) \in Nat /\ Cardinality(kept) \in Nat
        BY FS_CardinalityType, <1>1, <2>1, JobFacts, EvictLeaves DEF Selecting
      <3>2. Cardinality(job.selected \cup kept)
               = Cardinality(job.selected) + Cardinality(kept)
                 - Cardinality(job.selected \cap kept)
        BY <3>1, FS_Union
      <3>3. Cardinality(job.selected \cap kept) = 0
        BY <1>1, <2>1, EvictLeaves, FS_EmptySet
      <3>4. /\ Cardinality(job.selected) + Cardinality(kept) = Cap
            /\ Cap \in Nat
        BY <1>1, <2>1, EvictLeaves DEF RetentionAssumption
      <3>5. QED
        BY <3>1, <3>2, <3>3, <3>4
    <2>3. Cardinality(Stored) = Cap
      BY <1>1, <2>1, <2>2, EvictLeaves
    <2>4. ASSUME NEW m \in Memory, NEW e \in embeddings[m],
                 m # job.memory \/ e.polarity # job.new.polarity
          PROVE  e \in embeddings'[m]
      <3>1. CASE m # job.memory
        BY <1>1, <2>1, <3>1, EvictFacts
      <3>2. CASE m = job.memory /\ e.polarity # job.new.polarity
        <4>1. e \notin AllExisting(job.memory, job.new.polarity)
          BY <3>2 DEF AllExisting
        <4>2. embeddings'[job.memory]
                 = (embeddings[job.memory] \ AllExisting(job.memory, job.new.polarity))
                   \cup job.selected \cup kept
          BY <1>1, <2>1, EvictFacts
        <4>3. QED
          BY <3>2, <4>1, <4>2
      <3>3. QED
        BY <2>4, <3>1, <3>2
    <2>5. QED
      BY <2>3, <2>4
  <1>2. IInv /\ [Next]_vars =>
          [Selecting =>
             /\ Cardinality(Stored) = Cap
             /\ \A m \in Memory : \A e \in embeddings[m] :
                   m # job.memory \/ e.polarity # job.new.polarity => e \in embeddings'[m]]_vars
    BY <1>1, RetentionAssumption
  <1>3. QED
    BY <1>2, Inductive, PTL DEF Spec, CapRestored

(* What an eviction drops of the current model is never farther from all   *)
(* that is retained than two retained rows are from each other.            *)
THEOREM EvictionKeepsTheSpread == Spec => EvictionKeepsSpread
  <1>1. ASSUME RetentionAssumption, IInv, [Next]_vars, Selecting
        PROVE  LET kept == Stored \cap job.entries IN
               \A d \in job.entries \ kept : \A e, f \in kept :
                   e # f => \E s \in kept : Dist(d, s) <= Dist(e, f)
    <2>1. PICK kept : Evict(kept)
      BY <1>1, SelectingEvicts
    <2>2. Stored \cap job.entries = job.selected
      BY <1>1, <2>1, EvictLeaves
    <2>3. Spread(job)
      BY <1>1 DEF Selecting, IInv
    <2>4. QED
      BY <2>2, <2>3 DEF Spread
  <1>2. IInv /\ [Next]_vars =>
          [Selecting =>
             LET kept == Stored \cap job.entries IN
             \A d \in job.entries \ kept : \A e, f \in kept :
                 e # f => \E s \in kept : Dist(d, s) <= Dist(e, f)]_vars
    BY <1>1, RetentionAssumption
  <1>3. QED
    BY <1>2, Inductive, PTL DEF Spec, EvictionKeepsSpread

(* No row of another model outlives an eviction that drops one of the      *)
(* current model's.                                                        *)
THEOREM ActiveModelComesFirst == Spec => ActiveModelFirst
  <1>1. ASSUME RetentionAssumption, IInv, [Next]_vars, Selecting
        PROVE  \/ job.entries \subseteq Stored
               \/ \A e \in Stored : e.model = model
    <2>1. PICK kept : Evict(kept)
      BY <1>1, SelectingEvicts
    <2>2. /\ Stored = job.selected \cup kept
          /\ \A e \in job.selected : e.model = model
          /\ kept = {} \/ job.selected = job.entries
      BY <1>1, <2>1, EvictLeaves
    <2>3. QED
      BY <2>2
  <1>2. IInv /\ [Next]_vars =>
          [Selecting =>
             \/ job.entries \subseteq Stored
             \/ \A e \in Stored : e.model = model]_vars
    BY <1>1, RetentionAssumption
  <1>3. QED
    BY <1>2, Inductive, PTL DEF Spec, ActiveModelFirst
=============================================================================
