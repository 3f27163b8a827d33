------------------------- MODULE SemanticRetention -------------------------
(***************************************************************************)
(* The semantic evidence of memories: the context embeddings they retain   *)
(* (engine.py, store_semantic_evidence), and the writers that bypass its   *)
(* cap (merge_memories, scripts/backfill_semantic.py).                     *)
(*                                                                         *)
(* A vector is what the current model makes of a masked context, so only   *)
(* distances between contexts are kept of it.  Every writer passes a       *)
(* reliability of 1.0 or -1.0: all weights are 1.0 and decide nothing.     *)
(* A store in progress holds SQLite's write lock since its observation was *)
(* flushed; its selection loop runs before anybody else writes.  A         *)
(* disabled encoder is one that never succeeds.  A correction of several   *)
(* replacements counts as several requests.                                *)
(***************************************************************************)
EXTENDS Integers, SequencesExt, FiniteSets

CONSTANTS
    Memory,             \* places for memories; a deleted one's is used again
    Model,              \* model names an encoder may be configured with
    ModelRank,          \* their order as strings
    Context,            \* normalized masked contexts
    Rank,               \* the order of their hashes
    NoContext,          \* an observation without context text
    Distance,           \* 1 - cosine, by model and pair of contexts, scaled
    Cap,                \* semantic_evidence_cap
    Idle,               \* no store in progress
    Evidence,           \* what clients let a memory observe
    MaxObservations     \* bound: observations of all memories

Polarity == {"positive", "negative"}

Observation == [polarity : Polarity, context : Context \cup {NoContext}]

ASSUME RetentionAssumption ==
    /\ Evidence \subseteq Observation
    /\ Cap \in Nat \ {0}
    /\ NoContext \notin Context
    /\ ModelRank \in [Model -> Nat]
    /\ Rank \in [Context -> Nat]
    /\ Distance \in [Model -> [Context \X Context -> Nat]]
    /\ \A name \in Model : \A c, d \in Context :
          Distance[name][<<c, d>>] = Distance[name][<<d, c>>]

(* A ContextEmbedding; observation is a position in its memory's sequence. *)
Embedding == [observation : Nat, polarity : Polarity, model : Model, context : Context]

(* The locals of the selection loop: the current model's rows with the new *)
(* one, and those selected so far.                                         *)
Job == [memory : Memory, new : Embedding, entries : SUBSET Embedding,
        selected : SUBSET Embedding]

ASSUME IdleAssumption == Idle \notin Job

VARIABLES
    model,          \* of the process's encoder
    observations,   \* by memory
    embeddings,     \* by memory
    job             \* the store that is selecting, or Idle

vars == <<model, observations, embeddings, job>>

Total == Cardinality(UNION {{m} \X DOMAIN observations[m] : m \in Memory})

AllExisting(m, polarity) == {e \in embeddings[m] : e.polarity = polarity}

Existing(m, polarity) == {e \in AllExisting(m, polarity) : e.model = model}

NewEvidence(m, o) ==
    [observation |-> Len(observations[m]) + 1, polarity |-> o.polarity,
     model |-> model, context |-> o.context]

Duplicate(m, o) == \E e \in Existing(m, o.polarity) : e.context = o.context

Dist(e, f) == Distance[model][<<e.context, f.context>>]

(* Mistakes: every row of the current model gets a slot, or the new one    *)
(* does not count.                                                         *)
Slots_Uncapped(entries) == Cardinality(entries)

Slots_WithoutNew(entries) ==
    IF Cardinality(entries) <= 1 THEN 1
    ELSE IF Cardinality(entries) - 1 < Cap THEN Cardinality(entries) - 1 ELSE Cap

(* current_slots: min(evidence_cap, len(existing) + 1)                     *)
Slots(entries) == IF Cardinality(entries) < Cap THEN Cardinality(entries) ELSE Cap

-----------------------------------------------------------------------------
Init ==
    /\ model \in Model
    /\ observations = [m \in Memory |-> <<>>]
    /\ embeddings = [m \in Memory |-> {}]
    /\ job = Idle

(* A teach, correction or feedback inserts o into m's observations.        *)
Observe(m, o) ==
    /\ job = Idle
    /\ Total < MaxObservations
    /\ observations' = [observations EXCEPT ![m] = Append(@, o)]
    /\ UNCHANGED model

(* No context text, a context the model has stored already, or an encoder  *)
(* that fails.                                                             *)
ObserveOnly(m, o) ==
    /\ Observe(m, o)
    /\ UNCHANGED <<embeddings, job>>

Stores(m, o) == o.context # NoContext /\ ~Duplicate(m, o)

StoreWithRoom(m, o) ==
    /\ Observe(m, o)
    /\ Stores(m, o)
    /\ Cardinality(AllExisting(m, o.polarity)) < Cap
    /\ embeddings' = [embeddings EXCEPT ![m] = @ \cup {NewEvidence(m, o)}]
    /\ UNCHANGED job

(* The cap is reached: the selection starts from the entry with the least  *)
(* hash.                                                                   *)
Seed(m, o, seed) ==
    /\ Observe(m, o)
    /\ Stores(m, o)
    /\ Cardinality(AllExisting(m, o.polarity)) >= Cap
    /\ LET new == NewEvidence(m, o)
           entries == Existing(m, o.polarity) \cup {new}
       IN /\ seed \in entries
          /\ \A e \in entries : Rank[seed.context] <= Rank[e.context]
          /\ job' = [memory |-> m, new |-> new, entries |-> entries, selected |-> {seed}]
    /\ UNCHANGED embeddings

Remaining(j) == j.entries \ j.selected

(* The least distance of e from a selected entry is not below that of f.   *)
AsFar(e, f, selected) == \A s \in selected : \E t \in selected : Dist(f, t) <= Dist(e, s)

(* Mistake: the entry nearest to the selected ones wins the round.         *)
Beats_Nearest(e, f, selected) ==
    /\ AsFar(f, e, selected)
    /\ AsFar(e, f, selected) => Rank[e.context] >= Rank[f.context]

(* The order of max(): farther from the selected entries, then by hash.    *)
Beats(e, f, selected) ==
    /\ AsFar(e, f, selected)
    /\ AsFar(f, e, selected) => Rank[e.context] >= Rank[f.context]

Pick(e) ==
    /\ job # Idle
    /\ Cardinality(job.selected) < Slots(job.entries)
    /\ e \in Remaining(job)
    /\ \A f \in Remaining(job) : Beats(e, f, job.selected)
    /\ job' = [job EXCEPT !.selected = @ \cup {e}]
    /\ UNCHANGED <<model, observations, embeddings>>

OldOf(j) == {e \in AllExisting(j.memory, j.new.polarity) : e.model # model}

(* The order in which rows of other models fill the slots that are left.   *)
Before(e, f) ==
    \/ ModelRank[e.model] < ModelRank[f.model]
    \/ e.model = f.model /\ Rank[e.context] < Rank[f.context]

(* Mistake: rows of other models fill up the cap, whatever was selected.   *)
Spare_FullCap(j) == Cap

(* evidence_cap - len(selected)                                            *)
Spare(j) == Cap - Cardinality(j.selected)

(* All else of that polarity is deleted.                                   *)
Evict(kept) ==
    /\ job # Idle
    /\ Cardinality(job.selected) = Slots(job.entries)
    /\ kept \subseteq OldOf(job)
    /\ Cardinality(kept) <= Spare(job)
    /\ kept # OldOf(job) => Cardinality(kept) = Spare(job)
    /\ \A e \in kept : \A f \in OldOf(job) \ kept : ~Before(f, e)
    /\ embeddings' = [embeddings EXCEPT ![job.memory] =
          (@ \ AllExisting(job.memory, job.new.polarity)) \cup job.selected \cup kept]
    /\ job' = Idle
    /\ UNCHANGED <<model, observations>>

-----------------------------------------------------------------------------
(* scripts/backfill_semantic.py: rows of the current model, uncapped, for  *)
(* all observations without one whose context the encoder encodes.  It     *)
(* reads the formatted transcript, which is where a handler took the       *)
(* context from, provided the client sent one.                             *)
Missing(m) ==
    {[observation |-> i, polarity |-> observations[m][i].polarity, model |-> model,
      context |-> observations[m][i].context] :
        i \in {j \in DOMAIN observations[m] :
                  /\ observations[m][j].context # NoContext
                  /\ ~\E e \in embeddings[m] : e.observation = j /\ e.model = model}}

Backfill(encoded) ==
    /\ job = Idle
    /\ embeddings' = [m \in Memory |->
          embeddings[m] \cup {e \in Missing(m) : e.context \in encoded}]
    /\ UNCHANGED <<model, observations, job>>

(* Mistake: the copy of an embedding keeps naming the original observation.*)
Copy_Original(e, n) == e

Copy(e, n) == [e EXCEPT !.observation = n + @]

(* merge_memories copies the observations of source with their embeddings. *)
MergeMemories(target, source) ==
    LET n == Len(observations[target]) IN
    /\ job = Idle
    /\ target # source
    /\ observations' = [observations EXCEPT
          ![target] = @ \o observations[source], ![source] = <<>>]
    /\ embeddings' = [embeddings EXCEPT
          ![target] = @ \cup {Copy(e, n) : e \in embeddings[source]},
          ![source] = {}]
    /\ UNCHANGED <<model, job>>

DeleteMemory(m) ==
    /\ job = Idle
    /\ observations' = [observations EXCEPT ![m] = <<>>]
    /\ embeddings' = [embeddings EXCEPT ![m] = {}]
    /\ UNCHANGED <<model, job>>

(* The service is restarted, with other settings perhaps; a store in       *)
(* progress is rolled back.                                                *)
Restart(new) ==
    /\ model' = new
    /\ job' = Idle
    /\ IF job = Idle THEN UNCHANGED observations
       ELSE observations' = [observations EXCEPT ![job.memory] = Front(@)]
    /\ UNCHANGED embeddings

Select ==
    /\ job # Idle
    /\ \/ \E e \in Remaining(job) : Pick(e)
       \/ \E kept \in SUBSET OldOf(job) : Evict(kept)

Next ==
    \/ \E m \in Memory, o \in Evidence : ObserveOnly(m, o)
    \/ \E m \in Memory, o \in Evidence : StoreWithRoom(m, o)
    \/ \E m \in Memory, o \in Evidence :
          \E seed \in Existing(m, o.polarity) \cup {NewEvidence(m, o)} : Seed(m, o, seed)
    \/ Select
    \/ \E encoded \in SUBSET Context : Backfill(encoded)
    \/ \E target, source \in Memory : MergeMemories(target, source)
    \/ \E m \in Memory : DeleteMemory(m)
    \/ \E new \in Model : Restart(new)

(* The selection loop of a request that is being handled goes on.          *)
Spec == Init /\ [][Next]_vars /\ WF_vars(Select)

-----------------------------------------------------------------------------
TypeOK ==
    /\ model \in Model
    /\ observations \in [Memory -> Seq(Observation)]
    /\ embeddings \in [Memory -> SUBSET Embedding]
    /\ job # Idle => /\ job \in Job
                     /\ job.new \in job.entries
                     /\ job.selected # {} /\ job.selected \subseteq job.entries

(* Every embedding belongs to an observation of its own memory, with its   *)
(* polarity and context, through evictions, merges and backfills; no       *)
(* observation has two of one model.                                       *)
EvidenceAttributed ==
    \A m \in Memory : \A e \in embeddings[m] :
        /\ e.observation \in DOMAIN observations[m]
        /\ observations[m][e.observation] = [polarity |-> e.polarity, context |-> e.context]
        /\ \A f \in embeddings[m] :
              e.observation = f.observation /\ e.model = f.model => e = f

(* The step in which a store ends its selection, and what is then stored   *)
(* of its polarity.                                                        *)
Selecting == job # Idle /\ job' = Idle /\ observations' = observations

Stored == {e \in embeddings'[job.memory] : e.polarity = job.new.polarity}

(* "Each memory retains at most 12 vectors per polarity": a store that     *)
(* selects leaves exactly as many, also where merges and backfills had     *)
(* brought in more, and touches no other evidence.                         *)
CapRestored ==
    [][Selecting =>
        /\ Cardinality(Stored) = Cap
        /\ \A m \in Memory : \A e \in embeddings[m] :
              m # job.memory \/ e.polarity # job.new.polarity => e \in embeddings'[m]]_vars

(* "Deterministic diversity-aware eviction": no dropped context is farther *)
(* from every retained one than two retained ones are from each other, so  *)
(* every dropped context is represented.                                   *)
EvictionKeepsSpread ==
    [][Selecting =>
        LET kept == Stored \cap job.entries IN
        \A d \in job.entries \ kept : \A e, f \in kept :
            e # f => \E s \in kept : Dist(d, s) <= Dist(e, f)]_vars

(* "The active model's evidence receives retention priority": a selection  *)
(* that drops any of the current model's evidence, the new one included,   *)
(* keeps none of another model.                                            *)
ActiveModelFirst ==
    [][Selecting =>
        \/ job.entries \subseteq Stored
        \/ \A e \in Stored : e.model = model]_vars

(* A store that has to select ends its selection.                          *)
SelectionEnds == job # Idle ~> job = Idle
=============================================================================
