# LexiTrace: TLA+ models, checks and proofs

LexiTrace is a personal speech-correction memory: a FastAPI service
(`src/apps/api/lexitrace`) stores, per user, which surface forms a speech
recogniser produces for which canonical forms, infers the edits of a new
transcript from them, and learns from corrections and feedback. This directory
specifies it in TLA+, checks the specifications with TLC and proves theorems
about them with TLAPS. Line numbers below refer to
`src/apps/api/lexitrace/engine.py` unless another file is named.

## 1. Inventory

| Component | State | Operations | Interacts with | What makes it correct |
|---|---|---|---|---|
| Memory store (`engine.py`, `main.py`, `models.py`) | per memory: canonical form, lifecycle state, scope mode, variants, append-only observations, ASR outcomes, version history; per request: decision trace | explicit teach, correction, infer (persists a trace), decision feedback, PATCH, merge, delete, delete user / reset, import | every other component reads or writes it | evidence and history only grow and grow together; an event is stored once; one memory per canonical form; outcomes belong to their feedback |
| Memory trust (881-1007, `policy.toml`) | none: recomputed from observations | posterior, confirmation gates, demotion test, reconciliation of the state | called by correction, feedback | promotion is earned, contradiction demotes, suppression is only ever explicit |
| Overlapping requests (`database.py`, thread pool of FastAPI) | SQLite in WAL mode, one session per request | load outside a transaction, write under SQLite's lock | all write requests | what survives of the above when a request writes from a row that is stale |
| Portable export and import (`main.py` 497-575) | none between requests | export, import in merge or replace mode | store | a bundle may be sent again at any time: each entry is evidence once, what was restored is left alone |
| Conflict arbitration (1895-2007, 792-801) | candidates of one request with actions and blockers | initial action, winner loop, shadow pass | fed by scoring, feeds rendering | winners do not overlap, are eligible, and the order of the loop does not matter |
| Candidate generation (535-664) | none | exact, phonetic and fuzzy spans, alternatives aligned to the transcript | scoring | the best evidence for an edit is the one that counts |
| Candidate scoring, ASR reliability (804-878, 1630-1892) | none: from contexts and outcomes | signals, weights, blockers, learned route | reads contexts, trust, outcomes | a rejection outweighs what was learned before while its embedding is kept |
| Rendering (2013-2025) | none | splice winners right to left | arbitration | text outside the winners is unchanged |
| Formatter context, memory conflicts (667-756, 1080-1131) | none | bounded spelling hints; groups of colliding routes | read-only endpoints | they announce the edits and the competition of inference |
| Policy calibration (`src/evaluation/calibrate*.py`) | grid of weights and thresholds | replay of traces, gates | a second copy of arbitration | the replay decides what the engine decides |
| Semantic evidence retention (268-385, `semantic.py`) | embedding rows per memory and polarity | store with a cap of 12, farthest-point selection, backfill, merge | teach, correction, feedback, merge | a full polarity returns to the cap, what is kept is spread out, the active model comes first, rows stay attributed |
| Semantic encoder (`semantic.py` 35-87) | lazily loaded model, last error | load, encode, status | retention, scoring | its absence is not an error |
| HTTP middleware and metrics (`main.py` 121-188, `observability.py`) | counters behind a lock | size limit, request ids, errors | every endpoint | every failure reaches the client as one |
| Web client (`src/apps/web/src/App.tsx`) | page state | seven asynchronous functions that write state when their requests return | the API | forms are submitted once, messages fit what is shown, buttons come back |
| Holdout guard (`src/scripts/holdout_guard.py`) | seal file, output directories | seal, verify, open | filesystem, other processes | a holdout is opened once and the opening leaves a receipt |
| Migrations, evaluation suites, operator scripts | none at run time | batch | the API | out of scope, see section 8 |

Hard behaviours:

- Endpoints are plain `def` functions run by a thread pool, each with a session
  of its own. pysqlite opens a transaction at the first write, so the SELECTs
  that load a memory and its collections run outside it, and the decision taken
  from them (is the event known, which state follows from the evidence) may be
  stale when the write lock is obtained.
- Clients retry. Idempotence rests on `(user, memory, source_event_id)`: ids
  chosen by the client, derived from the decision, or generated. An import
  commits twice per entry and may end, or be joined by its own retry, in between.
- A memory's state is a function of its history in some requests, is set in
  others, and is left alone in others (merge).
- Two passes of the winner loop run over copies of the same candidates, and a
  third copy of the loop replays them offline from the trace.
- The page sends requests whose answers return in any order, are lost after
  their effect, and are written to state that later clicks have changed.
- The holdout's files are written one after the other by processes that take no
  lock and may die.

## 2. Modules

| Module | Models | Kind |
|---|---|---|
| `Trust` | 881-1007: the posterior, the gates, the recommendation, the reconciliation | operators |
| `MemoryRow` | `models.py` 20-263 and what teach, correction, feedback, PATCH and merge make of one memory | operators over one row |
| `MemoryLifecycle` | the store and one action per write request, each handled to its commit | state machine |
| `EvidenceLedger` | the promise: evidence and versions only grow, together, and no event repeats | abstract specification |
| `ConcurrentLifecycle` | the same requests as Load and Commit of overlapping handlers, composed from `MemoryRow` | state machine |
| `PortableImport` | `main.py` 497-575 and `teach_explicit` as the import calls it: several requests for one bundle, commit by commit | state machine |
| `Arbitration` | 792-801, 1895-2007 and the two passes `infer` makes (2174-2222) | state machine |
| `Ordering` | `sorted()` and `list.sort(key=...)`: the list of a finite set in a given order | operator |
| `TextSpans` | 535-664: where a form occurs in a text or in an alternative | operators |
| `ContextEvidence` | 388-532: the features, profiles and similarities of contexts | operators |
| `Scoring` | 804-878, 1630-1892: signals, blockers, score | operators |
| `Retrieval` | 667-756, 1080-1131: hints and collision groups | operators |
| `PolicyReplay` | `calibrate_v7_policy.py` 132-227: one recorded decision decided again from its trace | operators |
| `Calibration` | `calibrate_v7_policy.py`, `calibrate_policy.py`: tallies of replays, the search of configurations, the threshold gate; two instances of `PolicyReplay` with the margins of the two programs | operators |
| `Inference` | 2028-2287: one request from the transcript to the answer, a verdict on it, and the same transcript again; composes `TextSpans`, `ContextEvidence`, `Scoring`, `Retrieval` and `PolicyReplay` with `Arbitration` | state machine |
| `SemanticRetention` | 268-395, 1163-1207, `scripts/backfill_semantic.py`: embeddings and the selection at the cap | state machine |
| `WebClient` | `App.tsx`: the functions await by await, and the service as the page can tell it | state machine |
| `HoldoutGuard` | `holdout_guard.py`: commands of several processes, file write by file write | state machine |
| `MC...` | small instances for TLC; `MCEvaluation` runs the holdout guard and evaluates the properties of `Calibration` on six recorded decisions | model checking |
| `MemoryRowProofs`, `MemoryLifecycleProofs`, `ConcurrentProofs`, `PortableImportProofs`, `ArbitrationProofs`, `InferenceProofs`, `RetentionProofs`, `ClientProofs` | lemmas and theorems; `ClientProofs` is about the programs around the service: page, holdout guard, calibration | proofs |

`Trust` < `MemoryRow` < `MemoryLifecycle`, `ConcurrentLifecycle` and
`PortableImport`; all three state machines refine `EvidenceLedger` under the
mapping status, event ids of the observations, versions
(`Ledger == INSTANCE EvidenceLedger WITH ...`). `Inference` refines
`Arbitration`. All of these are proved (section 5).

### State and actions against the code

**The store.** `memories[m]` is the row of memory `m` with what it owns by
cascade. A form stands for a normalized string: `normalize` is applied before
every comparison the models make. An observation keeps the fields trust,
idempotence and attribution read: event id, kind, acceptance, reason code and
context fingerprint. Its context and embedding rows feed scoring only and no
property of the store: they are the state of `SemanticRetention` and the
evidence of `Inference`. A version keeps the state and how many observations
its trust profile was computed from: the rest of the snapshot is the row at
that time. `decisions[d]` is the persisted trace. `reply` is the status code of
the last request and the memories whose state it set because the user said so;
it is the only variable that is not the program's, and it is what separates an
explicit change from an automatic one.

| Action of `MemoryLifecycle` | Code |
|---|---|
| `ExplicitTeach` | `main.py` 204-216, `teach_explicit` 1317-1458 |
| `CorrectionObservation` | `observe_correction` 1461-1627, all replacements of one transcript in one commit |
| `Infer` | 2045-2287; which candidates exist is left open, what arbitration guarantees of the changes is the guard |
| `DecisionFeedback`, `FeedbackRefused`, `FeedbackFailed` | `apply_decision_feedback` 2290-2514: stored, 422 on a contradiction, unhandled IntegrityError on a repeated ASR outcome |
| `UpdateMemory` | `main.py` 281-320: rename, override, rescope, manual contexts, one version |
| `MergeMemory` | `main.py` 322-341, `merge_memories` 1134-1249 |
| `DeleteMemory`, `DeleteUserState` | `main.py` 448-454, 68-87 |
| `ImportItem` | `main.py` 537-568, one entry undisturbed |

**Overlap.** `ConcurrentLifecycle` gives each worker at most one request:
`Load` copies the row it is about, `Commit` writes what `MemoryRow` computes
from that copy. SQLAlchemy writes only attributes that changed (`Written`),
inserts are checked by the constraints of `models.py` (`Accepted`) against the
rows stored now, and a handler that fails them, has nothing to write or times
out on the lock leaves. A merge asks for an existing outcome when it already holds
the lock (1211-1219): `NewOutcomes` moves what the source had when it was loaded,
but for the outcomes that the target has by now, and commits. That the loads of a request are one step is an
approximation: separate SELECTs can see different commits. It loses no
write-write race, since the decisive gap is the one before the lock.

**Import.** `imports[a]` is the handler of one request for the bundle: `Send`
(with the deletion and commit of replace mode), then per entry `Skip` or
`Lookup` (539-547), `LoadMemory` (the SELECTs of `teach_explicit`),
`TeachCommit` or `TeachFails` (first commit, against the constraints),
`Refresh`, `SetState` (second commit), and at the end `Answer`. `Breaks` ends a
request at any of these points, `Orphaned` ends one whose memory was deleted
under it; `UpdateMemory` and `DeleteMemory` are the user's. The session's
identity map is kept as the code has it: a memory it still holds keeps the
attributes of the earlier entry, only `Refresh` renews it. `restored`, `known`
and `alone` are not the program's: they say which entries' states were set in
which memory, which of them lasted since the request began, and whether anybody
else committed since.

**Inference.** The keys `(memory, start, end)` are those of
`candidates_by_key`. `Offers` is every scored route of the request;
`ScoreRoute` takes them in the order of the loops (`Due`), memory by memory,
first the text and then the alternatives, and keeps one route per key
(`Supersedes`). `Generated` ends the loops, `Select` is a step of
`Arbitration`, and `Respond`, `RespondShadow` build text, action and trace.
`Judge` stores what a verdict on one candidate teaches (context evidence, its
embedding, the outcome of the ASR route, any state a verdict may lead to) and
starts the same request again. The embedding goes through the cap of
`store_semantic_evidence` (268-385): a context embedded before is not embedded
again, with room the row is added (`HasRoom`), and in a full polarity as many
rows as the cap allows are left, whichever they are (`Retentions`; which ones the
greedy selection takes is the subject of `SemanticRetention`), so an older row or
the new one may go. Texts are sequences of words and separators; lengths, string similarity,
phonetic keys, embedding similarity and the power function are constant
operators, integers in thousandths.

**Arbitration.** It copies the scored candidates at `Begin` of each pass and
visits them in the order of the sort key; `LoseMargin`, `LoseSpan` and `Win` are
the three outcomes of an iteration. Candidates whose keys are equal in every
component are visited in either order (Python's sort is stable over an
insertion order that depends on the store).

**Retention.** `SemanticRetention` keeps per memory its observations (polarity
and masked context) and its embeddings, which name an observation by position.
`Seed` is the start of the selection in `store_semantic_evidence` (333-351),
each `Pick` one round of its loop (353-363), `Evict` everything after it
(364-385): the rows of other models that fill the slots left, and the deletion
of the rest. The local variables of that loop are the variable `job`. Between
`Seed` and `Evict` the handler holds SQLite's write lock, which it took when it
flushed its observation, so other writers wait for `job = Idle`; only a crash
(`Restart`) comes in between and rolls the observation back. `ObserveOnly`
covers a duplicate context (no write), a disabled or failing encoder and a
request without context text; the import is one of these, because it teaches
without any text. Vectors are data: a constant `Distance` per model and pair of
contexts, symmetric and otherwise arbitrary. Reliability is 1.0 or -1.0 wherever
an observation is made, so the weights in the sort keys are equal and left out.
The winner of a round is any entry that `max` may return: `Beats` compares the
least distances, then the hashes.

**Page.** `functions` holds the asynchronous functions that wait, each with
what it awaits and the state of its requests; a click (`Teach`,
`RunInference`, ... `Reset`) runs a function to its first await with the button
guards of the page; `Handle`, `Refuse` and `LoseAnswer` are the service and the
network; `Throw`, `Continue` and `Return` resume a function whose await is
settled, with the `catch` and `finally` blocks. `page` holds the `useState`
variables that are not form contents. A listing is the number of writes it has
seen and the memories that existed then. `solo` and `released` are not the
page's: they say that one function ran undisturbed, and that a function enabled
the buttons while another one waited.

**Holdout.** `commands[c]` is a process and its next file operation. A dataset
stands for its contents. `TruncateSeal` and `FillSeal` are the two halves of
`Path.write_text`; a reader in between finds an unreadable seal. `evaluations`
(output directories whose evaluation was started) and `overlapped` are not the
program's. A command is `GuardInit`, `GuardNext` and so on where its name would
be that of another program's in `ClientProofs`.

**Calibration.** A row is a recorded decision with its expected output; `Tally`
counts what the results of all rows come to. `trace` is `row["candidates"]`, the
list, and `Resorted` the order in which `simulate` returns the raw scores:
`AtBoundary` pairs them by position, as `zip` does (248-251). `SelectedAmong` is
the loop over the configurations, `Foremost` a `max` with a key of tuples (`Exceeds`).
`Reproduced`, `SelectedIsBest` and `GateAgrees` are evaluated by TLC as an
assumption of `MCEvaluation`; the last two are also proved.

## 3. Runs

Bounds are constants of the modules and are named there: `MaxVersions` caps the
writes per memory (every write records a version), `MaxEdits` the replacements
of a correction or, in `PortableImport`, what the user does meanwhile,
`MaxCandidates` the candidates of a decision, `MaxObservations` the observations
of all memories, `MaxClicks` the clicks, `MaxRuns` the commands. Deadlock is
checked only in `retention`, where a restart is always possible; in the other
runs (`CHECK_DEADLOCK FALSE`) bounded writes, an answered request or a page at
rest are ends.

| Run | Instance | Checks | Shows |
|---|---|---|---|
| `arbitration` | three candidates, every combination of 3 spans x 3 scores x 3 contexts, with and without blockers, six shadow policies | `WinnersSound`, `ActiveOrderFree`, `SelectionIsKernel`, `CompetitorsStaySuggestions` | the loop selects one set a reader can compute; under the active policy order is irrelevant |
| `trust` | one memory, one decision, two contexts, four writes, all overrides | `TypeOK`, `SuppressionExplicit`, `PromotionEarned`, `DemotionFollowsEvidence`, `ContextRejectionHarmless` | every state transition has its cause |
| `store` | two memories, two forms; one mix of client event ids, renames and imports, one of decisions with ASR metadata; merges and deletions in both | `CanonicalsUnique`, `HistoryComplete`, `LedgerKept`, `OutcomesAttributed` | the ledger is implemented, and outcomes follow the feedback they came from |
| `overlap` | two workers; one mix judges one memory, one creates, renames, judges in one decision and merges two | `CanonicalsUnique`, `OutcomesAttributed`, `FreshRequestsSettle`, `SuppressionSticksOnceSeen`, `LedgerKept` | the constraints of `models.py` carry the invariants under overlap; a merge that meets an outcome stored since it loaded leaves it alone; what a stale handler overwrites is put right by the next one that is not stale |
| `import` | two requests in either mode, three bundles of two entries (one with a canonical form twice, one with a variant twice), four memory ids, one edit or deletion | `ReplacedByPrefix`, `LedgerKept`, `RestoredEntriesStay`, `OnlyInterruptedEntriesDiffer`, `ImportsEnd` | a bundle may be sent again whenever: the store is the prefix gone through, restored entries stay the user's, only an interruption between two commits leaves an entry that no retry completes |
| `inference` | two memories with competing forms in 34 stores, two of which hold as many embeddings as the cap of one allows, six requests with and without alternatives and shadow policies, one verdict, an encoder that fails or recovers | `ArbitratesBestEvidence`, `RenderedFaithfully`, `ReplayFaithful`, `RejectionHonoured`, `EditsWereHinted`, `CompetitionListed` | a request is one arbitration of the best evidence; text, trace, hints and collision groups agree with it |
| `retention` | two memories, two models, three contexts of which one model tells none apart, cap 2, four observations, merges, backfills, crashes | `EvidenceAttributed`, `CapRestored`, `EvictionKeepsSpread`, `ActiveModelFirst`, `SelectionEnds` | whatever the uncapped writers did, the next store that selects restores the cap and keeps the right rows |
| `page` | two memories, three clicks while the page still loads, every order, refusal and loss | `SubmitsOnce`, `MessageFits`, `AloneHandlersRefresh`, `BusyEnds` | what the buttons guarantee, and from where on they do not |
| `holdout` | two processes, four datasets (one empty, one in the tree), three directories, five commands, crashes | `SealCitesItsReceipt`, `OpenedOnceUnlessOverlapped` | the receipt comes before the seal and the seal before the evaluation; only an overlap opens twice (the module also evaluates `Calibration`, see section 2) |
| `merge_demotion` | a violation | `DemotionFollowsEvidence` | finding 1 |
| `feedback_fails` | a violation | `FeedbackNeverFails` | finding 2 |
| `lost_suppression` | a violation | `SuppressionExplicit` | finding 3 |

Why the bounds are enough. The trust policy is the shipped one: a fresh memory
is confirmed by three positive events in two contexts, and a taught memory
(posterior 5/6) falls below 0.60 at the second identity rejection (5/12); four
writes reach promotion, demotion and the return to either side. Two memories are
what uniqueness, renaming and merging need. Every wrong interleaving of the
concurrent model involves one stale handler and one that committed meanwhile,
hence two workers, and likewise two imports. In the second mix of `store` and in
`import` contexts play no part and the set is empty or `{NoContext}`:
fingerprints are covered by `trust`. The two mixes of `store` (a state constraint,
`OneMix`) and of `overlap` (a variable `mix`) are kept apart because their product
is out of TLC's reach and shows nothing more. Symmetry is used only for
runs without liveness properties and only over sets whose members no constant of
the run distinguishes.

In `import` the second entry is where an earlier entry's memory is still in the
session, a canonical form is repeated, or a constraint fails half-way; four ids
let both requests create memories before and after a deletion. In `inference`
the stores and texts are chosen so that a span is reached by two memories, by
several methods and by several alternatives with different confidences, that
winners of different lengths stand in one text, and that a rejected context was
accepted before. `SemanticCap` is 1 in place of 12: a polarity is full after one
embedding, so a second rejection meets a full store, where it or the older row is
dropped. In two stores a text was rejected nine times, so that a dropped rejection
is also outvoted in the sparse profile: without its condition on `room` and
`stored`, `RejectionHonoured` is violated there.

In `retention` two rows fill a polarity, so four observations let a merge or a
backfill bring a memory above its cap, a model change mix the models, and a store
select among three rows of one model or among rows of both; the negative
evidence shows that the other polarity is left alone. The distances put two
contexts close together, so that the selection has something to represent, and
tie under the other model, so that hashes decide.

Three clicks on the page are the one that waits, the one that enables the
buttons under it, and the one that exploits it; every function then has up to
three awaits of its own. Five commands of the guard are seal, verify, and an
opening interrupted and tried twice more.

Fairness. In `retention`, weak fairness of `Select`, the loop of a handler that
runs and waits for nobody: `SelectionEnds` says that the loop runs out of rounds
and that the rows to evict always exist. In `import`, weak fairness of the steps
of each handler: it waits for the write lock at most `busy_timeout` and then
fails, so it always has a next step; `ImportsEnd` says that no entry is gone
through for ever. In `page`, weak fairness of `Serve \/ Resume`: a `fetch` is
answered or rejects, and a settled promise resumes its function; users need not
click. Elsewhere nothing in the code promises progress: a client decides whether
to send a request, and a handler may always fail.

## 4. Findings

1. `merge_memories` (1239) records a version but does not reconcile: a confirmed
   target that takes in rejections stays confirmed below the demotion threshold
   (`docs/architecture.md` 64-65) until its next feedback or correction.
2. `uq_asr_outcome_decision_memory_source` has no span: feedback on the second
   of two spans of one decision with the same surface form and ASR metadata ends
   in an unhandled IntegrityError and nothing of it is stored
   (`docs/architecture.md` 52-53).
3. A correction that loaded a memory before a suppression was committed writes
   the state it derived afterwards: the memory is confirmed and no longer
   suppressed (`README.md` 69-70).

Also met while modelling, and not kept as runs of their own.

The store:

- Feedback stored for the source of a merge between the merge's load and its
  commit is deleted with the source and is not among the copies
  (1163; `docs/architecture.md` 102-103).
- Feedback whose event is stored is skipped before `suppress_memories` is looked
  at (2350). An automatic rejection repeated after the scope mode of its memory
  changed resolves to another reason code and is refused with 422 (2365).
- Feedback names a memory and a start; of two candidates of a memory that start
  together the better one is meant (2312-2319), where `docs/architecture.md` 51
  says "by memory and span".
- A shadow policy without a suggest threshold is validated before the active
  0.72 is filled in, so apply can lie below suggest (`schemas.py` 69).
- Two overlapping rejections each miss the other's evidence, so neither demotes
  (2481), which `FreshRequestsSettle` shows to last only until the next
  undisturbed request.
- The merge and the backfill of embeddings bypass the cap
  (1194, `scripts/backfill_semantic.py` 48). `docs/architecture.md` 35 speaks of
  at most 12 vectors per polarity,
  `docs/v7-phase2-semantic-storage-experiment.md` 49-51 of a reduction at the
  next non-duplicate observation; the code does the latter, and `CapRestored`
  states it.

The import: an entry interrupted between its two commits stays confirmed
whatever the bundle says, and every retry skips it (`main.py` 545-547). Two
spellings of one variant in an entry fail the request at that entry each time it
is sent (1369). A second entry with the canonical form of the one before it
computes its changes from the attributes the session kept.

Inference: the cosine with the accumulated negative profile falls as rejections
of other contexts accumulate, so that without an encoder a rejected context can
win again; `RejectionHonoured` therefore asks for the encoder. Availability of
the encoder is one flag per request. With the encoder, a rejection is sure to hold
only while its embedding is kept: once 12 contexts of a polarity are embedded, the
capped selection (333-385) may drop the new row or, later, an older one, and what
is left of the rejection is its share of the sparse profile. `RejectionHonoured`
is therefore about a verdict whose embedding had room or survived (`room`,
`stored` of `judged`) and about the next request; it says nothing of a verdict on
a context that is embedded already, for which no row is added. What happens to a
row that a later verdict evicts is not a property of the run. The ambiguity flag of a hint looks only at
each memory's best match. The calibrator takes
`INSUFFICIENT_WINNER_MARGIN` and `OVERLAPPING_WINNER` of the recorded pass for
blockers, so that with other weights a candidate that lost then cannot win; with
the recorded weights the replay is faithful, which is what `ReplayFaithful`
states. The calibrator counts the scores near the apply threshold over pairs of a
re-sorted score and a candidate in trace order (`calibrate_v7_policy.py` 170-177,
226, 248-253): where a configuration reorders the candidates of a row, a blocked
candidate's score may count as eligible and an eligible one's may not. Its
selection rule reads `avoid_eligible_scores_within_0.0025_of_apply_boundary`; the
key it minimises is the one `AtBoundary` states, and a row of `MCEvaluation` is
reordered by one configuration. Traced features are rounded to four decimals, so a replayed score may
differ at a threshold by 1e-4; `calibrate_policy.py` has a conflict floor of
0.15 where the engine has 0.20. Its gate speaks of keeping the active threshold
when a candidate is rejected (`reject_candidate_keep_active`, 250); when the
threshold in use itself makes a wrong edit on the corpus, the `active_threshold`
of the report may be the rejected candidate, which is why `GateAgrees` has a
precondition.

The page: the history button stays enabled while a function waits, and its
return enables all buttons: from there (`released`) two inferences can race and
a form can be submitted twice. The answer of a reset that is lost leaves a
result on the page whose feedback gets 404. A history that is shown is not
refreshed by teaching. "Wrong" judges the first change where the page shows the
competition of the strongest candidate, and any rejection is reported as a
demotion.

The holdout: two openers with different directories that overlap both evaluate
("the final frozen holdout is evaluated exactly once under its sealed hash");
a crash inside `save_seal` leaves a seal that every later command refuses.

## 5. Theorems

For every value of the constants that satisfies the named assumptions:

| Module | Theorem | Establishes |
|---|---|---|
| `ArbitrationProofs` | `TypeCorrect`, `WinnersAreSound`, `SelectionIsAKernel`, `ActiveSelectionIsOrderFree`, `CompetitorsAreNotApplied` | the properties of the `arbitration` run for any number of candidates |
| | `OutcomesFollow` | a pass leaves on each candidate the action and the blockers that follow from the scores and its winners alone |
| `MemoryLifecycleProofs` | `TypeCorrect` | the store is well typed |
| | `CanonicalsAreUnique` | one live memory per canonical form |
| | `HistoryIsComplete` | the latest version shows the present state and all evidence |
| | `LedgerImplemented` | `Spec => LedgerKept`: the refinement of `EvidenceLedger` |
| | `SuppressionIsExplicit` | only explicit requests enter or leave suppression |
| | `OutcomesAreAttributed` | ASR outcomes follow their feedback through merges |
| | `PromotionIsEarned`, `ContextRejectionsAreHarmless` | a memory is promoted on all three gates; a rejection in context weighs nothing |
| | `OnlyMergesEscapeDemotion`, `DemotionDoesFollowEvidence` | no step but a merge leaves a memory confirmed that its evidence has come to contradict; without a second memory to merge there is no exception |
| `ConcurrentProofs` | `TypeCorrect`, `CanonicalsAreUnique`, `OutcomesAreAttributed`, `LedgerImplemented`, `SuppressionSticks`, `FreshRequestsDoSettle` | typing, and the properties of the `overlap` run, for any number of workers and requests |
| `PortableImportProofs` | `TypeCorrect` | store and requests are well typed |
| | `RestoredEntriesAreKept` | no commit for an entry restored ever since the request began |
| | `LedgerImplemented` | the refinement of `EvidenceLedger` under retries, overlaps, interruptions and edits |
| | `ReplacedStoreFollowsBundle`, `OnlyInterruptionsShow` | in replace mode the store is the prefix of the bundle gone through; an entry without its state is one whose handler ended between its two commits |
| `InferenceProofs` | `BestEvidenceIsArbitrated` | `Inference` refines `Arbitration`: a request is one arbitration of the best evidence |
| | `RejectionIsHonoured`, `EditsAreHinted`, `CompetitionIsListed` | what a rejection blocks whose embedding had room or survived the cap; what the hints and the collision groups announce |
| | `AnswersAreRendered` | splicing the winners in from the right gives the transcript with their spans replaced |
| | `ReplayIsFaithful` | the calibrator's second copy of the selection, given the trace, arrives at the engine's text and action under the active and the shadow thresholds |
| `RetentionProofs` | `TypeCorrect`, `EvidenceIsAttributed`, `CapIsRestored`, `EvictionKeepsTheSpread`, `ActiveModelComesFirst` | the safety properties of the `retention` run for every cap, distance, model and number of observations |
| `ClientProofs` | `TypeCorrect`, `PageSubmitsOnce`, `MessageFitsResult`, `AloneHandlersDoRefresh` | the safety properties of the `page` run for any number of clicks and memories |
| | `GuardTypeCorrect`, `SealLeadsToItsReceipt`, `OpenedOnceWithoutOverlap` | the invariants of the `holdout` run for any number of processes and commands |
| | `TheBestIsSelected`, `PromotionIsActivation` | what the search and the gate of `Calibration` choose, for any corpora and configurations: no configuration has fewer wrong edits, none of those with as few has fewer boundary scores as the program counts them |

Assumptions. `TrustAssumption` (weights and thresholds are naturals,
percentages, demotion not above confirmation), `LifecycleAssumption` and
`ConcurrentAssumption` (the requests clients may send are well typed, and the
empty form is none), `ImportAssumption` (the bundles and
edits are well typed, positions in a bundle are event ids, ids are numbers so
that a new one can be drawn), `InferenceAssumption` (stores and requests are well
typed, variants are not blank and names differ, thresholds are in order: what
`schemas.py` and the constraints of `models.py` refuse otherwise),
`SignalsAssumption` (similarities, powers and resemblances stay within 0..1 or
-1..1, and the encoder finds a text most like itself: `semantic.py` returns unit
vectors), `ReplayAssumption` (the policy of `policy.toml` as `Arbitration` takes it,
and the calibrator's own constants, `calibrate_v7_policy.py` 13-15 and 127-128,
equal to those of the engine: were one of them changed alone, the replay would
no longer follow), `CalibrationAssumption` (an argument range that is not empty,
traces that list each candidate once),
`GradesAssumption`, `FeatureAssumption`,
`ClientAssumption`, `HoldoutAssumption` (the names of nothing name nothing) and,
for `ActiveSelectionIsOrderFree`, `ActivePolicyAssumption`: apply + margin
exceeds 1.0 and the conflict advantage is positive, which `policy.toml` gives
(0.90 + 0.12). With a margin that fits above the apply threshold the theorem is
false: one of two competing candidates may then win by its score.

Argument for the store. `IInv` of `MemoryLifecycleProofs` is
`TypeOK /\ RowsInv /\ EventsInv /\ HistoryComplete /\ CanonicalsUnique /\
OutcomesAttributed`. `RowsInv` (a row that is not live is empty, a live one has
a form) is what makes creating and erasing map to the ledger; `EventsInv` (no
event id repeats in a row, and generated ids and merge ids are numbered within
the row) is what keeps an event that is inserted from being one that is stored:
without it `NoRepeats` is not inductive, because a generated id could collide
with a later one. `MemoryRowProofs` proves, operation by operation, that the
new row is well typed and that it extends the old one (`Writes`). The lemma
`StepShape` then reduces every action of `Next` to three cases for each memory:
unchanged, written by one of those operations, or erased; each theorem is
proved once for these cases. Merge alone needs to look at two rows. What a
step makes of the lifecycle state is said once too (`StateMoves`): it was set by
the request or follows from reconciliation; suppression, promotion and
context rejections are read off that. Demotion needs the arithmetic of the
posterior: weights are not negative and the threshold is at most one, so evidence
that supports a memory never takes it below the threshold
(`SupportNeverContradicts`). Every step that can add contradicting evidence
therefore reconciles, but for the merge (`DemotionKept`): the theorem names the
exception that finding 1 shows.

Argument for overlapping requests. What a handler loaded may be stale, but it
was a good row once, and stays one: `Loaded` says so, with the facts that no
other request can take away (absorbed memories stay gone, the source of a merge
is stored or gone). What it computes is therefore a write of the row it loaded
(`HandlerMakes`), by the same lemmas as in the store. Its insertions then go
behind whatever is stored now: the unique event key excludes the stored events,
generated ids move with their positions (`InsertionSound`), and the outcomes of
feedback move by the same offset, while those of a merge are the source's whose
decision and form the target has no outcome for when the lock is held
(`OutcomesInserted`, `InsertionAttributed`). `CanonicalsUnique` rests on the
unique key alone. The state a stale handler writes is only known when it saw the
suppression, which is what `SuppressionSticks` says. `FreshRequestsDoSettle` is
that reconciling is stable: a state that was just promoted passes the
confirmation threshold, which is not below the demotion threshold, and one that
was just demoted passes no gate (`ReconcileSettles`); a fresh handler's
insertions are not shifted, so the state it computed is the one the stored
evidence asks for.

Argument for the import. A handler decides from what it read several steps
ago, so the invariant says what it knows by where it is (`HandlerOK`): from
its lookup on, the entry it works on is not one that has been restored all
along; once taught, the entry is evidence of the memory it holds, as long as
that lives; and the row it keeps has seen nothing that the stored row has not.
With `RestoredOK` (what was restored is evidence) the lookup finds every entry
that was restored all along, which is `RestoredEntriesAreKept`. A step of one
handler that writes nothing, one that writes, and one of the user are three
lemmas (`ReadResult`, `WriteResult`, `UpdateResult` and `DeleteResult`), each of
which shows that the other handlers keep what they know (`OthersKept`): rows only
grow or are erased (`RowStep`), and `known` loses what was erased. For a
replacement nobody disturbs, `AloneOK` adds what the one active handler has made
of each entry before its own, and that its session holds nothing stale;
`Unrestored` says that an entry taught and not restored is one of a handler at
work on it or of one that ended there.

Argument for inference. The invariant is about candidates_by_key: for each key
nothing, or what scoring made of a route of this request (`RetainedInv`), and
none scored so far is better (`BestInv`). When the loops end, the features
arbitrated are the best ones (`BestIsRetained`), and every step of the request
is one of `Arbitration` or a stutter; the next request starts it again. Its
typing needs that every signal stays in the scale (`ScoredType`), hence bounds for
sums over finite sets, cosines and quotients, and that distinct names make keys
distinct. A rejection whose embedding is kept is honoured because its own example is
the nearest there is to the same text (`JudgedInv`), so its similarity is the whole scale and its
blocker holds whatever was learned, and because a pass visits only what no blocker
stops (`PassInv`). For hints and collisions the lemmas go through the texts: where
a match lies, in the text (`CandidateIn`) or mapped to it from an alternative
(`AlternativeIn`), what its words are (`ExactMatch`), and that the sorting of the hints keeps the foremost
(`SortedLists`).

Rendering. A left fold is a function on the parts of the list's domain, which
exists (`FoldingExists`) and goes from one element to the next (`FoldingRuns`).
The splicing of `_render_winners` and the weaving that `RenderedFaithfully` states
are two such runs. The invariant of the first is `SplicedFrom`: up to the start of
the last edit put in, the text is still the transcript's, and what follows is what
the weave adds from there. An edit further left keeps it because the winners are
apart (`Apart`), which the selection sees to (`AnswerInv`, `WinnersApart`).

Argument for the replay. The calibrator decides again from a trace whose
blockers the active pass has added to, with a loop of its own. First, what the
trace says: `OutcomesFollow` gives the action and the blockers of every candidate
from the scores and the winners, `SelectedInv` carries it and the invariant of
`ArbitrationProofs` over to the request (from the moment the candidates are
complete the request is an arbitration, `GeneratedSelects`), and `TracedInv` keeps
it in the response through the shadow pass. Then, what the calibrator reads: the
engine's weights give each candidate its own score (`ReplayScores`), so its copies
overlap, precede and are undecided exactly as the candidates are
(`MirroredOrder`, `MirroredUndecided`). A candidate that the trace calls blocked and
scoring does not has lost by the margin: no candidate loses its span under the
active policy (`ActiveSelectionIsOrderFree`), and one that loses by the margin
loses again, since the margin is the same. That is why the extra blockers do no
harm under other thresholds (`TracedMarks`, `MirroredOutcome`); for the suggestion
of such a candidate it needs that a suggest threshold is not above the apply
threshold or is the active one, which is what the schema leaves possible
(`ThresholdsInOrder`). Last, the loop: it takes a set of decided candidates that
cross nothing taken ahead of them (`WonIsKernel`), there is only one such set
(`OneKernel`), and a pass selects it too (`SelectionIsKernel`); spliced in, it makes
the same text (`PatchingIsRendering`).

Argument for retention. `IInv` of `RetentionProofs` adds to `TypeOK` and
`EvidenceAttributed` that stored sets are finite and, while a store selects,
`EntriesOf` and `Spread`. `EntriesOf` ties the locals of the loop to the tables: the
entries are the current model's rows and the new one, whose observation no
stored row names, and at least `Cap` rows are stored. It yields both the cap,
by counting (if the entries do not fill the slots, all of them are selected and
more rows of other models exist than slots are left, so the slots are filled
exactly), and attribution after a rollback. `Spread` is the invariant of
farthest-point selection: an entry not yet selected is as near to the selection
as any two of its members are to each other. A round preserves it because the
winner is at least as far from the selection as every loser. It needs the
symmetry of the distance, which `RetentionAssumption` names, and no triangle
inequality. `IdleAssumption` only says that `Idle` is not a record.

Argument for the page. Until `released`, `busy` covers every waiting function
but the first refresh (`BusyCovers`), at most one of them submits, and the
message is about the result that is shown or about the one a waiting verdict
was given on, which no other function can replace (`Messages`). While a function
runs alone, `Relies` says what it can count on at each await: until its write is
answered the service is as it found it, and a listing it was given is the present
one; when it returns, the page shows that.

Argument for the choice of a policy. The keys of two configurations differ
because their texts do, and tuples that differ compare one way, so the loop keeps
a greatest key. The candidate is the greatest threshold without a wrong edit and the
active one the greatest of those that are safe too, so they are the same exactly
when the candidate is safe; that is also what promotion asks, unless the
threshold in use was wrong itself.

Argument for the holdout. The invariant follows an opening through its files:
from the receipt on, the directory names the sealed dataset and belongs to one
command; without overlap, a started evaluation means a seal that is cited or
unreadable, which no later command opens.

Only model-checked: liveness (`SelectionEnds`, `ImportsEnd`, `BusyEnds`) and
whatever needs ENABLED, which the prover does not reason about. Every invariant
that a passing run checks is also proved. Induction over data: the library's induction theorems
cannot be instantiated here, but where a property is one of finitely many things
the proofs take a least counterexample instead (`NatLeast`); sums and sorted
lists are treated so. RECURSIVE operators stay out of the modules that are proved
about.

## 6. Abstractions

Scores are integers; the code compares doubles, so `score - runner_up < 0.12`
at exactly 0.12 may differ from the model. Trust compares integers by
cross-multiplication and is exact for the shipped integer weights. User ids,
timestamps, notes, formatting and logging are left out; every request is about
one user, and no query of the code crosses users. Requests refused before they
touch the store (404, validation, rename onto a taken form) change nothing.
An observation of `SemanticRetention` has one context. A teach request that
carries an accepted text but no formatted one is left out: its handler embeds
the accepted text (1402), a later backfill the raw one or none
(`scripts/backfill_semantic.py` 40).

`PortableImport` leaves out the decision traces that replace mode deletes, and
takes the memories before the last one of an import as gone from its session
(the identity map holds them weakly). `Inference` judges one candidate once;
what a verdict makes of the state is left open: a suppressed memory stays so, any
other may come out a candidate or confirmed, and a rejection may suppress
(`Reconciled`), which covers whatever `Trust` derives from the evidence. Contexts
are embedded once per exact text, where the code compares normalized ones, and
which embeddings a full polarity keeps is any choice of as many as the cap. `WebClient`
leaves out the contents of forms and lists.

## 7. What is left

The learned route of `Scoring` over longer histories of outcomes; a replay under
thresholds whose margin is not the calibrator's, which the code does not promise;
the hazards of `PROJECT.json` that no property covers, each with
its reason.

## 8. Not modelled

- Semantic encoder: a model loaded lazily per process and one error flag that
  only the status page shows; a missing vector is a choice made outside in
  `ContextEvidence` and `SemanticRetention`.
- The counters of the metrics page: sums under one lock that nothing else reads.
- Policy calibration beyond replay, search and gates: the files of the corpora,
  the reports, and the rounding of float sums, which may break a tie.
- Migrations: run once; the constraints they create are those of `models.py`.
- Evaluation suites and operator scripts: sequential clients of the API.
- Generated results, the benchmark data, the page's layout; string distances,
  phonetic keys and embeddings, library calls whose values are data here.
