----------------------------- MODULE Calibration -----------------------------
(***************************************************************************)
(* How a policy is chosen from replays.  calibrate_v7_policy.py searches a *)
(* space of configurations on the calibration corpus, fixes one, and opens *)
(* the safety corpus only then; calibrate_policy.py, before it, froze the  *)
(* apply threshold and decided whether it may be promoted.  Both judge a   *)
(* policy by a PolicyReplay of each row, with margins of their own.        *)
(*                                                                         *)
(* Thresholds are in thousandths, weights in percent.  Sums are exact: the *)
(* floats of the program may break a tie that is none here.                *)
(***************************************************************************)
EXTENDS Integers, Sequences, FiniteSets, Ordering

CONSTANTS
    Row,            \* what static_rows and journey_rows make of a decision: its
                    \* candidates, and the trace, which lists them
    Corpus,         \* the calibration rows: static traces, then journeys
    SafetyCorpus,   \* the rows of the safety gate
    Configurations, \* configurations(): the product of SEARCH_SPACE, in its order
    Baseline,       \* BASELINE
    Minimum, Maximum, Increment,\* --minimum, --maximum, --step
    Usual,          \* --baseline-threshold
    Curve(_, _),    \* the roots of context_signal
    Rank(_)         \* where the JSON text of a configuration stands among all

Configuration ==
    [transform : STRING, lexical : Nat, authorization : Nat, context : Nat, phonetic : Nat,
     alternative : Nat, learned : Nat, negative : Nat, apply : Nat, suggest : Nat]

(* A trace lists every candidate once, and no two of them put the same     *)
(* name in the same place.  Dumped with sorted keys, two configurations    *)
(* have different texts.                                                   *)
ASSUME CalibrationAssumption ==
    /\ \A row \in Row :
          /\ IsFiniteSet(row.candidates) /\ row.trace \in Seq(row.candidates)
          /\ \A c \in row.candidates : \E n \in DOMAIN row.trace : row.trace[n] = c
          /\ Len(row.trace) = Cardinality(row.candidates)
          /\ \A c, d \in row.candidates :
                c.start = d.start /\ c.end = d.end /\ c.name = d.name => c = d
    /\ Corpus \in Seq(Row) /\ SafetyCorpus \in Seq(Row)
    /\ Configurations \in Seq(Configuration) /\ Configurations # <<>>
    /\ \A n \in DOMAIN Configurations : Rank(Configurations[n]) \in Nat
    /\ \A n, k \in DOMAIN Configurations :
          Rank(Configurations[n]) = Rank(Configurations[k]) => Configurations[n] = Configurations[k]
    /\ Baseline \in Configuration
    /\ {Minimum, Maximum, Usual} \subseteq Nat /\ Increment \in Nat \ {0} /\ Minimum <= Maximum

(* What the results of the rows come to.                                   *)
Tally(rows, results) ==
    LET Exact(i) == results[i].output = rows[i].expected_output IN
    [exact |-> Cardinality({i \in DOMAIN rows : Exact(i)}),
     actions |-> Cardinality({i \in DOMAIN rows : results[i].action = rows[i].expected_action}),
     wrong |-> Cardinality({i \in DOMAIN rows : results[i].intervened /\ ~Exact(i)}),
     useful |-> Cardinality({i \in DOMAIN rows : results[i].intervened /\ Exact(i)})]

(* Tuples compare by the first place in which they differ.                 *)
Exceeds(k, l) == \E p \in DOMAIN k : k[p] > l[p] /\ \A q \in 1 .. p - 1 : k[q] = l[q]

-----------------------------------------------------------------------------
(* calibrate_v7_policy.py                                                  *)
V7 == INSTANCE PolicyReplay WITH ReplayMargin <- 120, ReplayFloor <- 200, ReplayAdvantage <- 150

Replays(rows, config) == [i \in DOMAIN rows |-> V7!Replayed(rows[i], config)]

(* The places in the traces of all rows.                                   *)
Places(rows) == UNION {{i} \X DOMAIN rows[i].trace : i \in DOMAIN rows}

(* calibration_raw_score, in hundred-thousandths, and the score.           *)
Raw(c, config) == V7!RawScore(c.signals, config)

Clamp(raw) == IF raw < 0 THEN 0 ELSE IF raw > 100000 THEN 100000 ELSE raw

UpperClamped(rows, config) ==
    Cardinality({p \in Places(rows) : Raw(rows[p[1]].trace[p[2]], config) > 100000})

(* The order in which simulate leaves the candidates, and raw_scores.      *)
Resorted(row, config) ==
    LET Scored(c) == [c EXCEPT !.score = Clamp(Raw(c, config))] IN
    Sorted(row.candidates,
           {p \in row.candidates \X row.candidates : V7!Ahead(Scored(p[1]), Scored(p[2]))})

(* A score within 0.0025 of the apply threshold at a place where the trace *)
(* has a candidate without blockers.  The program pairs the re-sorted      *)
(* scores with the candidates as the trace lists them: where a             *)
(* configuration reorders them the score is another candidate's.           *)
AtBoundary(row, n, config) ==
    /\ row.trace[n].blockers = {}
    /\ Clamp(Raw(Resorted(row, config)[n], config)) - 100 * config.apply \in -249 .. 249

NearBoundary(rows, config) ==
    Cardinality({p \in Places(rows) : AtBoundary(rows[p[1]], p[2], config)})

(* The replay must come to what the engine did, or nothing is calibrated.  *)
Reproduced ==
    LET replayed == Tally(Corpus, Replays(Corpus, Baseline))
        observed == Tally(Corpus,
            [i \in DOMAIN Corpus |-> [output |-> Corpus[i].engine_output,
                                      action |-> Corpus[i].engine_action,
                                      intervened |-> Corpus[i].engine_action = "apply"]])
    IN  \A m \in {"exact", "actions", "wrong"} : replayed[m] = observed[m]

PositiveWeights(c) ==
    c.lexical + c.authorization + c.context + c.phonetic + c.alternative + c.learned

BaselineDistance(c) ==
    LET Off(k) == IF c[k] > Baseline[k] THEN c[k] - Baseline[k] ELSE Baseline[k] - c[k] IN
    10 * (Off("lexical") + Off("authorization") + Off("context") + Off("phonetic")
          + Off("alternative") + Off("learned") + Off("negative"))
    + Off("apply") + Off("suggest") + (IF c.transform = Baseline.transform THEN 0 ELSE 1000)

SelectionKey(config) ==
    LET t == Tally(Corpus, Replays(Corpus, config)) IN
    <<-t.wrong, -NearBoundary(Corpus, config), t.exact, t.actions, t.useful,
      -UpperClamped(Corpus, config), config.apply, -PositiveWeights(config),
      -BaselineDistance(config), Rank(config)>>

(* selected, when the first n configurations have been searched.           *)
SelectedAmong[n \in DOMAIN Configurations] ==
    IF n = 1 THEN Configurations[1]
    ELSE IF Exceeds(SelectionKey(Configurations[n]), SelectionKey(SelectedAmong[n - 1]))
    THEN Configurations[n]
    ELSE SelectedAmong[n - 1]

Selected == SelectedAmong[Len(Configurations)]

Status ==
    IF Tally(SafetyCorpus, Replays(SafetyCorpus, Selected)).wrong = 0
    THEN "safety_pass" ELSE "rejected_by_safety"

-----------------------------------------------------------------------------
(* calibrate_policy.py                                                     *)
V6 == INSTANCE PolicyReplay WITH ReplayMargin <- 120, ReplayFloor <- 150, ReplayAdvantage <- 150

(* thresholds(minimum, maximum, step)                                      *)
Search == {t \in Minimum .. Maximum : (t - Minimum) % Increment = 0}

(* Recorded scores under another apply threshold.                          *)
Simulated(row, apply) ==
    V6!Settled(row.text,
               {V6!Acted(c, c.score, [apply |-> apply, suggest |-> 720]) : c \in row.candidates})

Metrics(rows, apply) == Tally(rows, [i \in DOMAIN rows |-> Simulated(rows[i], apply)])

Merit(apply) ==
    LET t == Metrics(Corpus, apply) IN <<t.exact, t.actions, apply>>

Foremost(S) == CHOOSE t \in S : \A o \in S \ {t} : Exceeds(Merit(t), Merit(o))

SafeAt(apply) ==
    /\ Metrics(SafetyCorpus, apply).wrong <= Metrics(SafetyCorpus, Usual).wrong
    /\ Metrics(SafetyCorpus, apply).exact >= Metrics(SafetyCorpus, Usual).exact

CalibrationEligible == {t \in Search : Metrics(Corpus, t).wrong = 0}

Eligible == {t \in CalibrationEligible : SafeAt(t)}

CalibrationCandidate == Foremost(CalibrationEligible)

(* The threshold that is reported as active; none when nothing is safe.    *)
ActiveThreshold == Foremost(Eligible)

PromotionAllowed ==
    /\ Metrics(Corpus, CalibrationCandidate).wrong <= Metrics(Corpus, Usual).wrong
    /\ Metrics(Corpus, CalibrationCandidate).exact >= Metrics(Corpus, Usual).exact
    /\ SafeAt(CalibrationCandidate)

-----------------------------------------------------------------------------
(* The first rules of selection: no configuration that was searched makes  *)
(* fewer wrong interventions, and none that ties with the selected one     *)
(* has fewer scores at the apply boundary, as the program counts them.     *)
SelectedIsBest ==
    \A n \in DOMAIN Configurations :
        Configurations[n] = Selected
        \/ Exceeds(SelectionKey(Selected), SelectionKey(Configurations[n]))

(* While the active threshold makes no wrong intervention on the corpus,   *)
(* the gate finds a threshold at least as good on both corpora, and the    *)
(* candidate is promoted just when it becomes the active one.              *)
GateAgrees ==
    (Usual \in Search /\ Metrics(Corpus, Usual).wrong = 0) =>
        /\ ActiveThreshold \in Eligible
        /\ Metrics(Corpus, ActiveThreshold).exact >= Metrics(Corpus, Usual).exact
        /\ PromotionAllowed <=> ActiveThreshold = CalibrationCandidate
=============================================================================
