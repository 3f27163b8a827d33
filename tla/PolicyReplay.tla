---------------------------- MODULE PolicyReplay ----------------------------
(***************************************************************************)
(* The offline replay of a decision from its trace, by which a policy is   *)
(* calibrated without running the engine (calibrate_v7_policy.py, rescore, *)
(* initial_action and simulate).  It is a second copy of the selection of  *)
(* the engine, and it reads blockers that the active pass has added to.    *)
(*                                                                         *)
(* A row is a text and the candidates of its trace: records of a span, a   *)
(* name, the form they put in, the signals of Scoring and the blockers.  A *)
(* configuration gives the weights (percent), the context transform and    *)
(* the two thresholds (thousandths).                                       *)
(***************************************************************************)
EXTENDS Integers, Sequences, FiniteSets, SequencesExt, FiniteSetsExt, Ordering

CONSTANTS
    Curve(_, _),        \* the roots of context_signal, by transform, in thousandths
    ReplayMargin,       \* MINIMUM_WINNER_MARGIN
    ReplayFloor,        \* CONFLICT_CONTEXT_FLOOR
    ReplayAdvantage     \* CONFLICT_CONTEXT_ADVANTAGE

ReplayContext(signals, transform) ==
    IF signals.scope = "global" THEN 1000
    ELSE IF transform = "linear" THEN signals.positive
    ELSE Curve(transform, signals.positive)

(* calibration_raw_score, in hundred-thousandths.                          *)
RawScore(signals, config) ==
    config.lexical * signals.lexical + config.authorization * signals.authorized
    + config.context * ReplayContext(signals, config.transform)
    + config.phonetic * signals.phonetic + config.alternative * signals.confidence
    + config.learned * signals.learned - config.negative * signals.negative

Rescore(signals, config) == Max({0, Min({1000, RawScore(signals, config) \div 100})})

(* initial_action                                                          *)
FirstAction(score, blockers, config) ==
    IF score >= config.apply /\ blockers = {} THEN "apply"
    ELSE IF "NEGATIVE_CONTEXT_EVIDENCE" \in blockers THEN "abstain"
    ELSE IF score >= config.suggest THEN "suggest"
    ELSE "abstain"

(* A candidate of a trace, scored and with its first action.               *)
Acted(c, score, config) ==
    [start |-> c.start, end |-> c.end, name |-> c.name, output |-> c.output,
     signals |-> c.signals, blockers |-> c.blockers, score |-> score,
     action |-> FirstAction(score, c.blockers, config)]

Crossing(a, b) == a.start < b.end /\ b.start < a.end

Ahead(a, b) ==
    \/ a.score > b.score
    \/ /\ a.score = b.score
       /\ \/ a.start < b.start
          \/ a.start = b.start /\ a.end > b.end
          \/ a.start = b.start /\ a.end = b.end /\ a.name < b.name

Strength(c) == c.signals.positive - c.signals.negative

(* Mistake: only rivals that could be applied themselves count.            *)
Undecided_AmongEligible(c, candidates) ==
    LET rivals == {o \in candidates \ {c} : Crossing(c, o) /\ o.action = "apply"} IN
    /\ rivals # {}
    /\ c.score - Max({o.score : o \in rivals}) < ReplayMargin
    /\ ~(/\ c.signals.positive >= ReplayFloor
         /\ Strength(c) - Max({Strength(o) : o \in rivals}) >= ReplayAdvantage)

(* The margin over a rival is too small and context does not settle it.    *)
Undecided(c, candidates) ==
    LET rivals == {o \in candidates \ {c} : Crossing(c, o)} IN
    /\ rivals # {}
    /\ c.score - Max({o.score : o \in rivals}) < ReplayMargin
    /\ ~(/\ c.signals.positive >= ReplayFloor
         /\ Strength(c) - Max({Strength(o) : o \in rivals}) >= ReplayAdvantage)

(* What the loop makes of the winners so far and the next candidate.       *)
Taken(all, winners, c) ==
    IF Undecided(c, all) \/ \E w \in winners : Crossing(w, c)
    THEN winners ELSE winners \cup {c}

Won(all) ==
    FoldLeft(LAMBDA winners, c : Taken(all, winners, c), {},
             Sorted({c \in all : c.action = "apply"}, {p \in all \X all : Ahead(p[1], p[2])}))

(* The winners, spliced in from right to left.                             *)
Spliced(text, won) ==
    FoldLeft(LAMBDA out, c : SubSeq(out, 1, c.start) \o c.output \o SubSeq(out, c.end + 1, Len(out)),
             text, Sorted(won, {p \in won \X won : p[1].start > p[2].start}))

(* What becomes of a row whose candidates have their first actions.        *)
Settled(text, all) ==
    LET suggested == {c \in all : \/ c.action = "suggest"
                                  \/ c.action = "apply" /\ Undecided(c, all)}
    IN  [output |-> Spliced(text, Won(all)),
         action |-> IF Won(all) # {} THEN "apply" ELSE IF suggested # {} THEN "suggest" ELSE "abstain",
         intervened |-> Won(all) # {}]

(* simulate: the result of one row under a configuration.                  *)
Replayed(row, config) ==
    Settled(row.text, {Acted(c, Rescore(c.signals, config), config) : c \in row.candidates})
=============================================================================
