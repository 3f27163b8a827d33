------------------------------ MODULE Scoring ------------------------------
(***************************************************************************)
(* The score and the blockers of one candidate edit (engine.py,            *)
(* _asr_reliability and _score_candidate under the shipped structure:      *)
(* legacy_double, exact_route, boolean authorization).                     *)
(*                                                                         *)
(* Signals and scores are thousandths.  A memory is a record with the      *)
(* fields canonical, variants, state, scope, evidence and outcomes; a      *)
(* route is one way a surface form of the text was matched to a variant.   *)
(***************************************************************************)
EXTENDS ContextEvidence

CONSTANTS
    LexicalWeight, AuthorizationWeight, ContextWeight, PhoneticWeight,
    AlternativeWeight, LearnedWeight, NegativeWeight,       \* policy weights
    Power(_),               \* min(1, 1.2 * p ** 0.35), the context transform
    AsrAlpha, AsrBeta,      \* ASR_PRIOR_ALPHA, ASR_PRIOR_BETA
    AsrMinimum,             \* ASR_MINIMUM_OUTCOMES
    MinPositive,            \* MIN_POSITIVE_CONTEXT_SIMILARITY
    NegativeBlock,          \* NEGATIVE_CONTEXT_BLOCK_THRESHOLD
    NoAsr                   \* a request or a route without ASR metadata

(* The outcomes of exactly this provider, model, rank and confusion.       *)
Reliable(memory, asr, source) ==
    {i \in DOMAIN memory.outcomes :
        /\ memory.outcomes[i].asr = asr
        /\ memory.outcomes[i].source = source
        /\ memory.outcomes[i].target = memory.canonical}

(* _asr_reliability: the posterior of a route, nothing while it is cold.   *)
LearnedSignal(memory, asr, source) ==
    LET matches == Reliable(memory, asr, source)
        accepted == {i \in matches : memory.outcomes[i].accepted}
    IN  IF asr = NoAsr \/ Cardinality(matches) < AsrMinimum THEN 0
        ELSE (1000 * (AsrAlpha + Cardinality(accepted)))
                \div (AsrAlpha + AsrBeta + Cardinality(matches))

ContextSignal(scope, positive) == IF scope = "global" THEN 1000 ELSE Power(positive)

Contradicts(positive, negative) == negative >= NegativeBlock /\ negative >= positive

(* The blockers of a candidate; MEMORY_NOT_CONFIRMED and the two blockers  *)
(* for want of context are one class.                                      *)
Blockers(memory, positive, negative, encoder) ==
    (IF \/ memory.state # "confirmed"
        \/ /\ memory.scope = "contextual"
           /\ ~HasPositiveProfile(memory.evidence, encoder) \/ positive < MinPositive
     THEN {"ELIGIBILITY"} ELSE {})
    \cup (IF Contradicts(positive, negative) THEN {"NEGATIVE_CONTEXT_EVIDENCE"} ELSE {})

(* The features of the candidate that route yields in text, as the trace   *)
(* keeps them.                                                             *)
Signals(memory, text, route, encoder) ==
    LET surface == Slice(text, route.span)
        positive == ContextSimilarity(memory.evidence, "positive", text, route.span, encoder)
    IN  [lexical |-> Max({Similarity(surface, route.variant), (96 * route.confidence) \div 100}),
         authorized |-> IF memory.state = "confirmed" THEN 1000 ELSE 0,
         positive |-> positive,
         negative |-> ContextSimilarity(memory.evidence, "negative", text, route.span, encoder),
         scope |-> memory.scope,
         phonetic |-> IF Sounds(surface) = Sounds(route.variant) THEN 1000 ELSE 0,
         confidence |-> route.confidence,
         learned |-> LearnedSignal(memory, route.asr, surface)]

Clamped(raw) == Max({0, Min({1000, raw})})

(* _score_candidate: the weighted sum of the signals.                      *)
Score(s) ==
    Clamped((LexicalWeight * s.lexical + AuthorizationWeight * s.authorized
             + ContextWeight * ContextSignal(s.scope, s.positive)
             + PhoneticWeight * s.phonetic + AlternativeWeight * s.confidence
             + LearnedWeight * s.learned - NegativeWeight * s.negative) \div 100)

(* What Arbitration is told of the candidate that route yields in text.    *)
Appraised(memory, span, s, encoder) ==
    [start |-> span[1], end |-> span[2],
     score |-> Score(s), pos |-> s.positive, neg |-> s.negative, name |-> memory.name,
     blockers |-> Blockers(memory, s.positive, s.negative, encoder)]

Scored(memory, text, route, encoder) ==
    Appraised(memory, route.span, Signals(memory, text, route, encoder), encoder)
=============================================================================
