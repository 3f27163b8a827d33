----------------------------- MODULE Inference -----------------------------
(***************************************************************************)
(* One inference request from the transcript to the answer, the user's     *)
(* verdict on one of its candidates, and the same transcript again         *)
(* (engine.py, infer, _render_winners, _decision_action, _counterfactual   *)
(* and the learning half of apply_decision_feedback).                      *)
(*                                                                         *)
(* TextSpans finds the routes, Scoring weighs them, and the selection is   *)
(* that of Arbitration, instantiated.  Arbitration works on a fixed set of *)
(* candidates; here they are the keys (memory, start, end), and a key for  *)
(* which nothing was retained is parked beyond the text, where it meets no *)
(* other candidate of a span and can win nothing.                          *)
(***************************************************************************)
EXTENDS Scoring, Retrieval, PolicyReplay

CONSTANTS
    Memory,
    Store,                  \* the stores a request may find: [Memory -> record]
    Body,                   \* the request bodies
    Asr,                    \* ASR metadata: provider, model and rank
    MaxLength,              \* bound: symbols of a text
    SemanticCap,            \* semantic_evidence_cap
    Active, Unset, ShadowRequest, MinConflictPositive, MinAdvantage

Text == Seq(Word \cup Separator)

EvidenceType ==
    [polarity : {"positive", "negative"}, text : Text, span : Nat \X Nat, embedded : BOOLEAN]

OutcomeType == [asr : Asr, source : Text, target : Text, accepted : BOOLEAN]

MemoryType ==
    [name : Nat, canonical : Text, variants : SUBSET (Text \ {<<>>}),
     state : {"candidate", "confirmed", "suppressed"}, scope : {"global", "contextual"},
     evidence : Seq(EvidenceType), outcomes : Seq(OutcomeType)]

AlternativeType == [text : Text, asr : Asr, confidence : 0 .. 1000]

BodyType ==
    [text : Text, alternatives : Seq(AlternativeType), asr : Asr \cup {NoAsr},
     shadow : ShadowRequest \cup {Unset}, encoder : BOOLEAN]

(* The spans of a text, and the texts of which embeddings are compared.    *)
SpansOf(text) == {sp \in (0 .. Len(text)) \X (0 .. Len(text)) : sp[1] < sp[2]}

AskedContexts == UNION {{Masked(b.text, sp) : sp \in SpansOf(b.text)} : b \in Body}

LearnedContexts ==
    UNION {UNION {{Masked(st[m].evidence[i].text, st[m].evidence[i].span) :
                      i \in DOMAIN st[m].evidence} : m \in Memory} : st \in Store}

Contexts == AskedContexts \cup LearnedContexts

(* What scoring may make of a route.                                       *)
Appraisal ==
    {f \in [start : Nat, end : Nat, score : 0 .. 1000, pos : 0 .. 1000, neg : 0 .. 1000,
            name : Nat, blockers : SUBSET {"ELIGIBILITY", "NEGATIVE_CONTEXT_EVIDENCE"}] :
        f.start < f.end}

Key == {k \in Memory \X (0 .. MaxLength) \X (0 .. MaxLength) : k[2] < k[3]}

VARIABLES
    memories,   \* the memories of the user
    body,       \* the request being served
    stage,      \* how far infer has come
    offers,     \* every scored route of the request
    pending,    \* those the loops have not reached yet
    kept,       \* candidates_by_key: the route retained for each key
    answer,     \* the response
    judged,     \* the candidate the user judged, how, and whether its context
                \* could be stored and was
    features, thresholds, request, pass, running, todo, action, blockers, winners

selectionVars == <<features, thresholds, request, pass, running, todo, action, blockers, winners>>
vars == <<memories, body, stage, offers, pending, kept, answer, judged, selectionVars>>

NoRoute == [index |-> 0]
NoAnswer == [text |-> <<>>, action |-> "none", trace |-> {}, shadowText |-> <<>>,
             shadowAction |-> "none"]
NoVerdict == [accepted |-> TRUE, key |-> <<>>, room |-> FALSE, stored |-> FALSE]

Parked(mems, k) ==
    [start |-> k[2] + MaxLength, end |-> k[3] + MaxLength, score |-> 0, pos |-> 0, neg |-> 0,
     name |-> mems[k[1]].name, blockers |-> {"ELIGIBILITY"}]

Selection == INSTANCE Arbitration WITH
    Candidate <- Key, MaxGrade <- 1000, Feature <- Appraisal

(* Names are the ranks of canonical forms, which a user's memories do not  *)
(* share; the request schema refuses thresholds that are out of order.     *)
ASSUME InferenceAssumption ==
    /\ IsFiniteSet(Memory) /\ MaxLength \in Nat /\ MaxHints \in Nat
    /\ SemanticCap \in Nat \ {0}
    /\ Store \subseteq [Memory -> MemoryType] /\ Body \subseteq BodyType
    /\ \A st \in Store : \A m, o \in Memory : st[m].name = st[o].name => m = o
    /\ \A b \in Body :
          /\ Len(b.text) <= MaxLength
          /\ b.shadow # Unset => Selection!ValidShadowRequest(b.shadow)

(* What the libraries, the encoder and the policy give stays within the    *)
(* scale, and the encoder finds a context most like itself.                *)
ASSUME SignalsAssumption ==
    /\ \A b \in Body, st \in Store, m \in Memory : \A sp \in SpansOf(b.text), v \in st[m].variants :
          Similarity(Slice(b.text, sp), v) \in 0 .. 1000
    /\ \A c, d \in Contexts : Resemblance(c, d) \in -1000 .. 1000
    /\ \A c \in Contexts : Resemblance(c, c) = 1000
    /\ \A p \in 0 .. 1000 : Power(p) \in 0 .. 1000
    /\ {LexicalWeight, AuthorizationWeight, ContextWeight, PhoneticWeight, AlternativeWeight,
        LearnedWeight, NegativeWeight, AsrAlpha} \subseteq Nat
    /\ AsrBeta \in Nat \ {0}
    /\ SemanticFloor \in 0 .. 999 /\ NegativeBlock \in 0 .. 1000

(* The shipped policy: nothing scored leads by the winner margin of the    *)
(* apply threshold, and the calibrator was given the same three constants  *)
(* and the same context curve as the engine.                               *)
ASSUME ReplayAssumption ==
    /\ Active \in Selection!Thresholds
    /\ Active.suggest <= Active.apply /\ Active.apply + Active.margin > 1000
    /\ ShadowRequest \subseteq Selection!ShadowRequestType /\ Unset \notin 0 .. 1000
    /\ MinConflictPositive \in 0 .. 1000 /\ MinAdvantage \in 1 .. 1000
    /\ ReplayMargin = Active.margin
    /\ ReplayFloor = MinConflictPositive
    /\ ReplayAdvantage = MinAdvantage
    /\ \A p \in 0 .. 1000 : Curve("legacy_power_035", p) = Power(p)

-----------------------------------------------------------------------------
(* The variants that are looked for.                                       *)
Sought(mems) == UNION {{<<m, v>> : v \in mems[m].variants} : m \in Retrievable(mems)}

(* The matches of the formatted text itself, under the ASR metadata of the *)
(* request.                                                                *)
DirectRoutes(mems, b) ==
    UNION {{[memory |-> q[1], variant |-> q[2], span |-> f.span, method |-> f.method,
             index |-> 0, confidence |-> 0, asr |-> b.asr] :
               f \in CandidateSpans(b.text, q[2])} : q \in Sought(mems)}

(* The matches of the N-best alternatives, mapped back to the text.        *)
AlternativeRoutes(mems, b) ==
    UNION {{[memory |-> q[1][1], variant |-> q[1][2], span |-> f.span,
             method |-> "asr_alternative", index |-> q[2],
             confidence |-> b.alternatives[q[2]].confidence, asr |-> b.alternatives[q[2]].asr] :
               f \in AlternativeSpans(b.text, b.alternatives[q[2]].text, q[1][2])} :
           q \in Sought(mems) \X DOMAIN b.alternatives}

(* What the two loops will score; text that already is canonical is left.  *)
Offers(mems, b) ==
    {[key |-> <<r.memory, r.span[1], r.span[2]>>, route |-> r,
      feature |-> Scored(mems[r.memory], b.text, r, b.encoder)] :
        r \in {x \in DirectRoutes(mems, b) \cup AlternativeRoutes(mems, b) :
                  Slice(b.text, x.span) # mems[x.memory].canonical}}

(* The thresholds of a request.                                            *)
ThresholdsOf(b) ==
    [active |-> Active,
     shadow |-> IF b.shadow = Unset THEN Active ELSE Selection!Resolve(b.shadow)]

Idle == [k \in Key |-> "abstain"]

Init ==
    /\ memories \in Store
    /\ body \in Body
    /\ stage = "score"
    /\ offers = Offers(memories, body)
    /\ pending = offers
    /\ kept = [k \in Key |-> NoRoute]
    /\ answer = NoAnswer
    /\ judged = NoVerdict
    /\ features = [k \in Key |-> Parked(memories, k)]
    /\ thresholds = ThresholdsOf(body)
    /\ request = body.shadow
    /\ pass = "active"
    /\ running = FALSE
    /\ todo = {}
    /\ action = Idle
    /\ blockers = [k \in Key |-> {}]
    /\ winners = [p \in Selection!Pass |-> {}]

-----------------------------------------------------------------------------
(* The loops go memory by memory, first through the text, then through the *)
(* alternatives in their order.                                            *)
Due(o) ==
    /\ \A q \in pending : q.key[1] = o.key[1] => o.route.index <= q.route.index
    /\ \A d \in offers \ pending : \A q \in pending : q.key[1] = d.key[1] => d.key[1] = o.key[1]

(* Mistake: the last route to a span is retained.                          *)
Supersedes_Latest(o) == TRUE

(* previous is None or candidate.score > previous.score                    *)
Supersedes(o) == kept[o.key] = NoRoute \/ o.feature.score > features[o.key].score

ScoreRoute(o) ==
    /\ stage = "score"
    /\ o \in pending
    /\ Due(o)
    /\ pending' = pending \ {o}
    /\ features' = IF Supersedes(o) THEN [features EXCEPT ![o.key] = o.feature] ELSE features
    /\ kept' = IF Supersedes(o) THEN [kept EXCEPT ![o.key] = o.route] ELSE kept
    /\ UNCHANGED <<memories, body, stage, offers, answer, judged, thresholds, request, pass,
                   running, todo, action, blockers, winners>>

(* base_candidates is complete.                                            *)
Generated ==
    /\ stage = "score"
    /\ pending = {}
    /\ stage' = "active"
    /\ blockers' = [k \in Key |-> features[k].blockers]
    /\ UNCHANGED <<memories, body, offers, pending, kept, answer, judged, features, thresholds,
                   request, pass, running, todo, action, winners>>

Select ==
    /\ pass = stage
    /\ Selection!Next
    /\ UNCHANGED <<memories, body, stage, offers, pending, kept, answer, judged>>

-----------------------------------------------------------------------------
Retained == {k \in Key : kept[k] # NoRoute}

(* Mistake: edits are spliced in from left to right.                       *)
Rendered_Forward(text, edits) ==
    FoldLeft(LAMBDA out, k : SubSeq(out, 1, k[2]) \o memories[k[1]].canonical
                                \o SubSeq(out, k[3] + 1, Len(out)),
             text, Sorted(edits, {p \in edits \X edits : p[1][2] < p[2][2]}))

(* _render_winners: the edits are spliced in from right to left.           *)
Rendered(text, edits) ==
    FoldLeft(LAMBDA out, k : SubSeq(out, 1, k[2]) \o memories[k[1]].canonical
                                \o SubSeq(out, k[3] + 1, Len(out)),
             text, Sorted(edits, {p \in edits \X edits : p[1][2] > p[2][2]}))

DecisionAction(p) ==
    IF winners[p] # {} THEN "apply"
    ELSE IF \E k \in Retained : action[k] = "suggest" THEN "suggest" ELSE "abstain"

(* _counterfactual: why a candidate was not applied.                       *)
Reason(k) ==
    IF action[k] = "apply" THEN "ELIGIBLE_AND_SELECTED"
    ELSE IF blockers[k] # {} THEN "BLOCKED"
    ELSE IF features[k].score < Active.apply THEN "BELOW_APPLY_THRESHOLD"
    ELSE "NOT_SELECTED"

(* The candidates of the trace, after the active pass.                     *)
Traced ==
    {[key |-> k, start |-> k[2], end |-> k[3], name |-> memories[k[1]].name,
      output |-> memories[k[1]].canonical, blockers |-> blockers[k], reason |-> Reason(k),
      signals |-> Signals(memories[k[1]], body.text, kept[k], body.encoder)] : k \in Retained}

(* The active pass is over: its output, before a shadow pass begins.       *)
Respond ==
    /\ stage = "active"
    /\ pass # "active"
    /\ stage' = IF pass = "shadow" THEN "shadow" ELSE "answered"
    /\ answer' = [answer EXCEPT !.text = Rendered(body.text, winners["active"]),
                                !.action = DecisionAction("active"),
                                !.trace = Traced]
    /\ UNCHANGED <<memories, body, offers, pending, kept, judged, selectionVars>>

RespondShadow ==
    /\ stage = "shadow"
    /\ pass = "done"
    /\ stage' = "answered"
    /\ answer' = [answer EXCEPT !.shadowText = Rendered(body.text, winners["shadow"]),
                                !.shadowAction = DecisionAction("shadow")]
    /\ UNCHANGED <<memories, body, offers, pending, kept, judged, selectionVars>>

-----------------------------------------------------------------------------
(* The candidate that feedback on (memory, start) is about: the best one.  *)
Resolved(m, s) ==
    LET found == {k \in Retained : k[1] = m /\ k[2] = s}
    IN  CHOOSE k \in found : \A o \in found \ {k} : Selection!Precedes(k, o)

(* What the verdict may make of the state.  Its evidence is the subject of *)
(* Trust: nothing moves a suppressed memory, of the others any may have    *)
(* come to be confirmed or demoted, and a rejection may ask to suppress.   *)
Reconciled(memory, accepted) ==
    {memory.state}
    \cup (IF memory.state = "suppressed" THEN {} ELSE {"candidate", "confirmed"})
    \cup (IF accepted THEN {} ELSE {"suppressed"})

PolarityOf(accepted) == IF accepted THEN "positive" ELSE "negative"

(* The stored embeddings of a polarity, by observation.                    *)
Embedded(evidence, polarity) == {i \in About(evidence, polarity) : evidence[i].embedded}

(* store_semantic_evidence goes on to store: the encoder answers, and the  *)
(* context is not among those stored.                                      *)
Storable(evidence, polarity, context, encoder) ==
    /\ encoder
    /\ \A i \in Embedded(evidence, polarity) :
          Masked(evidence[i].text, evidence[i].span) # context

HasRoom(evidence, polarity) == Cardinality(Embedded(evidence, polarity)) < SemanticCap

(* The embeddings of the polarity after the next observation: with room    *)
(* for it all of them, otherwise as many as the cap allows.  Which ones is *)
(* the subject of SemanticRetention; here any may go, the new one too.     *)
Retentions(evidence, polarity, context, encoder) ==
    LET existing == Embedded(evidence, polarity)
        entries == existing \cup {Len(evidence) + 1}
    IN  IF ~Storable(evidence, polarity, context, encoder) THEN {existing}
        ELSE IF HasRoom(evidence, polarity) THEN {entries}
        ELSE {left \in SUBSET entries : Cardinality(left) = SemanticCap}

(* The observations when only these embeddings of a polarity are left.     *)
Evicted(evidence, polarity, left) ==
    [i \in DOMAIN evidence |->
        [evidence[i] EXCEPT !.embedded = @ /\ (evidence[i].polarity = polarity => i \in left)]]

(* Mistake: the verdict's polarity is lost.                                *)
Learned_Positive(memory, k, accepted, state, left) ==
    [memory EXCEPT !.state = state,
        !.evidence = Append(Evicted(@, PolarityOf(accepted), left),
                            [polarity |-> "positive", text |-> body.text,
                             span |-> <<k[2], k[3]>>, embedded |-> Len(@) + 1 \in left])]

(* Evidence about the text that was judged, and the outcome of its route.  *)
Learned(memory, k, accepted, state, left) ==
    [memory EXCEPT !.state = state,
        !.evidence = Append(Evicted(@, PolarityOf(accepted), left),
                            [polarity |-> PolarityOf(accepted), text |-> body.text,
                             span |-> <<k[2], k[3]>>, embedded |-> Len(@) + 1 \in left]),
        !.outcomes = IF kept[k].asr = NoAsr THEN @
                     ELSE Append(@, [asr |-> kept[k].asr, accepted |-> accepted,
                                     source |-> Slice(body.text, <<k[2], k[3]>>),
                                     target |-> memory.canonical])]

(* What the verdict on k leaves in the embeddings of its memory.           *)
Judgement(memory, k, accepted, left) ==
    LET context == Masked(body.text, <<k[2], k[3]>>) IN
    [accepted |-> accepted, key |-> k,
     room |-> /\ Storable(memory.evidence, PolarityOf(accepted), context, body.encoder)
              /\ HasRoom(memory.evidence, PolarityOf(accepted)),
     stored |-> Len(memory.evidence) + 1 \in left]

(* The user judges a candidate and sends the transcript again; the encoder *)
(* may have failed or recovered.                                           *)
Judge(m, s, accepted, encoder) ==
    /\ stage = "answered"
    /\ judged = NoVerdict
    /\ \E k \in Retained : k[1] = m /\ k[2] = s
    /\ LET k == Resolved(m, s) IN
       \E state \in Reconciled(memories[m], accepted),
          left \in Retentions(memories[m].evidence, PolarityOf(accepted),
                             Masked(body.text, <<k[2], k[3]>>), body.encoder) :
          /\ memories' = [memories EXCEPT ![m] = Learned(@, k, accepted, state, left)]
          /\ judged' = Judgement(memories[m], k, accepted, left)
    /\ body' = [body EXCEPT !.encoder = encoder]
    /\ stage' = "score"
    /\ offers' = Offers(memories', body')
    /\ pending' = offers'
    /\ kept' = [k \in Key |-> NoRoute]
    /\ answer' = NoAnswer
    /\ features' = [k \in Key |-> Parked(memories', k)]
    /\ thresholds' = ThresholdsOf(body')
    /\ request' = body'.shadow
    /\ pass' = "active"
    /\ running' = FALSE
    /\ todo' = {}
    /\ action' = Idle
    /\ blockers' = [k \in Key |-> {}]
    /\ winners' = [p \in Selection!Pass |-> {}]

Next ==
    \/ \E o \in pending : ScoreRoute(o)
    \/ Generated
    \/ Select
    \/ Respond
    \/ RespondShadow
    \/ \E k \in Retained, accepted, encoder \in BOOLEAN : Judge(k[1], k[2], accepted, encoder)

Spec == Init /\ [][Next]_vars

-----------------------------------------------------------------------------
(* The best evidence for every key, whichever route it came by.            *)
BestFeatures ==
    [k \in Key |->
        LET found == {o \in offers : o.key = k} IN
        IF found = {} THEN Parked(memories, k)
        ELSE (CHOOSE o \in found : \A q \in found : q.feature.score <= o.feature.score).feature]

Best == INSTANCE Arbitration WITH
    Candidate <- Key, MaxGrade <- 1000, Feature <- Appraisal,
    features <- BestFeatures,
    blockers <- IF stage = "score" THEN [k \in Key |-> BestFeatures[k].blockers] ELSE blockers

(* A request is one arbitration between the best evidence for each edit:   *)
(* neither the order in which memories, variants and alternatives are      *)
(* scored nor what else they offer for a span makes a difference.          *)
ArbitratesBestEvidence == Best!Init /\ [][Best!Next \/ Best!Init']_(Best!vars)

(* The answer is the transcript with every winner's span replaced by its   *)
(* canonical form and everything else untouched, though replacements       *)
(* change the length of the text under the later ones.                     *)
RenderedFaithfully ==
    LET Woven(text, edits) ==
            FoldLeft(LAMBDA out, i :
                        LET starting == {k \in edits : k[2] = i - 1}
                            inside == {k \in edits : k[2] < i /\ i <= k[3]}
                        IN  out \o (IF starting # {}
                                    THEN memories[(CHOOSE k \in starting : TRUE)[1]].canonical
                                    ELSE IF inside # {} THEN <<>> ELSE <<text[i]>>),
                     <<>>, [i \in DOMAIN text |-> i])
    IN  stage = "answered" =>
            /\ answer.text = Woven(body.text, winners["active"])
            /\ request # Unset => answer.shadowText = Woven(body.text, winners["shadow"])

(* What the calibrator replays from the trace is what the engine did: the  *)
(* weights it ran with reproduce its answer, and other thresholds give the *)
(* answer the engine gives in their place, although the trace's blockers   *)
(* are those of one pass under one pair of thresholds.                     *)
Shipped(th) ==
    [transform |-> "legacy_power_035", lexical |-> LexicalWeight,
     authorization |-> AuthorizationWeight, context |-> ContextWeight, phonetic |-> PhoneticWeight,
     alternative |-> AlternativeWeight, learned |-> LearnedWeight,
     negative |-> NegativeWeight, apply |-> th.apply, suggest |-> th.suggest]

ReplayFaithful ==
    stage = "answered" =>
        LET row == [text |-> body.text, candidates |-> answer.trace]
            active == Replayed(row, Shipped(thresholds.active))
            shadow == Replayed(row, Shipped(thresholds.shadow))
        IN  /\ active.output = answer.text
            /\ active.action = answer.action
            /\ request # Unset /\ thresholds.shadow.margin = ReplayMargin
                => /\ shadow.output = answer.shadowText
                   /\ shadow.action = answer.shadowAction

(* A rejected edit is not made again in the same text while the encoder    *)
(* answers, when the rejection had room among the embeddings or was        *)
(* retained where they were full: whatever else the memory learned before, *)
(* the rejection's own embedding is the nearest example there is.  One     *)
(* that the full store drops may be forgotten.                             *)
RejectionHonoured ==
    (/\ stage = "answered"
     /\ ~judged.accepted
     /\ judged.room \/ judged.stored
     /\ body.encoder) => judged.key \notin winners["active"]

(* An edit found in the text itself was announced to the formatter, unless *)
(* the list was filled by hints that match at least as well.               *)
Announced(k, hints) ==
    \/ \E i \in DOMAIN hints : hints[i].memory = k[1]
    \/ /\ Len(hints) = MaxHints
       /\ \A i \in DOMAIN hints : Priority(hints[i].method) >= Priority(kept[k].method)

EditsWereHinted ==
    stage = "answered" =>
        \A k \in winners["active"] :
            kept[k].method \in Method => Announced(k, Hints(memories, body.text))

(* Two memories that compete for the same words by the same route are in a *)
(* collision group the user can see.                                       *)
CompetitionListed ==
    stage = "answered" =>
        \A k, o \in Retained :
            (/\ k[1] # o[1] /\ k[2] = o[2] /\ k[3] = o[3]
             /\ kept[k].method = "exact" /\ kept[o].method = "exact"
             /\ Letters(Slice(body.text, <<k[2], k[3]>>)) >= 4)
            => \E c \in Conflicts(memories) : {k[1], o[1]} \subseteq c.members
=============================================================================
