-------------------------- MODULE ContextEvidence --------------------------
(***************************************************************************)
(* What a memory has learned about the contexts of its surface forms, and  *)
(* how like them a new context is (engine.py, extract_context_features,    *)
(* context_similarity, semantic_context_text, semantic_context_similarity).*)
(*                                                                         *)
(* An observation left context rows for the words around its span and, if  *)
(* the encoder answered, one embedding of the masked text.  Both follow    *)
(* from the observed text and span, which is all that is kept here.        *)
(* Weights are hundredths, similarities thousandths, and square roots are  *)
(* rounded down, so a similarity errs upwards by less than two percent.    *)
(***************************************************************************)
EXTENDS TextSpans

CONSTANTS
    IgnoredTerm,        \* stopwords, numbers and single letters
    Resemblance(_, _),  \* cosine of the embeddings of two masked texts
    SemanticFloor       \* SEMANTIC_SIMILARITY_FLOOR

Window == 6             \* CONTEXT_WINDOW_TOKENS

Abs(n) == IF n < 0 THEN -n ELSE n

Root(n) == CHOOSE r \in 0 .. n : r * r <= n /\ n < (r + 1) * (r + 1)

(* The sum of the values of a function.                                    *)
Total(f) == FoldFunction(+, 0, f)

-----------------------------------------------------------------------------
(* The terms around the span: [at |-> token index, term, weight], from     *)
(* left to right.  A term loses weight with its distance from the span;    *)
(* around a span without a token all terms count the same.                 *)
UsefulAmong(tokens, text, span) ==
    LET source == {i \in DOMAIN tokens : Meet(tokens[i], span)}
        Distance(i) == Min({Abs(i - s) : s \in source})
        near == {i \in DOMAIN tokens \ source :
                    /\ source = {} \/ Distance(i) <= Window
                    /\ Slice(text, tokens[i]) \notin IgnoredTerm}
        Weighed(i) == [at |-> i, term |-> Slice(text, tokens[i]),
                       weight |-> IF source = {} THEN 70
                                  ELSE Max({55, 100 - 8 * (Distance(i) - 1)})]
        order == Sorted(near, {p \in near \X near : p[1] < p[2]})
    IN  [k \in DOMAIN order |-> Weighed(order[k])]

Useful(text, span) == UsefulAmong(Tokens(text), text, span)

(* extract_context_features: a weight for every term and for every two     *)
(* useful terms at most two tokens apart; the last occurrence counts.      *)
Weights(useful) ==
    LET terms == {[name |-> <<useful[k].term>>, at |-> k, weight |-> useful[k].weight] :
                     k \in DOMAIN useful}
        pairs == {[name |-> <<useful[k].term, useful[k + 1].term>>, at |-> k,
                   weight |-> (125 * Min({useful[k].weight, useful[k + 1].weight})) \div 100] :
                     k \in {j \in 1 .. Len(useful) - 1 : useful[j + 1].at - useful[j].at <= 2}}
        found == terms \cup pairs
        Latest(name) == CHOOSE o \in found :
            o.name = name /\ \A p \in found : p.name = name => p.at <= o.at
    IN  [name \in {o.name : o \in found} |-> Latest(name).weight]

Features(text, span) == Weights(Useful(text, span))

About(evidence, polarity) == {i \in DOMAIN evidence : evidence[i].polarity = polarity}

(* profile[feature] += weight over the context rows of one polarity.       *)
Totals(rows) ==
    [f \in UNION {DOMAIN rows[i] : i \in DOMAIN rows} |->
        Total([i \in {o \in DOMAIN rows : f \in DOMAIN rows[o]} |-> rows[i][f]])]

Profile(evidence, polarity) ==
    Totals([i \in About(evidence, polarity) |-> Features(evidence[i].text, evidence[i].span)])

Dot(u, v) == Total([f \in DOMAIN u \cap DOMAIN v |-> u[f] * v[f]])

(* context_similarity: the cosine of the profile and the present features. *)
Cosine(profile, current) ==
    IF DOMAIN profile = {} \/ DOMAIN current = {} THEN 0
    ELSE LET norms == Root(Dot(profile, profile)) * Root(Dot(current, current))
         IN  Min({1000, (1000 * Dot(profile, current)) \div Max({1, norms})})

SparseSimilarity(evidence, polarity, text, span) ==
    Cosine(Profile(evidence, polarity), Features(text, span))

-----------------------------------------------------------------------------
(* semantic_context_text: the surface form gives way to a placeholder.     *)
Masked(text, span) ==
    SubSeq(text, 1, span[1]) \o <<"[TERM]">> \o SubSeq(text, span[2] + 1, Len(text))

(* semantic_context_similarity and its normalization: the nearest stored   *)
(* example counts, above the floor.  encoder says that it answers now.     *)
SemanticSimilarity(evidence, polarity, text, span, encoder) ==
    LET cosines == {Resemblance(Masked(evidence[i].text, evidence[i].span), Masked(text, span)) :
                       i \in {o \in About(evidence, polarity) : evidence[o].embedded}}
    IN  IF ~encoder \/ cosines = {} THEN 0
        ELSE Max({0, ((Max(cosines) - SemanticFloor) * 1000) \div (1000 - SemanticFloor)})

(* positive_similarity and negative_similarity of a candidate.             *)
ContextSimilarity(evidence, polarity, text, span, encoder) ==
    Max({SparseSimilarity(evidence, polarity, text, span),
         SemanticSimilarity(evidence, polarity, text, span, encoder)})

(* has_sparse_positive or semantic_positive_count > 0.                     *)
HasPositiveProfile(evidence, encoder) ==
    \E i \in DOMAIN evidence :
        /\ evidence[i].polarity = "positive"
        /\ \/ DOMAIN Features(evidence[i].text, evidence[i].span) # {}
           \/ evidence[i].embedded /\ encoder
=============================================================================
