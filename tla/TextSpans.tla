----------------------------- MODULE TextSpans -----------------------------
(***************************************************************************)
(* Where a learned surface form occurs in a transcript (engine.py,         *)
(* find_phrase_spans, generate_candidate_spans,                            *)
(* generate_asr_alternative_spans).                                        *)
(*                                                                         *)
(* A text is a sequence of symbols, each a normalized word or a separator, *)
(* and a span <<start, end>> counts symbols the way the code counts        *)
(* characters: from zero, end excluded.  String similarity and phonetic    *)
(* keys are library calls, given here as data.                             *)
(***************************************************************************)
EXTENDS Integers, Sequences, FiniteSets, SequencesExt, FiniteSetsExt, Ordering

CONSTANTS
    Word,
    Length(_),          \* characters of a symbol other than a space
    Similarity(_, _),   \* rapidfuzz ratio of two surface forms, in thousandths
    Sounds(_),          \* metaphone of a surface form
    Silent,             \* the empty metaphone key
    FuzzyThreshold      \* FUZZY_CANDIDATE_THRESHOLD, in thousandths

Separator == {" ", "-", ","}

Method == {"exact", "phonetic_fuzzy", "phonetic", "fuzzy"}

Priority(method) ==
    CASE method = "exact" -> 4
      [] method = "phonetic_fuzzy" -> 3
      [] method = "phonetic" -> 2
      [] method = "fuzzy" -> 1

(* text[start:end]                                                         *)
Slice(text, span) == SubSeq(text, span[1] + 1, span[2])

(* left < candidate.end and candidate.start < right                        *)
Meet(a, b) == a[1] < b[2] /\ b[1] < a[2]

Earlier(spans) == {p \in spans \X spans : p[1][1] < p[2][1]}

(* TOKEN_PATTERN: words joined by hyphens are one token.                   *)
Joined(text, s, e) ==
    /\ 0 <= s /\ s < e /\ e <= Len(text) /\ (e - s) % 2 = 1
    /\ \A k \in s + 1 .. e :
          IF (k - s) % 2 = 1 THEN text[k] \in Word ELSE text[k] = "-"

TokenSpans(text) ==
    {sp \in (0 .. Len(text)) \X (0 .. Len(text)) :
        /\ Joined(text, sp[1], sp[2])
        /\ ~Joined(text, sp[1] - 2, sp[2])
        /\ ~Joined(text, sp[1], sp[2] + 2)}

Tokens(text) == LET spans == TokenSpans(text) IN Sorted(spans, Earlier(spans))

(* find_phrase_spans: the matches of finditer, from left to right and      *)
(* disjoint.  Text and phrase begin and end words together, so the         *)
(* look-around for \w is met.                                              *)
PhraseSpans(text, phrase) ==
    LET Span(at) == <<at, at + Len(phrase)>>
        starts == {at \in 0 .. Len(text) - Len(phrase) : Slice(text, Span(at)) = phrase}
        taken[at \in starts] == \A b \in starts : b < at /\ taken[b] => b + Len(phrase) <= at
    IN  {Span(at) : at \in {b \in starts : taken[b]}}

(* Windows of up to four tokens, about as long as the form; only spaces    *)
(* and hyphens may separate their tokens.                                  *)
Windows(text, form) ==
    LET tokens == Tokens(text)
        size == Max({1, Len(Tokens(form))})
    IN  {<<tokens[w[1]][1], tokens[w[2]][2]>> :
            w \in {p \in (DOMAIN tokens) \X (DOMAIN tokens) :
                /\ p[2] - p[1] + 1 \in {size - 1, size, size + 1} \cap 1 .. 4
                /\ \A k \in p[1] .. p[2] - 1 :
                      "," \notin Range(Slice(text, <<tokens[k][2], tokens[k + 1][1]>>))}}

Compact(form) == FoldLeft(LAMBDA n, s : n + IF s = " " THEN 0 ELSE Length(s), 0, form)

(* How a surface matches a form: no method when it does not.               *)
Methods(surface, form) ==
    LET similar == Similarity(surface, form)
        phonetic == Sounds(surface) # Silent /\ Sounds(surface) = Sounds(form)
        short == Compact(surface) <= 4 \/ Compact(form) <= 4
        fuzzy == similar >= FuzzyThreshold
    IN  {method \in Method :
          \/ method = "exact" /\ surface = form
          \/ /\ method = "phonetic_fuzzy" /\ surface # form /\ phonetic
             /\ IF short THEN similar >= 900 ELSE fuzzy
          \/ method = "phonetic" /\ surface # form /\ ~short /\ phonetic /\ ~fuzzy
          \/ method = "fuzzy" /\ surface # form /\ ~short /\ ~phonetic /\ fuzzy}

(* Matches that meet an exact one are dropped.                             *)
Pruned(found) ==
    {f \in found : f.method = "exact" \/ ~\E x \in found : x.method = "exact" /\ Meet(x.span, f.span)}

(* A span found twice keeps its best method.                               *)
Distinct(raw) ==
    {r \in raw : \A o \in raw : o.span = r.span => Priority(o.method) <= Priority(r.method)}

(* generate_candidate_spans                                                *)
CandidateSpans(text, form) ==
    Pruned(Distinct({[span |-> span, method |-> "exact"] : span \in PhraseSpans(text, form)}
                    \cup UNION {{[span |-> span, method |-> method] :
                                    method \in Methods(Slice(text, span), form)} :
                                span \in Windows(text, form)}))

-----------------------------------------------------------------------------
(* difflib.SequenceMatcher on two token lists: the longest common block,   *)
(* the earliest of them in a and then in b, then the same left and right.  *)
(* A block <<i, j, n>> says a[i .. i+n-1] = b[j .. j+n-1].                 *)
CommonBlocks(a, b, alo, ahi, blo, bhi) ==
    {m \in (alo .. ahi) \X (blo .. bhi) \X (1 .. Len(a)) :
        /\ m[1] + m[3] - 1 <= ahi /\ m[2] + m[3] - 1 <= bhi
        /\ \A k \in 0 .. m[3] - 1 : a[m[1] + k] = b[m[2] + k]}

LongestBlock(blocks) ==
    CHOOSE m \in blocks :
        \A o \in blocks :
            \/ m[3] > o[3]
            \/ m[3] = o[3] /\ (m[1] < o[1] \/ (m[1] = o[1] /\ m[2] <= o[2]))

MatchingBlocks(a, b) ==
    LET n == Len(a) + 1
        k == Len(b) + 1
        blocks[q \in (1 .. n) \X (0 .. n) \X (1 .. k) \X (0 .. k)] ==
            LET common == CommonBlocks(a, b, q[1], q[2], q[3], q[4]) IN
            IF common = {} THEN {}
            ELSE LET m == LongestBlock(common) IN
                 {m} \cup blocks[<<q[1], m[1] - 1, q[3], m[2] - 1>>]
                     \cup blocks[<<m[1] + m[3], q[2], m[2] + m[3], q[4]>>]
    IN  blocks[<<1, Len(a), 1, Len(b)>>]

(* The tokens of a that the opcodes put against token j of b: its partner  *)
(* in an equal block, else everything of a between the blocks around it    *)
(* (a replace), which may be nothing (an insert).                          *)
Against(a, b, j) ==
    LET blocks == MatchingBlocks(a, b)
        equal == {m \in blocks : m[2] <= j /\ j < m[2] + m[3]}
    IN  IF equal # {} THEN {i \in DOMAIN a : \E m \in equal : i - m[1] = j - m[2]}
        ELSE {i \in DOMAIN a : \A m \in blocks :
                IF m[2] > j THEN i < m[1] ELSE i >= m[1] + m[3]}

Contiguous(indexes) == \A i \in Min(indexes) .. Max(indexes) : i \in indexes

(* Evidence that maps to nothing, to more than four tokens or to separate  *)
(* ones is not used.                                                       *)
Editable(indexes) == indexes # {} /\ Cardinality(indexes) <= 4 /\ Contiguous(indexes)

(* generate_asr_alternative_spans: where in the formatted text the form    *)
(* found in an alternative would be edited, and the evidence for it.       *)
AlternativeSpans(text, alternative, form) ==
    LET a == Tokens(text)
        b == Tokens(alternative)
        words == [i \in DOMAIN a |-> Slice(text, a[i])]
        heard == [j \in DOMAIN b |-> Slice(alternative, b[j])]
        Mapped(f) == UNION {Against(words, heard, j) : j \in {t \in DOMAIN b : Meet(b[t], f.span)}}
    IN  {[span |-> <<a[Min(Mapped(f))][1], a[Max(Mapped(f))][2]>>,
          evidence |-> Slice(alternative, f.span)] :
             f \in {c \in CandidateSpans(alternative, form) : Editable(Mapped(c))}}
=============================================================================
