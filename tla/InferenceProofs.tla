--------------------------- MODULE InferenceProofs ---------------------------
(***************************************************************************)
(* Theorems of Inference, for any memories, transcripts and policy.        *)
(*                                                                         *)
(* Everything rests on what candidates_by_key holds: for each key nothing, *)
(* or what scoring made of a route of the request (RetainedInv), and no    *)
(* route already scored for it has a higher score (BestInv).  The request  *)
(* is a legal one on a store that learned only from such requests          *)
(* (ServedInv), its verdict is an example of the judged memory             *)
(* (JudgedInv), and no pass visits or selects what a blocker stops         *)
(* (PassInv).                                                              *)
(*                                                                         *)
(* From there the competition that is listed, the rejection that blocks,   *)
(* the hints that announce and the refinement of Arbitration follow, each  *)
(* by lemmas on the operators of TextSpans, Retrieval and Scoring: what    *)
(* they return, and that every grade stays in the scale Arbitration needs. *)
(* Rendering is a fold, followed element by element (SplicedFrom).         *)
(*                                                                         *)
(* The replay of a request from its trace is compared with the request     *)
(* through ArbitrationProofs, instantiated: a response says of its         *)
(* candidates what each pass left of them (SelectedInv, TracedInv), the    *)
(* calibrator's loop takes the one set of decided candidates that cross    *)
(* nothing ahead of them (Kernel), and so does a pass.                     *)
(***************************************************************************)
EXTENDS Inference, FiniteSetTheorems, SequenceTheorems, WellFoundedInduction, TLAPS

-----------------------------------------------------------------------------
(* The spans of a phrase lie in the text and hold the phrase.              *)
LEMMA PhraseMatch ==
    ASSUME NEW text, NEW phrase, NEW span \in PhraseSpans(text, phrase)
    PROVE  /\ Slice(text, span) = phrase
           /\ \E at \in 0 .. Len(text) - Len(phrase) : span = <<at, at + Len(phrase)>>
  <1> DEFINE Span(at) == <<at, at + Len(phrase)>>
             starts == {at \in 0 .. Len(text) - Len(phrase) : Slice(text, Span(at)) = phrase}
             taken == CHOOSE taken : taken =
                 [at \in starts |-> \A b \in starts : b < at /\ taken[b] => b + Len(phrase) <= at]
  <1>1. span \in {Span(at) : at \in {b \in starts : taken[b]}}
    BY DEF PhraseSpans
  <1> HIDE DEF taken
  <1>2. PICK at \in starts : span = Span(at)
    BY <1>1
  <1> QED  BY <1>2

(* The text of an exact match is the form that was sought.                 *)
LEMMA ExactMatch ==
    ASSUME NEW text, NEW form, NEW f \in CandidateSpans(text, form), f.method = "exact"
    PROVE  Slice(text, f.span) = form
  <1>1. f \in {[span |-> span, method |-> "exact"] : span \in PhraseSpans(text, form)}
             \cup UNION {{[span |-> span, method |-> method] :
                             method \in Methods(Slice(text, span), form)} :
                         span \in Windows(text, form)}
    BY DEF CandidateSpans, Pruned, Distinct
  <1>2. CASE \E span \in PhraseSpans(text, form) : f = [span |-> span, method |-> "exact"]
    BY <1>2, PhraseMatch
  <1>3. CASE \E span \in Windows(text, form) :
                 \E method \in Methods(Slice(text, span), form) : f = [span |-> span, method |-> method]
    <2>1. PICK span \in Windows(text, form) :
              \E method \in Methods(Slice(text, span), form) : f = [span |-> span, method |-> method]
      BY <1>3
    <2>2. PICK method \in Methods(Slice(text, span), form) : f = [span |-> span, method |-> method]
      BY <2>1
    <2>3. method = "exact" /\ f.span = span
      BY <2>2
    <2> QED  BY <2>2, <2>3 DEF Methods
  <1> QED  BY <1>1, <1>2, <1>3

(* Sorted lists a finite set in the order of a strict total order.         *)
LEMMA SortedLists ==
    ASSUME NEW S, IsFiniteSet(S), NEW R,
           \A x \in S : <<x, x>> \notin R,
           \A x, y, z \in S : <<x, y>> \in R /\ <<y, z>> \in R => <<x, z>> \in R,
           \A x, y \in S : x = y \/ <<x, y>> \in R \/ <<y, x>> \in R
    PROVE  /\ Cardinality(S) \in Nat
           /\ Sorted(S, R) \in [1 .. Cardinality(S) -> S]
           /\ \A x \in S : \E n \in 1 .. Cardinality(S) : Sorted(S, R)[n] = x
           /\ \A i, j \in 1 .. Cardinality(S) :
                 i < j => <<Sorted(S, R)[i], Sorted(S, R)[j]>> \in R
  <1> DEFINE n == Cardinality(S)
             Before(x) == {y \in S : <<y, x>> \in R}
             place == [x \in S |-> Cardinality(Before(x)) + 1]
  <1>1. n \in Nat
    BY FS_CardinalityType
  <1>2. ASSUME NEW x \in S
        PROVE  IsFiniteSet(Before(x)) /\ Cardinality(Before(x)) \in 0 .. n - 1
    <2>1. IsFiniteSet(S \ {x}) /\ Cardinality(S \ {x}) = n - 1
      BY FS_RemoveElement
    <2>2. Before(x) \in SUBSET (S \ {x})
      OBVIOUS
    <2> HIDE DEF Before
    <2>3. IsFiniteSet(Before(x)) /\ Cardinality(Before(x)) <= n - 1
      BY <2>1, <2>2, FS_Subset
    <2> QED  BY <1>1, <2>3, FS_CardinalityType
  <1>3. ASSUME NEW x \in S, NEW y \in S, <<x, y>> \in R PROVE place[x] < place[y]
    <2>1. Before(x) \in SUBSET Before(y) /\ x \in Before(y) /\ x \notin Before(x)
      BY <1>3
    <2> HIDE DEF Before
    <2>2. Cardinality(Before(x)) <= Cardinality(Before(y))
          /\ Cardinality(Before(x)) # Cardinality(Before(y))
      BY <1>2, <2>1, FS_Subset
    <2>3. Cardinality(Before(x)) \in Nat /\ Cardinality(Before(y)) \in Nat
      BY <1>1, <1>2
    <2> QED  BY <2>2, <2>3
  <1>4. place \in [S -> 1 .. n]
    <2> HIDE DEF Before
    <2>1. \A x \in S : Cardinality(Before(x)) + 1 \in 1 .. n
      BY <1>1, <1>2
    <2> QED  BY <2>1
  <1> HIDE DEF place
  <1>5. place \in Injection(S, 1 .. n)
    <2>1. ASSUME NEW x \in S, NEW y \in S, x # y PROVE place[x] # place[y]
      <3> HIDE DEF n, Before
      <3>1. place[x] \in Nat /\ place[y] \in Nat
        BY <1>1, <1>4
      <3>2. <<x, y>> \in R \/ <<y, x>> \in R
        BY <2>1
      <3>3. place[x] < place[y] \/ place[y] < place[x]
        BY <1>3, <3>2
      <3> QED  BY <3>1, <3>3
    <2>2. IsInjective(place)
      BY <1>4, <2>1 DEF IsInjective
    <2> QED  BY <1>4, <2>2 DEF Injection
  <1>6. place \in Surjection(S, 1 .. n)
    <2>1. IsFiniteSet(1 .. n) /\ Cardinality(1 .. n) = n
      BY <1>1, FS_Interval
    <2> QED  BY <1>5, <2>1, FS_Injection
  <1>7. Sorted(S, R) = [k \in 1 .. n |->
                           CHOOSE x \in S : Cardinality({y \in S : <<y, x>> \in R}) + 1 = k]
    BY DEF Sorted
  <1>8. ASSUME NEW k \in 1 .. n PROVE Sorted(S, R)[k] \in S /\ place[Sorted(S, R)[k]] = k
    <2>1. PICK x \in S : place[x] = k
      BY <1>6 DEF Surjection
    <2> DEFINE At(z) == Cardinality({y \in S : <<y, z>> \in R}) + 1 = k
    <2>2. \A z \in S : At(z) <=> place[z] = k
      BY DEF place
    <2>3. Sorted(S, R)[k] = CHOOSE z \in S : At(z)
      BY <1>7
    <2> HIDE DEF At
    <2>4. (CHOOSE z \in S : At(z)) \in S /\ At(CHOOSE z \in S : At(z))
      BY <2>1, <2>2
    <2> QED  BY <2>2, <2>3, <2>4
  <1>9. ASSUME NEW x \in S PROVE \E k \in 1 .. n : Sorted(S, R)[k] = x
    <2>1. place[x] \in 1 .. n
      BY <1>4
    <2>2. Sorted(S, R)[place[x]] \in S /\ place[Sorted(S, R)[place[x]]] = place[x]
      BY <1>8, <2>1
    <2> QED  BY <1>5, <2>1, <2>2 DEF Injection, IsInjective
  <1>10. ASSUME NEW i \in 1 .. n, NEW j \in 1 .. n, i < j
         PROVE  <<Sorted(S, R)[i], Sorted(S, R)[j]>> \in R
    <2> DEFINE x == Sorted(S, R)[i]
               y == Sorted(S, R)[j]
    <2>1. x \in S /\ y \in S /\ place[x] = i /\ place[y] = j
      BY <1>8
    <2> HIDE DEF x, y
    <2>2. x # y /\ <<y, x>> \notin R
      BY <1>1, <1>3, <1>10, <2>1
    <2>3. <<x, y>> \in R
      BY <2>1, <2>2
    <2> QED  BY <2>3 DEF x, y
  <1> QED  BY <1>1, <1>7, <1>8, <1>9, <1>10

LEMMA SortedNumbers ==
    ASSUME NEW S \in SUBSET Int, IsFiniteSet(S)
    PROVE  LET f == Sorted(S, {p \in S \X S : p[1] < p[2]}) IN
           /\ Cardinality(S) \in Nat
           /\ f \in [1 .. Cardinality(S) -> S]
           /\ \A x \in S : \E k \in 1 .. Cardinality(S) : f[k] = x
           /\ \A i, j \in 1 .. Cardinality(S) : i < j => f[i] < f[j]
  <1> DEFINE R == {p \in S \X S : p[1] < p[2]}
             n == Cardinality(S)
             f == Sorted(S, R)
  <1>1. \A x, y \in S : <<x, y>> \in R <=> x < y
    OBVIOUS
  <1> HIDE DEF R
  <1>2. /\ n \in Nat /\ f \in [1 .. n -> S]
        /\ \A x \in S : \E k \in 1 .. n : f[k] = x
        /\ \A i, j \in 1 .. n : i < j => <<f[i], f[j]>> \in R
    <2>1. \A x \in S : <<x, x>> \notin R
      BY <1>1
    <2>2. \A x, y, z \in S : <<x, y>> \in R /\ <<y, z>> \in R => <<x, z>> \in R
      BY <1>1
    <2>3. ASSUME NEW x \in S, NEW y \in S PROVE x = y \/ <<x, y>> \in R \/ <<y, x>> \in R
      <3>1. x \in Int /\ y \in Int
        OBVIOUS
      <3> QED  BY <1>1, <3>1
    <2>4. /\ Cardinality(S) \in Nat
          /\ Sorted(S, R) \in [1 .. Cardinality(S) -> S]
          /\ \A x \in S : \E k \in 1 .. Cardinality(S) : Sorted(S, R)[k] = x
          /\ \A i, j \in 1 .. Cardinality(S) :
                i < j => <<Sorted(S, R)[i], Sorted(S, R)[j]>> \in R
      BY <2>1, <2>2, <2>3, SortedLists, Zenon
    <2> QED  BY <2>4
  <1> HIDE DEF f, n
  <1>3. \A i, j \in 1 .. n : i < j => f[i] < f[j]
    BY <1>1, <1>2
  <1>4. /\ n \in Nat /\ f \in [1 .. n -> S]
        /\ \A x \in S : \E k \in 1 .. n : f[k] = x
        /\ \A i, j \in 1 .. n : i < j => f[i] < f[j]
    BY <1>2, <1>3
  <1> QED  BY <1>4 DEF f, n, R

(* A finite set of numbers has a least and a greatest element.             *)
LEMMA Extremes ==
    ASSUME NEW S \in SUBSET Int, IsFiniteSet(S), S # {}
    PROVE  /\ Min(S) \in S /\ \A x \in S : Min(S) <= x
           /\ Max(S) \in S /\ \A x \in S : x <= Max(S)
  <1> DEFINE n == Cardinality(S)
             f == Sorted(S, {p \in S \X S : p[1] < p[2]})
  <1>2. /\ n \in Nat /\ f \in [1 .. n -> S]
        /\ \A x \in S : \E k \in 1 .. n : f[k] = x
        /\ \A i, j \in 1 .. n : i < j => f[i] < f[j]
    BY SortedNumbers, Zenon
  <1>3. n # 0
    BY FS_EmptySet
  <1> HIDE DEF n, f
  <1>4. 1 \in 1 .. n /\ n \in 1 .. n
    BY <1>2, <1>3
  <1>6. f[1] \in S /\ f[n] \in S
    BY <1>2, <1>4
  <1>5. ASSUME NEW x \in S PROVE f[1] <= x /\ x <= f[n]
    <2>1. PICK k \in 1 .. n : f[k] = x
      BY <1>2
    <2>2. (k = 1 \/ f[1] < f[k]) /\ (k = n \/ f[k] < f[n])
      BY <1>2, <1>4
    <2>3. x \in Int /\ f[1] \in Int /\ f[n] \in Int
      BY <1>6
    <2> QED  BY <2>1, <2>2, <2>3
  <1>7. Min(S) \in S /\ \A x \in S : Min(S) <= x
    BY <1>5, <1>6 DEF Min
  <1>8. Max(S) \in S /\ \A x \in S : x <= Max(S)
    <2>1. \E x \in S : \A y \in S : x >= y
      BY <1>5, <1>6
    <2>2. Max(S) \in S /\ \A y \in S : Max(S) >= y
      BY <2>1 DEF Max
    <2> QED  BY <2>2
  <1> QED  BY <1>7, <1>8

LEMMA ExtremesOfTwo ==
    ASSUME NEW a \in Int, NEW b \in Int
    PROVE  /\ Min({a, b}) = IF a <= b THEN a ELSE b
           /\ Max({a, b}) = IF a <= b THEN b ELSE a
  BY DEF Min, Max

LEMMA FiniteImage ==
    ASSUME NEW I, IsFiniteSet(I), NEW f
    PROVE  IsFiniteSet({f[i] : i \in I})
  <1> DEFINE g == [i \in I |-> f[i]]
             T == {f[i] : i \in I}
  <1>1. g \in Surjection(I, T)
    BY DEF Surjection
  <1> QED  BY <1>1, FS_Surjection

LEMMA NatLeast ==
    ASSUME NEW T \in SUBSET Nat, T # {}
    PROVE  \E n \in T : \A k \in T : n <= k
  <1>1. PICK n \in T : \A k \in T : <<k, n>> \notin OpToRel(<, Nat)
    BY NatLessThanWellFounded, WFMin
  <1>2. ASSUME NEW k \in T PROVE n <= k
    <2>1. <<k, n>> \notin {ss \in Nat \X Nat : ss[1] < ss[2]}
      BY <1>1 DEF OpToRel
    <2> QED  BY <2>1
  <1> QED  BY <1>2

(* Partial sums, over the subsets of the domain.                           *)
Partial(f, g, s) ==
    IF s = {} THEN 0 ELSE LET x == CHOOSE x \in s : TRUE IN f[x] + g[s \ {x}]

LEMMA PartialSmaller ==
    ASSUME NEW D, IsFiniteSet(D), NEW s \in SUBSET D, s # {}
    PROVE  LET x == CHOOSE x \in s : TRUE IN
           /\ x \in D /\ s \ {x} \in SUBSET D
           /\ Cardinality(s) \in Nat /\ Cardinality(s \ {x}) \in Nat
           /\ Cardinality(s \ {x}) = Cardinality(s) - 1
  <1> DEFINE x == CHOOSE x \in s : TRUE
  <1>1. x \in s
    OBVIOUS
  <1> HIDE DEF x
  <1>2. IsFiniteSet(s)
    BY FS_Subset
  <1>3. IsFiniteSet(s \ {x}) /\ Cardinality(s \ {x}) = Cardinality(s) - 1
    BY <1>1, <1>2, FS_RemoveElement
  <1>4. /\ x \in D /\ s \ {x} \in SUBSET D
        /\ Cardinality(s) \in Nat /\ Cardinality(s \ {x}) \in Nat
        /\ Cardinality(s \ {x}) = Cardinality(s) - 1
    BY <1>1, <1>2, <1>3, FS_CardinalityType
  <1> QED  BY <1>4 DEF x

LEMMA PartialExists ==
    ASSUME NEW f, IsFiniteSet(DOMAIN f), \A x \in DOMAIN f : f[x] \in Nat
    PROVE  \E g : g = [s \in SUBSET DOMAIN f |-> Partial(f, g, s)]
  <1> DEFINE D == DOMAIN f
             Upto(n) == {s \in SUBSET D : Cardinality(s) <= n}
             Right(g, n) == \A s \in Upto(n) : g[s] = Partial(f, g, s)
             P(n) == \E g : g = [s \in SUBSET D |-> g[s]] /\ Right(g, n)
  <1>1. ASSUME NEW n \in Nat, n # 0 => P(n - 1) PROVE P(n)
    <2>1. CASE n = 0
      <3> DEFINE g == [s \in SUBSET D |-> 0]
      <3>1. ASSUME NEW s \in Upto(n) PROVE s = {}
        <4>1. s \in SUBSET D /\ Cardinality(s) <= 0
          BY <2>1
        <4>2. IsFiniteSet(s)
          BY <4>1, FS_Subset
        <4> QED  BY <4>1, <4>2, FS_CardinalityType, FS_EmptySet
      <3>2. Right(g, n)
        <4> HIDE DEF Upto
        <4>1. \A s \in Upto(n) : s \in SUBSET D
          BY DEF Upto
        <4> QED  BY <3>1, <4>1 DEF Partial
      <3>3. g = [s \in SUBSET D |-> g[s]]
        OBVIOUS
      <3> HIDE DEF g, Right
      <3> QED  BY <3>2, <3>3
    <2>2. CASE n # 0
      <3>1. PICK h : h = [s \in SUBSET D |-> h[s]] /\ Right(h, n - 1)
        BY <1>1, <2>2
      <3> DEFINE g == [s \in SUBSET D |-> Partial(f, h, s)]
      <3>2. ASSUME NEW s \in Upto(n - 1) PROVE g[s] = h[s]
        BY <3>1
      <3>3. ASSUME NEW s \in Upto(n) PROVE g[s] = Partial(f, g, s)
        <4>1. s \in SUBSET D /\ Cardinality(s) <= n
          OBVIOUS
        <4>2. g[s] = Partial(f, h, s)
          BY <4>1
        <4> HIDE DEF g
        <4>3. CASE s = {}
          BY <4>2, <4>3 DEF Partial
        <4>4. CASE s # {}
          <5> DEFINE x == CHOOSE x \in s : TRUE
          <5>1. /\ x \in D /\ s \ {x} \in SUBSET D
                /\ Cardinality(s) \in Nat /\ Cardinality(s \ {x}) \in Nat
                /\ Cardinality(s \ {x}) = Cardinality(s) - 1
            BY <4>1, <4>4, PartialSmaller
          <5> HIDE DEF x
          <5>2. s \ {x} \in Upto(n - 1)
            BY <4>1, <5>1
          <5>3. g[s \ {x}] = h[s \ {x}]
            BY <3>2, <5>2
          <5>4. Partial(f, g, s) = f[x] + g[s \ {x}] /\ Partial(f, h, s) = f[x] + h[s \ {x}]
            BY <4>4 DEF Partial, x
          <5> QED  BY <4>2, <5>3, <5>4
        <4> QED  BY <4>3, <4>4
      <3>4. g = [s \in SUBSET D |-> g[s]]
        OBVIOUS
      <3> HIDE DEF g, Upto
      <3> QED  BY <3>3, <3>4
    <2> QED  BY <2>1, <2>2
  <1> HIDE DEF P
  <1>2. \A n \in Nat : P(n)
    <2> SUFFICES ASSUME NEW m \in Nat, ~P(m) PROVE FALSE
      OBVIOUS
    <2> DEFINE T == {n \in Nat : ~P(n)}
    <2>1. PICK n \in T : \A k \in T : n <= k
      <3>1. T \in SUBSET Nat /\ T # {}
        OBVIOUS
      <3> HIDE DEF T
      <3> QED  BY <3>1, NatLeast
    <2>2. n # 0 => n - 1 \in Nat /\ n - 1 \notin T
      BY <2>1
    <2> QED  BY <1>1, <2>1, <2>2
  <1>3. PICK g : g = [s \in SUBSET D |-> g[s]] /\ Right(g, Cardinality(D))
    BY <1>2, FS_CardinalityType DEF P
  <1>4. ASSUME NEW s \in SUBSET D PROVE g[s] = Partial(f, g, s)
    <2>1. s \in Upto(Cardinality(D))
      BY FS_Subset
    <2> QED  BY <1>3, <2>1
  <1>5. g = [s \in SUBSET D |-> Partial(f, g, s)]
    BY <1>3, <1>4
  <1> QED  BY <1>5

(* The sum of finitely many natural numbers is one.                        *)
LEMMA TotalType ==
    ASSUME NEW f, IsFiniteSet(DOMAIN f), \A x \in DOMAIN f : f[x] \in Nat
    PROVE  Total(f) \in Nat
  <1> DEFINE D == DOMAIN f
             iter == CHOOSE g : g = [s \in SUBSET D |-> Partial(f, g, s)]
  <1>1. Total(f) = iter[D]
    BY DEF Total, FoldFunction, FoldFunctionOnSet, MapThenFoldSet, Partial
  <1>2. iter = [s \in SUBSET D |-> Partial(f, iter, s)]
    BY PartialExists
  <1> HIDE DEF iter
  <1>3. ASSUME NEW s \in SUBSET D PROVE iter[s] \in Nat
    <2> SUFFICES ASSUME iter[s] \notin Nat PROVE FALSE
      OBVIOUS
    <2> DEFINE Bad == {t \in SUBSET D : iter[t] \notin Nat}
               T == {Cardinality(t) : t \in Bad}
    <2>1. PICK n \in T : \A k \in T : n <= k
      <3>1. \A t \in Bad : Cardinality(t) \in Nat
        BY FS_Subset, FS_CardinalityType
      <3>2. s \in Bad
        OBVIOUS
      <3> HIDE DEF Bad
      <3>3. T \in SUBSET Nat /\ T # {}
        BY <3>1, <3>2
      <3> HIDE DEF T
      <3> QED  BY <3>3, NatLeast
    <2>2. PICK t \in Bad : n = Cardinality(t)
      OBVIOUS
    <2>3. t \in SUBSET D /\ iter[t] = Partial(f, iter, t) /\ iter[t] \notin Nat
      BY <1>2
    <2>4. t # {}
      BY <2>3 DEF Partial
    <2> DEFINE x == CHOOSE x \in t : TRUE
    <2>5. /\ x \in D /\ t \ {x} \in SUBSET D
          /\ Cardinality(t) \in Nat /\ Cardinality(t \ {x}) = Cardinality(t) - 1
      BY <2>3, <2>4, PartialSmaller
    <2>6. iter[t] = f[x] + iter[t \ {x}]
      BY <2>3, <2>4 DEF Partial
    <2> HIDE DEF x
    <2>7. t \ {x} \in Bad
      BY <2>3, <2>5, <2>6
    <2>8. Cardinality(t \ {x}) \in T
      BY <2>7
    <2> HIDE DEF T, Bad
    <2>9. n <= Cardinality(t \ {x})
      BY <2>1, <2>8
    <2> QED  BY <2>2, <2>5, <2>9
  <1> QED  BY <1>1, <1>3

(* Two tokens do not begin at the same place.                              *)
LEMMA TokensApart ==
    ASSUME NEW text, Len(text) \in Nat, NEW p \in TokenSpans(text), NEW q \in TokenSpans(text),
           p[1] = q[1]
    PROVE  p = q
  <1> SUFFICES ASSUME NEW s \in 0 .. Len(text), NEW e \in 0 .. Len(text),
                      NEW f \in 0 .. Len(text), e < f,
                      Joined(text, s, e), Joined(text, s, f), ~Joined(text, s, e + 2)
               PROVE  FALSE
    BY DEF TokenSpans
  <1>1. e + 2 <= f /\ (e + 2 - s) % 2 = 1
    BY DEF Joined
  <1> QED  BY <1>1 DEF Joined

LEMMA TokensIn ==
    ASSUME NEW text, Len(text) \in Nat
    PROVE  /\ IsFiniteSet(DOMAIN Tokens(text)) /\ DOMAIN Tokens(text) \in SUBSET Nat
           /\ \A i \in DOMAIN Tokens(text) :
                 /\ Tokens(text)[i][1] \in 0 .. Len(text)
                 /\ Tokens(text)[i][2] \in 0 .. Len(text)
                 /\ \A j \in DOMAIN Tokens(text) : i <= j => Tokens(text)[i][1] < Tokens(text)[j][2]
  <1> DEFINE S == TokenSpans(text)
             T == (0 .. Len(text)) \X (0 .. Len(text))
  <1>1. IsFiniteSet(S)
    <2>3. IsFiniteSet(0 .. Len(text))
      BY FS_Interval
    <2>1. IsFiniteSet(T)
      BY <2>3, FS_Product
    <2>2. S \in SUBSET T
      BY DEF TokenSpans
    <2> QED  BY <2>1, <2>2, FS_Subset
  <1>2. \A p \in S : p[1] \in 0 .. Len(text) /\ p[2] \in 0 .. Len(text) /\ p[1] < p[2]
    BY DEF TokenSpans, Joined
  <1>3. \A p, q \in S : <<p, q>> \in Earlier(S) <=> p[1] < q[1]
    BY DEF Earlier
  <1>4. \A p, q \in S : p = q \/ p[1] < q[1] \/ q[1] < p[1]
    BY <1>2, TokensApart
  <1> HIDE DEF S
  <1> DEFINE n == Cardinality(S)
             tokens == Tokens(text)
  <1>5. /\ tokens \in [1 .. n -> S] /\ n \in Nat
        /\ \A i, j \in 1 .. n : i < j => tokens[i][1] < tokens[j][1]
    <2>1. Tokens(text) = Sorted(S, Earlier(S))
      BY DEF Tokens, S
    <2>2. \A p, q, r \in S : p[1] < q[1] /\ q[1] < r[1] => p[1] < r[1]
      BY <1>2
    <2>3. \A p \in S : ~(p[1] < p[1])
      BY <1>2
    <2> DEFINE R == Earlier(S)
    <2>4. /\ \A p \in S : <<p, p>> \notin R
          /\ \A p, q, r \in S : <<p, q>> \in R /\ <<q, r>> \in R => <<p, r>> \in R
          /\ \A p, q \in S : p = q \/ <<p, q>> \in R \/ <<q, p>> \in R
      <3> HIDE DEF R
      <3>1. \A p, q \in S : <<p, q>> \in R <=> p[1] < q[1]
        BY <1>3 DEF R
      <3> QED  BY <1>4, <2>2, <2>3, <3>1
    <2> HIDE DEF R
    <2>5. /\ Cardinality(S) \in Nat /\ Sorted(S, R) \in [1 .. Cardinality(S) -> S]
          /\ \A i, j \in 1 .. Cardinality(S) :
                i < j => <<Sorted(S, R)[i], Sorted(S, R)[j]>> \in R
      BY <1>1, <2>4, SortedLists
    <2>6. tokens = Sorted(S, R)
      BY <2>1 DEF R
    <2> HIDE DEF tokens, n
    <2>7. tokens \in [1 .. n -> S] /\ n \in Nat
      BY <2>5, <2>6 DEF n
    <2>8. \A i, j \in 1 .. n : i < j => <<tokens[i], tokens[j]>> \in R
      BY <2>5, <2>6 DEF n
    <2>9. \A i \in 1 .. n : tokens[i] \in S
      BY <2>7
    <2>10. \A p, q \in S : <<p, q>> \in R <=> p[1] < q[1]
      BY <1>3 DEF R
    <2>11. \A i, j \in 1 .. n : i < j => tokens[i][1] < tokens[j][1]
      BY <2>8, <2>9, <2>10
    <2> QED  BY <2>7, <2>11
  <1> HIDE DEF tokens, n
  <1>6. IsFiniteSet(1 .. n)
    BY <1>5, FS_Interval
  <1>7. DOMAIN tokens = 1 .. n /\ \A i \in 1 .. n : tokens[i] \in S
    BY <1>5
  <1>8. ASSUME NEW i \in 1 .. n, NEW j \in 1 .. n, i <= j PROVE tokens[i][1] < tokens[j][2]
    <2>1. /\ tokens[i][1] \in Int /\ tokens[j][1] \in Int /\ tokens[j][2] \in Int
          /\ tokens[j][1] < tokens[j][2]
      BY <1>2, <1>7
    <2>2. i = j \/ tokens[i][1] < tokens[j][1]
      BY <1>5, <1>8
    <2> QED  BY <2>1, <2>2
  <1>9. /\ IsFiniteSet(DOMAIN tokens) /\ DOMAIN tokens \in SUBSET Nat
        /\ \A i \in DOMAIN tokens :
              /\ tokens[i][1] \in 0 .. Len(text) /\ tokens[i][2] \in 0 .. Len(text)
              /\ \A j \in DOMAIN tokens : i <= j => tokens[i][1] < tokens[j][2]
    BY <1>2, <1>5, <1>6, <1>7, <1>8
  <1> QED  BY <1>9 DEF tokens

(* Spans lie in the text they are looked for in.                           *)
LEMMA CandidateIn ==
    ASSUME NEW text, Len(text) \in Nat, NEW form, Len(form) \in Nat \ {0},
           NEW f \in CandidateSpans(text, form)
    PROVE  f.span \in SpansOf(text)
  <1>1. f \in {[span |-> span, method |-> "exact"] : span \in PhraseSpans(text, form)}
             \cup UNION {{[span |-> span, method |-> method] :
                             method \in Methods(Slice(text, span), form)} :
                         span \in Windows(text, form)}
    BY DEF CandidateSpans, Pruned, Distinct
  <1>2. f.span \in PhraseSpans(text, form) \/ f.span \in Windows(text, form)
    BY <1>1
  <1>3. CASE f.span \in PhraseSpans(text, form)
    <2>1. PICK at \in 0 .. Len(text) - Len(form) : f.span = <<at, at + Len(form)>>
      BY <1>3, PhraseMatch
    <2> QED  BY <2>1 DEF SpansOf
  <1>4. CASE f.span \in Windows(text, form)
    <2> DEFINE tokens == Tokens(text)
               size == Max({1, Len(Tokens(form))})
    <2>1. PICK w \in (DOMAIN tokens) \X (DOMAIN tokens) :
              /\ f.span = <<tokens[w[1]][1], tokens[w[2]][2]>>
              /\ w[2] - w[1] + 1 \in {size - 1, size, size + 1} \cap 1 .. 4
      BY <1>4 DEF Windows
    <2> DEFINE i == w[1]
               j == w[2]
    <2> HIDE DEF size
    <2>2. i \in DOMAIN tokens /\ j \in DOMAIN tokens /\ j - i + 1 \in 1 .. 4
          /\ f.span = <<tokens[i][1], tokens[j][2]>>
      BY <2>1
    <2> HIDE DEF i, j
    <2>3. DOMAIN tokens \subseteq Nat
          /\ \A a, b \in DOMAIN tokens :
                /\ tokens[a][1] \in 0 .. Len(text) /\ tokens[b][2] \in 0 .. Len(text)
                /\ a <= b => tokens[a][1] < tokens[b][2]
      BY TokensIn
    <2> HIDE DEF tokens
    <2>4. i <= j
      BY <2>2, <2>3
    <2>5. /\ tokens[i][1] \in 0 .. Len(text) /\ tokens[j][2] \in 0 .. Len(text)
          /\ tokens[i][1] < tokens[j][2]
      BY <2>2, <2>3, <2>4
    <2> QED  BY <2>2, <2>5 DEF SpansOf
  <1> QED  BY <1>2, <1>3, <1>4

LEMMA AgainstIn ==
    ASSUME NEW a, NEW b, NEW j
    PROVE  Against(a, b, j) \subseteq DOMAIN a
  BY DEF Against

LEMMA AlternativeIn ==
    ASSUME NEW text, Len(text) \in Nat, NEW alternative, NEW form,
           NEW f \in AlternativeSpans(text, alternative, form)
    PROVE  f.span \in SpansOf(text)
  <1> DEFINE a == Tokens(text)
             b == Tokens(alternative)
             words == [i \in DOMAIN a |-> Slice(text, a[i])]
             heard == [j \in DOMAIN b |-> Slice(alternative, b[j])]
             Mapped(c) == UNION {Against(words, heard, j) : j \in {t \in DOMAIN b : Meet(b[t], c.span)}}
  <1>1. AlternativeSpans(text, alternative, form) =
            {[span |-> <<a[Min(Mapped(c))][1], a[Max(Mapped(c))][2]>>,
              evidence |-> Slice(alternative, c.span)] :
                c \in {d \in CandidateSpans(alternative, form) : Editable(Mapped(d))}}
    BY DEF AlternativeSpans
  <1>2. \A c : Mapped(c) \subseteq DOMAIN a
    <2>1. DOMAIN words = DOMAIN a
      OBVIOUS
    <2> HIDE DEF words, heard
    <2>2. \A j : Against(words, heard, j) \subseteq DOMAIN a
      BY <2>1, AgainstIn
    <2> HIDE DEF a, b
    <2> QED  BY <2>2
  <1> HIDE DEF Mapped, a
  <1>9. PICK c \in CandidateSpans(alternative, form) :
            Editable(Mapped(c)) /\ f.span = <<a[Min(Mapped(c))][1], a[Max(Mapped(c))][2]>>
    BY <1>1
  <1> DEFINE S == Mapped(c)
  <1> HIDE DEF S
  <1>3. IsFiniteSet(DOMAIN a) /\ DOMAIN a \in SUBSET Nat
    BY TokensIn DEF a
  <1>4. S # {}
    BY <1>9 DEF Editable, S
  <1>5. IsFiniteSet(S) /\ S \in SUBSET Int
    <2>1. S \in SUBSET (DOMAIN a)
      BY <1>2 DEF S
    <2> QED  BY <1>3, <2>1, FS_Subset
  <1>6. Min(S) \in DOMAIN a /\ Max(S) \in DOMAIN a /\ Min(S) <= Max(S)
    <2>1. Min(S) \in S /\ Max(S) \in S /\ \A x \in S : Min(S) <= x
      BY <1>4, <1>5, Extremes
    <2>2. Min(S) <= Max(S)
      BY <2>1
    <2> QED  BY <1>2, <2>1, <2>2 DEF S
  <1>7. f.span = <<a[Min(S)][1], a[Max(S)][2]>>
    BY <1>9 DEF S
  <1>8. \A i, j \in DOMAIN a : /\ a[i][1] \in 0 .. Len(text) /\ a[j][2] \in 0 .. Len(text)
                               /\ i <= j => a[i][1] < a[j][2]
    BY TokensIn DEF a
  <1> QED  BY <1>6, <1>7, <1>8 DEF SpansOf

-----------------------------------------------------------------------------
(* The signals of a candidate stay within the scale.                       *)
Scale == 0 .. 1000
Top == 1000

LEMMA ScaleInt == \A x \in Scale : x \in Int /\ 0 <= x /\ x <= Top
  BY DEF Scale, Top

LEMMA UsefulType ==
    ASSUME NEW text, Len(text) \in Nat, NEW span
    PROVE  \E n \in Nat :
              /\ Useful(text, span) = [k \in 1 .. n |-> Useful(text, span)[k]]
              /\ \A k \in 1 .. n : Useful(text, span)[k].weight \in Nat
  <1> DEFINE tokens == Tokens(text)
             source == {i \in DOMAIN tokens : Meet(tokens[i], span)}
             Distance(i) == Min({Abs(i - s) : s \in source})
             near == {i \in DOMAIN tokens \ source :
                         /\ source = {} \/ Distance(i) <= Window
                         /\ Slice(text, tokens[i]) \notin IgnoredTerm}
             Weighed(i) == [at |-> i, term |-> Slice(text, tokens[i]),
                            weight |-> IF source = {} THEN 70
                                       ELSE Max({55, 100 - 8 * (Distance(i) - 1)})]
             order == Sorted(near, {p \in near \X near : p[1] < p[2]})
  <1>1. Useful(text, span) = [k \in DOMAIN order |-> Weighed(order[k])]
    BY DEF Useful, UsefulAmong
  <1>2. IsFiniteSet(DOMAIN tokens) /\ DOMAIN tokens \in SUBSET Nat
    BY TokensIn
  <1> HIDE DEF tokens
  <1>3. IsFiniteSet(source) /\ source \in SUBSET Nat
    <2>1. source \in SUBSET DOMAIN tokens
      OBVIOUS
    <2> HIDE DEF source
    <2> QED  BY <1>2, <2>1, FS_Subset
  <1> HIDE DEF source
  <1>4. IsFiniteSet(near) /\ near \in SUBSET Int
    <2>1. near \in SUBSET DOMAIN tokens
      OBVIOUS
    <2> HIDE DEF near
    <2> QED  BY <1>2, <2>1, FS_Subset
  <1>5. ASSUME NEW i \in near PROVE Weighed(i).weight \in Nat
    <2>1. CASE source = {}
      BY <2>1
    <2>2. CASE source # {}
      <3> DEFINE off == [s \in source |-> Abs(i - s)]
                 offs == {off[s] : s \in source}
      <3>1. IsFiniteSet(offs)
        BY <1>3, FiniteImage
      <3>2. i \in Int
        BY <1>4
      <3>3. offs \in SUBSET Int /\ offs # {}
        <4>1. \A s \in source : off[s] \in Int
          BY <1>3, <3>2 DEF Abs
        <4> QED  BY <2>2, <4>1
      <3>4. offs = {Abs(i - s) : s \in source}
        OBVIOUS
      <3> HIDE DEF offs
      <3>5. Min(offs) \in Int
        BY <3>1, <3>3, Extremes
      <3>6. Distance(i) \in Int
        BY <3>4, <3>5
      <3> HIDE DEF Distance
      <3> DEFINE far == 100 - 8 * (Distance(i) - 1)
      <3>8. far \in Int
        BY <3>6
      <3> HIDE DEF far
      <3>10. \A a, b \in Int : Max({a, b}) = IF a <= b THEN b ELSE a
        BY ExtremesOfTwo
      <3>9. Max({55, far}) = IF 55 <= far THEN far ELSE 55
        BY <3>8, <3>10
      <3>7. Max({55, 100 - 8 * (Distance(i) - 1)}) \in Nat
        BY <3>8, <3>9 DEF far
      <3> QED  BY <2>2, <3>7
    <2> QED  BY <2>1, <2>2
  <1> HIDE DEF near
  <1> DEFINE n == Cardinality(near)
  <1>6. n \in Nat /\ order \in [1 .. n -> near]
    BY <1>4, SortedNumbers
  <1> HIDE DEF order, n, Weighed
  <1>7. DOMAIN order = 1 .. n /\ \A k \in 1 .. n : order[k] \in near
    BY <1>6
  <1>8. /\ Useful(text, span) = [k \in 1 .. n |-> Useful(text, span)[k]]
        /\ \A k \in 1 .. n : Useful(text, span)[k] = Weighed(order[k])
    BY <1>1, <1>7
  <1> QED  BY <1>5, <1>6, <1>7, <1>8

LEMMA FeaturesType ==
    ASSUME NEW text, Len(text) \in Nat, NEW span
    PROVE  /\ IsFiniteSet(DOMAIN Features(text, span))
           /\ \A f \in DOMAIN Features(text, span) : Features(text, span)[f] \in Nat
  <1> DEFINE useful == Useful(text, span)
             terms == {[name |-> <<useful[k].term>>, at |-> k, weight |-> useful[k].weight] :
                          k \in DOMAIN useful}
             pairs == {[name |-> <<useful[k].term, useful[k + 1].term>>, at |-> k,
                        weight |-> (125 * Min({useful[k].weight, useful[k + 1].weight})) \div 100] :
                          k \in {j \in 1 .. Len(useful) - 1 : useful[j + 1].at - useful[j].at <= 2}}
             found == terms \cup pairs
             Latest(name) == CHOOSE o \in found :
                 o.name = name /\ \A p \in found : p.name = name => p.at <= o.at
  <1>1. Features(text, span) = [name \in {o.name : o \in found} |-> Latest(name).weight]
    BY DEF Features, Weights
  <1>2. PICK n \in Nat : /\ useful = [k \in 1 .. n |-> useful[k]]
                         /\ \A k \in 1 .. n : useful[k].weight \in Nat
    BY UsefulType
  <1> HIDE DEF useful
  <1>3. DOMAIN useful = 1 .. n /\ Len(useful) = n
    BY <1>2
  <1>4. \A o \in terms : o.at \in 1 .. n /\ o.weight \in Nat /\ o.name = <<useful[o.at].term>>
    BY <1>2, <1>3
  <1>5. \A o \in pairs : /\ o.at \in 1 .. n /\ o.weight \in Nat
                         /\ o.name = <<useful[o.at].term, useful[o.at + 1].term>>
    <2> DEFINE Least(k) == Min({useful[k].weight, useful[k + 1].weight})
    <2>1. ASSUME NEW k \in 1 .. n - 1 PROVE (125 * Least(k)) \div 100 \in Nat
      <3> DEFINE u == useful[k].weight
                 v == useful[k + 1].weight
      <3>1. u \in Nat /\ v \in Nat
        BY <1>2
      <3> HIDE DEF u, v
      <3>2. Min({u, v}) \in Nat
        BY <3>1, ExtremesOfTwo
      <3> DEFINE least == Min({u, v})
      <3> HIDE DEF least
      <3>3. (125 * least) \div 100 \in Nat
        BY <3>2 DEF least
      <3> QED  BY <3>3 DEF least, u, v
    <2> HIDE DEF Least
    <2>2. ASSUME NEW o \in pairs
          PROVE  \E k \in 1 .. n - 1 :
                    /\ o.at = k /\ o.weight = (125 * Least(k)) \div 100
                    /\ o.name = <<useful[k].term, useful[k + 1].term>>
      <3> DEFINE J == {j \in 1 .. Len(useful) - 1 : useful[j + 1].at - useful[j].at <= 2}
      <3>1. J \subseteq 1 .. n - 1
        BY <1>3
      <3> HIDE DEF J
      <3>2. PICK k \in J : o = [name |-> <<useful[k].term, useful[k + 1].term>>, at |-> k,
                                weight |-> (125 * Least(k)) \div 100]
        BY DEF Least, J
      <3> QED  BY <3>1, <3>2
    <2> HIDE DEF pairs
    <2> QED  BY <2>1, <2>2
  <1> HIDE DEF terms, pairs
  <1>6. \A o \in found : o.at \in 1 .. n /\ o.weight \in Nat
    BY <1>4, <1>5
  <1>7. IsFiniteSet({o.name : o \in found})
    <2> DEFINE one == [k \in 1 .. n |-> <<useful[k].term>>]
               two == [k \in 1 .. n |-> <<useful[k].term, useful[k + 1].term>>]
               Ones == {one[k] : k \in 1 .. n}
               Twos == {two[k] : k \in 1 .. n}
    <2>1. IsFiniteSet(1 .. n)
      BY FS_Interval
    <2>2. {o.name : o \in found} \in SUBSET (Ones \cup Twos)
      BY <1>4, <1>5
    <2> HIDE DEF one, two
    <2>3. IsFiniteSet(Ones) /\ IsFiniteSet(Twos)
      BY <2>1, FiniteImage
    <2> HIDE DEF Ones, Twos
    <2>4. IsFiniteSet(Ones \cup Twos)
      BY <2>3, FS_Union
    <2> QED  BY <2>2, <2>4, FS_Subset
  <1>8. ASSUME NEW name \in {o.name : o \in found} PROVE Latest(name).weight \in Nat
    <2> HIDE DEF found
    <2> DEFINE S == {o.at : o \in {p \in found : p.name = name}}
    <2>1. S \in SUBSET (1 .. n) /\ S # {}
      BY <1>6
    <2>2. IsFiniteSet(S) /\ S \in SUBSET Int
      <3> HIDE DEF S
      <3>1. IsFiniteSet(1 .. n) /\ 1 .. n \subseteq Int
        BY FS_Interval
      <3>2. S \in SUBSET (1 .. n)
        BY <2>1
      <3>3. IsFiniteSet(S)
        BY <3>1, <3>2, FS_Subset
      <3> QED  BY <3>1, <3>2, <3>3
    <2>3. Max(S) \in S /\ \A x \in S : x <= Max(S)
      <3> HIDE DEF S
      <3> QED  BY <2>1, <2>2, Extremes
    <2>4. PICK o \in found : o.name = name /\ o.at = Max(S)
      BY <2>3
    <2>5. \A p \in found : p.name = name => p.at <= o.at
      BY <2>3, <2>4
    <2>6. Latest(name) \in found
      BY <2>4, <2>5
    <2> HIDE DEF Latest
    <2> QED  BY <1>6, <2>6
  <1> HIDE DEF found, Latest
  <1> QED  BY <1>1, <1>7, <1>8

LEMMA RootType ==
    ASSUME NEW n \in Nat
    PROVE  Root(n) \in Nat
  <1> DEFINE T == {k \in Nat : n < (k + 1) * (k + 1)}
  <1>1. n \in T
    BY SMT
  <1>2. PICK r \in T : \A k \in T : r <= k
    <2>1. T \in SUBSET Nat /\ T # {}
      BY <1>1
    <2> HIDE DEF T
    <2> QED  BY <2>1, NatLeast
  <1>3. r \in Nat /\ r <= n /\ n < (r + 1) * (r + 1)
    BY <1>1, <1>2
  <1>4. r * r <= n
    <2>1. CASE r = 0
      BY <2>1
    <2>2. CASE r # 0
      <3>1. r - 1 \in Nat /\ r - 1 \notin T
        BY <1>2, <1>3, <2>2
      <3>2. ~(n < (r - 1 + 1) * (r - 1 + 1))
        BY <3>1
      <3>3. r - 1 + 1 = r
        BY <1>3
      <3> QED  BY <1>3, <3>2, <3>3
    <2> QED  BY <2>1, <2>2
  <1>5. \E s \in 0 .. n : s * s <= n /\ n < (s + 1) * (s + 1)
    BY <1>3, <1>4
  <1>6. Root(n) \in 0 .. n
    BY <1>5 DEF Root
  <1> QED  BY <1>6

LEMMA DotType ==
    ASSUME NEW u, IsFiniteSet(DOMAIN u), \A f \in DOMAIN u : u[f] \in Nat,
           NEW v, \A f \in DOMAIN v : v[f] \in Nat
    PROVE  Dot(u, v) \in Nat
  <1> DEFINE D == DOMAIN u \cap DOMAIN v
             products == [f \in D |-> u[f] * v[f]]
  <1>1. IsFiniteSet(D)
    BY FS_Intersection
  <1>2. DOMAIN products = D /\ \A f \in D : products[f] \in Nat
    OBVIOUS
  <1>3. Dot(u, v) = Total(products)
    BY DEF Dot
  <1> HIDE DEF products, D
  <1> QED  BY <1>1, <1>2, <1>3, TotalType

LEMMA CosineType ==
    ASSUME NEW u, IsFiniteSet(DOMAIN u), \A f \in DOMAIN u : u[f] \in Nat,
           NEW v, IsFiniteSet(DOMAIN v), \A f \in DOMAIN v : v[f] \in Nat
    PROVE  Cosine(u, v) \in 0 .. 1000
  <1> DEFINE norms == Root(Dot(u, u)) * Root(Dot(v, v))
             guarded == Max({1, norms})
             dot == 1000 * Dot(u, v)
             ratio == dot \div guarded
  <1>1. norms \in Nat
    <2>1. Root(Dot(u, u)) \in Nat /\ Root(Dot(v, v)) \in Nat
      BY DotType, RootType
    <2> QED  BY <2>1
  <1>2. guarded \in Nat /\ guarded >= 1
    <2> HIDE DEF norms
    <2>1. \A a, b \in Int : Max({a, b}) = IF a <= b THEN b ELSE a
      BY ExtremesOfTwo
    <2> QED  BY <1>1, <2>1
  <1>3. dot \in Nat
    BY DotType
  <1> HIDE DEF dot, guarded, norms
  <1>4. ratio \in Nat
    BY <1>2, <1>3
  <1> HIDE DEF ratio
  <1>5. Min({1000, ratio}) \in 0 .. 1000
    <2>1. \A a, b \in Int : Min({a, b}) = IF a <= b THEN a ELSE b
      BY ExtremesOfTwo
    <2>2. Min({1000, ratio}) = IF 1000 <= ratio THEN 1000 ELSE ratio
      BY <1>4, <2>1
    <2> QED  BY <1>4, <2>2
  <1>6. Cosine(u, v) = 0 \/ Cosine(u, v) = Min({1000, ratio})
    BY DEF Cosine, ratio, dot, guarded, norms
  <1> QED  BY <1>5, <1>6

LEMMA TotalsType ==
    ASSUME NEW rows, IsFiniteSet(DOMAIN rows),
           \A i \in DOMAIN rows : /\ IsFiniteSet(DOMAIN rows[i])
                                  /\ \A f \in DOMAIN rows[i] : rows[i][f] \in Nat
    PROVE  /\ IsFiniteSet(DOMAIN Totals(rows))
           /\ \A f \in DOMAIN Totals(rows) : Totals(rows)[f] \in Nat
  <1> DEFINE domains == [i \in DOMAIN rows |-> DOMAIN rows[i]]
             Domains == {domains[i] : i \in DOMAIN rows}
  <1>1. IsFiniteSet(UNION Domains)
    <2>1. IsFiniteSet(Domains)
      BY FiniteImage
    <2>2. \A d \in Domains : IsFiniteSet(d)
      OBVIOUS
    <2> HIDE DEF Domains
    <2> QED  BY <2>1, <2>2, FS_UNION
  <1>2. DOMAIN Totals(rows) = UNION Domains
    BY DEF Totals
  <1>3. ASSUME NEW f \in UNION Domains PROVE Totals(rows)[f] \in Nat
    <2> DEFINE D == {o \in DOMAIN rows : f \in DOMAIN rows[o]}
               column == [i \in D |-> rows[i][f]]
    <2>1. IsFiniteSet(D)
      <3>1. D \in SUBSET DOMAIN rows
        OBVIOUS
      <3> HIDE DEF D
      <3> QED  BY <3>1, FS_Subset
    <2>2. DOMAIN column = D /\ \A i \in D : column[i] \in Nat
      OBVIOUS
    <2>3. Totals(rows)[f] = Total(column)
      BY DEF Totals
    <2> HIDE DEF column, D
    <2> QED  BY <2>1, <2>2, <2>3, TotalType
  <1> QED  BY <1>1, <1>2, <1>3

LEMMA ProfileType ==
    ASSUME NEW evidence \in Seq(EvidenceType), NEW polarity
    PROVE  /\ IsFiniteSet(DOMAIN Profile(evidence, polarity))
           /\ \A f \in DOMAIN Profile(evidence, polarity) : Profile(evidence, polarity)[f] \in Nat
  <1> DEFINE A == About(evidence, polarity)
             Row(i) == Features(evidence[i].text, evidence[i].span)
             rows == [i \in A |-> Row(i)]
  <1>1. IsFiniteSet(A) /\ A \subseteq DOMAIN evidence
    <2>1. A \in SUBSET (1 .. Len(evidence)) /\ Len(evidence) \in Nat
      BY DEF About
    <2>2. IsFiniteSet(1 .. Len(evidence))
      BY <2>1, FS_Interval
    <2> HIDE DEF A
    <2>3. IsFiniteSet(A)
      BY <2>1, <2>2, FS_Subset
    <2> QED  BY <2>3 DEF A, About
  <1>2. ASSUME NEW i \in A
        PROVE  IsFiniteSet(DOMAIN Row(i)) /\ \A f \in DOMAIN Row(i) : Row(i)[f] \in Nat
    <2>1. evidence[i] \in EvidenceType
      BY <1>1
    <2>2. Len(evidence[i].text) \in Nat
      BY <2>1 DEF EvidenceType, Text
    <2> QED  BY <2>2, FeaturesType
  <1>3. Profile(evidence, polarity) = Totals(rows)
    BY DEF Profile
  <1> HIDE DEF A, Row
  <1>4. DOMAIN rows = A /\ \A i \in A : rows[i] = Row(i)
    OBVIOUS
  <1> HIDE DEF rows
  <1>5. \A i \in DOMAIN rows : /\ IsFiniteSet(DOMAIN rows[i])
                               /\ \A f \in DOMAIN rows[i] : rows[i][f] \in Nat
    BY <1>2, <1>4
  <1> QED  BY <1>1, <1>3, <1>4, <1>5, TotalsType

LEMMA SparseType ==
    ASSUME NEW evidence \in Seq(EvidenceType), NEW polarity,
           NEW text, Len(text) \in Nat, NEW span
    PROVE  SparseSimilarity(evidence, polarity, text, span) \in Scale
  <1> DEFINE u == Profile(evidence, polarity)
             v == Features(text, span)
  <1>1. IsFiniteSet(DOMAIN u) /\ \A f \in DOMAIN u : u[f] \in Nat
    BY ProfileType
  <1>2. IsFiniteSet(DOMAIN v) /\ \A f \in DOMAIN v : v[f] \in Nat
    BY FeaturesType
  <1>3. SparseSimilarity(evidence, polarity, text, span) = Cosine(u, v)
    BY DEF SparseSimilarity
  <1> HIDE DEF u, v
  <1>4. Cosine(u, v) \in Scale
    BY <1>1, <1>2, CosineType DEF Scale
  <1> QED  BY <1>3, <1>4, Zenon

(* The parts of the assumptions.                                           *)
LEMMA Floor == SemanticFloor \in 0 .. 999
  BY SignalsAssumption, Zenon

LEMMA PolicyTypes ==
    /\ LexicalWeight \in Nat /\ AuthorizationWeight \in Nat /\ ContextWeight \in Nat
    /\ PhoneticWeight \in Nat /\ AlternativeWeight \in Nat /\ LearnedWeight \in Nat
    /\ NegativeWeight \in Nat /\ AsrAlpha \in Nat /\ AsrBeta \in Nat \ {0}
  <1>1. /\ {LexicalWeight, AuthorizationWeight, ContextWeight, PhoneticWeight, AlternativeWeight,
            LearnedWeight, NegativeWeight, AsrAlpha} \subseteq Nat
        /\ AsrBeta \in Nat \ {0}
    BY SignalsAssumption, Zenon
  <1> QED  BY <1>1

LEMMA PowerType == \A p \in Scale : Power(p) \in Scale
  BY SignalsAssumption, Zenon DEF Scale

LEMMA SimilarityType ==
    \A b \in Body, st \in Store, m \in Memory : \A sp \in SpansOf(b.text), v \in st[m].variants :
        Similarity(Slice(b.text, sp), v) \in Scale
  BY SignalsAssumption, Zenon DEF Scale

LEMMA Likeness ==
    /\ \A c, d \in Contexts : Resemblance(c, d) \in -1000 .. 1000
    /\ \A c \in Contexts : Resemblance(c, c) = 1000
  BY SignalsAssumption, Zenon

(* A cosine of embeddings, put on the scale above the floor.               *)
LEMMA Quotient ==
    ASSUME NEW x \in Int, NEW d \in Nat \ {0}, x <= d
    PROVE  /\ (x * 1000) \div d \in Int
           /\ (x * 1000) \div d <= 1000
           /\ x = d => (x * 1000) \div d = 1000
  <1> DEFINE q == (x * 1000) \div d
  <1>1. q \in Int /\ q * d <= x * 1000 /\ x * 1000 < (q + 1) * d
    BY SMT
  <1> HIDE DEF q
  <1>2. q * d <= 1000 * d
    BY <1>1
  <1>3. q <= 1000
    BY <1>1, <1>2, SMT
  <1>4. ASSUME x = d PROVE q = 1000
    <2>1. d * 1000 < (q + 1) * d
      BY <1>1, <1>4
    <2>2. 1000 < q + 1
      BY <1>1, <2>1, SMT
    <2> QED  BY <1>1, <1>3, <2>2
  <1> QED  BY <1>1, <1>3, <1>4 DEF q

Nearness(c) == Max({0, ((c - SemanticFloor) * 1000) \div (1000 - SemanticFloor)})

LEMMA NearnessType ==
    ASSUME NEW c \in Int, c <= 1000
    PROVE  Nearness(c) \in Scale /\ (c = Top => Nearness(c) = Top)
  <1> USE DEF Scale, Top
  <1> DEFINE x == c - SemanticFloor
             d == 1000 - SemanticFloor
             q == (x * 1000) \div d
  <1>1. x \in Int /\ d \in Nat \ {0} /\ x <= d /\ (c = 1000 => x = d)
    BY Floor
  <1>2. Nearness(c) = Max({0, q})
    BY DEF Nearness
  <1> HIDE DEF x, d
  <1>3. q \in Int /\ q <= 1000 /\ (x = d => q = 1000)
    BY <1>1, Quotient
  <1> HIDE DEF q
  <1>4. Max({0, q}) = IF 0 <= q THEN q ELSE 0
    <2>1. \A a, b \in Int : Max({a, b}) = IF a <= b THEN b ELSE a
      BY ExtremesOfTwo
    <2> QED  BY <1>3, <2>1
  <1> QED  BY <1>1, <1>2, <1>3, <1>4

(* The nearest of finitely many examples.                                  *)
LEMMA NearestType ==
    ASSUME NEW I, IsFiniteSet(I), NEW near, \A i \in I : near[i] \in Int /\ near[i] <= 1000
    PROVE  LET cosines == {near[i] : i \in I} IN
           /\ cosines # {} => Nearness(Max(cosines)) \in Scale
           /\ \A i \in I : near[i] = Top => Nearness(Max(cosines)) = Top
  <1> USE DEF Top
  <1> DEFINE cosines == {near[i] : i \in I}
             nearest == Nearness(Max(cosines))
  <1>1. IsFiniteSet(cosines)
    BY FiniteImage
  <1>2. \A c \in cosines : c \in Int /\ c <= 1000
    OBVIOUS
  <1>3. \A i \in I : near[i] \in cosines
    OBVIOUS
  <1> HIDE DEF cosines
  <1>4. ASSUME cosines # {}
        PROVE  /\ \A c \in cosines : c <= Max(cosines)
               /\ Max(cosines) \in Int /\ Max(cosines) <= 1000
    <2>1. cosines \in SUBSET Int
      BY <1>2
    <2>2. Max(cosines) \in cosines /\ \A c \in cosines : c <= Max(cosines)
      BY <1>1, <1>4, <2>1, Extremes
    <2> QED  BY <1>2, <2>2
  <1>5. cosines # {} => nearest \in Scale
    BY <1>4, NearnessType
  <1>6. ASSUME NEW i \in I, near[i] = Top PROVE nearest = Top
    <2>1. Max(cosines) = Top
      BY <1>3, <1>4, <1>6
    <2> QED  BY <2>1, NearnessType
  <1>7. /\ cosines # {} => nearest \in Scale
        /\ \A i \in I : near[i] = Top => nearest = Top
    BY <1>5, <1>6
  <1> QED  BY <1>7 DEF cosines

LEMMA ResemblanceType ==
    ASSUME NEW c \in Contexts, NEW d \in Contexts
    PROVE  /\ Resemblance(c, d) \in Int /\ Resemblance(c, d) <= 1000
           /\ c = d => Resemblance(c, d) = Top
  <1> DEFINE r == Resemblance(c, d)
  <1>1. r \in -1000 .. 1000
    BY Likeness
  <1>2. c = d => r = Top
    BY Likeness DEF Top
  <1> HIDE DEF r
  <1>3. r \in Int /\ r <= 1000
    BY <1>1
  <1> QED  BY <1>2, <1>3 DEF r

(* The examples of a polarity, and their likeness to a context.            *)
LEMMA SemanticType ==
    ASSUME NEW evidence \in Seq(EvidenceType), NEW polarity, NEW encoder \in BOOLEAN,
           \A i \in DOMAIN evidence : Masked(evidence[i].text, evidence[i].span) \in Contexts,
           NEW text, NEW span, Masked(text, span) \in Contexts
    PROVE  /\ SemanticSimilarity(evidence, polarity, text, span, encoder) \in Scale
           /\ \A i \in DOMAIN evidence :
                 (/\ encoder /\ evidence[i].polarity = polarity /\ evidence[i].embedded
                  /\ Masked(evidence[i].text, evidence[i].span) = Masked(text, span))
                 => SemanticSimilarity(evidence, polarity, text, span, encoder) = Top
  <1> DEFINE E == {o \in About(evidence, polarity) : evidence[o].embedded}
             c == [i \in DOMAIN evidence |-> Masked(evidence[i].text, evidence[i].span)]
             d == Masked(text, span)
             near == [i \in E |-> Resemblance(c[i], d)]
             cosines == {near[i] : i \in E}
             similarity == SemanticSimilarity(evidence, polarity, text, span, encoder)
  <1>1. E \subseteq DOMAIN evidence
    BY DEF About
  <1>2. IsFiniteSet(E)
    <2>1. E \in SUBSET (1 .. Len(evidence)) /\ Len(evidence) \in Nat
      BY DEF About
    <2>2. IsFiniteSet(1 .. Len(evidence))
      BY <2>1, FS_Interval
    <2> HIDE DEF E
    <2> QED  BY <2>1, <2>2, FS_Subset
  <1>3. \A i \in E : near[i] = Resemblance(c[i], d)
    OBVIOUS
  <1>4. (\A i \in DOMAIN evidence : c[i] \in Contexts) /\ d \in Contexts
    OBVIOUS
  <1>5. similarity = IF ~encoder \/ cosines = {} THEN 0 ELSE Nearness(Max(cosines))
    <2> DEFINE seen == {Resemblance(Masked(evidence[i].text, evidence[i].span), Masked(text, span)) :
                            i \in E}
    <2>1. similarity =
            IF ~encoder \/ seen = {} THEN 0
                ELSE Max({0, ((Max(seen) - SemanticFloor) * 1000) \div (1000 - SemanticFloor)})
      BY Zenon DEF SemanticSimilarity
    <2>2. cosines = seen
      BY <1>1
    <2>3. Nearness(Max(cosines)) =
            Max({0, ((Max(cosines) - SemanticFloor) * 1000) \div (1000 - SemanticFloor)})
      BY DEF Nearness
    <2> HIDE DEF similarity, seen, cosines
    <2> QED  BY <2>1, <2>2, <2>3
  <1>6. ASSUME NEW i \in DOMAIN evidence, evidence[i].polarity = polarity, evidence[i].embedded,
               Masked(evidence[i].text, evidence[i].span) = Masked(text, span)
        PROVE  i \in E /\ c[i] = d
    BY <1>6 DEF About
  <1> HIDE DEF near, E, c, d
  <1>7. \A i \in E : near[i] \in Int /\ near[i] <= 1000 /\ (c[i] = d => near[i] = Top)
    <2> SUFFICES ASSUME NEW i \in E
                 PROVE  near[i] \in Int /\ near[i] <= 1000 /\ (c[i] = d => near[i] = Top)
      OBVIOUS
    <2>1. c[i] \in Contexts /\ d \in Contexts
      BY <1>1, <1>4, Zenon
    <2> QED  BY <1>3, <2>1, ResemblanceType
  <1>8. /\ cosines # {} => Nearness(Max(cosines)) \in Scale
        /\ \A i \in E : near[i] = Top => Nearness(Max(cosines)) = Top
    <2>1. \A i \in E : near[i] \in Int /\ near[i] <= 1000
      BY <1>7
    <2> QED  BY <1>2, <2>1, NearestType, Zenon
  <1>9. \A i \in E : cosines # {}
    OBVIOUS
  <1> HIDE DEF cosines, similarity
  <1>10. similarity = 0 \/ similarity \in Scale
    <2>1. similarity = 0 \/ (cosines # {} /\ similarity = Nearness(Max(cosines)))
      BY <1>5, Zenon
    <2> QED  BY <1>8, <2>1, Zenon
  <1>11. ASSUME NEW i \in DOMAIN evidence,
                encoder, evidence[i].polarity = polarity, evidence[i].embedded,
                Masked(evidence[i].text, evidence[i].span) = Masked(text, span)
         PROVE  similarity = Top
    <2>1. i \in E /\ c[i] = d
      BY <1>6, <1>11
    <2>2. Nearness(Max(cosines)) = Top
      BY <1>7, <1>8, <2>1
    <2> QED  BY <1>5, <1>9, <1>11, <2>1, <2>2, Zenon
  <1>12. 0 \in Scale
    BY DEF Scale
  <1>13. similarity \in Scale
    BY <1>10, <1>12, Zenon
  <1> QED  BY <1>11, <1>13, Zenon DEF similarity

(* A memory whose examples are among the contexts the encoder knows.       *)
Known(memory) ==
    /\ memory \in MemoryType
    /\ \A i \in DOMAIN memory.evidence :
          Masked(memory.evidence[i].text, memory.evidence[i].span) \in Contexts

LEMMA ContextType ==
    ASSUME NEW memory, Known(memory), NEW polarity, NEW encoder \in BOOLEAN,
           NEW text, Len(text) \in Nat, NEW span, Masked(text, span) \in Contexts
    PROVE  LET similarity == ContextSimilarity(memory.evidence, polarity, text, span, encoder) IN
           /\ similarity \in Scale
           /\ \A i \in DOMAIN memory.evidence :
                 (/\ encoder /\ memory.evidence[i].polarity = polarity
                  /\ memory.evidence[i].embedded
                  /\ Masked(memory.evidence[i].text, memory.evidence[i].span) = Masked(text, span))
                 => similarity = Top
  <1> DEFINE evidence == memory.evidence
             sparse == SparseSimilarity(evidence, polarity, text, span)
             semantic == SemanticSimilarity(evidence, polarity, text, span, encoder)
             Same(i) == /\ encoder /\ evidence[i].polarity = polarity /\ evidence[i].embedded
                        /\ Masked(evidence[i].text, evidence[i].span) = Masked(text, span)
  <1>1. /\ evidence \in Seq(EvidenceType)
        /\ \A i \in DOMAIN evidence : Masked(evidence[i].text, evidence[i].span) \in Contexts
    BY DEF Known, MemoryType
  <1> HIDE DEF evidence
  <1>2. sparse \in Scale
    BY <1>1, SparseType, Zenon
  <1>3. semantic \in Scale /\ \A i \in DOMAIN evidence : Same(i) => semantic = Top
    BY <1>1, SemanticType, Zenon
  <1>4. ContextSimilarity(evidence, polarity, text, span, encoder) = Max({sparse, semantic})
    BY DEF ContextSimilarity
  <1> HIDE DEF sparse, semantic, Same
  <1>5. sparse \in Int /\ semantic \in Int
    BY <1>2, <1>3 DEF Scale
  <1>6. Max({sparse, semantic}) = IF sparse <= semantic THEN semantic ELSE sparse
    <2>1. \A a, b \in Int : Max({a, b}) = IF a <= b THEN b ELSE a
      BY ExtremesOfTwo
    <2> QED  BY <1>5, <2>1
  <1>7. Max({sparse, semantic}) \in Scale /\ (semantic = Top => Max({sparse, semantic}) = Top)
    <2> DEFINE highest == Max({sparse, semantic})
    <2> HIDE DEF highest
    <2>1. highest = IF sparse <= semantic THEN semantic ELSE sparse
      BY <1>6 DEF highest
    <2>2. sparse <= Top /\ semantic \in Scale
      BY <1>2, <1>3, ScaleInt
    <2>3. highest \in Scale /\ (semantic = Top => highest = Top)
      BY <1>2, <1>5, <2>1, <2>2
    <2> QED  BY <2>3 DEF highest
  <1>8. /\ ContextSimilarity(evidence, polarity, text, span, encoder) \in Scale
        /\ \A i \in DOMAIN evidence :
              Same(i) => ContextSimilarity(evidence, polarity, text, span, encoder) = Top
    BY <1>3, <1>4, <1>7, Zenon
  <1> QED  BY <1>8, Zenon DEF Same, evidence

LEMMA LearnedType ==
    ASSUME NEW memory \in MemoryType, NEW asr, NEW source
    PROVE  LearnedSignal(memory, asr, source) \in Int
  <1> DEFINE matches == Reliable(memory, asr, source)
             accepted == {i \in matches : memory.outcomes[i].accepted}
             D == DOMAIN memory.outcomes
  <1>1. IsFiniteSet(D)
    <2>1. D = 1 .. Len(memory.outcomes) /\ Len(memory.outcomes) \in Nat
      BY DEF MemoryType
    <2> HIDE DEF D
    <2> QED  BY <2>1, FS_Interval
  <1>2. matches \in SUBSET D /\ accepted \in SUBSET matches
    BY DEF Reliable
  <1> HIDE DEF matches, accepted, D
  <1>3. Cardinality(matches) \in Nat /\ Cardinality(accepted) \in Nat
    <2>1. IsFiniteSet(matches)
      BY <1>1, <1>2, FS_Subset
    <2>2. IsFiniteSet(accepted)
      BY <1>2, <2>1, FS_Subset
    <2> QED  BY <2>1, <2>2, FS_CardinalityType
  <1>4. AsrAlpha \in Nat /\ AsrBeta \in Nat \ {0}
    BY PolicyTypes
  <1>5. (1000 * (AsrAlpha + Cardinality(accepted)))
            \div (AsrAlpha + AsrBeta + Cardinality(matches)) \in Int
    BY <1>3, <1>4
  <1>6. \/ LearnedSignal(memory, asr, source) = 0
        \/ LearnedSignal(memory, asr, source) =
              (1000 * (AsrAlpha + Cardinality(accepted)))
                  \div (AsrAlpha + AsrBeta + Cardinality(matches))
    BY DEF LearnedSignal, matches, accepted
  <1> QED  BY <1>5, <1>6

LEMMA ClampedType ==
    ASSUME NEW raw \in Int
    PROVE  Clamped(raw) \in Scale
  <1>1. \A a, b \in Int : /\ Max({a, b}) = IF a <= b THEN b ELSE a
                          /\ Min({a, b}) = IF a <= b THEN a ELSE b
    BY ExtremesOfTwo
  <1>2. Min({1000, raw}) = IF 1000 <= raw THEN 1000 ELSE raw
    BY <1>1
  <1> DEFINE low == Min({1000, raw})
  <1> HIDE DEF low
  <1>3. low \in Int /\ low <= 1000
    BY <1>2 DEF low
  <1>4. Max({0, low}) = IF 0 <= low THEN low ELSE 0
    BY <1>1, <1>3
  <1>5. Clamped(raw) = Max({0, low})
    BY DEF Clamped, low
  <1> QED  BY <1>3, <1>4, <1>5 DEF Scale

LEMMA AppraisalType ==
    ASSUME NEW f \in Appraisal
    PROVE  /\ f.start \in Int /\ f.end \in Int /\ f.score \in Int /\ f.name \in Int
           /\ f.score \in Scale /\ f.pos \in Scale /\ f.neg \in Scale /\ f.start < f.end
  BY DEF Appraisal, Scale

(* What is needed of a route for its candidate to be appraised.            *)
Routed(memory, text, route) ==
    /\ Known(memory) /\ Len(text) \in Nat
    /\ route.span \in SpansOf(text) /\ Masked(text, route.span) \in Contexts
    /\ Similarity(Slice(text, route.span), route.variant) \in Scale
    /\ route.confidence \in Scale

LEMMA SignalsType ==
    ASSUME NEW memory, NEW text, NEW route, Routed(memory, text, route), NEW encoder \in BOOLEAN
    PROVE  LET s == Signals(memory, text, route, encoder) IN
           /\ s.lexical \in Int /\ s.authorized \in Int /\ s.phonetic \in Int
           /\ s.confidence \in Int /\ s.learned \in Int /\ s.positive \in Scale
           /\ s.negative \in Scale
  <1> DEFINE surface == Slice(text, route.span)
             likeness == Similarity(surface, route.variant)
             heard == (96 * route.confidence) \div 100
             s == Signals(memory, text, route, encoder)
  <1>1. Known(memory) /\ Len(text) \in Nat /\ Masked(text, route.span) \in Contexts
        /\ likeness \in Int /\ route.confidence \in Int
    <2>1. likeness \in Scale /\ route.confidence \in Scale
      BY DEF Routed
    <2> HIDE DEF likeness
    <2>2. likeness \in Int /\ route.confidence \in Int
      BY <2>1, ScaleInt
    <2> QED  BY <2>2 DEF Routed
  <1>2. heard \in Int
    BY <1>1
  <1> HIDE DEF likeness, heard
  <1>3. Max({likeness, heard}) \in Int
    BY <1>1, <1>2, ExtremesOfTwo
  <1>4. /\ ContextSimilarity(memory.evidence, "positive", text, route.span, encoder) \in Scale
        /\ ContextSimilarity(memory.evidence, "negative", text, route.span, encoder) \in Scale
    BY <1>1, ContextType
  <1>5. LearnedSignal(memory, route.asr, surface) \in Int
    BY <1>1, LearnedType DEF Known
  <1>6. /\ s.lexical = Max({likeness, heard})
        /\ s.authorized = IF memory.state = "confirmed" THEN 1000 ELSE 0
        /\ s.positive = ContextSimilarity(memory.evidence, "positive", text, route.span, encoder)
        /\ s.negative = ContextSimilarity(memory.evidence, "negative", text, route.span, encoder)
        /\ s.phonetic = IF Sounds(surface) = Sounds(route.variant) THEN 1000 ELSE 0
        /\ s.confidence = route.confidence
        /\ s.learned = LearnedSignal(memory, route.asr, surface)
    BY DEF Signals, likeness, heard
  <1> HIDE DEF surface, s
  <1>7. /\ s.lexical \in Int /\ s.authorized \in Int /\ s.phonetic \in Int
        /\ s.confidence \in Int /\ s.learned \in Int /\ s.positive \in Scale
        /\ s.negative \in Scale
    BY <1>1, <1>3, <1>4, <1>5, <1>6
  <1> QED  BY <1>7, Zenon DEF s

LEMMA ScoreType ==
    ASSUME NEW s, s.lexical \in Int, s.authorized \in Int, s.phonetic \in Int,
           s.confidence \in Int, s.learned \in Int, s.positive \in Scale, s.negative \in Scale
    PROVE  Score(s) \in Scale
  <1> DEFINE c == ContextSignal(s.scope, s.positive)
             raw == LexicalWeight * s.lexical + AuthorizationWeight * s.authorized
                    + ContextWeight * ContextSignal(s.scope, s.positive)
                    + PhoneticWeight * s.phonetic + AlternativeWeight * s.confidence
                    + LearnedWeight * s.learned - NegativeWeight * s.negative
  <1>1. c \in Int
    <2> DEFINE p == Power(s.positive)
    <2>1. p \in Scale
      BY PowerType
    <2> HIDE DEF p
    <2>2. p \in Int
      BY <2>1, ScaleInt
    <2>3. c = 1000 \/ c = p
      BY DEF ContextSignal, p
    <2> HIDE DEF c
    <2> QED  BY <2>2, <2>3
  <1>2. raw \in Int
    <2>1. LexicalWeight \in Int /\ AuthorizationWeight \in Int /\ ContextWeight \in Int
          /\ PhoneticWeight \in Int /\ AlternativeWeight \in Int /\ LearnedWeight \in Int
          /\ NegativeWeight \in Int /\ s.negative \in Int
      BY PolicyTypes, ScaleInt
    <2> HIDE DEF c
    <2>2. raw = LexicalWeight * s.lexical + AuthorizationWeight * s.authorized
                + ContextWeight * c
                + PhoneticWeight * s.phonetic + AlternativeWeight * s.confidence
                + LearnedWeight * s.learned - NegativeWeight * s.negative
      BY DEF c
    <2>3. LexicalWeight * s.lexical \in Int /\ AuthorizationWeight * s.authorized \in Int
          /\ ContextWeight * c \in Int /\ PhoneticWeight * s.phonetic \in Int
          /\ AlternativeWeight * s.confidence \in Int /\ LearnedWeight * s.learned \in Int
          /\ NegativeWeight * s.negative \in Int
      BY <1>1, <2>1
    <2> QED  BY <2>2, <2>3
  <1>3. Score(s) = Clamped(raw \div 100)
    BY DEF Score
  <1> HIDE DEF raw
  <1>4. raw \div 100 \in Int
    BY <1>2
  <1> QED  BY <1>3, <1>4, ClampedType

LEMMA ScoredType ==
    ASSUME NEW memory, NEW text, NEW route, Routed(memory, text, route), NEW encoder \in BOOLEAN
    PROVE  LET f == Scored(memory, text, route, encoder) IN
           /\ f \in Appraisal
           /\ f.start = route.span[1] /\ f.end = route.span[2] /\ f.name = memory.name
           /\ f.pos = ContextSimilarity(memory.evidence, "positive", text, route.span, encoder)
           /\ f.neg = ContextSimilarity(memory.evidence, "negative", text, route.span, encoder)
           /\ f.blockers = Blockers(memory, f.pos, f.neg, encoder)
  <1> DEFINE s == Signals(memory, text, route, encoder)
             f == Scored(memory, text, route, encoder)
             b == Blockers(memory, s.positive, s.negative, encoder)
  <1>1. Score(s) \in Scale /\ s.positive \in Scale /\ s.negative \in Scale
    <2>1. /\ s.lexical \in Int /\ s.authorized \in Int /\ s.phonetic \in Int
          /\ s.confidence \in Int /\ s.learned \in Int /\ s.positive \in Scale
          /\ s.negative \in Scale
      BY SignalsType, Zenon
    <2> HIDE DEF s
    <2> QED  BY <2>1, ScoreType
  <1>2. b \in SUBSET {"ELIGIBILITY", "NEGATIVE_CONTEXT_EVIDENCE"}
    BY DEF Blockers
  <1>3. route.span[1] \in Nat /\ route.span[2] \in Nat /\ route.span[1] < route.span[2]
    BY DEF Routed, SpansOf
  <1>4. memory.name \in Nat
    BY DEF Routed, Known, MemoryType
  <1>5. f = [start |-> route.span[1], end |-> route.span[2],
             score |-> Score(s), pos |-> s.positive, neg |-> s.negative, name |-> memory.name,
             blockers |-> b]
    BY DEF Scored, Appraised
  <1>6. /\ s.positive = ContextSimilarity(memory.evidence, "positive", text, route.span, encoder)
        /\ s.negative = ContextSimilarity(memory.evidence, "negative", text, route.span, encoder)
    BY DEF Signals
  <1> HIDE DEF b, s, f
  <1>7. f \in Appraisal
    BY <1>1, <1>2, <1>3, <1>4, <1>5 DEF Appraisal, Scale
  <1>8. /\ f.start = route.span[1] /\ f.end = route.span[2] /\ f.name = memory.name
        /\ f.pos = s.positive /\ f.neg = s.negative /\ f.blockers = b
    BY <1>5
  <1>9. b = Blockers(memory, f.pos, f.neg, encoder)
    BY <1>8 DEF b
  <1>10. /\ f \in Appraisal
         /\ f.start = route.span[1] /\ f.end = route.span[2] /\ f.name = memory.name
         /\ f.pos = ContextSimilarity(memory.evidence, "positive", text, route.span, encoder)
         /\ f.neg = ContextSimilarity(memory.evidence, "negative", text, route.span, encoder)
         /\ f.blockers = Blockers(memory, f.pos, f.neg, encoder)
    BY <1>6, <1>7, <1>8, <1>9
  <1> QED  BY <1>10, Zenon DEF f

-----------------------------------------------------------------------------
(* What a request may find, and what may be asked of it.                   *)
Held(mems) ==
    \E st \in Store :
        /\ mems = [m \in Memory |-> mems[m]]
        /\ \A m \in Memory :
              /\ Known(mems[m])
              /\ mems[m].name = st[m].name /\ mems[m].variants = st[m].variants
              /\ mems[m].canonical = st[m].canonical

Asked(b) == \E c \in Body : b.encoder \in BOOLEAN /\ b = [c EXCEPT !.encoder = b.encoder]

LEMMA AskedType ==
    ASSUME NEW b, Asked(b)
    PROVE  /\ b \in BodyType /\ Len(b.text) \in 0 .. MaxLength
           /\ \A span \in SpansOf(b.text) : Masked(b.text, span) \in Contexts
  <1>1. PICK c \in Body : b.encoder \in BOOLEAN /\ b = [c EXCEPT !.encoder = b.encoder]
    BY DEF Asked
  <1>2. Body \subseteq BodyType /\ \A d \in Body : Len(d.text) <= MaxLength
    BY InferenceAssumption, Zenon
  <1>8. c \in BodyType
    BY <1>2
  <1>3. b \in BodyType /\ b.text = c.text
    BY <1>1, <1>8 DEF BodyType
  <1>4. Len(b.text) \in Nat
    BY <1>3 DEF BodyType, Text
  <1>5. MaxLength \in Nat
    BY InferenceAssumption, Zenon
  <1>6. Len(b.text) \in 0 .. MaxLength
    BY <1>2, <1>3, <1>4, <1>5
  <1>7. \A span \in SpansOf(c.text) : Masked(c.text, span) \in Contexts
    <2> SUFFICES ASSUME NEW span \in SpansOf(c.text)
                 PROVE  Masked(c.text, span) \in AskedContexts
      BY DEF Contexts
    <2> DEFINE masked == {Masked(c.text, sp) : sp \in SpansOf(c.text)}
    <2>1. Masked(c.text, span) \in masked
      OBVIOUS
    <2>2. masked \in {{Masked(d.text, sp) : sp \in SpansOf(d.text)} : d \in Body}
      OBVIOUS
    <2> HIDE DEF masked
    <2> QED  BY <2>1, <2>2 DEF AskedContexts
  <1> QED  BY <1>3, <1>6, <1>7

LEMMA HeldType ==
    ASSUME NEW mems, Held(mems)
    PROVE  /\ DOMAIN mems = Memory /\ IsFiniteSet(Memory)
           /\ \A m \in Memory : Known(mems[m]) /\ mems[m] \in MemoryType
           /\ \A m, o \in Memory : mems[m].name = mems[o].name => m = o
           /\ \A b : Asked(b) =>
                 \A m \in Memory : \A span \in SpansOf(b.text), v \in mems[m].variants :
                    Similarity(Slice(b.text, span), v) \in Scale
  <1>1. PICK st \in Store :
            /\ mems = [m \in Memory |-> mems[m]]
            /\ \A m \in Memory :
                  /\ Known(mems[m])
                  /\ mems[m].name = st[m].name /\ mems[m].variants = st[m].variants
                  /\ mems[m].canonical = st[m].canonical
    BY DEF Held
  <1>2. IsFiniteSet(Memory) /\ \A m, o \in Memory : st[m].name = st[o].name => m = o
    BY InferenceAssumption, Zenon
  <1>3. ASSUME NEW b, Asked(b), NEW m \in Memory, NEW span \in SpansOf(b.text),
               NEW v \in mems[m].variants
        PROVE  Similarity(Slice(b.text, span), v) \in Scale
    <2>1. PICK c \in Body : b.encoder \in BOOLEAN /\ b = [c EXCEPT !.encoder = b.encoder]
      BY <1>3 DEF Asked
    <2>2. b.text = c.text
      <3>1. Body \subseteq BodyType
        BY InferenceAssumption, Zenon
      <3> QED  BY <2>1, <3>1 DEF BodyType
    <2>3. v \in st[m].variants
      BY <1>1
    <2>4. \A sp \in SpansOf(c.text), w \in st[m].variants : Similarity(Slice(c.text, sp), w) \in Scale
      BY SimilarityType
    <2> QED  BY <2>2, <2>3, <2>4
  <1>4. DOMAIN mems = Memory
    BY <1>1
  <1>5. \A m \in Memory : Known(mems[m]) /\ mems[m] \in MemoryType
    BY <1>1 DEF Known
  <1>6. \A m, o \in Memory : mems[m].name = mems[o].name => m = o
    BY <1>1, <1>2
  <1> QED  BY <1>2, <1>3, <1>4, <1>5, <1>6

(* A route leads to a span of the text, and its candidate is appraised.    *)
LEMMA OfferType ==
    ASSUME NEW mems, Held(mems), NEW b, Asked(b), NEW o \in Offers(mems, b)
    PROVE  /\ o.key \in Key /\ o.route.span = <<o.key[2], o.key[3]>>
           /\ Routed(mems[o.key[1]], b.text, o.route)
           /\ o.feature = Scored(mems[o.key[1]], b.text, o.route, b.encoder)
           /\ o.route.asr \in Asr \cup {NoAsr}
           /\ o.route # NoRoute
  <1>1. PICK r \in DirectRoutes(mems, b) \cup AlternativeRoutes(mems, b) :
            o = [key |-> <<r.memory, r.span[1], r.span[2]>>, route |-> r,
                 feature |-> Scored(mems[r.memory], b.text, r, b.encoder)]
    BY DEF Offers
  <1>2. /\ Len(b.text) \in 0 .. MaxLength /\ b \in BodyType
        /\ \A span \in SpansOf(b.text) : Masked(b.text, span) \in Contexts
    BY AskedType
  <1>3. MaxLength \in Nat
    BY InferenceAssumption, Zenon
  <1>4. DOMAIN mems = Memory /\ \A m \in Memory : Known(mems[m]) /\ mems[m] \in MemoryType
    BY HeldType
  <1>5. ASSUME NEW q \in Sought(mems)
        PROVE  /\ q[1] \in Memory /\ q[2] \in mems[q[1]].variants
               /\ Len(q[2]) \in Nat \ {0}
    <2>1. q[1] \in Memory /\ q[2] \in mems[q[1]].variants
      BY <1>4 DEF Sought, Retrievable
    <2>2. q[2] \in Text /\ q[2] # <<>>
      BY <1>4, <2>1 DEF MemoryType
    <2>3. Len(q[2]) \in Nat /\ Len(q[2]) # 0
      BY <2>2 DEF Text
    <2> QED  BY <2>1, <2>3
  <1>6. /\ r.memory \in Memory /\ r.variant \in mems[r.memory].variants
        /\ r.span \in SpansOf(b.text) /\ r.confidence \in Scale
        /\ r.asr \in Asr \cup {NoAsr} /\ r # NoRoute
    <2>1. CASE r \in DirectRoutes(mems, b)
      <3>1. PICK q \in Sought(mems) : \E f \in CandidateSpans(b.text, q[2]) :
                r = [memory |-> q[1], variant |-> q[2], span |-> f.span, method |-> f.method,
                     index |-> 0, confidence |-> 0, asr |-> b.asr]
        BY <2>1 DEF DirectRoutes
      <3>2. PICK f \in CandidateSpans(b.text, q[2]) :
                r = [memory |-> q[1], variant |-> q[2], span |-> f.span, method |-> f.method,
                     index |-> 0, confidence |-> 0, asr |-> b.asr]
        BY <3>1
      <3>3. f.span \in SpansOf(b.text)
        BY <1>2, <1>5, CandidateIn
      <3>4. b.asr \in Asr \cup {NoAsr}
        BY <1>2 DEF BodyType
      <3>5. 0 \in Scale
        BY DEF Scale
      <3>6. r # NoRoute
        BY <3>2 DEF NoRoute
      <3> QED  BY <1>5, <3>2, <3>3, <3>4, <3>5, <3>6
    <2>2. CASE r \in AlternativeRoutes(mems, b)
      <3>1. PICK q \in Sought(mems) \X DOMAIN b.alternatives :
                \E f \in AlternativeSpans(b.text, b.alternatives[q[2]].text, q[1][2]) :
                    r = [memory |-> q[1][1], variant |-> q[1][2], span |-> f.span,
                         method |-> "asr_alternative", index |-> q[2],
                         confidence |-> b.alternatives[q[2]].confidence,
                         asr |-> b.alternatives[q[2]].asr]
        BY <2>2 DEF AlternativeRoutes
      <3>2. PICK f \in AlternativeSpans(b.text, b.alternatives[q[2]].text, q[1][2]) :
                    r = [memory |-> q[1][1], variant |-> q[1][2], span |-> f.span,
                         method |-> "asr_alternative", index |-> q[2],
                         confidence |-> b.alternatives[q[2]].confidence,
                         asr |-> b.alternatives[q[2]].asr]
        BY <3>1
      <3>3. f.span \in SpansOf(b.text)
        BY <1>2, AlternativeIn
      <3>4. b.alternatives[q[2]] \in AlternativeType
        <4>1. b.alternatives \in Seq(AlternativeType)
          BY <1>2 DEF BodyType
        <4> QED  BY <3>1, <4>1
      <3>5. b.alternatives[q[2]].asr \in Asr /\ b.alternatives[q[2]].confidence \in Scale
        BY <3>4 DEF AlternativeType, Scale
      <3>6. q[1] \in Sought(mems)
        BY <3>1
      <3>7. q[1][1] \in Memory /\ q[1][2] \in mems[q[1][1]].variants
        BY <1>5, <3>6
      <3>8. r # NoRoute
        BY <3>2 DEF NoRoute
      <3> QED  BY <3>2, <3>3, <3>5, <3>7, <3>8
    <2> QED  BY <1>1, <2>1, <2>2
  <1>7. r.span = <<r.span[1], r.span[2]>> /\ <<r.memory, r.span[1], r.span[2]>> \in Key
    <2>1. r.span[1] \in 0 .. MaxLength /\ r.span[2] \in 0 .. MaxLength /\ r.span[1] < r.span[2]
          /\ r.span = <<r.span[1], r.span[2]>>
      BY <1>2, <1>3, <1>6 DEF SpansOf
    <2> QED  BY <1>6, <2>1 DEF Key
  <1>8. Similarity(Slice(b.text, r.span), r.variant) \in Scale
    BY <1>6, HeldType
  <1>9. Routed(mems[r.memory], b.text, r)
    BY <1>2, <1>4, <1>6, <1>8 DEF Routed
  <1>10. o.key = <<r.memory, r.span[1], r.span[2]>> /\ o.route = r
         /\ o.feature = Scored(mems[r.memory], b.text, r, b.encoder)
    BY <1>1
  <1>11. o.key[1] = r.memory /\ o.key[2] = r.span[1] /\ o.key[3] = r.span[2]
    BY <1>10
  <1> QED  BY <1>6, <1>7, <1>9, <1>10, <1>11

-----------------------------------------------------------------------------
(* A request is served from nothing retained and nothing selected.         *)
Fresh ==
    /\ stage = "score"
    /\ offers = Offers(memories, body) /\ pending = offers
    /\ kept = [k \in Key |-> NoRoute]
    /\ features = [k \in Key |-> Parked(memories, k)]
    /\ thresholds = ThresholdsOf(body) /\ request = body.shadow
    /\ pass = "active" /\ running = FALSE /\ todo = {} /\ action = Idle
    /\ blockers = [k \in Key |-> {}]
    /\ winners = [p \in Selection!Pass |-> {}]

(* What is retained is what scoring made of a route.                       *)
RetainedInv ==
    /\ kept = [k \in Key |-> kept[k]] /\ features = [k \in Key |-> features[k]]
    /\ offers = Offers(memories, body) /\ pending \subseteq offers
    /\ \A k \in Key :
          \/ kept[k] = NoRoute /\ features[k] = Parked(memories, k)
          \/ \E o \in offers \ pending :
                o.key = k /\ o.route = kept[k] /\ o.feature = features[k]

LEMMA InitFresh == Init => Fresh
  BY DEF Init, Fresh

LEMMA JudgeFresh ==
    ASSUME NEW m, NEW s, NEW accepted, NEW encoder, Judge(m, s, accepted, encoder)
    PROVE  Fresh'
  BY DEF Judge, Fresh

LEMMA RetainedFresh == Fresh => RetainedInv
  BY DEF Fresh, RetainedInv

LEMMA RetainedScore ==
    ASSUME RetainedInv, NEW o \in pending, ScoreRoute(o)
    PROVE  RetainedInv'
  <1> USE DEF RetainedInv
  <1>1. /\ kept' = [k \in Key |-> kept'[k]] /\ features' = [k \in Key |-> features'[k]]
        /\ offers' = Offers(memories', body') /\ pending' \subseteq offers'
    BY DEF ScoreRoute
  <1>2. ASSUME NEW k \in Key
        PROVE  \/ kept'[k] = NoRoute /\ features'[k] = Parked(memories', k)
               \/ \E q \in offers' \ pending' :
                     q.key = k /\ q.route = kept'[k] /\ q.feature = features'[k]
    <2>1. CASE Supersedes(o) /\ o.key = k
      <3>1. kept'[k] = o.route /\ features'[k] = o.feature
        BY <2>1 DEF ScoreRoute
      <3>2. o \in offers' \ pending'
        BY DEF ScoreRoute
      <3> QED  BY <2>1, <3>1, <3>2
    <2>2. CASE ~(Supersedes(o) /\ o.key = k)
      <3>1. kept'[k] = kept[k] /\ features'[k] = features[k]
        BY <2>2 DEF ScoreRoute
      <3>2. offers \ pending \subseteq offers' \ pending' /\ memories' = memories
        BY DEF ScoreRoute
      <3> QED  BY <3>1, <3>2
    <2> QED  BY <2>1, <2>2
  <1> QED  BY <1>1, <1>2

LEMMA RetainedNext == RetainedInv /\ [Next]_vars => RetainedInv'
  <1> SUFFICES ASSUME RetainedInv, [Next]_vars PROVE RetainedInv'
    OBVIOUS
  <1>1. CASE \E o \in pending : ScoreRoute(o)
    BY <1>1, RetainedScore
  <1>2. CASE Generated \/ Respond \/ RespondShadow \/ UNCHANGED vars
    BY <1>2 DEF RetainedInv, Generated, Respond, RespondShadow, vars, selectionVars
  <1>3. CASE Select
    <2>1. UNCHANGED <<memories, body, offers, pending, kept, features>>
      BY <1>3 DEF Select, Selection!Next, Selection!Begin, Selection!LoseMargin, Selection!LoseSpan,
                  Selection!Win, Selection!Visit, Selection!End
    <2> QED  BY <2>1 DEF RetainedInv
  <1>4. CASE \E k \in Retained, accepted, encoder \in BOOLEAN : Judge(k[1], k[2], accepted, encoder)
    <2>1. Fresh'
      BY <1>4, JudgeFresh
    <2>2. Fresh' => RetainedInv'
      BY RetainedFresh, PTL
    <2> QED  BY <2>1, <2>2
  <1> QED  BY <1>1, <1>2, <1>3, <1>4 DEF Next

LEMMA RetainedIsScored == Spec => []RetainedInv
  BY InitFresh, RetainedFresh, RetainedNext, PTL DEF Spec

(* A direct route leads to an occurrence of a variant in the text.         *)
LEMMA DirectRoute ==
    ASSUME NEW mems, NEW b, NEW o \in Offers(mems, b), o.route.method \in Method
    PROVE  /\ o.route \in DirectRoutes(mems, b)
           /\ o.key[1] = o.route.memory
           /\ <<o.key[2], o.key[3]>> = <<o.route.span[1], o.route.span[2]>>
           /\ o.route.memory \in Retrievable(mems)
           /\ o.route.variant \in mems[o.route.memory].variants
           /\ \E f \in CandidateSpans(b.text, o.route.variant) :
                 f.span = o.route.span /\ f.method = o.route.method
           /\ Slice(b.text, o.route.span) # mems[o.route.memory].canonical
  <1>1. PICK r \in DirectRoutes(mems, b) \cup AlternativeRoutes(mems, b) :
            /\ Slice(b.text, r.span) # mems[r.memory].canonical
            /\ o = [key |-> <<r.memory, r.span[1], r.span[2]>>, route |-> r,
                    feature |-> Scored(mems[r.memory], b.text, r, b.encoder)]
    BY DEF Offers
  <1>2. o.route = r /\ o.key = <<r.memory, r.span[1], r.span[2]>>
    BY <1>1
  <1>3. r \notin AlternativeRoutes(mems, b)
    <2>1. ASSUME r \in AlternativeRoutes(mems, b) PROVE r.method = "asr_alternative"
      BY <2>1 DEF AlternativeRoutes
    <2> QED  BY <1>2, <2>1 DEF Method
  <1>4. PICK q \in Sought(mems) : \E f \in CandidateSpans(b.text, q[2]) :
            r = [memory |-> q[1], variant |-> q[2], span |-> f.span, method |-> f.method,
                 index |-> 0, confidence |-> 0, asr |-> b.asr]
    BY <1>1, <1>3 DEF DirectRoutes
  <1>5. q[1] \in Retrievable(mems) /\ q[2] \in mems[q[1]].variants
    BY DEF Sought
  <1>6. r.memory = q[1] /\ r.variant = q[2]
        /\ \E f \in CandidateSpans(b.text, q[2]) : f.span = r.span /\ f.method = r.method
    BY <1>4
  <1> QED  BY <1>1, <1>2, <1>3, <1>5, <1>6

(* An edit with a route has the appraisal of that route; the others are    *)
(* parked.                                                                 *)
LEMMA RetainedType ==
    ASSUME RetainedInv, Held(memories), Asked(body), NEW k \in Key
    PROVE  /\ features[k] \in Appraisal /\ features[k].name = memories[k[1]].name
           /\ k \notin Retained => features[k] = Parked(memories, k)
           /\ k \in Retained =>
                /\ kept[k].span = <<k[2], k[3]>> /\ kept[k].asr \in Asr \cup {NoAsr}
                /\ Routed(memories[k[1]], body.text, kept[k])
                /\ features[k] = Scored(memories[k[1]], body.text, kept[k], body.encoder)
  <1>1. CASE kept[k] = NoRoute /\ features[k] = Parked(memories, k)
    <2>1. MaxLength \in Nat
      BY InferenceAssumption, Zenon
    <2>2. k[1] \in Memory /\ k[2] \in Nat /\ k[3] \in Nat /\ k[2] < k[3]
      BY <2>1 DEF Key
    <2>3. memories[k[1]] \in MemoryType
      BY <2>2, HeldType
    <2>4. memories[k[1]].name \in Nat
      BY <2>3 DEF MemoryType
    <2>5. Parked(memories, k) \in Appraisal /\ Parked(memories, k).name = memories[k[1]].name
      BY <2>1, <2>2, <2>4 DEF Parked, Appraisal
    <2> QED  BY <1>1, <2>5 DEF Retained
  <1>2. CASE \E o \in offers \ pending :
                 o.key = k /\ o.route = kept[k] /\ o.feature = features[k]
    <2>1. PICK o \in offers : o.key = k /\ o.route = kept[k] /\ o.feature = features[k]
      BY <1>2
    <2>2. o \in Offers(memories, body)
      BY DEF RetainedInv
    <2>3. /\ kept[k].span = <<k[2], k[3]>> /\ kept[k].asr \in Asr \cup {NoAsr}
          /\ Routed(memories[k[1]], body.text, kept[k])
          /\ features[k] = Scored(memories[k[1]], body.text, kept[k], body.encoder)
          /\ kept[k] # NoRoute
      BY <2>1, <2>2, OfferType
    <2>4. body.encoder \in BOOLEAN
      BY DEF Asked
    <2>5. features[k] \in Appraisal /\ features[k].name = memories[k[1]].name
      BY <2>3, <2>4, ScoredType
    <2> QED  BY <2>3, <2>5 DEF Retained
  <1> QED  BY <1>1, <1>2 DEF RetainedInv

(* The signals of an edit come from its memory and its span, by whichever  *)
(* route it was found.                                                     *)
LEMMA RetainedSignals ==
    ASSUME RetainedInv, Held(memories), Asked(body), NEW k \in Retained
    PROVE  LET memory == memories[k[1]]
               span == <<k[2], k[3]>>
           IN  /\ k \in Key /\ Known(memory) /\ body.encoder \in BOOLEAN
               /\ span \in SpansOf(body.text) /\ Masked(body.text, span) \in Contexts
               /\ Len(body.text) \in Nat
               /\ features[k].start = k[2] /\ features[k].end = k[3]
               /\ features[k].pos =
                     ContextSimilarity(memory.evidence, "positive", body.text, span, body.encoder)
               /\ features[k].neg =
                     ContextSimilarity(memory.evidence, "negative", body.text, span, body.encoder)
               /\ features[k].blockers =
                     Blockers(memory, features[k].pos, features[k].neg, body.encoder)
  <1> DEFINE memory == memories[k[1]]
             span == <<k[2], k[3]>>
             f == features[k]
  <1>1. k \in Key /\ body.encoder \in BOOLEAN
    BY DEF Retained, Asked
  <1>2. /\ kept[k].span = span
        /\ Routed(memory, body.text, kept[k])
        /\ f = Scored(memory, body.text, kept[k], body.encoder)
    BY <1>1, RetainedType
  <1> HIDE DEF memory, f
  <1>3. /\ f.start = kept[k].span[1] /\ f.end = kept[k].span[2]
        /\ f.pos = ContextSimilarity(memory.evidence, "positive", body.text, kept[k].span, body.encoder)
        /\ f.neg = ContextSimilarity(memory.evidence, "negative", body.text, kept[k].span, body.encoder)
        /\ f.blockers = Blockers(memory, f.pos, f.neg, body.encoder)
    BY <1>1, <1>2, ScoredType
  <1>4. /\ Known(memory) /\ kept[k].span \in SpansOf(body.text)
        /\ Masked(body.text, kept[k].span) \in Contexts /\ Len(body.text) \in Nat
    BY <1>2 DEF Routed
  <1>5. kept[k].span[1] = k[2] /\ kept[k].span[2] = k[3]
    BY <1>2
  <1> HIDE DEF span
  <1>6. /\ k \in Key /\ Known(memory) /\ body.encoder \in BOOLEAN
        /\ span \in SpansOf(body.text) /\ Masked(body.text, span) \in Contexts
        /\ Len(body.text) \in Nat
        /\ f.start = k[2] /\ f.end = k[3]
        /\ f.pos = ContextSimilarity(memory.evidence, "positive", body.text, span, body.encoder)
        /\ f.neg = ContextSimilarity(memory.evidence, "negative", body.text, span, body.encoder)
        /\ f.blockers = Blockers(memory, f.pos, f.neg, body.encoder)
    BY <1>1, <1>2, <1>3, <1>4, <1>5
  <1> QED  BY <1>6, Zenon DEF memory, span, f

-----------------------------------------------------------------------------
(* Two memories that reach the same words exactly share a surface route,   *)
(* and so a group; of long enough words the collision scan sees all.       *)
LEMMA Competing ==
    ASSUME RetainedInv, Held(memories), NEW k \in Retained, kept[k].method = "exact"
    PROVE  /\ k[1] \in Colliding(memories)
           /\ Slice(body.text, <<k[2], k[3]>>) \in memories[k[1]].variants
  <1>1. PICK o \in Offers(memories, body) : o.key = k /\ o.route = kept[k]
    BY DEF Retained, RetainedInv
  <1>2. o.route.method = "exact" /\ o.route.method \in Method
    BY <1>1 DEF Method
  <1>3. /\ k[1] = o.route.memory /\ <<k[2], k[3]>> = <<o.route.span[1], o.route.span[2]>>
        /\ o.route.memory \in Retrievable(memories)
        /\ o.route.variant \in memories[o.route.memory].variants
        /\ \E f \in CandidateSpans(body.text, o.route.variant) :
              f.span = o.route.span /\ f.method = o.route.method
    BY <1>1, <1>2, DirectRoute
  <1>4. Slice(body.text, o.route.span) = o.route.variant
    BY <1>2, <1>3, ExactMatch
  <1>5. Slice(body.text, <<k[2], k[3]>>) = Slice(body.text, o.route.span)
    BY <1>3 DEF Slice
  <1> QED  BY <1>3, <1>4, <1>5 DEF Colliding, Retrievable

LEMMA RetainedCompetition == RetainedInv /\ Held(memories) => CompetitionListed
  <1> SUFFICES ASSUME RetainedInv, Held(memories), NEW k \in Retained, NEW o \in Retained,
                      k[1] # o[1], k[2] = o[2], k[3] = o[3],
                      kept[k].method = "exact", kept[o].method = "exact",
                      Letters(Slice(body.text, <<k[2], k[3]>>)) >= 4
               PROVE  \E c \in Conflicts(memories) : {k[1], o[1]} \subseteq c.members
    BY DEF CompetitionListed
  <1> DEFINE w == Slice(body.text, <<k[2], k[3]>>)
             route == <<"surface", w>>
             Members(r) == {m \in Colliding(memories) : r \in RoutesTo(memories[m])}
             routes == UNION {RoutesTo(memories[m]) : m \in Colliding(memories)}
  <1>1. /\ k[1] \in Colliding(memories) /\ w \in memories[k[1]].variants
        /\ o[1] \in Colliding(memories) /\ w \in memories[o[1]].variants
    BY Competing
  <1>2. route \in RoutesTo(memories[k[1]]) /\ route \in RoutesTo(memories[o[1]])
    BY <1>1 DEF RoutesTo
  <1> HIDE DEF w
  <1>3. {k[1], o[1]} \subseteq Members(route) /\ route \in routes
    BY <1>1, <1>2
  <1>4. Cardinality(Members(route)) > 1
    <2>1. Members(route) \in SUBSET Memory
      BY HeldType DEF Colliding
    <2> DEFINE pair == {k[1], o[1]}
    <2>2. IsFiniteSet(Members(route)) /\ pair \in SUBSET Members(route)
      <3> HIDE DEF Members
      <3> QED  BY <1>3, <2>1, HeldType, FS_Subset
    <2> HIDE DEF Members, pair
    <2>3. Cardinality(pair) <= Cardinality(Members(route)) /\ Cardinality(Members(route)) \in Nat
      BY <2>2, FS_Subset, FS_CardinalityType
    <2>4. Cardinality(pair) = 2
      <3>1. IsFiniteSet({k[1]}) /\ Cardinality({k[1]}) = 1 /\ o[1] \notin {k[1]}
        BY FS_Singleton
      <3>2. Cardinality({k[1]} \cup {o[1]}) = 1 + 1
        BY <3>1, FS_AddElement
      <3>3. pair = {k[1]} \cup {o[1]}
        BY DEF pair
      <3> QED  BY <3>2, <3>3
    <2> QED  BY <2>3, <2>4
  <1> DEFINE c == [route |-> route, members |-> Members(route),
                   resolvable |-> Resolvable(memories, Members(route))]
  <1>5. c \in Conflicts(memories)
    BY <1>3, <1>4 DEF Conflicts
  <1>6. c.members = Members(route)
    OBVIOUS
  <1> HIDE DEF c, Members, routes
  <1> QED  BY <1>3, <1>5, <1>6

-----------------------------------------------------------------------------
(* A verdict on (memory, start) is about one retained candidate.           *)
LEMMA KeysFinite == IsFiniteSet(Key)
  <1> DEFINE I == 0 .. MaxLength
             Q == (Memory \X I) \X I
             triple == [q \in Q |-> <<q[1][1], q[1][2], q[2]>>]
  <1>1. IsFiniteSet(Memory) /\ MaxLength \in Nat
    BY InferenceAssumption, Zenon
  <1>2. IsFiniteSet(I)
    BY <1>1, FS_Interval
  <1>3. Key \subseteq {triple[q] : q \in Q}
    <2> SUFFICES ASSUME NEW k \in Key PROVE \E q \in Q : k = triple[q]
      OBVIOUS
    <2>1. k[1] \in Memory /\ k[2] \in I /\ k[3] \in I /\ k = <<k[1], k[2], k[3]>>
      BY DEF Key
    <2> DEFINE q == <<<<k[1], k[2]>>, k[3]>>
    <2>2. q \in Q /\ triple[q] = k
      BY <2>1
    <2> QED  BY <2>2
  <1> HIDE DEF I, triple
  <1>4. IsFiniteSet(Memory \X I)
    BY <1>1, <1>2, FS_Product
  <1>5. IsFiniteSet(Q)
    BY <1>2, <1>4, FS_Product
  <1> HIDE DEF Q
  <1>6. IsFiniteSet({triple[q] : q \in Q})
    BY <1>5, FiniteImage
  <1> QED  BY <1>3, <1>6, FS_Subset

LEMMA FirstOf ==
    ASSUME NEW S, IsFiniteSet(S), S # {}, NEW R,
           \A x \in S : <<x, x>> \notin R,
           \A x, y, z \in S : <<x, y>> \in R /\ <<y, z>> \in R => <<x, z>> \in R,
           \A x, y \in S : x = y \/ <<x, y>> \in R \/ <<y, x>> \in R
    PROVE  \E x \in S : \A y \in S \ {x} : <<x, y>> \in R
  <1> DEFINE n == Cardinality(S)
             f == Sorted(S, R)
  <1>1. /\ n \in Nat /\ f \in [1 .. n -> S]
        /\ \A x \in S : \E i \in 1 .. n : f[i] = x
        /\ \A i, j \in 1 .. n : i < j => <<f[i], f[j]>> \in R
    <2>1. /\ Cardinality(S) \in Nat
          /\ Sorted(S, R) \in [1 .. Cardinality(S) -> S]
          /\ \A x \in S : \E i \in 1 .. Cardinality(S) : Sorted(S, R)[i] = x
          /\ \A i, j \in 1 .. Cardinality(S) :
                i < j => <<Sorted(S, R)[i], Sorted(S, R)[j]>> \in R
      BY SortedLists, Zenon
    <2> QED  BY <2>1
  <1>2. n # 0
    BY FS_EmptySet
  <1> HIDE DEF n, f
  <1>3. 1 \in 1 .. n
    BY <1>1, <1>2
  <1>4. f[1] \in S
    BY <1>1, <1>3
  <1>5. ASSUME NEW y \in S \ {f[1]} PROVE <<f[1], y>> \in R
    <2>1. PICK i \in 1 .. n : f[i] = y
      BY <1>1
    <2>2. 1 < i
      BY <2>1
    <2> QED  BY <1>1, <1>3, <2>1, <2>2
  <1> QED  BY <1>4, <1>5

LEMMA ResolvedIsFound ==
    ASSUME RetainedInv, Held(memories), Asked(body), NEW m, NEW s,
           NEW r \in Retained, r[1] = m, r[2] = s
    PROVE  Resolved(m, s) \in Retained /\ Resolved(m, s)[1] = m /\ Resolved(m, s)[2] = s
  <1> DEFINE found == {k \in Retained : k[1] = m /\ k[2] = s}
             R == {p \in found \X found : Selection!Precedes(p[1], p[2])}
             First(k) == \A o \in found \ {k} : Selection!Precedes(k, o)
  <1>1. IsFiniteSet(found) /\ found # {}
    <2>1. found \in SUBSET Key
      BY DEF Retained
    <2>2. found # {}
      OBVIOUS
    <2> HIDE DEF found
    <2> QED  BY <2>1, <2>2, KeysFinite, FS_Subset
  <1>2. ASSUME NEW k \in found
        PROVE  /\ features[k].start \in Int /\ features[k].end \in Int
               /\ features[k].score \in Int /\ features[k].name \in Int
               /\ features[k].start = s /\ features[k].end = k[3]
               /\ k = <<m, s, k[3]>>
    <2>1. k \in Retained /\ k[1] = m /\ k[2] = s /\ k \in Key
      BY DEF Retained
    <2>2. features[k].start = k[2] /\ features[k].end = k[3]
      BY <2>1, RetainedSignals
    <2>3. features[k] \in Appraisal
      BY <2>1, RetainedType
    <2>4. k = <<k[1], k[2], k[3]>>
      BY <2>1 DEF Key
    <2>5. /\ features[k].start \in Int /\ features[k].end \in Int
          /\ features[k].score \in Int /\ features[k].name \in Int
      BY <2>3, AppraisalType
    <2> QED  BY <2>1, <2>2, <2>4, <2>5
  <1>3. ASSUME NEW k \in found, NEW o \in found
        PROVE  /\ <<k, o>> \in R <=> Selection!Precedes(k, o)
               /\ k # o => features[k].end # features[o].end
    <2>1. k # o => features[k].end # features[o].end
      BY <1>2, Zenon
    <2>2. <<k, o>> \in R <=> Selection!Precedes(k, o)
      OBVIOUS
    <2> QED  BY <2>1, <2>2, Zenon
  <1> HIDE DEF R
  <1> HIDE DEF found
  <1>4. /\ \A x \in found : <<x, x>> \notin R
        /\ \A x, y, z \in found : <<x, y>> \in R /\ <<y, z>> \in R => <<x, z>> \in R
        /\ \A x, y \in found : x = y \/ <<x, y>> \in R \/ <<y, x>> \in R
    <2>1. \A x \in found : <<x, x>> \notin R
      BY <1>2, <1>3 DEF Selection!Precedes
    <2>2. ASSUME NEW x \in found, NEW y \in found, NEW z \in found,
                 Selection!Precedes(x, y), Selection!Precedes(y, z)
          PROVE  Selection!Precedes(x, z)
      BY <1>2, <2>2 DEF Selection!Precedes
    <2>3. ASSUME NEW x \in found, NEW y \in found, x # y
          PROVE  Selection!Precedes(x, y) \/ Selection!Precedes(y, x)
      BY <1>2, <1>3, <2>3 DEF Selection!Precedes
    <2> QED  BY <1>3, <2>1, <2>2, <2>3
  <1>5. \E x \in found : \A y \in found \ {x} : <<x, y>> \in R
    BY <1>1, <1>4, FirstOf
  <1>6. \E x \in found : First(x)
    BY <1>3, <1>5
  <1>7. Resolved(m, s) = CHOOSE k \in found : First(k)
    BY DEF Resolved, found
  <1> HIDE DEF First
  <1>8. Resolved(m, s) \in found
    BY <1>6, <1>7
  <1> QED  BY <1>8 DEF found

LEMMA SliceType ==
    ASSUME NEW text \in Text, NEW span \in SpansOf(text)
    PROVE  Slice(text, span) \in Text
  <1> DEFINE m == span[1] + 1
             n == span[2]
  <1>1. m \in 1 .. Len(text) /\ n \in 0 .. Len(text) /\ Len(text) \in Nat
    BY DEF SpansOf, Text
  <1>2. \A i \in m .. n : text[i] \in Word \cup Separator
    BY <1>1 DEF Text
  <1>3. Slice(text, span) = SubSeq(text, m, n)
    BY DEF Slice
  <1> HIDE DEF m, n
  <1>4. m \in Int /\ n \in Int
    BY <1>1
  <1>5. SubSeq(text, m, n) \in Seq(Word \cup Separator)
    BY <1>2, <1>4, SubSeqProperties
  <1> QED  BY <1>3, <1>5 DEF Text

(* The examples whose embeddings were evicted stay examples.               *)
LEMMA EvictedType ==
    ASSUME NEW evidence \in Seq(EvidenceType), NEW polarity, NEW left
    PROVE  LET earlier == Evicted(evidence, polarity, left)
           IN  /\ earlier \in Seq(EvidenceType) /\ Len(earlier) = Len(evidence)
               /\ \A i \in DOMAIN evidence :
                     earlier[i].text = evidence[i].text /\ earlier[i].span = evidence[i].span
  <1> DEFINE Masking(i) == evidence[i].embedded /\ (evidence[i].polarity = polarity => i \in left)
             earlier == [i \in DOMAIN evidence |-> [evidence[i] EXCEPT !.embedded = Masking(i)]]
  <1>1. Evicted(evidence, polarity, left) = earlier
    BY DEF Evicted
  <1>2. ASSUME NEW i \in DOMAIN evidence
        PROVE  /\ earlier[i] \in EvidenceType
               /\ earlier[i].text = evidence[i].text /\ earlier[i].span = evidence[i].span
    <2>1. evidence[i] \in EvidenceType
      OBVIOUS
    <2>2. earlier[i] = [evidence[i] EXCEPT !.embedded = Masking(i)]
      OBVIOUS
    <2>3. Masking(i) \in BOOLEAN
      <3>1. evidence[i].embedded \in BOOLEAN
        BY <2>1 DEF EvidenceType
      <3> QED  BY <3>1
    <2> HIDE DEF Masking, earlier
    <2> QED  BY <2>1, <2>2, <2>3 DEF EvidenceType
  <1>3. DOMAIN evidence = 1 .. Len(evidence) /\ Len(evidence) \in Nat
    OBVIOUS
  <1>4. DOMAIN earlier = 1 .. Len(evidence)
    BY <1>3
  <1>5. earlier = [i \in 1 .. Len(evidence) |-> earlier[i]]
    BY <1>3
  <1> HIDE DEF earlier
  <1>6. earlier \in Seq(EvidenceType) /\ Len(earlier) = Len(evidence)
    BY <1>2, <1>3, <1>4, <1>5
  <1> QED  BY <1>1, <1>2, <1>6

(* The rejection of k in this text is an embedded example of the memory.   *)
Holds(memory, k) ==
    \E i \in DOMAIN memory.evidence :
        memory.evidence[i] = [polarity |-> "negative", text |-> body.text,
                              span |-> <<k[2], k[3]>>, embedded |-> TRUE]

(* A memory that has learned the verdict on k is known as it was, and has  *)
(* a rejection whose embedding is left among its examples.                 *)
Taught(learned, memory, k, accepted, left) ==
    /\ Known(learned) /\ learned.name = memory.name
    /\ learned.variants = memory.variants /\ learned.canonical = memory.canonical
    /\ ~accepted /\ Len(memory.evidence) + 1 \in left => Holds(learned, k)

(* What a verdict makes of its memory: one more example, embedded if its   *)
(* embedding is among those that are left.                                 *)
LEMMA LearnedMemory ==
    ASSUME RetainedInv, Held(memories), Asked(body), NEW k \in Retained, NEW accepted \in BOOLEAN,
           NEW state \in Reconciled(memories[k[1]], accepted), NEW left
    PROVE  Taught(Learned(memories[k[1]], k, accepted, state, left), memories[k[1]],
                  k, accepted, left)
  <1> DEFINE memory == memories[k[1]]
             learned == Learned(memory, k, accepted, state, left)
             new == Len(memory.evidence) + 1 \in left
             earlier == Evicted(memory.evidence, PolarityOf(accepted), left)
             example == [polarity |-> PolarityOf(accepted), text |-> body.text,
                         span |-> <<k[2], k[3]>>, embedded |-> new]
             outcome == [asr |-> kept[k].asr, accepted |-> accepted,
                         source |-> Slice(body.text, <<k[2], k[3]>>),
                         target |-> memory.canonical]
  <1>1. /\ k \in Key /\ Known(memory)
        /\ <<k[2], k[3]>> \in SpansOf(body.text) /\ Masked(body.text, <<k[2], k[3]>>) \in Contexts
    BY RetainedSignals
  <1>2. kept[k].asr \in Asr \cup {NoAsr}
    BY <1>1, RetainedType
  <1>3. body.text \in Text
    BY AskedType DEF BodyType
  <1>4. memory \in MemoryType
    BY <1>1 DEF Known
  <1>5. learned = [memory EXCEPT !.state = state, !.evidence = Append(earlier, example),
                      !.outcomes = IF kept[k].asr = NoAsr THEN @ ELSE Append(@, outcome)]
    BY DEF Learned
  <1>6. state \in {"candidate", "confirmed", "suppressed"}
    <2>1. memory.state \in {"candidate", "confirmed", "suppressed"}
      BY <1>4 DEF MemoryType
    <2> QED  BY <2>1 DEF Reconciled
  <1>7. example \in EvidenceType
    <2>1. <<k[2], k[3]>> \in Nat \X Nat
      BY <1>1 DEF SpansOf
    <2>2. PolarityOf(accepted) \in {"positive", "negative"} /\ new \in BOOLEAN
      BY DEF PolarityOf
    <2> HIDE DEF new
    <2> QED  BY <1>3, <2>1, <2>2 DEF EvidenceType
  <1>8. kept[k].asr # NoAsr => outcome \in OutcomeType
    <2>1. Slice(body.text, <<k[2], k[3]>>) \in Text
      BY <1>1, <1>3, SliceType
    <2>2. memory.canonical \in Text
      BY <1>4 DEF MemoryType
    <2> QED  BY <1>2, <2>1, <2>2 DEF OutcomeType
  <1>9. /\ memory.evidence \in Seq(EvidenceType) /\ memory.outcomes \in Seq(OutcomeType)
        /\ Len(memory.evidence) \in Nat /\ DOMAIN memory.evidence = 1 .. Len(memory.evidence)
    BY <1>4 DEF MemoryType
  <1>10. /\ earlier \in Seq(EvidenceType) /\ Len(earlier) = Len(memory.evidence)
         /\ \A i \in DOMAIN memory.evidence :
               /\ earlier[i].text = memory.evidence[i].text
               /\ earlier[i].span = memory.evidence[i].span
    BY <1>9, EvictedType
  <1> DEFINE evidence == Append(earlier, example)
             outcomes == IF kept[k].asr = NoAsr THEN memory.outcomes
                         ELSE Append(memory.outcomes, outcome)
  <1>11. /\ example.text = body.text /\ example.span = <<k[2], k[3]>>
         /\ ~accepted /\ new => example = [polarity |-> "negative", text |-> body.text,
                                           span |-> <<k[2], k[3]>>, embedded |-> TRUE]
    BY DEF PolarityOf
  <1> HIDE DEF example, outcome, earlier, new
  <1>12. /\ evidence \in Seq(EvidenceType) /\ Len(evidence) = Len(memory.evidence) + 1
         /\ evidence[Len(evidence)] = example
         /\ \A i \in 1 .. Len(memory.evidence) : evidence[i] = earlier[i]
    BY <1>7, <1>9, <1>10
  <1>13. outcomes \in Seq(OutcomeType)
    BY <1>8, <1>9
  <1>14. learned = [memory EXCEPT !.state = state, !.evidence = evidence, !.outcomes = outcomes]
    BY <1>5
  <1> HIDE DEF evidence, outcomes, learned
  <1> HIDE DEF memory
  <1>15. /\ learned \in MemoryType /\ learned.evidence = evidence
         /\ learned.name = memory.name /\ learned.variants = memory.variants
         /\ learned.canonical = memory.canonical
    BY <1>4, <1>6, <1>12, <1>13, <1>14 DEF MemoryType
  <1>16. ASSUME NEW i \in DOMAIN evidence
         PROVE  Masked(evidence[i].text, evidence[i].span) \in Contexts
    <2>1. i \in 1 .. Len(memory.evidence) + 1
      BY <1>12
    <2>2. CASE i = Len(memory.evidence) + 1
      BY <1>1, <1>11, <1>12, <2>2
    <2>3. CASE i \in 1 .. Len(memory.evidence)
      <3>1. Masked(memory.evidence[i].text, memory.evidence[i].span) \in Contexts
        BY <1>1, <1>9, <2>3 DEF Known
      <3>2. /\ evidence[i].text = memory.evidence[i].text
            /\ evidence[i].span = memory.evidence[i].span
        BY <1>9, <1>10, <1>12, <2>3
      <3> QED  BY <3>1, <3>2
    <2> QED  BY <1>9, <2>1, <2>2, <2>3
  <1>17. Known(learned)
    BY <1>15, <1>16 DEF Known
  <1>18. ~accepted /\ new => \E i \in DOMAIN evidence :
            evidence[i] = [polarity |-> "negative", text |-> body.text, span |-> <<k[2], k[3]>>,
                           embedded |-> TRUE]
    <2>1. Len(evidence) \in DOMAIN evidence
      BY <1>9, <1>12
    <2> QED  BY <1>11, <1>12, <2>1
  <1>19. /\ Known(learned) /\ learned.name = memory.name
         /\ learned.variants = memory.variants /\ learned.canonical = memory.canonical
         /\ ~accepted /\ new => Holds(learned, k)
    BY <1>15, <1>17, <1>18 DEF Holds
  <1> QED  BY <1>19, Zenon DEF learned, memory, new, Taught

ServedInv == Held(memories) /\ Asked(body)

(* A rejection whose embedding was retained, as it is where there was room *)
(* for it, is among the examples of its memory.                            *)
JudgedInv ==
    ~judged.accepted /\ (judged.room \/ judged.stored) =>
        judged.key \in Key /\ Holds(memories[judged.key[1]], judged.key)

LEMMA InitServed == Init => ServedInv /\ JudgedInv
  <1> SUFFICES ASSUME Init PROVE ServedInv /\ JudgedInv
    OBVIOUS
  <1>1. memories \in Store /\ body \in Body /\ judged = NoVerdict
    BY DEF Init
  <1>2. Store \subseteq [Memory -> MemoryType] /\ Body \subseteq BodyType
    BY InferenceAssumption, Zenon
  <1>3. Asked(body)
    <2>1. body \in BodyType
      BY <1>1, <1>2
    <2>2. body.encoder \in BOOLEAN /\ body = [body EXCEPT !.encoder = body.encoder]
      BY <2>1 DEF BodyType
    <2> QED  BY <1>1, <2>2 DEF Asked
  <1>4. ASSUME NEW m \in Memory PROVE Known(memories[m])
    <2>1. memories[m] \in MemoryType
      BY <1>1, <1>2
    <2>2. ASSUME NEW i \in DOMAIN memories[m].evidence
          PROVE  Masked(memories[m].evidence[i].text, memories[m].evidence[i].span) \in LearnedContexts
      <3> DEFINE Example(st, o, j) == Masked(st[o].evidence[j].text, st[o].evidence[j].span)
                 examples == {Example(memories, m, j) : j \in DOMAIN memories[m].evidence}
                 all == {{Example(memories, o, j) : j \in DOMAIN memories[o].evidence} : o \in Memory}
                 stores == {UNION {{Example(st, o, j) : j \in DOMAIN st[o].evidence} : o \in Memory} :
                               st \in Store}
      <3>1. Example(memories, m, i) \in examples
        OBVIOUS
      <3>2. examples \in all
        OBVIOUS
      <3>3. UNION all \in stores
        BY <1>1
      <3>4. LearnedContexts = UNION stores
        BY DEF LearnedContexts
      <3> HIDE DEF examples, all, stores
      <3> QED  BY <3>1, <3>2, <3>3, <3>4
    <2> QED  BY <2>1, <2>2 DEF Known, Contexts
  <1>5. Held(memories)
    <2>1. memories = [m \in Memory |-> memories[m]]
      BY <1>1, <1>2
    <2> QED  BY <1>1, <1>4, <2>1 DEF Held
  <1> QED  BY <1>1, <1>3, <1>5 DEF ServedInv, JudgedInv, NoVerdict

LEMMA JudgeServes ==
    ASSUME RetainedInv, ServedInv, NEW r \in Retained, NEW accepted \in BOOLEAN,
           NEW encoder \in BOOLEAN, Judge(r[1], r[2], accepted, encoder)
    PROVE  ServedInv' /\ JudgedInv'
  <1> DEFINE k == Resolved(r[1], r[2])
             m == r[1]
  <1> USE DEF ServedInv
  <1>1. k \in Retained /\ k[1] = m
    BY ResolvedIsFound
  <1> HIDE DEF k
  <1>2. PICK state \in Reconciled(memories[m], accepted),
             left \in Retentions(memories[m].evidence, PolarityOf(accepted),
                                Masked(body.text, <<k[2], k[3]>>), body.encoder) :
            /\ memories' = [memories EXCEPT ![m] = Learned(@, k, accepted, state, left)]
            /\ judged' = Judgement(memories[m], k, accepted, left)
            /\ body' = [body EXCEPT !.encoder = encoder]
    BY DEF Judge, k
  <1>3. k \in Key /\ m \in Memory
    BY <1>1 DEF Retained, Key
  <1> DEFINE memory == memories[m]
             learned == Learned(memory, k, accepted, state, left)
             new == Len(memory.evidence) + 1 \in left
  <1>4. /\ Known(learned) /\ learned.name = memory.name
        /\ learned.variants = memory.variants /\ learned.canonical = memory.canonical
        /\ ~accepted /\ new => Holds(learned, k)
    <2>1. state \in Reconciled(memories[k[1]], accepted) /\ RetainedInv /\ Held(memories)
          /\ Asked(body)
      BY <1>1
    <2> HIDE DEF m, memory, learned, new
    <2>2. Taught(Learned(memories[k[1]], k, accepted, state, left), memories[k[1]],
                 k, accepted, left)
      BY <1>1, <2>1, LearnedMemory, Zenon
    <2> QED  BY <1>1, <2>2 DEF Taught, m, memory, learned, new
  <1>5. memories' = [memories EXCEPT ![m] = learned]
    BY <1>2
  <1>6. body \in BodyType
    BY AskedType
  <1> HIDE DEF learned, memory
  <1>7. Held(memories')
    <2>1. PICK st \in Store :
              /\ memories = [o \in Memory |-> memories[o]]
              /\ \A o \in Memory :
                    /\ Known(memories[o])
                    /\ memories[o].name = st[o].name /\ memories[o].variants = st[o].variants
                    /\ memories[o].canonical = st[o].canonical
      BY DEF Held
    <2>2. memories' = [o \in Memory |-> IF o = m THEN learned ELSE memories[o]]
      BY <1>5, <2>1
    <2>3. \A o \in Memory : memories'[o] = IF o = m THEN learned ELSE memories[o]
      BY <2>2
    <2>4. memories' = [o \in Memory |-> memories'[o]]
      BY <2>2
    <2>5. ASSUME NEW o \in Memory
          PROVE  /\ Known(memories'[o])
                 /\ memories'[o].name = st[o].name /\ memories'[o].variants = st[o].variants
                 /\ memories'[o].canonical = st[o].canonical
      BY <1>4, <2>1, <2>3 DEF memory
    <2> QED  BY <2>4, <2>5 DEF Held
  <1>8. Asked(body') /\ body'.text = body.text /\ body'.encoder = encoder
    <2>1. PICK c \in Body : body.encoder \in BOOLEAN /\ body = [c EXCEPT !.encoder = body.encoder]
      BY DEF Asked
    <2>2. c \in BodyType
      BY InferenceAssumption, Zenon
    <2>3. body' = [c EXCEPT !.encoder = encoder]
      BY <1>2, <2>1, <2>2 DEF BodyType
    <2>4. body'.encoder = encoder /\ body'.text = body.text
      BY <1>2, <1>6 DEF BodyType
    <2>5. body' = [c EXCEPT !.encoder = body'.encoder] /\ body'.encoder \in BOOLEAN
      BY <2>3, <2>4
    <2> QED  BY <2>4, <2>5 DEF Asked
  <1>9. JudgedInv'
    <2>1. judged'.accepted = accepted /\ judged'.key = k /\ judged'.stored = new
      BY <1>2 DEF Judgement, memory
    <2>2. memories'[m] = learned
      BY <1>3, <1>5, HeldType
    <2>3. judged'.room => new
      BY <1>2 DEF Judgement, Retentions, memory
    <2>4. ASSUME ~accepted, new
          PROVE  \E i \in DOMAIN learned.evidence :
                    learned.evidence[i] =
                        [polarity |-> "negative", text |-> body'.text, span |-> <<k[2], k[3]>>,
                         embedded |-> TRUE]
      BY <1>4, <1>8, <2>4 DEF Holds
    <2> HIDE DEF new
    <2> QED  BY <1>1, <1>3, <2>1, <2>2, <2>3, <2>4 DEF JudgedInv, Holds
  <1> QED  BY <1>7, <1>8, <1>9

LEMMA ServedNext ==
    RetainedInv /\ ServedInv /\ JudgedInv /\ [Next]_vars => ServedInv' /\ JudgedInv'
  <1> SUFFICES ASSUME RetainedInv, ServedInv, JudgedInv, [Next]_vars PROVE ServedInv' /\ JudgedInv'
    OBVIOUS
  <1>1. CASE UNCHANGED <<memories, body, judged>>
    BY <1>1 DEF ServedInv, JudgedInv, Holds
  <1>2. CASE \E r \in Retained, accepted, encoder \in BOOLEAN : Judge(r[1], r[2], accepted, encoder)
    BY <1>2, JudgeServes
  <1>3. CASE \/ \E o \in pending : ScoreRoute(o)
             \/ Generated \/ Respond \/ RespondShadow \/ Select \/ UNCHANGED vars
    <2>1. UNCHANGED <<memories, body, judged>>
      BY <1>3 DEF ScoreRoute, Generated, Respond, RespondShadow, Select, vars
    <2> QED  BY <1>1, <2>1
  <1> QED  BY <1>2, <1>3 DEF Next

LEMMA ServedAlways == Spec => [](RetainedInv /\ ServedInv /\ JudgedInv)
  BY InitFresh, RetainedFresh, InitServed, RetainedNext, ServedNext, PTL DEF Spec

(* Two memories whose variants are found in the same words of a transcript *)
(* are in a group that the collision scan shows, whatever was judged in    *)
(* between (discover_memory_conflicts, _score_candidate).                  *)
THEOREM CompetitionIsListed == Spec => []CompetitionListed
  <1>1. RetainedInv /\ ServedInv => CompetitionListed
    BY RetainedCompetition DEF ServedInv
  <1> QED  BY <1>1, ServedAlways, PTL

-----------------------------------------------------------------------------
(* Only candidates without blockers are visited and selected.              *)
PassInv ==
    /\ pass \in {"active", "shadow", "done"}
    /\ stage = "score" => todo = {} /\ winners = [p \in Selection!Pass |-> {}]
    /\ winners = [p \in Selection!Pass |-> winners[p]]
    /\ todo \subseteq {k \in Key : features[k].blockers = {}}
    /\ \A p \in Selection!Pass : winners[p] \subseteq {k \in Key : features[k].blockers = {}}

LEMMA PassFresh == Fresh => PassInv
  BY DEF Fresh, PassInv

LEMMA PassSelect ==
    ASSUME PassInv, Select
    PROVE  PassInv'
  <1> USE DEF PassInv, Select
  <1> DEFINE Free == {k \in Key : features[k].blockers = {}}
  <1>1. stage # "score" /\ stage' = stage /\ features' = features
    BY DEF Selection!Next, Selection!Begin, Selection!LoseMargin, Selection!LoseSpan,
           Selection!Win, Selection!Visit, Selection!End
  <1>2. CASE Selection!Begin
    <2>1. /\ action' = [k \in Key |-> Selection!InitialAction(k, thresholds[pass],
                                                              Selection!CopiedBlockers[k])]
          /\ todo' = {k \in Key : action'[k] = "apply"}
      BY <1>2 DEF Selection!Begin
    <2>2. \A k \in Key : Selection!CopiedBlockers[k] = features[k].blockers
      BY DEF Selection!CopiedBlockers
    <2>3. ASSUME NEW k \in todo' PROVE k \in Free
      <3>1. k \in Key
            /\ Selection!InitialAction(k, thresholds[pass], Selection!CopiedBlockers[k]) = "apply"
        BY <2>1
      <3> QED  BY <2>2, <3>1 DEF Selection!InitialAction
    <2> QED  BY <1>1, <1>2, <2>3 DEF Selection!Begin
  <1>3. ASSUME NEW c \in Key, Selection!LoseMargin(c) \/ Selection!LoseSpan(c) PROVE PassInv'
    BY <1>1, <1>3 DEF Selection!LoseMargin, Selection!LoseSpan, Selection!Visit
  <1>4. ASSUME NEW c \in Key, Selection!Win(c) PROVE PassInv'
    <2>1. /\ c \in todo /\ todo' = todo \ {c} /\ pass' = pass /\ pass \in Selection!Pass
          /\ winners' = [winners EXCEPT ![pass] = @ \cup {c}]
      BY <1>4 DEF Selection!Win, Selection!Visit
    <2>2. ASSUME NEW p \in Selection!Pass PROVE winners'[p] \subseteq winners[p] \cup {c}
      BY <2>1
    <2>3. winners' = [p \in Selection!Pass |-> winners'[p]]
      BY <2>1
    <2> QED  BY <1>1, <2>1, <2>2, <2>3
  <1>5. CASE Selection!End
    <2>1. pass' \in {"active", "shadow", "done"}
      BY <1>5 DEF Selection!End
    <2> QED  BY <1>1, <1>5, <2>1 DEF Selection!End
  <1> QED  BY <1>2, <1>3, <1>4, <1>5 DEF Selection!Next

LEMMA PassNext == PassInv /\ [Next]_vars => PassInv'
  <1> SUFFICES ASSUME PassInv, [Next]_vars PROVE PassInv'
    OBVIOUS
  <1>1. CASE \E o \in pending : ScoreRoute(o)
    <2>1. stage = "score" /\ UNCHANGED <<stage, pass, todo, winners>>
      BY <1>1 DEF ScoreRoute
    <2> QED  BY <2>1 DEF PassInv
  <1>2. CASE Generated
    BY <1>2 DEF Generated, PassInv
  <1>3. CASE Respond \/ RespondShadow
    BY <1>3 DEF Respond, RespondShadow, PassInv, selectionVars
  <1>4. CASE UNCHANGED vars
    BY <1>4 DEF vars, selectionVars, PassInv
  <1>5. CASE Select
    BY <1>5, PassSelect
  <1>6. CASE \E r \in Retained, accepted, encoder \in BOOLEAN : Judge(r[1], r[2], accepted, encoder)
    <2>1. Fresh'
      BY <1>6, JudgeFresh
    <2>2. Fresh' => PassInv'
      BY PassFresh, PTL
    <2> QED  BY <2>1, <2>2
  <1> QED  BY <1>1, <1>2, <1>3, <1>4, <1>5, <1>6 DEF Next

LEMMA PassAlways == Spec => []PassInv
  BY InitFresh, PassFresh, PassNext, PTL DEF Spec

(* The example a rejection left is nearest to the text it was about, so    *)
(* the rejected edit contradicts its own memory.                           *)
LEMMA RejectionBlocks ==
    ASSUME RetainedInv, ServedInv, JudgedInv,
           ~judged.accepted, judged.room \/ judged.stored, body.encoder
    PROVE  judged.key \in Key /\ features[judged.key].blockers # {}
  <1> DEFINE k == judged.key
             memory == memories[k[1]]
             span == <<k[2], k[3]>>
  <1> USE DEF ServedInv
  <1>1. PICK i \in DOMAIN memory.evidence :
            memory.evidence[i] = [polarity |-> "negative", text |-> body.text, span |-> span,
                                  embedded |-> TRUE]
    BY DEF JudgedInv, Holds
  <1>2. k \in Key
    BY DEF JudgedInv
  <1>3. CASE k \notin Retained
    <2>1. features[k] = Parked(memories, k)
      BY <1>2, <1>3, RetainedType
    <2> QED  BY <1>2, <2>1 DEF Parked
  <1>4. CASE k \in Retained
    <2>1. /\ Known(memory) /\ Masked(body.text, span) \in Contexts /\ Len(body.text) \in Nat
          /\ features[k].neg =
                 ContextSimilarity(memory.evidence, "negative", body.text, span, body.encoder)
          /\ features[k].blockers =
                 Blockers(memory, features[k].pos, features[k].neg, body.encoder)
          /\ body.encoder \in BOOLEAN
      BY <1>4, RetainedSignals
    <2>2. features[k].pos \in Scale
      BY <1>2, RetainedType, AppraisalType
    <2>3. /\ memory.evidence[i].polarity = "negative" /\ memory.evidence[i].embedded
          /\ Masked(memory.evidence[i].text, memory.evidence[i].span) = Masked(body.text, span)
      BY <1>1
    <2> HIDE DEF memory, span, k
    <2> DEFINE negative ==
                   ContextSimilarity(memory.evidence, "negative", body.text, span, body.encoder)
    <2>4. negative = Top
      <3>1. \A j \in DOMAIN memory.evidence :
               (/\ body.encoder /\ memory.evidence[j].polarity = "negative"
                /\ memory.evidence[j].embedded
                /\ Masked(memory.evidence[j].text, memory.evidence[j].span) = Masked(body.text, span))
               => negative = Top
        BY <2>1, ContextType, Zenon
      <3> HIDE DEF negative
      <3> QED  BY <1>1, <2>3, <3>1, Zenon
    <2>5. NegativeBlock \in Scale
      BY SignalsAssumption, Zenon DEF Scale
    <2>6. Contradicts(features[k].pos, features[k].neg)
      <3>1. features[k].neg = Top
        BY <2>1, <2>4
      <3>2. Top \in Int /\ NegativeBlock <= Top /\ features[k].pos <= Top
        BY <2>2, <2>5, ScaleInt DEF Top
      <3> QED  BY <3>1, <3>2 DEF Contradicts
    <2>7. "NEGATIVE_CONTEXT_EVIDENCE" \in
              Blockers(memory, features[k].pos, features[k].neg, body.encoder)
      BY <2>6 DEF Blockers
    <2>8. features[k].blockers # {}
      BY <2>1, <2>7
    <2> QED  BY <1>2, <2>8 DEF k
  <1> QED  BY <1>2, <1>3, <1>4

(* A rejected edit is not applied again in the same transcript while the   *)
(* encoder answers, if the rejection's embedding had room or was among     *)
(* those the full store kept (apply_decision_feedback,                     *)
(* store_semantic_evidence, semantic_context_similarity, _score_candidate, *)
(* _select_winners).                                                       *)
THEOREM RejectionIsHonoured == Spec => []RejectionHonoured
  <1>1. RetainedInv /\ ServedInv /\ JudgedInv /\ PassInv => RejectionHonoured
    <2> SUFFICES ASSUME RetainedInv, ServedInv, JudgedInv, PassInv,
                        ~judged.accepted, judged.room \/ judged.stored, body.encoder
                 PROVE  judged.key \notin winners["active"]
      BY DEF RejectionHonoured
    <2>1. judged.key \in Key /\ features[judged.key].blockers # {}
      BY RejectionBlocks
    <2>2. winners["active"] \subseteq {k \in Key : features[k].blockers = {}}
      BY DEF PassInv, Selection!Pass
    <2> QED  BY <2>1, <2>2
  <1> QED  BY <1>1, ServedAlways, PassAlways, PTL

-----------------------------------------------------------------------------
(* The hints are the best matches of the memories, in order.               *)
LEMMA MethodIn ==
    ASSUME NEW text, NEW form, NEW f \in CandidateSpans(text, form)
    PROVE  f.method \in Method
  <1>1. f \in {[span |-> span, method |-> "exact"] : span \in PhraseSpans(text, form)}
             \cup UNION {{[span |-> span, method |-> method] :
                             method \in Methods(Slice(text, span), form)} :
                         span \in Windows(text, form)}
    BY DEF CandidateSpans, Pruned, Distinct
  <1>2. CASE \E span \in PhraseSpans(text, form) : f = [span |-> span, method |-> "exact"]
    BY <1>2 DEF Method
  <1>3. CASE \E span \in Windows(text, form) :
                 \E method \in Methods(Slice(text, span), form) : f = [span |-> span, method |-> method]
    <2>1. PICK span \in Windows(text, form) :
              \E method \in Methods(Slice(text, span), form) : f = [span |-> span, method |-> method]
      BY <1>3
    <2>2. PICK method \in Methods(Slice(text, span), form) : f = [span |-> span, method |-> method]
      BY <2>1
    <2>3. method \in Method
      BY DEF Methods
    <2> QED  BY <2>2, <2>3
  <1> QED  BY <1>1, <1>2, <1>3

LEMMA PriorityType == \A method \in Method : Priority(method) \in 1 .. 4
  BY DEF Method, Priority

LEMMA ForemostBest ==
    ASSUME NEW found, found # {}, \A f \in found : f.method \in Method
    PROVE  /\ Foremost(found) \in found
           /\ \A f \in found : Priority(Foremost(found).method) >= Priority(f.method)
  <1> DEFINE priority == [f \in found |-> Priority(f.method)]
             S == {priority[f] : f \in found}
             Good(f) == \A o \in found : Priority(f.method) >= Priority(o.method)
  <1>1. \A f \in found : priority[f] = Priority(f.method) /\ priority[f] \in 1 .. 4
    BY PriorityType
  <1> HIDE DEF priority
  <1>2. S \in SUBSET (1 .. 4) /\ S # {}
    BY <1>1
  <1> HIDE DEF S
  <1>3. IsFiniteSet(1 .. 4)
    <2> DEFINE low == 1
               high == 4
    <2>1. low \in Int /\ high \in Int
      OBVIOUS
    <2> HIDE DEF low, high
    <2>2. IsFiniteSet(low .. high)
      BY <2>1, FS_Interval
    <2> QED  BY <2>2 DEF low, high
  <1>4. IsFiniteSet(S)
    BY <1>2, <1>3, FS_Subset
  <1>5. Max(S) \in S /\ \A x \in S : x <= Max(S)
    <2>1. S \in SUBSET Int
      BY <1>2
    <2> QED  BY <1>2, <1>4, <2>1, Extremes
  <1>6. PICK f \in found : priority[f] = Max(S)
    BY <1>5 DEF S
  <1>7. \A o \in found : priority[o] <= priority[f]
    BY <1>5, <1>6 DEF S
  <1>8. Good(f)
    BY <1>1, <1>7
  <1>9. Foremost(found) = CHOOSE g \in found : Good(g)
    BY DEF Foremost
  <1> HIDE DEF Good
  <1>10. Foremost(found) \in found /\ Good(Foremost(found))
    BY <1>8, <1>9
  <1> QED  BY <1>10 DEF Good

(* A memory that occurs in the text by some method is hinted with at least *)
(* as good a one, or the list is full of hints that are no worse.          *)
LEMMA Hinted ==
    ASSUME NEW text, Held(memories), NEW m \in Retrievable(memories),
           NEW f \in Occurrences(memories[m], text)
    PROVE  LET hints == Hints(memories, text) IN
           \/ \E i \in DOMAIN hints : hints[i].memory = m
           \/ /\ Len(hints) = MaxHints
              /\ \A i \in DOMAIN hints : Priority(hints[i].method) >= Priority(f.method)
  <1> DEFINE found == [o \in Retrievable(memories) |-> Occurrences(memories[o], text)]
             D == {o \in DOMAIN found : found[o] # {}}
             best == Matched(memories, text)
             rank == [o \in D |-> Priority(best[o].method)]
             name == [o \in D |-> memories[o].name]
  <1>1. best = [o \in D |-> Foremost(found[o])]
    BY DEF Matched
  <1>2. ASSUME NEW o \in D, NEW g \in found[o] PROVE g.method \in Method
    <2>1. g \in UNION {CandidateSpans(text, variant) : variant \in memories[o].variants}
      BY DEF Occurrences
    <2> QED  BY <2>1, MethodIn
  <1>3. ASSUME NEW o \in D
        PROVE  /\ best[o].method \in Method
               /\ \A g \in found[o] : Priority(best[o].method) >= Priority(g.method)
    <2>1. found[o] # {}
      OBVIOUS
    <2>2. best[o] = Foremost(found[o])
      BY <1>1
    <2> HIDE DEF found, D, best
    <2> QED  BY <1>2, <2>1, <2>2, ForemostBest
  <1>4. IsFiniteSet(D) /\ D \subseteq Memory
    <2>1. D \in SUBSET Memory
      BY HeldType DEF Retrievable
    <2> HIDE DEF D
    <2> QED  BY <2>1, HeldType, FS_Subset
  <1>5. m \in D /\ f \in found[m]
    OBVIOUS
  <1> HIDE DEF found
  <1>6. DOMAIN best = D
    BY <1>1
  <1> HIDE DEF best
  <1> HIDE DEF D
  <1>7. \A o \in D : rank[o] \in Int /\ rank[o] = Priority(best[o].method)
    BY <1>3, PriorityType
  <1>8. \A o \in D : name[o] \in Int /\ name[o] = memories[o].name
    <2>1. \A o \in Memory : memories[o] \in MemoryType
      BY HeldType
    <2>2. \A o \in Memory : memories[o].name \in Int
      BY <2>1 DEF MemoryType
    <2> QED  BY <1>4, <2>2
  <1>9. \A o, q \in D : name[o] = name[q] => o = q
    BY <1>4, <1>8, HeldType
  <1> DEFINE R == {p \in D \X D : \/ rank[p[1]] > rank[p[2]]
                                  \/ rank[p[1]] = rank[p[2]] /\ name[p[1]] < name[p[2]]}
             Before(o, q) ==
                 \/ Priority(best[o].method) > Priority(best[q].method)
                 \/ /\ Priority(best[o].method) = Priority(best[q].method)
                    /\ memories[o].name < memories[q].name
             order == Sorted(D, R)
             n == Cardinality(D)
  <1>10. R = {p \in (DOMAIN best) \X (DOMAIN best) : Before(p[1], p[2])}
    BY <1>6, <1>7, <1>8
  <1> DEFINE size == Min({MaxHints, n})
             hints == Hints(memories, text)
  <1>11. /\ DOMAIN hints = 1 .. size
         /\ hints = [i \in 1 .. size |-> hints[i]]
         /\ \A i \in 1 .. size : /\ hints[i].memory = order[i]
                                 /\ hints[i].method = best[order[i]].method
    <2> DEFINE Same(o, q) == Slice(text, best[o].span) = Slice(text, best[q].span)
    <2>1. hints = [i \in 1 .. size |->
                      [memory |-> order[i], method |-> best[order[i]].method,
                       ambiguous |-> \E o \in D \ {order[i]} : Same(order[i], o)]]
      <3> HIDE DEF R
      <3>1. hints = Ranked(memories, text, best)
        BY DEF Hints, best
      <3> HIDE DEF hints
      <3> QED  BY <1>6, <1>10, <3>1 DEF Ranked
    <2> HIDE DEF hints, order, size, Same
    <2> QED  BY <2>1
  <1> HIDE DEF hints
  <1>12. \A o, q \in D : <<o, q>> \in R <=>
                            (rank[o] > rank[q] \/ (rank[o] = rank[q] /\ name[o] < name[q]))
    OBVIOUS
  <1> HIDE DEF R, rank, name
  <1>13. /\ \A x \in D : <<x, x>> \notin R
         /\ \A x, y, z \in D : <<x, y>> \in R /\ <<y, z>> \in R => <<x, z>> \in R
         /\ \A x, y \in D : x = y \/ <<x, y>> \in R \/ <<y, x>> \in R
    <2>1. \A x \in D : rank[x] \in Int /\ name[x] \in Int
      BY <1>7, <1>8
    <2>2. \A x \in D : <<x, x>> \notin R
      BY <1>12, <2>1
    <2>3. ASSUME NEW x \in D, NEW y \in D, NEW z \in D, <<x, y>> \in R, <<y, z>> \in R
          PROVE  <<x, z>> \in R
      BY <1>12, <2>1, <2>3
    <2>4. ASSUME NEW x \in D, NEW y \in D, x # y PROVE <<x, y>> \in R \/ <<y, x>> \in R
      <3>1. name[x] # name[y]
        BY <1>9, <2>4
      <3> QED  BY <1>12, <2>1, <3>1
    <2> QED  BY <2>2, <2>3, <2>4
  <1>14. /\ n \in Nat /\ order \in [1 .. n -> D]
         /\ \A x \in D : \E i \in 1 .. n : order[i] = x
         /\ \A i, j \in 1 .. n : i < j => <<order[i], order[j]>> \in R
    <2>1. /\ Cardinality(D) \in Nat
          /\ Sorted(D, R) \in [1 .. Cardinality(D) -> D]
          /\ \A x \in D : \E i \in 1 .. Cardinality(D) : Sorted(D, R)[i] = x
          /\ \A i, j \in 1 .. Cardinality(D) :
                i < j => <<Sorted(D, R)[i], Sorted(D, R)[j]>> \in R
      BY <1>4, <1>13, SortedLists, Zenon
    <2> QED  BY <2>1
  <1> HIDE DEF order, n
  <1>15. MaxHints \in Nat
    BY InferenceAssumption, Zenon
  <1>16. size = IF MaxHints <= n THEN MaxHints ELSE n
    BY <1>14, <1>15, ExtremesOfTwo
  <1> HIDE DEF size
  <1>17. size \in Nat /\ Len(hints) = size
    <2>1. size \in Nat
      BY <1>14, <1>15, <1>16
    <2> QED  BY <1>11, <2>1
  <1>18. PICK j \in 1 .. n : order[j] = m
    BY <1>5, <1>14
  <1>19. CASE j <= size
    <2>1. j \in DOMAIN hints /\ hints[j].memory = m
      BY <1>11, <1>14, <1>17, <1>18, <1>19
    <2> QED  BY <2>1 DEF hints
  <1>20. CASE j > size
    <2>1. size = MaxHints /\ Len(hints) = MaxHints
      BY <1>14, <1>15, <1>16, <1>17, <1>18, <1>20
    <2>2. ASSUME NEW i \in DOMAIN hints
          PROVE  Priority(hints[i].method) >= Priority(f.method)
      <3>1. i \in 1 .. size /\ i \in 1 .. n /\ i < j
        BY <1>11, <1>14, <1>17, <1>18, <1>20
      <3> DEFINE o == order[i]
      <3>2. o \in D /\ <<o, m>> \in R
        BY <1>14, <1>18, <3>1
      <3>3. hints[i].method = best[o].method
        BY <1>11, <3>1
      <3> HIDE DEF o
      <3>4. rank[o] >= rank[m] /\ rank[o] \in Int /\ rank[m] \in Int
        BY <1>5, <1>7, <1>12, <3>2
      <3>5. rank[m] >= Priority(f.method)
        BY <1>3, <1>5, <1>7
      <3>6. Priority(f.method) \in Int
        BY <1>2, <1>5, PriorityType
      <3> QED  BY <1>7, <3>2, <3>3, <3>4, <3>5, <3>6
    <2> QED  BY <2>1, <2>2 DEF hints
  <1> QED  BY <1>14, <1>17, <1>18, <1>19, <1>20

LEMMA SelectedHinted == RetainedInv /\ ServedInv /\ PassInv => EditsWereHinted
  <1> SUFFICES ASSUME RetainedInv, ServedInv, PassInv, NEW k \in winners["active"],
                      kept[k].method \in Method
               PROVE  Announced(k, Hints(memories, body.text))
    BY DEF EditsWereHinted
  <1>1. k \in Key /\ features[k].blockers = {}
    BY DEF PassInv, Selection!Pass
  <1>2. PICK o \in Offers(memories, body) : o.key = k /\ o.route = kept[k]
    <2>1. Parked(memories, k).blockers # {}
      BY DEF Parked
    <2> QED  BY <1>1, <2>1 DEF RetainedInv
  <1>3. /\ o.key[1] = o.route.memory
        /\ o.route.memory \in Retrievable(memories)
        /\ o.route.variant \in memories[o.route.memory].variants
        /\ \E f \in CandidateSpans(body.text, o.route.variant) :
              f.span = o.route.span /\ f.method = o.route.method
        /\ Slice(body.text, o.route.span) # memories[o.route.memory].canonical
    BY <1>2, DirectRoute
  <1>4. PICK f \in CandidateSpans(body.text, o.route.variant) :
            f.span = o.route.span /\ f.method = o.route.method
    BY <1>3
  <1> DEFINE m == k[1]
  <1>5. m = o.route.memory
    BY <1>2, <1>3
  <1>6. f \in Occurrences(memories[m], body.text)
    BY <1>3, <1>4, <1>5 DEF Occurrences
  <1>7. m \in Retrievable(memories)
    BY <1>3, <1>5
  <1>8. f.method = kept[k].method
    BY <1>2, <1>4
  <1> DEFINE hints == Hints(memories, body.text)
  <1>9. \/ \E i \in DOMAIN hints : hints[i].memory = m
        \/ /\ Len(hints) = MaxHints
           /\ \A i \in DOMAIN hints : Priority(hints[i].method) >= Priority(f.method)
    BY <1>6, <1>7, Hinted DEF ServedInv
  <1> HIDE DEF hints
  <1>10. Announced(k, hints)
    BY <1>8, <1>9 DEF Announced
  <1> QED  BY <1>10 DEF hints

(* A direct edit was announced to the formatter before it was made, unless *)
(* the list was full of hints that match at least as well                  *)
(* (build_formatter_context, infer).                                       *)
THEOREM EditsAreHinted == Spec => []EditsWereHinted
  BY SelectedHinted, ServedAlways, PassAlways, PTL

-----------------------------------------------------------------------------
(* Of the routes scored for an edit none is better than the retained one.  *)
BestInv ==
    /\ stage # "score" => pending = {}
    /\ \A o \in offers \ pending :
          kept[o.key] # NoRoute /\ o.feature.score <= features[o.key].score

(* The appraisal of a route: all of it but the score follows from the key. *)
LEMMA OfferFeature ==
    ASSUME NEW mems, Held(mems), NEW b, Asked(b), NEW o \in Offers(mems, b)
    PROVE  /\ o.key \in Key /\ o.key[3] <= MaxLength
           /\ o.feature \in Appraisal /\ o.feature.score \in Scale
           /\ o.feature.start = o.key[2] /\ o.feature.end = o.key[3]
           /\ o.feature.name = mems[o.key[1]].name
           /\ o.feature.pos = ContextSimilarity(mems[o.key[1]].evidence, "positive", b.text,
                                                <<o.key[2], o.key[3]>>, b.encoder)
           /\ o.feature.neg = ContextSimilarity(mems[o.key[1]].evidence, "negative", b.text,
                                                <<o.key[2], o.key[3]>>, b.encoder)
           /\ o.feature.blockers =
                 Blockers(mems[o.key[1]], o.feature.pos, o.feature.neg, b.encoder)
  <1> DEFINE memory == mems[o.key[1]]
             span == <<o.key[2], o.key[3]>>
             f == o.feature
  <1>1. /\ o.key \in Key /\ o.route.span = span
        /\ Routed(memory, b.text, o.route)
        /\ f = Scored(memory, b.text, o.route, b.encoder)
    BY OfferType
  <1>2. b.encoder \in BOOLEAN
    BY DEF Asked
  <1>3. span[1] = o.key[2] /\ span[2] = o.key[3]
    OBVIOUS
  <1> HIDE DEF memory, f, span
  <1>4. /\ f \in Appraisal
        /\ f.start = o.route.span[1] /\ f.end = o.route.span[2] /\ f.name = memory.name
        /\ f.pos = ContextSimilarity(memory.evidence, "positive", b.text, o.route.span, b.encoder)
        /\ f.neg = ContextSimilarity(memory.evidence, "negative", b.text, o.route.span, b.encoder)
        /\ f.blockers = Blockers(memory, f.pos, f.neg, b.encoder)
    BY <1>1, <1>2, ScoredType
  <1>5. f.score \in Scale
    BY <1>4, AppraisalType
  <1>6. o.key[3] <= MaxLength
    BY <1>1 DEF Key
  <1>7. /\ o.key \in Key /\ o.key[3] <= MaxLength /\ f \in Appraisal /\ f.score \in Scale
        /\ f.start = o.key[2] /\ f.end = o.key[3] /\ f.name = memory.name
        /\ f.pos = ContextSimilarity(memory.evidence, "positive", b.text, span, b.encoder)
        /\ f.neg = ContextSimilarity(memory.evidence, "negative", b.text, span, b.encoder)
        /\ f.blockers = Blockers(memory, f.pos, f.neg, b.encoder)
    BY <1>1, <1>3, <1>4, <1>5, <1>6
  <1> QED  BY <1>7, Zenon DEF memory, f, span

LEMMA BestScore ==
    ASSUME RetainedInv, ServedInv, BestInv, NEW o \in pending, ScoreRoute(o)
    PROVE  BestInv'
  <1>1. /\ stage = "score" /\ stage' = stage /\ offers' = offers
        /\ pending' = pending \ {o}
        /\ features' = IF Supersedes(o) THEN [features EXCEPT ![o.key] = o.feature] ELSE features
        /\ kept' = IF Supersedes(o) THEN [kept EXCEPT ![o.key] = o.route] ELSE kept
    BY DEF ScoreRoute
  <1>2. ASSUME NEW q \in offers
        PROVE  q.key \in Key /\ q.feature.score \in Int /\ q.route # NoRoute
    <2>1. q \in Offers(memories, body)
      BY DEF RetainedInv
    <2>2. q.key \in Key /\ q.route # NoRoute
      BY <2>1, OfferType DEF ServedInv
    <2>3. q.feature.score \in Scale
      BY <2>1, OfferFeature DEF ServedInv
    <2> QED  BY <2>2, <2>3, ScaleInt
  <1>3. ASSUME NEW k \in Key PROVE features[k].score \in Int
    <2>1. features[k] \in Appraisal
      BY <1>3, RetainedType DEF ServedInv
    <2> QED  BY <2>1, AppraisalType
  <1>4. o \in offers
    BY DEF RetainedInv
  <1>5. DOMAIN kept = Key /\ DOMAIN features = Key
    BY DEF RetainedInv
  <1>6. ASSUME NEW q \in offers' \ pending'
        PROVE  kept'[q.key] # NoRoute /\ q.feature.score <= features'[q.key].score
    <2>1. CASE Supersedes(o) /\ q.key = o.key
      <3>1. kept'[q.key] = o.route /\ features'[q.key] = o.feature
        BY <1>1, <1>2, <1>4, <1>5, <2>1
      <3>2. q.feature.score <= o.feature.score
        <4>1. CASE q = o
          BY <1>2, <1>4, <4>1
        <4>2. CASE q # o
          <5>1. kept[q.key] # NoRoute /\ q.feature.score <= features[q.key].score
            BY <1>1, <1>6, <4>2 DEF BestInv
          <5>2. o.feature.score > features[o.key].score
            BY <2>1, <5>1 DEF Supersedes
          <5> QED  BY <1>1, <1>2, <1>3, <1>4, <1>6, <2>1, <5>1, <5>2
        <4> QED  BY <4>1, <4>2
      <3> QED  BY <1>2, <1>4, <3>1, <3>2
    <2>2. CASE ~(Supersedes(o) /\ q.key = o.key)
      <3>1. kept'[q.key] = kept[q.key] /\ features'[q.key] = features[q.key]
        BY <1>1, <1>2, <1>5, <1>6, <2>2
      <3>2. CASE q = o
        <4>1. kept[o.key] # NoRoute /\ ~(o.feature.score > features[o.key].score)
          BY <2>2, <3>2 DEF Supersedes
        <4> QED  BY <1>2, <1>3, <1>4, <3>1, <3>2, <4>1
      <3>3. CASE q # o
        BY <1>1, <1>6, <3>1, <3>3 DEF BestInv
      <3> QED  BY <3>2, <3>3
    <2> QED  BY <2>1, <2>2
  <1> QED  BY <1>1, <1>6 DEF BestInv

LEMMA BestFresh == Fresh => BestInv
  BY DEF Fresh, BestInv

LEMMA BestNext == RetainedInv /\ ServedInv /\ PassInv /\ BestInv /\ [Next]_vars => BestInv'
  <1> SUFFICES ASSUME RetainedInv, ServedInv, PassInv, BestInv, [Next]_vars PROVE BestInv'
    OBVIOUS
  <1>1. CASE \E o \in pending : ScoreRoute(o)
    BY <1>1, BestScore
  <1>2. CASE Generated
    BY <1>2 DEF Generated, BestInv
  <1>3. CASE Respond \/ RespondShadow \/ UNCHANGED vars
    BY <1>3 DEF Respond, RespondShadow, BestInv, vars, selectionVars
  <1>4. CASE Select
    <2>1. UNCHANGED <<stage, offers, pending, kept, features>>
      BY <1>4 DEF Select, Selection!Next, Selection!Begin, Selection!LoseMargin, Selection!LoseSpan,
                  Selection!Win, Selection!Visit, Selection!End
    <2> QED  BY <2>1 DEF BestInv
  <1>5. CASE \E r \in Retained, accepted, encoder \in BOOLEAN : Judge(r[1], r[2], accepted, encoder)
    <2>1. Fresh'
      BY <1>5, JudgeFresh
    <2>2. Fresh' => BestInv'
      BY BestFresh, PTL
    <2> QED  BY <2>1, <2>2
  <1> QED  BY <1>1, <1>2, <1>3, <1>4, <1>5 DEF Next

(* The best evidence exists, as scores are bounded.                        *)
LEMMA BestOf ==
    ASSUME NEW found, found # {}, \A o \in found : o.feature.score \in Scale
    PROVE  LET best == CHOOSE o \in found : \A q \in found : q.feature.score <= o.feature.score
           IN  best \in found /\ \A q \in found : q.feature.score <= best.feature.score
  <1> DEFINE score == [o \in found |-> o.feature.score]
             S == {score[o] : o \in found}
             Good(o) == \A q \in found : q.feature.score <= o.feature.score
  <1>1. \A o \in found : score[o] = o.feature.score /\ score[o] \in Scale
    BY DEF Scale
  <1> HIDE DEF score
  <1>2. S \in SUBSET Scale /\ S # {}
    BY <1>1
  <1> HIDE DEF S
  <1>3. IsFiniteSet(Scale)
    <2> DEFINE low == 0
               high == 1000
    <2>1. low \in Int /\ high \in Int
      OBVIOUS
    <2>2. Scale = low .. high
      BY DEF Scale
    <2> HIDE DEF low, high
    <2> QED  BY <2>1, <2>2, FS_Interval
  <1>4. IsFiniteSet(S)
    BY <1>2, <1>3, FS_Subset
  <1>5. Max(S) \in S /\ \A x \in S : x <= Max(S)
    <2>1. S \in SUBSET Int
      BY <1>2, ScaleInt
    <2> QED  BY <1>2, <1>4, <2>1, Extremes
  <1>6. PICK o \in found : score[o] = Max(S)
    BY <1>5 DEF S
  <1>7. \A q \in found : score[q] <= score[o]
    BY <1>5, <1>6 DEF S
  <1>8. Good(o)
    BY <1>1, <1>7
  <1> DEFINE best == CHOOSE q \in found : Good(q)
  <1> HIDE DEF Good
  <1>9. best \in found /\ Good(best)
    BY <1>8
  <1> QED  BY <1>9 DEF Good

(* What a request arbitrates, for any routes scored so far.                *)
LEMMA BestShape ==
    ASSUME ServedInv, offers = Offers(memories, body), NEW k \in Key
    PROVE  LET f == BestFeatures[k] IN
           /\ f \in Appraisal /\ f.name = memories[k[1]].name
           /\ \/ f.start = k[2] /\ f.end = k[3]
              \/ f.start = k[2] + MaxLength /\ f.end = k[3] + MaxLength
  <1> DEFINE found == {o \in offers : o.key = k}
             best == CHOOSE o \in found : \A q \in found : q.feature.score <= o.feature.score
             f == BestFeatures[k]
  <1>1. f = IF found = {} THEN Parked(memories, k) ELSE best.feature
    BY DEF BestFeatures
  <1>2. CASE found = {}
    <2>1. MaxLength \in Nat
      BY InferenceAssumption, Zenon
    <2>2. k[1] \in Memory /\ k[2] \in Nat /\ k[3] \in Nat /\ k[2] < k[3]
      BY <2>1 DEF Key
    <2>3. memories[k[1]] \in MemoryType
      BY <2>2, HeldType DEF ServedInv
    <2>4. memories[k[1]].name \in Nat
      BY <2>3 DEF MemoryType
    <2>5. /\ Parked(memories, k) \in Appraisal /\ Parked(memories, k).name = memories[k[1]].name
          /\ Parked(memories, k).start = k[2] + MaxLength
          /\ Parked(memories, k).end = k[3] + MaxLength
      BY <2>1, <2>2, <2>4 DEF Parked, Appraisal
    <2>6. f = Parked(memories, k)
      BY <1>1, <1>2
    <2> HIDE DEF f, found, best
    <2> QED  BY <2>5, <2>6 DEF f
  <1>3. CASE found # {}
    <2>1. ASSUME NEW o \in found
          PROVE  /\ o.feature.score \in Scale /\ o.feature \in Appraisal
                 /\ o.feature.start = k[2] /\ o.feature.end = k[3]
                 /\ o.feature.name = memories[k[1]].name
      <3>1. o \in Offers(memories, body) /\ o.key = k
        OBVIOUS
      <3>2. /\ o.feature.score \in Scale /\ o.feature \in Appraisal
            /\ o.feature.start = o.key[2] /\ o.feature.end = o.key[3]
            /\ o.feature.name = memories[o.key[1]].name
        BY <3>1, OfferFeature DEF ServedInv
      <3> QED  BY <3>1, <3>2
    <2>2. best \in found
      <3> HIDE DEF found
      <3>1. \A o \in found : o.feature.score \in Scale
        BY <2>1
      <3> QED  BY <1>3, <3>1, BestOf, Zenon
    <2>3. f = best.feature
      BY <1>1, <1>3
    <2> HIDE DEF best, found, f
    <2> QED  BY <2>1, <2>2, <2>3 DEF f
  <1> QED  BY <1>2, <1>3

LEMMA BestType ==
    ASSUME ServedInv, offers = Offers(memories, body)
    PROVE  BestFeatures \in [Key -> Appraisal] /\ Best!DistinctKeys(BestFeatures)
  <1>1. BestFeatures \in [Key -> Appraisal]
    <2>1. BestFeatures = [k \in Key |-> BestFeatures[k]]
      BY DEF BestFeatures
    <2>2. \A k \in Key : BestFeatures[k] \in Appraisal
      BY BestShape
    <2> QED  BY <2>1, <2>2
  <1>2. ASSUME NEW a \in Key, NEW b \in Key, a # b
        PROVE  \/ BestFeatures[a].name # BestFeatures[b].name
               \/ BestFeatures[a].start # BestFeatures[b].start
               \/ BestFeatures[a].end # BestFeatures[b].end
    <2>1. MaxLength \in Nat
      BY InferenceAssumption, Zenon
    <2>2. /\ a = <<a[1], a[2], a[3]>> /\ b = <<b[1], b[2], b[3]>>
          /\ a[1] \in Memory /\ b[1] \in Memory
          /\ a[2] \in 0 .. MaxLength /\ a[3] \in 0 .. MaxLength /\ a[2] < a[3]
          /\ b[2] \in 0 .. MaxLength /\ b[3] \in 0 .. MaxLength /\ b[2] < b[3]
      BY DEF Key
    <2>3. CASE a[1] # b[1]
      <3>1. memories[a[1]].name # memories[b[1]].name
        BY <2>2, <2>3, HeldType DEF ServedInv
      <3>2. BestFeatures[a].name = memories[a[1]].name /\ BestFeatures[b].name = memories[b[1]].name
        BY BestShape
      <3> QED  BY <3>1, <3>2
    <2>4. CASE a[1] = b[1]
      <3>1. a[2] # b[2] \/ a[3] # b[3]
        BY <1>2, <2>2, <2>4
      <3>2. \/ BestFeatures[a].start = a[2] /\ BestFeatures[a].end = a[3]
            \/ BestFeatures[a].start = a[2] + MaxLength /\ BestFeatures[a].end = a[3] + MaxLength
        BY BestShape
      <3>3. \/ BestFeatures[b].start = b[2] /\ BestFeatures[b].end = b[3]
            \/ BestFeatures[b].start = b[2] + MaxLength /\ BestFeatures[b].end = b[3] + MaxLength
        BY BestShape
      <3> QED  BY <2>1, <2>2, <3>1, <3>2, <3>3
    <2> QED  BY <2>3, <2>4
  <1> QED  BY <1>1, <1>2 DEF Best!DistinctKeys

(* Once every route is scored, what is retained is the best evidence.      *)
LEMMA BestIsRetained ==
    ASSUME RetainedInv, ServedInv, BestInv, pending = {}
    PROVE  BestFeatures = features
  <1> SUFFICES ASSUME NEW k \in Key PROVE BestFeatures[k] = features[k]
    BY DEF BestFeatures, RetainedInv
  <1> DEFINE found == {o \in offers : o.key = k}
             best == CHOOSE o \in found : \A q \in found : q.feature.score <= o.feature.score
  <1>1. BestFeatures[k] = IF found = {} THEN Parked(memories, k) ELSE best.feature
    BY DEF BestFeatures
  <1>2. offers = Offers(memories, body) /\ offers \ pending = offers
    BY DEF RetainedInv
  <1>3. \/ kept[k] = NoRoute /\ features[k] = Parked(memories, k)
        \/ \E o \in found : features[k] = o.feature
    BY <1>2 DEF RetainedInv
  <1>4. CASE found = {}
    BY <1>1, <1>3, <1>4
  <1>5. CASE found # {}
    <2>1. \A o \in found : kept[k] # NoRoute /\ o.feature.score <= features[k].score
      BY <1>2 DEF BestInv
    <2>2. PICK r \in found : features[k] = r.feature
      BY <1>3, <1>5, <2>1
    <2>3. ASSUME NEW o \in found
          PROVE  /\ o.feature.score \in Scale
                 /\ o.feature \in Appraisal
                 /\ o.feature.start = r.feature.start /\ o.feature.end = r.feature.end
                 /\ o.feature.name = r.feature.name
                 /\ o.feature.pos = r.feature.pos /\ o.feature.neg = r.feature.neg
                 /\ o.feature.blockers = r.feature.blockers
      <3>1. ASSUME NEW q \in found
            PROVE  /\ q.feature.score \in Scale /\ q.feature \in Appraisal
                   /\ q.feature.start = k[2] /\ q.feature.end = k[3]
                   /\ q.feature.name = memories[k[1]].name
                   /\ q.feature.pos = ContextSimilarity(memories[k[1]].evidence, "positive", body.text,
                                                        <<k[2], k[3]>>, body.encoder)
                   /\ q.feature.neg = ContextSimilarity(memories[k[1]].evidence, "negative", body.text,
                                                        <<k[2], k[3]>>, body.encoder)
                   /\ q.feature.blockers =
                        Blockers(memories[k[1]], q.feature.pos, q.feature.neg, body.encoder)
        <4>1. q \in Offers(memories, body) /\ q.key = k
          BY <1>2
        <4>2. /\ q.feature.score \in Scale /\ q.feature \in Appraisal
              /\ q.feature.start = q.key[2] /\ q.feature.end = q.key[3]
              /\ q.feature.name = memories[q.key[1]].name
              /\ q.feature.pos = ContextSimilarity(memories[q.key[1]].evidence, "positive", body.text,
                                                   <<q.key[2], q.key[3]>>, body.encoder)
              /\ q.feature.neg = ContextSimilarity(memories[q.key[1]].evidence, "negative", body.text,
                                                   <<q.key[2], q.key[3]>>, body.encoder)
              /\ q.feature.blockers =
                   Blockers(memories[q.key[1]], q.feature.pos, q.feature.neg, body.encoder)
          BY <4>1, OfferFeature DEF ServedInv
        <4> QED  BY <4>1, <4>2
      <3> HIDE DEF found
      <3> QED  BY <3>1
    <2>4. best \in found /\ \A q \in found : q.feature.score <= best.feature.score
      <3> HIDE DEF found
      <3>1. \A o \in found : o.feature.score \in Scale
        BY <2>3
      <3> QED  BY <1>5, <3>1, BestOf, Zenon
    <2>5. BestFeatures[k] = best.feature
      BY <1>1, <1>5
    <2> HIDE DEF found, best
    <2>6. best.feature.score = r.feature.score
      <3>1. r.feature.score <= best.feature.score /\ best.feature.score <= r.feature.score
        BY <2>1, <2>2, <2>4
      <3>2. r.feature.score \in Int /\ best.feature.score \in Int
        BY <2>3, <2>4, ScaleInt
      <3> QED  BY <3>1, <3>2
    <2>7. ASSUME NEW f \in Appraisal, NEW g \in Appraisal,
                 f.start = g.start, f.end = g.end, f.score = g.score, f.pos = g.pos, f.neg = g.neg,
                 f.name = g.name, f.blockers = g.blockers
          PROVE  f = g
      BY <2>7 DEF Appraisal
    <2>8. best.feature = r.feature
      BY <2>3, <2>4, <2>6, <2>7
    <2> QED  BY <2>2, <2>5, <2>8
  <1> QED  BY <1>4, <1>5

-----------------------------------------------------------------------------
(* A fresh request is an arbitration about to begin.                       *)
LEMMA FreshArbitration == Fresh /\ ServedInv => Best!Init
  <1> SUFFICES ASSUME Fresh, ServedInv PROVE Best!Init
    OBVIOUS
  <1>1. BestFeatures \in {f \in [Key -> Appraisal] : Best!DistinctKeys(f)}
    BY BestType DEF Fresh
  <1>2. request \in {r \in ShadowRequest : Best!ValidShadowRequest(r)} \cup {Unset}
    <2>1. PICK c \in Body : body = [c EXCEPT !.encoder = body.encoder]
      BY DEF ServedInv, Asked
    <2>2. c \in BodyType /\ (c.shadow # Unset => Selection!ValidShadowRequest(c.shadow))
      BY InferenceAssumption, Zenon
    <2>3. request = c.shadow /\ c.shadow \in ShadowRequest \cup {Unset}
      BY <2>1, <2>2 DEF Fresh, BodyType
    <2>4. \A r : Selection!ValidShadowRequest(r) <=> Best!ValidShadowRequest(r)
      BY DEF Selection!ValidShadowRequest, Best!ValidShadowRequest
    <2> QED  BY <2>2, <2>3, <2>4
  <1>3. thresholds = [active |-> Active,
                      shadow |-> IF request = Unset THEN Active ELSE Best!Resolve(request)]
    BY DEF Fresh, ThresholdsOf, Selection!Resolve, Best!Resolve
  <1>4. action = [k \in Key |-> "abstain"]
    BY DEF Fresh, Idle
  <1>5. winners = [p \in Best!Pass |-> {}]
    BY DEF Fresh, Selection!Pass, Best!Pass
  <1>6. (IF stage = "score" THEN [k \in Key |-> BestFeatures[k].blockers] ELSE blockers)
            = [k \in Key |-> BestFeatures[k].blockers]
    BY DEF Fresh
  <1> QED  BY <1>1, <1>2, <1>3, <1>4, <1>5, <1>6 DEF Fresh, Best!Init

(* The two arbitrations judge alike when their candidates are the same.    *)
LEMMA SelectArbitrates ==
    ASSUME BestFeatures = features, BestFeatures' = BestFeatures, stage # "score", stage' = stage,
           Selection!Next
    PROVE  Best!Next
  <1>1. features' = features
    BY DEF Selection!Next, Selection!Begin, Selection!LoseMargin, Selection!LoseSpan,
           Selection!Win, Selection!Visit, Selection!End
  <1>2. \A a, b : /\ Selection!Precedes(a, b) <=> Best!Precedes(a, b)
                  /\ Selection!Overlaps(a, b) <=> Best!Overlaps(a, b)
    BY DEF Selection!Precedes, Best!Precedes, Selection!Overlaps, Best!Overlaps
  <1>3. \A a : /\ Selection!Rivals(a) = Best!Rivals(a)
               /\ Selection!Strength(a) = Best!Strength(a)
    BY <1>2 DEF Selection!Rivals, Best!Rivals, Selection!Strength, Best!Strength
  <1>4. \A a, th : Selection!Ambiguous(a, th) <=> Best!Ambiguous(a, th)
    BY <1>3 DEF Selection!Ambiguous, Best!Ambiguous, Selection!WithinMargin, Best!WithinMargin,
                Selection!ContextWins, Best!ContextWins
  <1>5. \A a : Selection!Occupied(a) <=> Best!Occupied(a)
    BY <1>2 DEF Selection!Occupied, Best!Occupied
  <1>6. \A a, th, blocked : Selection!InitialAction(a, th, blocked) = Best!InitialAction(a, th, blocked)
    BY DEF Selection!InitialAction, Best!InitialAction
  <1>7. Selection!CopiedBlockers = Best!CopiedBlockers /\ Selection!Pass = Best!Pass
    BY DEF Selection!CopiedBlockers, Best!CopiedBlockers, Selection!Pass, Best!Pass
  <1>8. /\ (IF stage = "score" THEN [k \in Key |-> BestFeatures[k].blockers] ELSE blockers) = blockers
        /\ (IF stage' = "score" THEN [k \in Key |-> BestFeatures'[k].blockers] ELSE blockers')
              = blockers'
    OBVIOUS
  <1>9. CASE Selection!Begin
    <2>1. Best!Begin
      BY <1>1, <1>6, <1>7, <1>8, <1>9 DEF Selection!Begin, Best!Begin
    <2> QED  BY <2>1 DEF Best!Next
  <1>10. ASSUME NEW c \in Key, Selection!Visit(c) PROVE Best!Visit(c)
    BY <1>1, <1>2, <1>7, <1>10 DEF Selection!Visit, Best!Visit
  <1>11. ASSUME NEW c \in Key, Selection!LoseMargin(c) PROVE Best!LoseMargin(c)
    BY <1>4, <1>8, <1>10, <1>11 DEF Selection!LoseMargin, Best!LoseMargin
  <1>12. ASSUME NEW c \in Key, Selection!LoseSpan(c) PROVE Best!LoseSpan(c)
    BY <1>4, <1>5, <1>8, <1>10, <1>12 DEF Selection!LoseSpan, Best!LoseSpan
  <1>13. ASSUME NEW c \in Key, Selection!Win(c) PROVE Best!Win(c)
    BY <1>4, <1>5, <1>8, <1>10, <1>13 DEF Selection!Win, Best!Win
  <1>14. CASE Selection!End
    <2>1. Best!End
      BY <1>1, <1>7, <1>8, <1>14 DEF Selection!End, Best!End
    <2> QED  BY <2>1 DEF Best!Next
  <1> QED  BY <1>9, <1>11, <1>12, <1>13, <1>14 DEF Selection!Next, Best!Next

LEMMA BestUnchanged ==
    ASSUME UNCHANGED <<offers, memories, thresholds, request, pass, running, todo, action, winners>>,
           \/ stage' = stage /\ UNCHANGED blockers
           \/ stage # "score" /\ stage' # "score" /\ UNCHANGED blockers
           \/ stage = "score" /\ stage' # "score"
              /\ blockers' = [k \in Key |-> BestFeatures[k].blockers]
    PROVE  UNCHANGED Best!vars
  <1>1. BestFeatures' = BestFeatures
    BY DEF BestFeatures, Parked
  <1>2. (IF stage' = "score" THEN [k \in Key |-> BestFeatures'[k].blockers] ELSE blockers')
            = IF stage = "score" THEN [k \in Key |-> BestFeatures[k].blockers] ELSE blockers
    BY <1>1
  <1> QED  BY <1>1, <1>2 DEF Best!vars

LEMMA BestStep ==
    ASSUME RetainedInv, ServedInv, PassInv, BestInv, ServedInv', [Next]_vars
    PROVE  [Best!Next \/ Best!Init']_(Best!vars)
  <1>1. CASE \E o \in pending : ScoreRoute(o)
    <2>1. /\ UNCHANGED <<offers, memories, thresholds, request, pass, running, todo, action, winners>>
          /\ stage' = stage /\ UNCHANGED blockers
      BY <1>1 DEF ScoreRoute
    <2> QED  BY <2>1, BestUnchanged
  <1>2. CASE Generated
    <2>1. BestFeatures = features
      BY <1>2, BestIsRetained DEF Generated
    <2>2. /\ UNCHANGED <<offers, memories, thresholds, request, pass, running, todo, action, winners>>
          /\ stage = "score" /\ stage' # "score"
          /\ blockers' = [k \in Key |-> features[k].blockers]
      BY <1>2 DEF Generated
    <2>3. blockers' = [k \in Key |-> BestFeatures[k].blockers]
      BY <2>1, <2>2
    <2> QED  BY <2>2, <2>3, BestUnchanged
  <1>3. CASE Select
    <2>1. Selection!Next /\ stage # "score" /\ stage' = stage /\ UNCHANGED <<offers, memories>>
      BY <1>3 DEF Select, PassInv
    <2>2. BestFeatures = features
      BY <2>1, BestIsRetained DEF BestInv
    <2>3. BestFeatures' = BestFeatures
      BY <2>1 DEF BestFeatures, Parked
    <2> QED  BY <2>1, <2>2, <2>3, SelectArbitrates
  <1>4. CASE Respond \/ RespondShadow
    <2>1. /\ UNCHANGED <<offers, memories, thresholds, request, pass, running, todo, action, winners>>
          /\ stage # "score" /\ stage' # "score" /\ UNCHANGED blockers
      BY <1>4 DEF Respond, RespondShadow, selectionVars
    <2> QED  BY <2>1, BestUnchanged
  <1>5. CASE \E r \in Retained, accepted, encoder \in BOOLEAN : Judge(r[1], r[2], accepted, encoder)
    <2>1. Fresh'
      BY <1>5, JudgeFresh
    <2>2. Fresh' /\ ServedInv' => Best!Init'
      BY FreshArbitration, PTL
    <2> QED  BY <2>1, <2>2
  <1>6. CASE UNCHANGED vars
    <2>1. /\ UNCHANGED <<offers, memories, thresholds, request, pass, running, todo, action, winners>>
          /\ stage' = stage /\ UNCHANGED blockers
      BY <1>6 DEF vars, selectionVars
    <2> QED  BY <2>1, BestUnchanged
  <1> QED  BY <1>1, <1>2, <1>3, <1>4, <1>5, <1>6 DEF Next

(* Every request is one arbitration of the best evidence for each edit,    *)
(* whatever the loops score and in whichever order; a verdict begins the   *)
(* next one (infer, candidates_by_key, _select_winners).                   *)
THEOREM BestEvidenceIsArbitrated == Spec => ArbitratesBestEvidence
  <1>1. Spec => [](RetainedInv /\ ServedInv /\ PassInv /\ BestInv)
    BY InitFresh, BestFresh, BestNext, ServedAlways, PassAlways, PTL DEF Spec
  <1>2. Init => Best!Init
    BY InitFresh, InitServed, FreshArbitration
  <1>3. (RetainedInv /\ ServedInv /\ PassInv /\ BestInv) /\ ServedInv' /\ [Next]_vars
            => [Best!Next \/ Best!Init']_(Best!vars)
    BY BestStep
  <1> QED  BY <1>1, <1>2, <1>3, PTL DEF Spec, ArbitratesBestEvidence

-----------------------------------------------------------------------------
(* What stands for symbol i of a text whose edits are put in.              *)
Piece(mems, text, edits, i) ==
    LET starting == {k \in edits : k[2] = i - 1}
        inside == {k \in edits : k[2] < i /\ i <= k[3]}
    IN  IF starting # {} THEN mems[(CHOOSE k \in starting : TRUE)[1]].canonical
        ELSE IF inside # {} THEN <<>> ELSE <<text[i]>>

(* The steps of the folds: an edit is spliced into the text so far, or the *)
(* next piece is added to it; the calibrator's loop goes on to the next    *)
(* candidate, or puts a winner in.                                         *)
Stride(c, out, x) ==
    IF c.kind = "splice"
    THEN SubSeq(out, 1, x[2]) \o c.memories[x[1]].canonical \o SubSeq(out, x[3] + 1, Len(out))
    ELSE IF c.kind = "weave" THEN out \o Piece(c.memories, c.text, c.edits, x)
    ELSE IF c.kind = "take" THEN Taken(c.all, out, x)
    ELSE SubSeq(out, 1, x.start) \o x.output \o SubSeq(out, x.end + 1, Len(out))

Folding(c, base, seq, g, s) ==
    IF s = {} THEN base ELSE LET x == Max(s) IN Stride(c, g[s \ {x}], seq[x])

Folded(c, base, seq, iter) == iter = [s \in SUBSET DOMAIN seq |-> Folding(c, base, seq, iter, s)]

(* The values a fold goes through, element by element.                     *)
Runs(c, base, seq, n, last, run) ==
    /\ run[0] = base /\ run[n] = last
    /\ \A i \in 1 .. n : run[i] = Stride(c, run[i - 1], seq[i])

(* A fold from the left is a function of the parts of the domain.          *)
LEMMA FoldingExists ==
    ASSUME NEW c, NEW base, NEW seq, NEW n \in Nat, DOMAIN seq = 1 .. n
    PROVE  \E g : Folded(c, base, seq, g)
  <1> DEFINE D == 1 .. n
             Upto(k) == {s \in SUBSET D : Cardinality(s) <= k}
             Right(g, k) == \A s \in Upto(k) : g[s] = Folding(c, base, seq, g, s)
             P(k) == \E g : g = [s \in SUBSET D |-> g[s]] /\ Right(g, k)
  <1>1. IsFiniteSet(D) /\ Cardinality(D) \in Nat
    BY FS_Interval, FS_CardinalityType
  <1>2. ASSUME NEW s \in SUBSET D, s # {}
        PROVE  /\ Max(s) \in s /\ s \ {Max(s)} \in SUBSET D
               /\ Cardinality(s) \in Nat /\ Cardinality(s \ {Max(s)}) = Cardinality(s) - 1
    <2>1. s \in SUBSET Int
      OBVIOUS
    <2>2. IsFiniteSet(s)
      BY <1>1, FS_Subset
    <2>3. Max(s) \in s
      BY <1>2, <2>1, <2>2, Extremes
    <2> QED  BY <2>3, <2>2, FS_RemoveElement, FS_CardinalityType
  <1> HIDE DEF D
  <1>3. ASSUME NEW k \in Nat, k # 0 => P(k - 1) PROVE P(k)
    <2>1. CASE k = 0
      <3> DEFINE g == [s \in SUBSET D |-> base]
      <3>1. ASSUME NEW s \in Upto(k) PROVE g[s] = Folding(c, base, seq, g, s)
        <4>1. s \in SUBSET D /\ Cardinality(s) <= 0 /\ g[s] = base
          BY <2>1
        <4> HIDE DEF g
        <4>2. s = {}
          BY <1>1, <4>1, FS_Subset, FS_CardinalityType, FS_EmptySet
        <4> QED  BY <4>1, <4>2 DEF Folding
      <3>2. g = [s \in SUBSET D |-> g[s]]
        OBVIOUS
      <3> HIDE DEF g, Upto
      <3> QED  BY <3>1, <3>2
    <2>2. CASE k # 0
      <3>1. PICK h : h = [s \in SUBSET D |-> h[s]] /\ Right(h, k - 1)
        BY <1>3, <2>2
      <3> DEFINE g == [s \in SUBSET D |-> Folding(c, base, seq, h, s)]
      <3>2. ASSUME NEW s \in Upto(k - 1) PROVE g[s] = h[s]
        BY <3>1
      <3>3. ASSUME NEW s \in Upto(k) PROVE g[s] = Folding(c, base, seq, g, s)
        <4>1. s \in SUBSET D /\ Cardinality(s) <= k
          OBVIOUS
        <4>2. g[s] = Folding(c, base, seq, h, s)
          BY <4>1
        <4> HIDE DEF g
        <4>3. CASE s = {}
          BY <4>2, <4>3 DEF Folding
        <4>4. CASE s # {}
          <5>1. s \ {Max(s)} \in Upto(k - 1)
            BY <1>2, <4>1, <4>4
          <5>2. g[s \ {Max(s)}] = h[s \ {Max(s)}]
            BY <3>2, <5>1
          <5> QED  BY <4>2, <4>4, <5>2 DEF Folding
        <4> QED  BY <4>3, <4>4
      <3>4. g = [s \in SUBSET D |-> g[s]]
        OBVIOUS
      <3> HIDE DEF g, Upto
      <3> QED  BY <3>3, <3>4
    <2> QED  BY <2>1, <2>2
  <1> HIDE DEF P
  <1>4. \A k \in Nat : P(k)
    <2> SUFFICES ASSUME NEW m \in Nat, ~P(m) PROVE FALSE
      OBVIOUS
    <2> DEFINE T == {k \in Nat : ~P(k)}
    <2>1. PICK k \in T : \A j \in T : k <= j
      <3>1. T \in SUBSET Nat /\ T # {}
        OBVIOUS
      <3> HIDE DEF T
      <3> QED  BY <3>1, NatLeast
    <2>2. k # 0 => k - 1 \in Nat /\ k - 1 \notin T
      BY <2>1
    <2> QED  BY <1>3, <2>1, <2>2
  <1>5. PICK g : g = [s \in SUBSET D |-> g[s]] /\ Right(g, Cardinality(D))
    BY <1>1, <1>4 DEF P
  <1>6. ASSUME NEW s \in SUBSET D PROVE g[s] = Folding(c, base, seq, g, s)
    <2>1. s \in Upto(Cardinality(D))
      BY <1>1, FS_Subset
    <2> QED  BY <1>5, <2>1
  <1>7. g = [s \in SUBSET D |-> Folding(c, base, seq, g, s)]
    BY <1>5, <1>6
  <1> QED  BY <1>7 DEF D, Folded

(* It goes from one element of the sequence to the next.                   *)
LEMMA FoldingRuns ==
    ASSUME NEW c, NEW base, NEW seq, NEW n \in Nat, DOMAIN seq = 1 .. n,
           NEW iter, Folded(c, base, seq, iter)
    PROVE  \E run : Runs(c, base, seq, n, iter[DOMAIN seq], run)
  <1> DEFINE run == [i \in 0 .. n |-> iter[1 .. i]]
  <1>1. run[0] = base
    <2>1. 1 .. 0 = {} /\ {} \in SUBSET DOMAIN seq
      OBVIOUS
    <2>2. iter[{}] = base
      BY <2>1 DEF Folding, Folded
    <2> QED  BY <2>1, <2>2
  <1>2. run[n] = iter[DOMAIN seq]
    OBVIOUS
  <1>3. ASSUME NEW i \in 1 .. n PROVE run[i] = Stride(c, run[i - 1], seq[i])
    <2> DEFINE s == 1 .. i
    <2>1. s \in SUBSET DOMAIN seq /\ s \in SUBSET Int /\ i \in s
      OBVIOUS
    <2>2. Max(s) = i
      <3>1. IsFiniteSet(s)
        BY FS_Interval
      <3>2. Max(s) \in s /\ \A x \in s : x <= Max(s)
        BY <2>1, <3>1, Extremes
      <3> QED  BY <2>1, <3>2
    <2>3. s \ {i} = 1 .. i - 1
      OBVIOUS
    <2> HIDE DEF s
    <2>4. iter[s] = Folding(c, base, seq, iter, s)
      BY <2>1 DEF Folded
    <2>5. iter[s] = Stride(c, iter[1 .. i - 1], seq[i])
      BY <2>1, <2>2, <2>3, <2>4 DEF Folding
    <2> QED  BY <2>5 DEF s
  <1> HIDE DEF run
  <1>4. Runs(c, base, seq, n, iter[DOMAIN seq], run)
    BY <1>1, <1>2, <1>3 DEF Runs
  <1> QED  BY <1>4

-----------------------------------------------------------------------------
(* Texts are joined and cut; nothing below looks further into a text.      *)
Followed(s, t) == s \o t

Part(text, p, q) == SubSeq(text, p + 1, q)

LEMMA FollowedType ==
    ASSUME NEW V, NEW s \in Seq(V), NEW t \in Seq(V)
    PROVE  Followed(s, t) \in Seq(V)
  BY ConcatProperties DEF Followed

LEMMA FollowedAssociative ==
    ASSUME NEW V, NEW s \in Seq(V), NEW t \in Seq(V), NEW u \in Seq(V)
    PROVE  Followed(Followed(s, t), u) = Followed(s, Followed(t, u))
  BY ConcatAssociative DEF Followed

LEMMA FollowedByNothing ==
    ASSUME NEW V, NEW s \in Seq(V)
    PROVE  Followed(s, <<>>) = s /\ Followed(<<>>, s) = s
  BY ConcatEmptySeq DEF Followed

LEMMA PartType ==
    ASSUME NEW V, NEW text \in Seq(V), NEW p \in 0 .. Len(text), NEW q \in p .. Len(text)
    PROVE  Part(text, p, q) \in Seq(V)
  <1>1. Len(text) \in Nat /\ \A i \in 1 .. Len(text) : text[i] \in V
    BY LenProperties, ElementOfSeq
  <1>2. p + 1 \in Int /\ q \in Int /\ \A i \in p + 1 .. q : text[i] \in V
    BY <1>1
  <1> QED  BY <1>2, SubSeqProperties DEF Part

LEMMA PartNothing ==
    ASSUME NEW text, NEW p \in Nat
    PROVE  Part(text, p, p) = <<>>
  BY SubSeqEmpty DEF Part

LEMMA PartAll ==
    ASSUME NEW V, NEW text \in Seq(V)
    PROVE  Part(text, 0, Len(text)) = text
  BY SubSeqFull DEF Part

LEMMA PartNext ==
    ASSUME NEW V, NEW text \in Seq(V), NEW p \in Nat, NEW i \in p + 1 .. Len(text)
    PROVE  Part(text, p, i) = Followed(Part(text, p, i - 1), <<text[i]>>)
  <1> DEFINE m == p + 1
  <1>1. Len(text) \in Nat
    BY LenProperties
  <1>2. m \in 1 .. Len(text) /\ i \in m .. Len(text)
    BY <1>1
  <1> HIDE DEF m
  <1>3. SubSeq(text, m, i) = SubSeq(text, m, i - 1) \o <<text[i]>>
    BY <1>2, SubSeqRecursiveSecond
  <1> QED  BY <1>3 DEF Part, Followed, m

LEMMA PartsJoin ==
    ASSUME NEW V, NEW text \in Seq(V), NEW p \in 0 .. Len(text), NEW q \in p .. Len(text),
           NEW r \in q .. Len(text)
    PROVE  Followed(Part(text, p, q), Part(text, q, r)) = Part(text, p, r)
  <1> DEFINE m == p + 1
  <1>1. Len(text) \in Nat
    BY LenProperties
  <1>2. m \in 1 .. Len(text) + 1 /\ q \in m - 1 .. Len(text) /\ r \in q .. Len(text)
    BY <1>1
  <1> HIDE DEF m
  <1>3. SubSeq(text, m, q) \o SubSeq(text, q + 1, r) = SubSeq(text, m, r)
    BY <1>2, ConcatAdjacentSubSeq
  <1> QED  BY <1>3 DEF Part, Followed, m

LEMMA PartEqual ==
    ASSUME NEW V, NEW s \in Seq(V), NEW t \in Seq(V), NEW p \in Nat, NEW q \in Nat,
           q <= Len(s), q <= Len(t), \A i \in p + 1 .. q : s[i] = t[i]
    PROVE  Part(s, p, q) = Part(t, p, q)
  <1> DEFINE m == p + 1
  <1>1. Len(s) \in Nat /\ Len(t) \in Nat /\ m \in Int /\ q \in Int
    BY LenProperties
  <1>2. \A i \in m .. q : s[i] \in V /\ t[i] \in V /\ s[i] = t[i]
    BY <1>1, ElementOfSeq
  <1> HIDE DEF m
  <1>3. /\ SubSeq(s, m, q) \in Seq(V)
        /\ Len(SubSeq(s, m, q)) = IF m <= q THEN q - m + 1 ELSE 0
        /\ \A i \in 1 .. q - m + 1 : SubSeq(s, m, q)[i] = s[m + i - 1]
    BY <1>1, <1>2, SubSeqProperties
  <1>4. /\ SubSeq(t, m, q) \in Seq(V)
        /\ Len(SubSeq(t, m, q)) = IF m <= q THEN q - m + 1 ELSE 0
        /\ \A i \in 1 .. q - m + 1 : SubSeq(t, m, q)[i] = t[m + i - 1]
    BY <1>1, <1>2, SubSeqProperties
  <1> DEFINE f == SubSeq(s, m, q)
             g == SubSeq(t, m, q)
  <1>5. Len(f) = Len(g) /\ \A i \in 1 .. Len(f) : f[i] = g[i]
    <2>1. ASSUME NEW i \in 1 .. Len(f) PROVE f[i] = g[i]
      <3>1. i \in 1 .. q - m + 1 /\ m + i - 1 \in m .. q
        BY <1>1, <1>3
      <3> QED  BY <1>2, <1>3, <1>4, <3>1
    <2> QED  BY <1>3, <1>4, <2>1
  <1>6. f \in Seq(V) /\ g \in Seq(V)
    BY <1>3, <1>4
  <1> HIDE DEF f, g
  <1>7. f = g
    BY <1>5, <1>6, SeqEqual
  <1> QED  BY <1>7 DEF Part, f, g, m

(* The two parts of what was joined.                                       *)
LEMMA FollowedParts ==
    ASSUME NEW V, NEW s \in Seq(V), NEW t \in Seq(V)
    PROVE  /\ Len(Followed(s, t)) = Len(s) + Len(t)
           /\ \A i \in 1 .. Len(s) : Followed(s, t)[i] = s[i]
           /\ Part(Followed(s, t), Len(s), Len(Followed(s, t))) = t
  <1> DEFINE joined == s \o t
             m == Len(s) + 1
             n == Len(s) + Len(t)
             rest == SubSeq(joined, m, n)
  <1>1. Len(s) \in Nat /\ Len(t) \in Nat /\ \A i \in 1 .. Len(t) : t[i] \in V
    BY LenProperties, ElementOfSeq
  <1>2. /\ joined \in Seq(V) /\ Len(joined) = Len(s) + Len(t)
        /\ \A i \in 1 .. Len(s) + Len(t) : joined[i] = IF i <= Len(s) THEN s[i] ELSE t[i - Len(s)]
    BY ConcatProperties
  <1>3. \A i \in 1 .. n : joined[i] \in V
    BY <1>2, ElementOfSeq
  <1> HIDE DEF joined
  <1>4. m \in Int /\ n \in Int /\ \A i \in m .. n : joined[i] \in V
    BY <1>1, <1>3
  <1>5. /\ SubSeq(joined, m, n) \in Seq(V)
        /\ Len(SubSeq(joined, m, n)) = IF m <= n THEN n - m + 1 ELSE 0
        /\ \A i \in 1 .. n - m + 1 : SubSeq(joined, m, n)[i] = joined[m + i - 1]
    <2> HIDE DEF m, n
    <2> QED  BY <1>4, SubSeqProperties
  <1>6. rest \in Seq(V) /\ Len(rest) = Len(t)
    BY <1>1, <1>5
  <1>7. ASSUME NEW i \in 1 .. Len(t) PROVE rest[i] = t[i]
    <2>1. i \in 1 .. n - m + 1 /\ m + i - 1 = Len(s) + i
      BY <1>1
    <2>2. rest[i] = joined[Len(s) + i]
      BY <1>5, <2>1
    <2>3. Len(s) + i \in 1 .. Len(s) + Len(t) /\ ~(Len(s) + i <= Len(s)) /\ Len(s) + i - Len(s) = i
      BY <1>1
    <2> QED  BY <1>2, <2>2, <2>3
  <1> HIDE DEF rest
  <1>8. rest = t
    BY <1>6, <1>7, SeqEqual
  <1>9. \A i \in 1 .. Len(s) : joined[i] = s[i]
    BY <1>1, <1>2
  <1> QED  BY <1>2, <1>8, <1>9 DEF Followed, Part, rest, joined, m, n

(* The first symbols of a text.                                            *)
LEMMA PartFirst ==
    ASSUME NEW V, NEW text \in Seq(V), NEW a \in 0 .. Len(text)
    PROVE  Len(Part(text, 0, a)) = a /\ \A i \in 1 .. a : Part(text, 0, a)[i] = text[i]
  <1>1. Len(text) \in Nat /\ \A i \in 1 .. Len(text) : text[i] \in V
    BY LenProperties, ElementOfSeq
  <1>2. \A i \in 1 .. a : text[i] \in V
    BY <1>1
  <1>3. /\ Len(SubSeq(text, 1, a)) = IF 1 <= a THEN a - 1 + 1 ELSE 0
        /\ \A i \in 1 .. a - 1 + 1 : SubSeq(text, 1, a)[i] = text[1 + i - 1]
    BY <1>2, SubSeqProperties
  <1>4. Part(text, 0, a) = SubSeq(text, 1, a)
    BY DEF Part
  <1> QED  BY <1>3, <1>4

(* A text of which the first a symbols are the transcript's; an edit put   *)
(* among such symbols leaves those before it.                              *)
Leads(V, text, new, a, rest) ==
    /\ new \in Seq(V) /\ a <= Len(new)
    /\ \A i \in 1 .. a : new[i] = text[i]
    /\ Part(new, a, Len(new)) = rest

LEMMA SpliceTail ==
    ASSUME NEW V, NEW text \in Seq(V), NEW out \in Seq(V), NEW word \in Seq(V),
           NEW a \in Nat, NEW e \in Nat, NEW s \in Nat,
           a <= e, e <= s, s <= Len(text), s <= Len(out), \A i \in 1 .. s : out[i] = text[i],
           NEW spliced, spliced = Followed(Followed(Part(out, 0, a), word), Part(out, e, Len(out))),
           NEW gap, gap = Part(text, e, s), NEW left, left = Part(out, s, Len(out))
    PROVE  Leads(V, text, spliced, a, Followed(word, Followed(gap, left)))
  <1> DEFINE head == Part(out, 0, a)
             tail == Part(out, e, Len(out))
             rest == Followed(word, tail)
  <1>1. Len(text) \in Nat /\ Len(out) \in Nat
    BY LenProperties
  <1>2. 0 \in 0 .. Len(out) /\ a \in 0 .. Len(out)
    BY <1>1
  <1>3. head \in Seq(V)
    BY <1>2, PartType
  <1>4. Len(head) = a /\ \A i \in 1 .. a : head[i] = out[i]
    BY <1>2, PartFirst
  <1>5. tail = Followed(gap, left) /\ tail \in Seq(V)
    <2> DEFINE n == Len(out)
    <2>1. e \in 0 .. Len(out) /\ s \in e .. Len(out) /\ n \in s .. Len(out) /\ n \in e .. Len(out)
      BY <1>1
    <2>2. \A i \in e + 1 .. s : out[i] = text[i]
      OBVIOUS
    <2> HIDE DEF n
    <2>3. Followed(Part(out, e, s), Part(out, s, n)) = Part(out, e, n)
      BY <2>1, PartsJoin
    <2>4. Part(out, e, s) = Part(text, e, s)
      BY <2>2, PartEqual
    <2>5. Part(out, e, n) \in Seq(V)
      BY <2>1, PartType
    <2> QED  BY <2>3, <2>4, <2>5 DEF n
  <1>6. spliced = Followed(Followed(head, word), tail)
    OBVIOUS
  <1> HIDE DEF head, tail
  <1>7. rest \in Seq(V)
    BY <1>5, FollowedType
  <1>8. spliced = Followed(head, rest)
    BY <1>3, <1>5, <1>6, FollowedAssociative
  <1> HIDE DEF rest
  <1>9. spliced \in Seq(V)
    BY <1>3, <1>7, <1>8, FollowedType
  <1>10. /\ Len(Followed(head, rest)) = Len(head) + Len(rest)
         /\ \A i \in 1 .. Len(head) : Followed(head, rest)[i] = head[i]
         /\ Part(Followed(head, rest), Len(head), Len(Followed(head, rest))) = rest
    BY <1>3, <1>7, FollowedParts
  <1>11. Len(rest) \in Nat
    BY <1>7, LenProperties
  <1>12. /\ a <= Len(spliced) /\ \A i \in 1 .. a : spliced[i] = text[i]
         /\ Part(spliced, a, Len(spliced)) = rest
    <2>1. \A i \in 1 .. a : spliced[i] = head[i] /\ head[i] = out[i] /\ out[i] = text[i]
      BY <1>4, <1>8, <1>10
    <2>2. a <= Len(spliced)
      BY <1>4, <1>8, <1>10, <1>11
    <2>3. Part(spliced, a, Len(spliced)) = rest
      BY <1>4, <1>8, <1>10
    <2> QED  BY <2>1, <2>2, <2>3
  <1>13. rest = Followed(word, Followed(gap, left))
    BY <1>5 DEF rest
  <1> QED  BY <1>9, <1>12, <1>13 DEF Leads

LEMMA FollowedByThree ==
    ASSUME NEW V, NEW f \in Seq(V), NEW w \in Seq(V), NEW g \in Seq(V), NEW r \in Seq(V)
    PROVE  Followed(Followed(Followed(f, w), g), r) = Followed(f, Followed(w, Followed(g, r)))
  <1>1. Followed(f, w) \in Seq(V) /\ Followed(g, r) \in Seq(V)
    BY FollowedType
  <1>2. Followed(Followed(Followed(f, w), g), r) = Followed(Followed(f, w), Followed(g, r))
    BY <1>1, FollowedAssociative
  <1>3. Followed(Followed(f, w), Followed(g, r)) = Followed(f, Followed(w, Followed(g, r)))
    BY <1>1, FollowedAssociative
  <1> QED  BY <1>2, <1>3

-----------------------------------------------------------------------------
(* Edits that lie in a text apart from one another, of words in V.         *)
Apart(V, mems, text, edits) ==
    /\ text \in Seq(V) /\ IsFiniteSet(edits)
    /\ \A k \in edits : /\ k[2] \in Nat /\ k[3] \in Nat /\ k[2] < k[3] /\ k[3] <= Len(text)
                        /\ mems[k[1]].canonical \in Seq(V)
    /\ \A a, b \in edits : a # b => a[3] <= b[2] \/ b[3] <= a[2]

(* The first symbol of an edit's span stands for its word, the others for  *)
(* nothing, and a symbol of no edit for itself.                            *)
LEMMA PieceFirst ==
    ASSUME NEW V, NEW mems, NEW text, NEW edits, Apart(V, mems, text, edits), NEW k \in edits,
           NEW i \in Nat, i - 1 = k[2]
    PROVE  Piece(mems, text, edits, i) = mems[k[1]].canonical
  <1> DEFINE starting == {o \in edits : o[2] = i - 1}
             inside == {o \in edits : o[2] < i /\ i <= o[3]}
  <1>1. k \in starting
    OBVIOUS
  <1>2. ASSUME NEW o \in starting PROVE o = k
    BY <1>2 DEF Apart
  <1>3. Piece(mems, text, edits, i) =
            IF starting # {} THEN mems[(CHOOSE o \in starting : TRUE)[1]].canonical
            ELSE IF inside # {} THEN <<>> ELSE <<text[i]>>
    BY DEF Piece
  <1> HIDE DEF starting, inside
  <1>4. (CHOOSE o \in starting : TRUE) = k /\ starting # {}
    BY <1>1, <1>2
  <1> QED  BY <1>3, <1>4

LEMMA PieceLater ==
    ASSUME NEW V, NEW mems, NEW text, NEW edits, Apart(V, mems, text, edits), NEW k \in edits,
           NEW i \in k[2] + 2 .. k[3]
    PROVE  Piece(mems, text, edits, i) = <<>>
  <1>1. k[2] \in Nat /\ k[3] \in Nat /\ i \in Nat /\ k[2] + 2 <= i /\ i <= k[3]
    BY DEF Apart
  <1>2. ASSUME NEW o \in edits, o[2] = i - 1 PROVE FALSE
    BY <1>1, <1>2 DEF Apart
  <1>3. k[2] < i /\ i <= k[3]
    BY <1>1
  <1> QED  BY <1>2, <1>3 DEF Piece

LEMMA PieceOutside ==
    ASSUME NEW V, NEW mems, NEW text, NEW edits, Apart(V, mems, text, edits), NEW i \in Nat,
           \A k \in edits : ~(k[2] < i /\ i <= k[3])
    PROVE  Piece(mems, text, edits, i) = <<text[i]>>
  <1>1. ASSUME NEW o \in edits, o[2] = i - 1 PROVE FALSE
    BY <1>1 DEF Apart
  <1> QED  BY <1>1 DEF Piece

LEMMA PieceType ==
    ASSUME NEW V, NEW mems, NEW text, NEW edits, Apart(V, mems, text, edits),
           NEW i \in 1 .. Len(text)
    PROVE  Piece(mems, text, edits, i) \in Seq(V)
  <1>1. Len(text) \in Nat /\ text[i] \in V
    BY LenProperties, ElementOfSeq DEF Apart
  <1>2. CASE \A k \in edits : ~(k[2] < i /\ i <= k[3])
    <2>1. <<text[i]>> \in Seq(V)
      BY <1>1
    <2>2. Piece(mems, text, edits, i) = <<text[i]>>
      BY <1>2, PieceOutside
    <2> QED  BY <2>1, <2>2
  <1>3. CASE \E k \in edits : k[2] < i /\ i <= k[3]
    <2>1. PICK k \in edits : k[2] < i /\ i <= k[3]
      BY <1>3
    <2>2. k[2] \in Nat /\ k[3] \in Nat /\ mems[k[1]].canonical \in Seq(V)
      BY DEF Apart
    <2>3. CASE i = k[2] + 1
      <3>1. i - 1 = k[2]
        BY <1>1, <2>2, <2>3
      <3> QED  BY <1>1, <2>2, <3>1, PieceFirst
    <2>4. CASE i # k[2] + 1
      <3>1. i \in k[2] + 2 .. k[3]
        BY <1>1, <2>1, <2>2, <2>4
      <3>2. Piece(mems, text, edits, i) = <<>>
        BY <3>1, PieceLater
      <3> QED  BY <3>2
    <2> QED  BY <2>3, <2>4
  <1> QED  BY <1>2, <1>3

(* The edits in the order in which they are put in, and where the text is  *)
(* still the transcript's after j of them.                                 *)
Descends(edits, list, n) ==
    /\ list \in [1 .. n -> edits]
    /\ \A k \in edits : \E j \in 1 .. n : list[j] = k
    /\ \A i, j \in 1 .. n : i < j => list[i][2] > list[j][2]

Cut(text, list, j) == IF j = 0 THEN Len(text) ELSE list[j][2]

LEMMA CutIn ==
    ASSUME NEW V, NEW mems, NEW text, NEW edits, Apart(V, mems, text, edits),
           NEW n \in Nat, NEW list, Descends(edits, list, n), NEW j \in 0 .. n
    PROVE  Cut(text, list, j) \in 0 .. Len(text)
  <1>1. Len(text) \in Nat
    BY LenProperties DEF Apart
  <1>2. CASE j = 0
    BY <1>1, <1>2 DEF Cut
  <1>3. CASE j # 0
    <2>1. list[j] \in edits
      BY <1>3 DEF Descends
    <2>2. list[j][2] \in Nat /\ list[j][3] \in Nat
          /\ list[j][2] < list[j][3] /\ list[j][3] <= Len(text)
      BY <2>1 DEF Apart
    <2> QED  BY <1>1, <1>3, <2>2 DEF Cut
  <1> QED  BY <1>2, <1>3

LEMMA CutStep ==
    ASSUME NEW V, NEW mems, NEW text, NEW edits, Apart(V, mems, text, edits),
           NEW n \in Nat, NEW list, Descends(edits, list, n), NEW j \in 1 .. n
    PROVE  /\ list[j] \in edits /\ Cut(text, list, j) = list[j][2]
           /\ list[j][3] <= Cut(text, list, j - 1)
           /\ \A o \in edits : o[3] <= list[j][3] \/ Cut(text, list, j - 1) <= o[2]
  <1> DEFINE k == list[j]
             s == Cut(text, list, j - 1)
             Span(o) == o[2] \in Nat /\ o[3] \in Nat /\ o[2] < o[3] /\ o[3] <= Len(text)
             Clear(a, b) == a = b \/ a[3] <= b[2] \/ b[3] <= a[2]
  <1>1. Len(text) \in Nat
    BY LenProperties DEF Apart
  <1>2. (\A o \in edits : Span(o)) /\ (\A a, b \in edits : Clear(a, b))
    BY DEF Apart
  <1>3. \A i \in 1 .. n : list[i] \in edits
    BY DEF Descends
  <1>4. k \in edits /\ Span(k) /\ Cut(text, list, j) = k[2]
    BY <1>2, <1>3 DEF Cut
  <1> HIDE DEF k
  <1>5. k[3] <= s
    <2>1. CASE j = 1
      BY <1>4, <2>1 DEF Cut
    <2>2. CASE j # 1
      <3> DEFINE p == list[j - 1]
      <3>1. j - 1 \in 1 .. n /\ j - 1 < j
        BY <2>2
      <3>2. p[2] > k[2] /\ s = p[2]
        BY <2>2, <3>1 DEF Descends, Cut, k
      <3>3. p \in edits /\ Span(p)
        BY <1>2, <1>3, <3>1
      <3> HIDE DEF p
      <3>4. Clear(p, k)
        BY <1>2, <1>4, <3>3
      <3> QED  BY <1>4, <3>2, <3>3, <3>4
    <2> QED  BY <2>1, <2>2
  <1>6. ASSUME NEW o \in edits PROVE o[3] <= k[3] \/ s <= o[2]
    <2>1. PICK i \in 1 .. n : list[i] = o
      BY DEF Descends
    <2>2. Span(o) /\ Clear(o, k)
      BY <1>2, <1>4
    <2>3. CASE i < j
      <3>1. CASE i = j - 1
        BY <2>1, <2>2, <3>1 DEF Cut
      <3>2. CASE i # j - 1
        <4>1. j - 1 \in 1 .. n /\ i < j - 1 /\ j - 1 # 0
          BY <2>3, <3>2
        <4>2. o[2] > list[j - 1][2]
          BY <2>1, <4>1 DEF Descends
        <4>3. s = list[j - 1][2] /\ Span(list[j - 1])
          BY <1>2, <1>3, <4>1 DEF Cut
        <4> QED  BY <2>2, <4>2, <4>3
      <3> QED  BY <3>1, <3>2
    <2>4. CASE i = j
      BY <1>4, <2>1, <2>4 DEF k
    <2>5. CASE j < i
      <3>1. k[2] > o[2]
        BY <2>1, <2>5 DEF Descends, k
      <3> QED  BY <1>4, <2>2, <3>1
    <2> QED  BY <2>3, <2>4, <2>5
  <1> QED  BY <1>4, <1>5, <1>6 DEF k

LEMMA CutLast ==
    ASSUME NEW V, NEW mems, NEW text, NEW edits, Apart(V, mems, text, edits),
           NEW n \in Nat, NEW list, Descends(edits, list, n), NEW o \in edits
    PROVE  Cut(text, list, n) <= o[2]
  <1>1. PICK i \in 1 .. n : list[i] = o
    BY DEF Descends
  <1>2. n \in 1 .. n /\ n # 0
    OBVIOUS
  <1>3. list[n] \in edits
    BY <1>2 DEF Descends
  <1>4. o[2] \in Nat /\ list[n][2] \in Nat
    BY <1>3 DEF Apart
  <1>5. i = n \/ list[i][2] > list[n][2]
    BY <1>2 DEF Descends
  <1> QED  BY <1>1, <1>2, <1>4, <1>5 DEF Cut

-----------------------------------------------------------------------------
(* Where the text is added symbol by symbol, a part of it is added.        *)
LEMMA WeavesText ==
    ASSUME NEW V, NEW text \in Seq(V), NEW run,
           NEW p \in 0 .. Len(text), run[p] \in Seq(V), NEW q \in p .. Len(text),
           \A i \in p + 1 .. q : run[i] = Followed(run[i - 1], <<text[i]>>)
    PROVE  run[q] = Followed(run[p], Part(text, p, q))
  <1>1. Len(text) \in Nat /\ \A i \in 1 .. Len(text) : text[i] \in V
    BY LenProperties, ElementOfSeq
  <1>2. p \in Nat /\ q \in Nat /\ p <= q /\ q <= Len(text)
    BY <1>1
  <1> DEFINE Copied(i) == Followed(run[p], Part(text, p, i))
             Bad == {i \in p .. q : run[i] # Copied(i)}
  <1> HIDE DEF Copied
  <1> SUFFICES ASSUME run[q] # Copied(q) PROVE FALSE
    BY DEF Copied
  <1>3. PICK i \in Bad : \A j \in Bad : i <= j
    <2>1. Bad \in SUBSET Nat /\ q \in Bad
      BY <1>2
    <2> HIDE DEF Bad
    <2> QED  BY <2>1, NatLeast
  <1>4. i # p
    <2>1. Part(text, p, p) = <<>>
      BY <1>2, PartNothing
    <2>2. Followed(run[p], <<>>) = run[p]
      BY FollowedByNothing
    <2>3. Copied(p) = run[p]
      BY <2>1, <2>2 DEF Copied
    <2> QED  BY <1>3, <2>3
  <1>5. i \in p + 1 .. q /\ i - 1 \in p .. q /\ i - 1 \notin Bad
    BY <1>2, <1>3, <1>4
  <1>6. run[i] # Copied(i) /\ run[i - 1] = Copied(i - 1)
    BY <1>3, <1>5
  <1> HIDE DEF Bad
  <1>7. run[i] = Followed(run[i - 1], <<text[i]>>)
    BY <1>5
  <1>8. i - 1 \in p .. Len(text) /\ i \in 1 .. Len(text) /\ i \in p + 1 .. Len(text)
    BY <1>1, <1>2, <1>5
  <1> DEFINE before == run[p]
             front == Part(text, p, i - 1)
             next == <<text[i]>>
  <1>9. before \in Seq(V) /\ front \in Seq(V) /\ next \in Seq(V)
    <2>1. text[i] \in V
      BY <1>1, <1>8
    <2>2. front \in Seq(V)
      <3> DEFINE e == i - 1
      <3>1. e \in p .. Len(text)
        BY <1>8
      <3> HIDE DEF e
      <3>2. Part(text, p, e) \in Seq(V)
        BY <3>1, PartType
      <3> QED  BY <3>2 DEF e
    <2> QED  BY <2>1, <2>2
  <1>10. Part(text, p, i) = Followed(front, next)
    BY <1>2, <1>8, PartNext
  <1>11. run[i] = Followed(Followed(before, front), next)
    BY <1>6, <1>7 DEF Copied
  <1>12. Copied(i) = Followed(before, Followed(front, next))
    BY <1>10 DEF Copied
  <1> HIDE DEF before, front, next
  <1>13. Followed(Followed(before, front), next) = Followed(before, Followed(front, next))
    BY <1>9, FollowedAssociative
  <1> QED  BY <1>6, <1>11, <1>12, <1>13

(* Where nothing is added, nothing changes.                                *)
LEMMA WeavesNothing ==
    ASSUME NEW V, NEW run, NEW p \in Nat, NEW q \in Nat, p <= q,
           \A i \in p .. q : run[i] \in Seq(V),
           \A i \in p + 1 .. q : run[i] = Followed(run[i - 1], <<>>)
    PROVE  run[q] = run[p]
  <1> DEFINE Bad == {i \in p .. q : run[i] # run[p]}
  <1> SUFFICES ASSUME Bad # {} PROVE FALSE
    OBVIOUS
  <1>1. PICK i \in Bad : \A j \in Bad : i <= j
    <2>1. Bad \in SUBSET Nat
      OBVIOUS
    <2> HIDE DEF Bad
    <2> QED  BY <2>1, NatLeast
  <1>2. i - 1 \in p .. q /\ i - 1 \notin Bad /\ i \in p + 1 .. q
    BY <1>1
  <1>3. run[i - 1] = run[p] /\ run[i] = Followed(run[i - 1], <<>>) /\ run[i - 1] \in Seq(V)
    BY <1>2
  <1>4. Followed(run[i - 1], <<>>) = run[i - 1]
    BY <1>3, FollowedByNothing
  <1> QED  BY <1>1, <1>3, <1>4

(* weave holds what the first symbols of a text stand for.                 *)
Weaves(mems, text, edits, weave) ==
    /\ weave[0] = <<>>
    /\ \A i \in 1 .. Len(text) : weave[i] = Followed(weave[i - 1], Piece(mems, text, edits, i))

LEMMA WeaveType ==
    ASSUME NEW V, NEW mems, NEW text, NEW edits, Apart(V, mems, text, edits),
           NEW weave, Weaves(mems, text, edits, weave), NEW q \in 0 .. Len(text)
    PROVE  weave[q] \in Seq(V)
  <1>1. Len(text) \in Nat
    BY LenProperties DEF Apart
  <1> DEFINE Bad == {i \in 0 .. Len(text) : weave[i] \notin Seq(V)}
  <1> SUFFICES ASSUME q \in Bad PROVE FALSE
    OBVIOUS
  <1>2. PICK i \in Bad : \A j \in Bad : i <= j
    <2>1. Bad \in SUBSET Nat
      BY <1>1
    <2> HIDE DEF Bad
    <2> QED  BY <2>1, NatLeast
  <1>3. i # 0
    <2>1. weave[0] = <<>> /\ <<>> \in Seq(V)
      BY EmptySeq DEF Weaves
    <2> QED  BY <1>2, <2>1
  <1>4. i \in 1 .. Len(text) /\ i - 1 \in 0 .. Len(text) /\ i - 1 \notin Bad
    BY <1>1, <1>2, <1>3
  <1>5. weave[i - 1] \in Seq(V) /\ weave[i] \notin Seq(V)
    BY <1>2, <1>4
  <1>6. Piece(mems, text, edits, i) \in Seq(V)
    BY <1>4, PieceType
  <1>7. weave[i] = Followed(weave[i - 1], Piece(mems, text, edits, i))
    BY <1>4 DEF Weaves
  <1>8. Followed(weave[i - 1], Piece(mems, text, edits, i)) \in Seq(V)
    BY <1>5, <1>6, FollowedType
  <1> QED  BY <1>5, <1>7, <1>8

(* Across an edit its word is added.                                       *)
LEMMA WeaveEdit ==
    ASSUME NEW V, NEW mems, NEW text, NEW edits, Apart(V, mems, text, edits),
           NEW weave, Weaves(mems, text, edits, weave), NEW k \in edits
    PROVE  weave[k[3]] = Followed(weave[k[2]], mems[k[1]].canonical)
  <1>1. /\ Len(text) \in Nat
        /\ k[2] \in Nat /\ k[3] \in Nat /\ k[2] < k[3] /\ k[3] <= Len(text)
    BY LenProperties DEF Apart
  <1> DEFINE p == k[2] + 1
             q == k[3]
  <1>2. weave[p] = Followed(weave[k[2]], mems[k[1]].canonical)
    <2>1. p \in 1 .. Len(text) /\ p \in Nat /\ p - 1 = k[2]
      BY <1>1
    <2> HIDE DEF p
    <2>2. Piece(mems, text, edits, p) = mems[k[1]].canonical
      BY <2>1, PieceFirst
    <2>3. weave[p] = Followed(weave[p - 1], Piece(mems, text, edits, p))
      BY <2>1 DEF Weaves
    <2> QED  BY <2>2, <2>1, <2>3
  <1>3. p \in Nat /\ q \in Nat /\ p <= q
    BY <1>1
  <1>4. \A i \in p .. q : weave[i] \in Seq(V)
    <2>1. \A i \in p .. q : i \in 0 .. Len(text)
      BY <1>1
    <2> QED  BY <2>1, WeaveType
  <1>5. ASSUME NEW i \in p + 1 .. q PROVE weave[i] = Followed(weave[i - 1], <<>>)
    <2>1. i \in k[2] + 2 .. k[3] /\ i \in 1 .. Len(text)
      BY <1>1
    <2>2. Piece(mems, text, edits, i) = <<>>
      BY <2>1, PieceLater
    <2> QED  BY <2>1, <2>2 DEF Weaves
  <1> HIDE DEF p, q
  <1>6. weave[q] = weave[p]
    BY <1>3, <1>4, <1>5, WeavesNothing
  <1> QED  BY <1>2, <1>6 DEF q

(* Between edits the text is added.                                        *)
LEMMA WeaveGap ==
    ASSUME NEW V, NEW mems, NEW text, NEW edits, Apart(V, mems, text, edits),
           NEW weave, Weaves(mems, text, edits, weave),
           NEW p \in 0 .. Len(text), NEW q \in p .. Len(text),
           \A k \in edits : k[3] <= p \/ q <= k[2]
    PROVE  weave[q] = Followed(weave[p], Part(text, p, q))
  <1>1. Len(text) \in Nat /\ text \in Seq(V) /\ weave[p] \in Seq(V)
    BY LenProperties, WeaveType DEF Apart
  <1>2. ASSUME NEW i \in p + 1 .. q PROVE weave[i] = Followed(weave[i - 1], <<text[i]>>)
    <2>1. i \in Nat /\ i \in 1 .. Len(text)
      BY <1>1
    <2>2. \A k \in edits : ~(k[2] < i /\ i <= k[3])
      BY <1>1 DEF Apart
    <2>3. Piece(mems, text, edits, i) = <<text[i]>>
      BY <2>1, <2>2, PieceOutside
    <2> QED  BY <2>1, <2>3 DEF Weaves
  <1> QED  BY <1>1, <1>2, WeavesText

-----------------------------------------------------------------------------
(* The text so far: its first s symbols are the transcript's, and what     *)
(* follows them is what the weave adds from there.                         *)
SplicedFrom(V, text, weave, out, s) ==
    /\ out \in Seq(V) /\ s \in Nat /\ s <= Len(text) /\ s <= Len(out)
    /\ \A i \in 1 .. s : out[i] = text[i]
    /\ weave[Len(text)] = Followed(weave[s], Part(out, s, Len(out)))

Inserted(mems, out, k) ==
    Followed(Followed(Part(out, 0, k[2]), mems[k[1]].canonical), Part(out, k[3], Len(out)))

LEMMA SplicedStart ==
    ASSUME NEW V, NEW mems, NEW text, NEW edits, Apart(V, mems, text, edits),
           NEW weave, Weaves(mems, text, edits, weave)
    PROVE  SplicedFrom(V, text, weave, text, Len(text))
  <1> DEFINE N == Len(text)
  <1>1. N \in Nat /\ text \in Seq(V)
    BY LenProperties DEF Apart
  <1>2. N \in 0 .. Len(text)
    BY <1>1
  <1>3. weave[N] \in Seq(V)
    BY <1>2, WeaveType
  <1>4. Part(text, N, N) = <<>>
    BY <1>1, PartNothing
  <1>5. Followed(weave[N], <<>>) = weave[N]
    BY <1>3, FollowedByNothing
  <1>6. weave[Len(text)] = Followed(weave[N], Part(text, N, Len(text)))
    BY <1>4, <1>5
  <1> QED  BY <1>1, <1>6 DEF SplicedFrom

LEMMA SplicedStep ==
    ASSUME NEW V, NEW mems, NEW text, NEW edits, Apart(V, mems, text, edits),
           NEW weave, Weaves(mems, text, edits, weave), NEW k \in edits,
           NEW out, NEW s, SplicedFrom(V, text, weave, out, s), k[3] <= s,
           \A o \in edits : o[3] <= k[3] \/ s <= o[2]
    PROVE  SplicedFrom(V, text, weave, Inserted(mems, out, k), k[2])
  <1> DEFINE a == k[2]
             e == k[3]
             word == mems[k[1]].canonical
             rest == Part(out, s, Len(out))
             gap == Part(text, e, s)
             new == Followed(Followed(Part(out, 0, a), word), Part(out, e, Len(out)))
             front == weave[a]
  <1>1. /\ text \in Seq(V) /\ Len(text) \in Nat /\ out \in Seq(V) /\ Len(out) \in Nat
        /\ a \in Nat /\ e \in Nat /\ s \in Nat /\ a <= e /\ e <= s /\ s <= Len(text)
        /\ s <= Len(out) /\ word \in Seq(V)
    BY LenProperties DEF Apart, SplicedFrom
  <1>2. \A i \in 1 .. s : out[i] = text[i]
    BY DEF SplicedFrom
  <1>3. /\ a \in 0 .. Len(text) /\ e \in 0 .. Len(text) /\ s \in e .. Len(text)
        /\ s \in 0 .. Len(out) /\ Len(out) \in s .. Len(out)
    BY <1>1
  <1>4. weave[Len(text)] = Followed(weave[s], rest)
    BY DEF SplicedFrom
  <1>5. weave[e] = Followed(front, word)
    <2>1. weave[k[3]] = Followed(weave[k[2]], mems[k[1]].canonical)
      BY WeaveEdit
    <2> QED  BY <2>1
  <1>6. Inserted(mems, out, k) = new
    BY DEF Inserted
  <1>7. \A o \in edits : o[3] <= e \/ s <= o[2]
    OBVIOUS
  <1> HIDE DEF a, e, word, front, gap, rest, new
  <1>8. weave[s] = Followed(weave[e], gap)
    <2>1. weave[s] = Followed(weave[e], Part(text, e, s))
      BY <1>3, <1>7, WeaveGap
    <2> QED  BY <2>1 DEF gap
  <1>9. front \in Seq(V)
    BY <1>3, WeaveType DEF front
  <1>10. gap \in Seq(V)
    BY <1>1, <1>3, PartType DEF gap
  <1>11. rest \in Seq(V)
    <2> DEFINE n == Len(out)
    <2>1. n \in s .. Len(out)
      BY <1>3
    <2> HIDE DEF n
    <2>2. Part(out, s, n) \in Seq(V)
      BY <1>1, <1>3, <2>1, PartType
    <2> QED  BY <2>2 DEF n, rest
  <1>12. /\ new \in Seq(V) /\ a <= Len(new)
         /\ \A i \in 1 .. a : new[i] = text[i]
         /\ Part(new, a, Len(new)) = Followed(word, Followed(gap, rest))
    <2>1. gap = Part(text, e, s) /\ rest = Part(out, s, Len(out))
      BY DEF gap, rest
    <2>2. new = Followed(Followed(Part(out, 0, a), word), Part(out, e, Len(out)))
      BY DEF new
    <2>3. Leads(V, text, new, a, Followed(word, Followed(gap, rest)))
      BY <1>1, <1>2, <2>1, <2>2, SpliceTail
    <2> QED  BY <2>3 DEF Leads
  <1>13. weave[Len(text)] = Followed(Followed(Followed(front, word), gap), rest)
    BY <1>4, <1>5, <1>8, Zenon
  <1>14. weave[Len(text)] = Followed(front, Followed(word, Followed(gap, rest)))
    <2>1. front \in Seq(V) /\ word \in Seq(V) /\ gap \in Seq(V) /\ rest \in Seq(V)
      BY <1>1, <1>9, <1>10, <1>11
    <2>2. Followed(Followed(Followed(front, word), gap), rest)
              = Followed(front, Followed(word, Followed(gap, rest)))
      BY <2>1, FollowedByThree
    <2> QED  BY <1>13, <2>2
  <1>15. a <= Len(text)
    BY <1>1
  <1>16. SplicedFrom(V, text, weave, new, a)
    BY <1>1, <1>12, <1>14, <1>15 DEF SplicedFrom, front
  <1> QED  BY <1>6, <1>16 DEF a

LEMMA SplicedEnd ==
    ASSUME NEW V, NEW mems, NEW text, NEW edits, Apart(V, mems, text, edits),
           NEW weave, Weaves(mems, text, edits, weave),
           NEW out, NEW s, SplicedFrom(V, text, weave, out, s), \A o \in edits : s <= o[2]
    PROVE  out = weave[Len(text)]
  <1> DEFINE o == 0
             n == Len(out)
             head == Part(text, o, s)
  <1>1. /\ text \in Seq(V) /\ Len(text) \in Nat /\ out \in Seq(V) /\ Len(out) \in Nat
        /\ s \in Nat /\ s <= Len(text) /\ s <= Len(out)
    BY LenProperties DEF Apart, SplicedFrom
  <1>2. \A i \in o + 1 .. s : out[i] = text[i]
    BY DEF SplicedFrom
  <1>3. /\ o \in 0 .. Len(text) /\ s \in o .. Len(text) /\ o \in Nat
        /\ o \in 0 .. Len(out) /\ s \in o .. Len(out) /\ n \in s .. Len(out)
    BY <1>1
  <1>4. \A k \in edits : k[3] <= o \/ s <= k[2]
    OBVIOUS
  <1>5. weave[o] = <<>>
    BY DEF Weaves
  <1>6. Part(out, o, n) = out
    BY <1>1, PartAll
  <1>7. weave[Len(text)] = Followed(weave[s], Part(out, s, n))
    BY DEF SplicedFrom
  <1> HIDE DEF o, n
  <1>8. weave[s] = Followed(weave[o], head)
    BY <1>3, <1>4, WeaveGap
  <1>9. head \in Seq(V)
    BY <1>1, <1>3, PartType
  <1>10. Part(out, o, s) = head
    BY <1>1, <1>2, <1>3, PartEqual
  <1> HIDE DEF head
  <1>11. weave[s] = Part(out, o, s)
    <2>1. Followed(<<>>, head) = head
      BY <1>9, FollowedByNothing
    <2> QED  BY <1>5, <1>8, <1>10, <2>1
  <1>12. Followed(Part(out, o, s), Part(out, s, n)) = Part(out, o, n)
    BY <1>1, <1>3, PartsJoin
  <1> QED  BY <1>11, <1>12, <1>6, <1>7

(* Splicing from the right is weaving.                                     *)
LEMMA SplicedIsWoven ==
    ASSUME NEW V, NEW mems, NEW text, NEW edits, Apart(V, mems, text, edits),
           NEW weave, Weaves(mems, text, edits, weave),
           NEW n \in Nat, NEW list, Descends(edits, list, n),
           NEW splice, splice[0] = text,
           \A j \in 1 .. n : splice[j] = Inserted(mems, splice[j - 1], list[j])
    PROVE  splice[n] = weave[Len(text)]
  <1> DEFINE Done(j) == SplicedFrom(V, text, weave, splice[j], Cut(text, list, j))
  <1>1. Done(0)
    <2>1. SplicedFrom(V, text, weave, text, Len(text))
      BY SplicedStart
    <2> QED  BY <2>1 DEF Cut
  <1>2. ASSUME NEW j \in 1 .. n, Done(j - 1) PROVE Done(j)
    <2> DEFINE out == splice[j - 1]
               s == Cut(text, list, j - 1)
               k == list[j]
    <2>1. /\ list[j] \in edits /\ Cut(text, list, j) = list[j][2]
          /\ list[j][3] <= Cut(text, list, j - 1)
          /\ \A o \in edits : o[3] <= list[j][3] \/ Cut(text, list, j - 1) <= o[2]
      BY CutStep
    <2>2. k \in edits /\ k[3] <= s /\ \A o \in edits : o[3] <= k[3] \/ s <= o[2]
      BY <2>1
    <2>3. SplicedFrom(V, text, weave, out, s)
      BY <1>2
    <2>4. splice[j] = Inserted(mems, out, k) /\ Cut(text, list, j) = k[2]
      BY <2>1
    <2> HIDE DEF out, s, k
    <2>5. SplicedFrom(V, text, weave, Inserted(mems, out, k), k[2])
      BY <2>2, <2>3, SplicedStep
    <2> QED  BY <2>4, <2>5
  <1> HIDE DEF Done
  <1>3. Done(n)
    <2> DEFINE Bad == {j \in 0 .. n : ~Done(j)}
    <2> SUFFICES ASSUME n \in Bad PROVE FALSE
      OBVIOUS
    <2>1. PICK j \in Bad : \A i \in Bad : j <= i
      <3>1. Bad \in SUBSET Nat
        OBVIOUS
      <3> HIDE DEF Bad
      <3> QED  BY <3>1, NatLeast
    <2>2. j # 0
      BY <1>1, <2>1
    <2>3. j \in 1 .. n /\ j - 1 \in 0 .. n /\ j - 1 \notin Bad
      BY <2>1, <2>2
    <2>4. Done(j - 1) /\ ~Done(j)
      BY <2>1, <2>3
    <2> QED  BY <1>2, <2>3, <2>4
  <1> DEFINE s == Cut(text, list, n)
  <1>4. \A o \in edits : s <= o[2]
    BY CutLast
  <1>5. SplicedFrom(V, text, weave, splice[n], s)
    BY <1>3 DEF Done
  <1> HIDE DEF s
  <1> QED  BY <1>4, <1>5, SplicedEnd

-----------------------------------------------------------------------------
(* Rendered, of any memories, and what it computes edit by edit.           *)
RenderingOf(mems, text, edits) ==
    FoldLeft(LAMBDA out, k : SubSeq(out, 1, k[2]) \o mems[k[1]].canonical
                                \o SubSeq(out, k[3] + 1, Len(out)),
             text, Sorted(edits, {p \in edits \X edits : p[1][2] > p[2][2]}))

Splices(mems, text, list, n, last, run) ==
    /\ run[0] = text /\ run[n] = last
    /\ \A j \in 1 .. n : run[j] = Inserted(mems, run[j - 1], list[j])

LEMMA RenderingRuns ==
    ASSUME NEW mems, NEW text, NEW edits, NEW n \in Nat, NEW list, DOMAIN list = 1 .. n,
           list = Sorted(edits, {p \in edits \X edits : p[1][2] > p[2][2]})
    PROVE  \E run : Splices(mems, text, list, n, RenderingOf(mems, text, edits), run)
  <1> DEFINE seq == Sorted(edits, {p \in edits \X edits : p[1][2] > p[2][2]})
             c == [kind |-> "splice", memories |-> mems, text |-> text, edits |-> edits]
             Step(g, s) ==
                IF s = {} THEN text
                ELSE LET x == Max(s)
                     IN  SubSeq(g[s \ {x}], 1, seq[x][2]) \o mems[seq[x][1]].canonical
                            \o SubSeq(g[s \ {x}], seq[x][3] + 1, Len(g[s \ {x}]))
             iter == CHOOSE g : g = [s \in SUBSET DOMAIN seq |-> Step(g, s)]
  <1>1. RenderingOf(mems, text, edits) = iter[DOMAIN seq]
    BY DEF RenderingOf, FoldLeft, MapThenFoldSet
  <1>2. c.kind = "splice" /\ c.memories = mems
    OBVIOUS
  <1>3. DOMAIN seq = 1 .. n
    OBVIOUS
  <1> HIDE DEF seq, c
  <1>4. \A g, s : Step(g, s) = Folding(c, text, seq, g, s)
    BY <1>2 DEF Folding, Stride
  <1> HIDE DEF Step
  <1>5. \E g : Folded(c, text, seq, g)
    BY <1>3, FoldingExists
  <1>6. \E g : g = [s \in SUBSET DOMAIN seq |-> Step(g, s)]
    <2>1. PICK g : g = [s \in SUBSET DOMAIN seq |-> Folding(c, text, seq, g, s)]
      BY <1>5 DEF Folded
    <2>2. g = [s \in SUBSET DOMAIN seq |-> Step(g, s)]
      BY <1>4, <2>1
    <2> QED  BY <2>2
  <1>7. iter = [s \in SUBSET DOMAIN seq |-> Step(iter, s)]
    BY <1>6
  <1> HIDE DEF iter
  <1>8. Folded(c, text, seq, iter)
    BY <1>4, <1>7 DEF Folded
  <1>9. \E run : Runs(c, text, seq, n, iter[DOMAIN seq], run)
    BY <1>3, <1>8, FoldingRuns
  <1>10. PICK run : /\ run[0] = text /\ run[n] = iter[DOMAIN seq]
                   /\ \A i \in 1 .. n : run[i] = Stride(c, run[i - 1], seq[i])
    BY <1>9 DEF Runs
  <1>11. ASSUME NEW j \in 1 .. n PROVE run[j] = Inserted(mems, run[j - 1], seq[j])
    <2>1. run[j] = Stride(c, run[j - 1], seq[j])
      BY <1>10
    <2>2. \A out, k : Stride(c, out, k) = Inserted(mems, out, k)
      <3>1. \A out, k : Stride(c, out, k) = SubSeq(out, 1, k[2]) \o mems[k[1]].canonical
                                                \o SubSeq(out, k[3] + 1, Len(out))
        BY <1>2 DEF Stride
      <3>2. 0 + 1 = 1
        OBVIOUS
      <3> QED  BY <3>1, <3>2, Zenon DEF Inserted, Followed, Part
    <2> QED  BY <2>1, <2>2
  <1>12. seq = list
    BY DEF seq
  <1>13. Splices(mems, text, list, n, RenderingOf(mems, text, edits), run)
    BY <1>1, <1>10, <1>11, <1>12 DEF Splices
  <1> QED  BY <1>13

(* What is woven, symbol by symbol.                                        *)
WeavingOf(mems, text, edits) ==
    FoldLeft(LAMBDA out, i :
                LET starting == {k \in edits : k[2] = i - 1}
                    inside == {k \in edits : k[2] < i /\ i <= k[3]}
                IN  out \o (IF starting # {}
                            THEN mems[(CHOOSE k \in starting : TRUE)[1]].canonical
                            ELSE IF inside # {} THEN <<>> ELSE <<text[i]>>),
             <<>>, [i \in DOMAIN text |-> i])

LEMMA WeavingRuns ==
    ASSUME NEW mems, NEW text, NEW edits, NEW n \in Nat, DOMAIN text = 1 .. n, Len(text) = n
    PROVE  \E run : run[n] = WeavingOf(mems, text, edits) /\ Weaves(mems, text, edits, run)
  <1> DEFINE seq == [i \in DOMAIN text |-> i]
             c == [kind |-> "weave", memories |-> mems, text |-> text, edits |-> edits]
             nothing == <<>>
             Step(g, s) ==
                IF s = {} THEN nothing
                ELSE LET x == Max(s)
                         starting == {k \in edits : k[2] = seq[x] - 1}
                         inside == {k \in edits : k[2] < seq[x] /\ seq[x] <= k[3]}
                     IN  g[s \ {x}] \o (IF starting # {}
                                        THEN mems[(CHOOSE k \in starting : TRUE)[1]].canonical
                                        ELSE IF inside # {} THEN <<>> ELSE <<text[seq[x]]>>)
             iter == CHOOSE g : g = [s \in SUBSET DOMAIN seq |-> Step(g, s)]
  <1>1. WeavingOf(mems, text, edits) = iter[DOMAIN seq]
    BY DEF WeavingOf, FoldLeft, MapThenFoldSet
  <1>2. c.kind = "weave" /\ c.memories = mems /\ c.text = text /\ c.edits = edits
    OBVIOUS
  <1>3. DOMAIN seq = 1 .. n
    OBVIOUS
  <1>4. \A i \in 1 .. n : seq[i] = i
    OBVIOUS
  <1> HIDE DEF seq, c, nothing
  <1>5. \A g, s : Step(g, s) = Folding(c, nothing, seq, g, s)
    <2> DEFINE After(out, i) == out \o Piece(mems, text, edits, i)
    <2>1. \A out, i : Stride(c, out, i) = After(out, i)
      BY <1>2, Zenon DEF Stride
    <2>2. \A g, s : s # {} => Step(g, s) = After(g[s \ {Max(s)}], seq[Max(s)])
      BY DEF Piece
    <2>3. \A g, s : s = {} => Step(g, s) = nothing
      OBVIOUS
    <2> HIDE DEF After, Step
    <2>4. ASSUME NEW g, NEW s PROVE Step(g, s) = Folding(c, nothing, seq, g, s)
      <3>1. CASE s = {}
        BY <2>3, <3>1 DEF Folding
      <3>2. CASE s # {}
        BY <2>1, <2>2, <3>2 DEF Folding
      <3> QED  BY <3>1, <3>2
    <2> QED  BY <2>4
  <1> HIDE DEF Step
  <1>6. \E g : Folded(c, nothing, seq, g)
    BY <1>3, FoldingExists
  <1>7. \E g : g = [s \in SUBSET DOMAIN seq |-> Step(g, s)]
    <2>1. PICK g : g = [s \in SUBSET DOMAIN seq |-> Folding(c, nothing, seq, g, s)]
      BY <1>6 DEF Folded
    <2>2. g = [s \in SUBSET DOMAIN seq |-> Step(g, s)]
      BY <1>5, <2>1
    <2> QED  BY <2>2
  <1>8. iter = [s \in SUBSET DOMAIN seq |-> Step(iter, s)]
    BY <1>7
  <1> HIDE DEF iter
  <1>9. Folded(c, nothing, seq, iter)
    BY <1>5, <1>8 DEF Folded
  <1>10. \E run : Runs(c, nothing, seq, n, iter[DOMAIN seq], run)
    BY <1>3, <1>9, FoldingRuns
  <1>11. PICK run : /\ run[0] = nothing /\ run[n] = iter[DOMAIN seq]
                   /\ \A i \in 1 .. n : run[i] = Stride(c, run[i - 1], seq[i])
    BY <1>10 DEF Runs
  <1>12. ASSUME NEW i \in 1 .. n PROVE run[i] = Followed(run[i - 1], Piece(mems, text, edits, i))
    <2>1. run[i] = Stride(c, run[i - 1], i)
      BY <1>11, <1>4
    <2>2. \A out : Stride(c, out, i) = Followed(out, Piece(mems, text, edits, i))
      BY <1>2, Zenon DEF Stride, Followed
    <2> QED  BY <2>1, <2>2
  <1> QED  BY <1>1, <1>11, <1>12 DEF Weaves, nothing

(* Splicing the winners in from the right gives the text with each winner's *)
(* span replaced, however the words' lengths differ.                       *)
LEMMA RenderingIsWeaving ==
    ASSUME NEW V, NEW mems, NEW text, NEW edits, Apart(V, mems, text, edits)
    PROVE  RenderingOf(mems, text, edits) = WeavingOf(mems, text, edits)
  <1> DEFINE R == {p \in edits \X edits : p[1][2] > p[2][2]}
             n == Cardinality(edits)
             list == Sorted(edits, R)
             N == Len(text)
  <1>1. IsFiniteSet(edits) /\ text \in Seq(V) /\ N \in Nat /\ DOMAIN text = 1 .. N
    BY LenProperties DEF Apart
  <1>2. \A x, y \in edits : <<x, y>> \in R <=> x[2] > y[2]
    OBVIOUS
  <1>3. \A x \in edits : x[2] \in Nat
    BY DEF Apart
  <1>4. \A x, y \in edits : x = y \/ x[2] > y[2] \/ y[2] > x[2]
    BY DEF Apart
  <1> HIDE DEF R
  <1>5. /\ \A x \in edits : <<x, x>> \notin R
        /\ \A x, y, z \in edits : <<x, y>> \in R /\ <<y, z>> \in R => <<x, z>> \in R
        /\ \A x, y \in edits : x = y \/ <<x, y>> \in R \/ <<y, x>> \in R
    BY <1>2, <1>3, <1>4
  <1>6. /\ n \in Nat /\ list \in [1 .. n -> edits]
        /\ \A x \in edits : \E j \in 1 .. n : list[j] = x
        /\ \A i, j \in 1 .. n : i < j => <<list[i], list[j]>> \in R
    BY <1>1, <1>5, SortedLists
  <1> HIDE DEF n, list
  <1>7. Descends(edits, list, n)
    <2>1. \A i, j \in 1 .. n : i < j => list[i][2] > list[j][2]
      BY <1>2, <1>6
    <2> QED  BY <1>6, <2>1 DEF Descends
  <1>8. PICK splice : /\ splice[0] = text /\ splice[n] = RenderingOf(mems, text, edits)
                      /\ \A j \in 1 .. n : splice[j] = Inserted(mems, splice[j - 1], list[j])
    <2>1. DOMAIN list = 1 .. n
      BY <1>6
    <2>2. list = Sorted(edits, {p \in edits \X edits : p[1][2] > p[2][2]})
      BY DEF list, R
    <2>3. n \in Nat
      BY <1>6
    <2>4. \E run : Splices(mems, text, list, n, RenderingOf(mems, text, edits), run)
      BY <2>1, <2>2, <2>3, RenderingRuns
    <2> QED  BY <2>4 DEF Splices
  <1>9. PICK weave : weave[N] = WeavingOf(mems, text, edits) /\ Weaves(mems, text, edits, weave)
    BY <1>1, WeavingRuns
  <1>10. splice[n] = weave[Len(text)]
    BY <1>6, <1>7, <1>8, <1>9, SplicedIsWoven
  <1> QED  BY <1>8, <1>9, <1>10

-----------------------------------------------------------------------------
(* A shadow pass is run when one is requested, what was selected is apart, *)
(* and a response is what its pass selected, rendered.                     *)
AnswerInv ==
    /\ stage \in {"score", "active", "shadow", "answered"}
    /\ answer = [text |-> answer.text, action |-> answer.action, trace |-> answer.trace,
                 shadowText |-> answer.shadowText, shadowAction |-> answer.shadowAction]
    /\ winners = [p \in Selection!Pass |-> winners[p]]
    /\ \A p \in Selection!Pass : \A a, b \in winners[p] : a # b => ~Selection!Overlaps(a, b)
    /\ stage = "score" => pass = "active" /\ winners = [p \in Selection!Pass |-> {}]
    /\ stage = "active" /\ pass = "done" => request = Unset
    /\ stage \in {"shadow", "answered"} =>
          pass # "active" /\ answer.text = RenderingOf(memories, body.text, winners["active"])
    /\ stage = "answered" =>
          /\ pass = "done"
          /\ request # Unset =>
                answer.shadowText = RenderingOf(memories, body.text, winners["shadow"])

LEMMA AnswerFresh == Fresh /\ answer = NoAnswer => AnswerInv
  <1> SUFFICES ASSUME Fresh, answer = NoAnswer PROVE AnswerInv
    OBVIOUS
  <1>1. \A p \in Selection!Pass : winners[p] = {}
    BY DEF Fresh
  <1> QED  BY <1>1, Zenon DEF Fresh, AnswerInv, NoAnswer

LEMMA AnswerSelect ==
    ASSUME AnswerInv, Select
    PROVE  AnswerInv'
  <1> USE DEF AnswerInv, Select
  <1>1. /\ stage \in {"active", "shadow"} /\ pass = stage /\ pass \in Selection!Pass
        /\ UNCHANGED <<memories, body, stage, answer>>
    BY DEF Selection!Pass
  <1>2. features' = features /\ request' = request
    BY DEF Selection!Next, Selection!Begin, Selection!LoseMargin, Selection!LoseSpan,
           Selection!Win, Selection!Visit, Selection!End
  <1>3. \A a, b : Selection!Overlaps(a, b)' <=> Selection!Overlaps(a, b)
    BY <1>2 DEF Selection!Overlaps
  <1>4. CASE winners' = winners /\ pass' = pass
    BY <1>1, <1>2, <1>3, <1>4
  <1>5. CASE Selection!End
    BY <1>1, <1>2, <1>3, <1>5 DEF Selection!End
  <1>6. ASSUME NEW c \in Key, Selection!Win(c) PROVE AnswerInv'
    <2>1. pass' = pass /\ winners' = [winners EXCEPT ![pass] = @ \cup {c}]
      BY <1>6 DEF Selection!Win, Selection!Visit
    <2>2. winners' = [p \in Selection!Pass |-> winners'[p]]
          /\ winners'[pass] = winners[pass] \cup {c}
          /\ \A p \in Selection!Pass : p # pass => winners'[p] = winners[p]
      BY <1>1, <2>1
    <2>3. \A w \in winners[pass] : ~Selection!Overlaps(c, w) /\ ~Selection!Overlaps(w, c)
      BY <1>6 DEF Selection!Win, Selection!Occupied, Selection!Overlaps
    <2>4. ASSUME NEW p \in Selection!Pass, NEW a \in winners'[p], NEW b \in winners'[p], a # b
          PROVE  ~Selection!Overlaps(a, b)
      BY <2>2, <2>3, <2>4
    <2>5. stage = "shadow" => winners'["active"] = winners["active"]
      BY <1>1, <2>2 DEF Selection!Pass
    <2> QED  BY <1>1, <1>2, <1>3, <2>1, <2>2, <2>4, <2>5
  <1>7. CASE Selection!Begin
    BY <1>4, <1>7 DEF Selection!Begin
  <1>8. ASSUME NEW c \in Key, Selection!LoseMargin(c) \/ Selection!LoseSpan(c) PROVE AnswerInv'
    BY <1>4, <1>8 DEF Selection!LoseMargin, Selection!LoseSpan, Selection!Visit
  <1> QED  BY <1>5, <1>6, <1>7, <1>8 DEF Selection!Next

LEMMA AnswerNext == PassInv /\ AnswerInv /\ [Next]_vars => AnswerInv'
  <1> SUFFICES ASSUME PassInv, AnswerInv, [Next]_vars PROVE AnswerInv'
    OBVIOUS
  <1>1. ASSUME NEW o \in pending, ScoreRoute(o) PROVE AnswerInv'
    <2>1. stage = "score" /\ UNCHANGED <<memories, body, stage, answer, request, pass, winners>>
      BY <1>1 DEF ScoreRoute
    <2>2. \A p \in Selection!Pass : winners'[p] = {}
      BY <2>1 DEF AnswerInv
    <2> QED  BY <2>1, <2>2 DEF AnswerInv
  <1>2. CASE Generated
    <2>1. /\ stage = "score" /\ stage' = "active"
          /\ UNCHANGED <<memories, body, answer, request, pass, winners>>
      BY <1>2 DEF Generated
    <2>2. \A p \in Selection!Pass : winners'[p] = {}
      BY <2>1 DEF AnswerInv
    <2> QED  BY <2>1, <2>2 DEF AnswerInv
  <1>3. CASE Respond
    <2>1. /\ stage = "active" /\ pass # "active" /\ UNCHANGED <<memories, body, selectionVars>>
          /\ stage' = IF pass = "shadow" THEN "shadow" ELSE "answered"
          /\ answer' = [answer EXCEPT !.text = Rendered(body.text, winners["active"]),
                                      !.action = DecisionAction("active"), !.trace = Traced]
      BY <1>3 DEF Respond
    <2>2. Rendered(body.text, winners["active"])
              = RenderingOf(memories, body.text, winners["active"])
      BY DEF Rendered, RenderingOf
    <2>3. \A a, b : Selection!Overlaps(a, b)' <=> Selection!Overlaps(a, b)
      BY <2>1 DEF Selection!Overlaps, selectionVars
    <2>4. pass \in {"active", "shadow", "done"}
      BY DEF PassInv
    <2>5. /\ answer' = [text |-> answer'.text, action |-> answer'.action, trace |-> answer'.trace,
                        shadowText |-> answer'.shadowText, shadowAction |-> answer'.shadowAction]
          /\ answer'.text = Rendered(body.text, winners["active"])
      BY <2>1 DEF AnswerInv
    <2> QED  BY <2>1, <2>2, <2>3, <2>4, <2>5 DEF AnswerInv, selectionVars
  <1>4. CASE RespondShadow
    <2>1. /\ stage = "shadow" /\ pass = "done" /\ UNCHANGED <<memories, body, selectionVars>>
          /\ stage' = "answered"
          /\ answer' = [answer EXCEPT !.shadowText = Rendered(body.text, winners["shadow"]),
                                      !.shadowAction = DecisionAction("shadow")]
      BY <1>4 DEF RespondShadow
    <2>2. Rendered(body.text, winners["shadow"])
              = RenderingOf(memories, body.text, winners["shadow"])
      BY DEF Rendered, RenderingOf
    <2>3. \A a, b : Selection!Overlaps(a, b)' <=> Selection!Overlaps(a, b)
      BY <2>1 DEF Selection!Overlaps, selectionVars
    <2>4. /\ answer' = [text |-> answer'.text, action |-> answer'.action, trace |-> answer'.trace,
                        shadowText |-> answer'.shadowText, shadowAction |-> answer'.shadowAction]
          /\ answer'.shadowText = Rendered(body.text, winners["shadow"])
          /\ answer'.text = answer.text
      BY <2>1 DEF AnswerInv
    <2> QED  BY <2>1, <2>2, <2>3, <2>4 DEF AnswerInv, selectionVars
  <1>5. CASE UNCHANGED vars
    <2>1. \A a, b : Selection!Overlaps(a, b)' <=> Selection!Overlaps(a, b)
      BY <1>5 DEF Selection!Overlaps, selectionVars, vars
    <2> QED  BY <1>5, <2>1 DEF AnswerInv, vars, selectionVars
  <1>6. CASE Select
    BY <1>6, AnswerSelect
  <1>7. CASE \E r \in Retained, accepted, encoder \in BOOLEAN : Judge(r[1], r[2], accepted, encoder)
    <2>1. Fresh'
      BY <1>7, JudgeFresh
    <2>2. answer' = NoAnswer
      BY <1>7 DEF Judge
    <2>3. Fresh' /\ (answer = NoAnswer)' => AnswerInv'
      BY AnswerFresh, PTL
    <2> QED  BY <2>1, <2>3, <2>2 DEF NoAnswer
  <1> QED  BY <1>1, <1>2, <1>3, <1>4, <1>5, <1>6, <1>7 DEF Next

LEMMA AnswerAlways == Spec => []AnswerInv
  <1>1. Init => answer = NoAnswer
    BY DEF Init
  <1> QED  BY <1>1, InitFresh, AnswerFresh, AnswerNext, PassAlways, PTL DEF Spec

(* What a pass selected lies apart in the transcript.                      *)
LEMMA WinnersApart ==
    ASSUME RetainedInv, ServedInv, PassInv, AnswerInv, NEW p \in Selection!Pass
    PROVE  Apart(Word \cup Separator, memories, body.text, winners[p])
  <1> DEFINE edits == winners[p]
  <1>1. ASSUME NEW k \in edits
        PROVE  /\ k \in Retained /\ <<k[2], k[3]>> \in SpansOf(body.text)
               /\ memories[k[1]] \in MemoryType
               /\ features[k].start = k[2] /\ features[k].end = k[3]
    <2>1. k \in Key /\ features[k].blockers = {}
      BY DEF PassInv
    <2>2. k \in Retained
      <3>1. k \notin Retained => features[k] = Parked(memories, k)
        BY <2>1, RetainedType DEF ServedInv
      <3> QED  BY <2>1, <3>1 DEF Parked
    <2>3. /\ <<k[2], k[3]>> \in SpansOf(body.text) /\ Known(memories[k[1]])
          /\ features[k].start = k[2] /\ features[k].end = k[3]
      BY <2>2, RetainedSignals DEF ServedInv
    <2> QED  BY <2>2, <2>3 DEF Known
  <1>2. body.text \in Text
    <2>1. body \in BodyType
      BY AskedType DEF ServedInv
    <2> QED  BY <2>1 DEF BodyType
  <1>3. IsFiniteSet(edits)
    BY KeysFinite, FS_Subset DEF PassInv
  <1>4. Len(body.text) \in Nat
    BY <1>2, LenProperties DEF Text
  <1>5. ASSUME NEW k \in edits
        PROVE  /\ k[2] \in Nat /\ k[3] \in Nat /\ k[2] < k[3] /\ k[3] <= Len(body.text)
               /\ memories[k[1]].canonical \in Text
    <2>1. memories[k[1]].canonical \in Text
      BY <1>1 DEF MemoryType
    <2>2. <<k[2], k[3]>> \in SpansOf(body.text)
      BY <1>1
    <2>3. k[2] \in 0 .. Len(body.text) /\ k[3] \in 0 .. Len(body.text) /\ k[2] < k[3]
      BY <2>2 DEF SpansOf
    <2> QED  BY <1>4, <2>1, <2>3
  <1>6. ASSUME NEW a \in edits, NEW b \in edits, a # b PROVE a[3] <= b[2] \/ b[3] <= a[2]
    <2>1. ~Selection!Overlaps(a, b)
      BY <1>6 DEF AnswerInv
    <2>2. ~(b[2] < a[3] /\ a[2] < b[3])
      BY <1>1, <2>1 DEF Selection!Overlaps
    <2> QED  BY <1>5, <2>2
  <1> QED  BY <1>2, <1>3, <1>5, <1>6 DEF Apart, Text

(* The answer and the shadow answer are the transcript with every winner's *)
(* span replaced by the memory's canonical form and all else untouched,    *)
(* although each replacement moves the text behind it (_render_winners).   *)
THEOREM AnswersAreRendered == Spec => []RenderedFaithfully
  <1>1. RetainedInv /\ ServedInv /\ PassInv /\ AnswerInv => RenderedFaithfully
    <2> SUFFICES ASSUME RetainedInv, ServedInv, PassInv, AnswerInv, stage = "answered"
                 PROVE  /\ answer.text = WeavingOf(memories, body.text, winners["active"])
                        /\ request # Unset =>
                              answer.shadowText = WeavingOf(memories, body.text, winners["shadow"])
      BY DEF RenderedFaithfully, WeavingOf
    <2>1. ASSUME NEW p \in Selection!Pass
          PROVE  RenderingOf(memories, body.text, winners[p])
                     = WeavingOf(memories, body.text, winners[p])
      BY WinnersApart, RenderingIsWeaving
    <2> QED  BY <2>1 DEF AnswerInv, Selection!Pass
  <1> QED  BY <1>1, ServedAlways, PassAlways, AnswerAlways, PTL

-----------------------------------------------------------------------------
(***************************************************************************)
(* The selection inside a request keeps the invariants of Arbitration.     *)
(***************************************************************************)
Selected == INSTANCE ArbitrationProofs WITH
    Candidate <- Key, MaxGrade <- 1000, Feature <- Appraisal

(* What Arbitration assumes of its constants.                              *)
GradesAre ==
    /\ 1000 \in Nat
    /\ MinConflictPositive \in Selected!Grade
    /\ MinAdvantage \in Selected!Grade
    /\ Active \in Selected!Thresholds
    /\ Unset \notin Selected!Grade
    /\ ShadowRequest \subseteq Selected!ShadowRequestType

FeaturesAre ==
    /\ Appraisal \subseteq Selected!FeatureType
    /\ \A f \in Appraisal : f.start < f.end

PolicyIs == Active.apply + Active.margin > 1000 /\ MinAdvantage > 0

LEMMA ArbitrationAssumed == GradesAre /\ FeaturesAre /\ PolicyIs
  <1>1. GradesAre
    <2>1. Selection!Thresholds = Selected!Thresholds
      BY DEF Selection!Thresholds, Selected!Thresholds, Selection!Grade, Selected!Grade
    <2>2. Selection!ShadowRequestType = Selected!ShadowRequestType
      BY DEF Selection!ShadowRequestType, Selected!ShadowRequestType, Selection!Grade, Selected!Grade
    <2>3. /\ MinConflictPositive \in 0 .. 1000 /\ MinAdvantage \in 1 .. 1000
          /\ Active \in Selection!Thresholds /\ Unset \notin 0 .. 1000
          /\ ShadowRequest \subseteq Selection!ShadowRequestType
      BY ReplayAssumption
    <2>4. MinAdvantage \in 0 .. 1000
      BY <2>3
    <2> QED  BY <2>1, <2>2, <2>3, <2>4 DEF GradesAre, Selected!Grade
  <1>2. FeaturesAre
    BY DEF FeaturesAre, Appraisal, Selected!FeatureType, Selected!Grade
  <1>3. PolicyIs
    <2>1. Active.apply + Active.margin > 1000 /\ MinAdvantage \in 1 .. 1000
      BY ReplayAssumption
    <2> QED  BY <2>1 DEF PolicyIs
  <1> QED  BY <1>1, <1>2, <1>3

LEMMA SelectedInit == Selected!Init => Selected!IInv /\ Selected!OutcomeInv
  <1>1. /\ 1000 \in Nat
        /\ MinConflictPositive \in Selected!Grade
        /\ MinAdvantage \in Selected!Grade
        /\ Active \in Selected!Thresholds
        /\ Unset \notin Selected!Grade
        /\ ShadowRequest \subseteq Selected!ShadowRequestType
    BY ArbitrationAssumed DEF GradesAre
  <1>2. /\ Appraisal \subseteq Selected!FeatureType
        /\ \A f \in Appraisal : f.start < f.end
    BY ArbitrationAssumed DEF FeaturesAre
  <1>3. Active.apply + Active.margin > 1000 /\ MinAdvantage > 0
    BY ArbitrationAssumed DEF PolicyIs
  <1>4. Selected!Init => Selected!IInv
    BY <1>1, <1>2, <1>3, Selected!InitIInv
  <1>5. Selected!Init => Selected!OutcomeInv
    BY <1>1, <1>2, <1>3, Selected!InitOutcome
  <1> QED  BY <1>4, <1>5

LEMMA SelectedNext ==
    Selected!IInv /\ Selected!OutcomeInv /\ Selected!Next => Selected!IInv' /\ Selected!OutcomeInv'
  <1>1. /\ 1000 \in Nat
        /\ MinConflictPositive \in Selected!Grade
        /\ MinAdvantage \in Selected!Grade
        /\ Active \in Selected!Thresholds
        /\ Unset \notin Selected!Grade
        /\ ShadowRequest \subseteq Selected!ShadowRequestType
    BY ArbitrationAssumed DEF GradesAre
  <1>2. /\ Appraisal \subseteq Selected!FeatureType
        /\ \A f \in Appraisal : f.start < f.end
    BY ArbitrationAssumed DEF FeaturesAre
  <1>3. Active.apply + Active.margin > 1000 /\ MinAdvantage > 0
    BY ArbitrationAssumed DEF PolicyIs
  <1>4. Selected!IInv /\ [Selected!Next]_(Selected!vars) => Selected!IInv'
    BY <1>1, <1>2, <1>3, Selected!NextIInv
  <1>5. Selected!IInv /\ Selected!OutcomeInv /\ [Selected!Next]_(Selected!vars) => Selected!OutcomeInv'
    BY <1>1, <1>2, <1>3, Selected!NextOutcome
  <1> QED  BY <1>4, <1>5

LEMMA SelectedStays ==
    Selected!IInv /\ Selected!OutcomeInv /\ UNCHANGED selectionVars
        => Selected!IInv' /\ Selected!OutcomeInv'
  <1>1. /\ 1000 \in Nat
        /\ MinConflictPositive \in Selected!Grade
        /\ MinAdvantage \in Selected!Grade
        /\ Active \in Selected!Thresholds
        /\ Unset \notin Selected!Grade
        /\ ShadowRequest \subseteq Selected!ShadowRequestType
    BY ArbitrationAssumed DEF GradesAre
  <1>2. /\ Appraisal \subseteq Selected!FeatureType
        /\ \A f \in Appraisal : f.start < f.end
    BY ArbitrationAssumed DEF FeaturesAre
  <1>3. Active.apply + Active.margin > 1000 /\ MinAdvantage > 0
    BY ArbitrationAssumed DEF PolicyIs
  <1>4. Selected!IInv /\ [Selected!Next]_(Selected!vars) => Selected!IInv'
    BY <1>1, <1>2, <1>3, Selected!NextIInv
  <1>5. Selected!IInv /\ Selected!OutcomeInv /\ [Selected!Next]_(Selected!vars) => Selected!OutcomeInv'
    BY <1>1, <1>2, <1>3, Selected!NextOutcome
  <1>6. UNCHANGED selectionVars => UNCHANGED Selected!vars
    BY DEF selectionVars, Selected!vars
  <1> QED  BY <1>4, <1>5, <1>6

(* The selection of the request is that arbitration.                       *)
LEMMA SelectSelects == Selection!Next => Selected!Next
  <1> SUFFICES ASSUME Selection!Next PROVE Selected!Next
    OBVIOUS
  <1>1. \A a, b : /\ Selection!Precedes(a, b) <=> Selected!Precedes(a, b)
                  /\ Selection!Overlaps(a, b) <=> Selected!Overlaps(a, b)
    BY DEF Selection!Precedes, Selected!Precedes, Selection!Overlaps, Selected!Overlaps
  <1>2. \A a : /\ Selection!Rivals(a) = Selected!Rivals(a)
               /\ Selection!Strength(a) = Selected!Strength(a)
    BY <1>1 DEF Selection!Rivals, Selected!Rivals, Selection!Strength, Selected!Strength
  <1>3. \A a, th : Selection!Ambiguous(a, th) <=> Selected!Ambiguous(a, th)
    BY <1>2 DEF Selection!Ambiguous, Selected!Ambiguous, Selection!WithinMargin,
                Selected!WithinMargin, Selection!ContextWins, Selected!ContextWins
  <1>4. \A a : Selection!Occupied(a) <=> Selected!Occupied(a)
    BY <1>1 DEF Selection!Occupied, Selected!Occupied
  <1>5. \A a, th, b : Selection!InitialAction(a, th, b) = Selected!InitialAction(a, th, b)
    BY DEF Selection!InitialAction, Selected!InitialAction
  <1>6. Selection!CopiedBlockers = Selected!CopiedBlockers /\ Selection!Pass = Selected!Pass
    BY DEF Selection!CopiedBlockers, Selected!CopiedBlockers, Selection!Pass, Selected!Pass
  <1>7. CASE Selection!Begin
    <2>1. Selected!Begin
      BY <1>5, <1>6, <1>7 DEF Selection!Begin, Selected!Begin
    <2> QED  BY <2>1 DEF Selected!Next
  <1>8. \A c : Selection!Visit(c) => Selected!Visit(c)
    BY <1>1, <1>6 DEF Selection!Visit, Selected!Visit
  <1>9. ASSUME NEW c \in Key, Selection!LoseMargin(c) PROVE Selected!LoseMargin(c)
    BY <1>3, <1>8, <1>9 DEF Selection!LoseMargin, Selected!LoseMargin
  <1>10. ASSUME NEW c \in Key, Selection!LoseSpan(c) PROVE Selected!LoseSpan(c)
    BY <1>3, <1>4, <1>8, <1>10 DEF Selection!LoseSpan, Selected!LoseSpan
  <1>11. ASSUME NEW c \in Key, Selection!Win(c) PROVE Selected!Win(c)
    BY <1>3, <1>4, <1>8, <1>11 DEF Selection!Win, Selected!Win
  <1>12. CASE Selection!End
    <2>1. Selected!End
      BY <1>6, <1>12 DEF Selection!End, Selected!End
    <2> QED  BY <2>1 DEF Selected!Next
  <1> QED  BY <1>7, <1>9, <1>10, <1>11, <1>12 DEF Selection!Next, Selected!Next

(* Until the candidates are complete nothing is selected; from then on the *)
(* selection is an arbitration between what is retained.                   *)
SelectedInv ==
    /\ thresholds = ThresholdsOf(body) /\ request = body.shadow
    /\ IF stage = "score"
       THEN /\ pass = "active" /\ running = FALSE /\ todo = {} /\ action = Idle
            /\ winners = [p \in Selection!Pass |-> {}]
       ELSE Selected!IInv /\ Selected!OutcomeInv

LEMMA SelectedFresh == Fresh => SelectedInv
  BY DEF Fresh, SelectedInv

LEMMA GeneratedSelects ==
    ASSUME RetainedInv, ServedInv, BestInv, SelectedInv, Generated
    PROVE  Selected!Init'
  <1>1. /\ pending = {} /\ stage = "score"
        /\ UNCHANGED <<features, thresholds, request, pass, running, todo, action, winners>>
        /\ blockers' = [k \in Key |-> features[k].blockers]
    BY DEF Generated
  <1>2. features \in [Key -> Appraisal] /\ Selected!DistinctKeys(features)
    <2>1. BestFeatures = features
      BY <1>1, BestIsRetained
    <2>2. offers = Offers(memories, body)
      BY DEF RetainedInv
    <2>3. BestFeatures \in [Key -> Appraisal] /\ Best!DistinctKeys(BestFeatures)
      BY <2>2, BestType
    <2>4. \A f : Best!DistinctKeys(f) => Selected!DistinctKeys(f)
      BY DEF Best!DistinctKeys, Selected!DistinctKeys
    <2> QED  BY <2>1, <2>3, <2>4
  <1>3. request \in {r \in ShadowRequest : Selected!ValidShadowRequest(r)} \cup {Unset}
    <2>1. PICK c \in Body : body = [c EXCEPT !.encoder = body.encoder]
      BY DEF ServedInv, Asked
    <2>2. c \in BodyType /\ (c.shadow # Unset => Selection!ValidShadowRequest(c.shadow))
      BY InferenceAssumption, Zenon
    <2>3. request = c.shadow /\ c.shadow \in ShadowRequest \cup {Unset}
      BY <1>1, <2>1, <2>2 DEF SelectedInv, BodyType
    <2>4. \A r : Selection!ValidShadowRequest(r) => Selected!ValidShadowRequest(r)
      BY DEF Selection!ValidShadowRequest, Selected!ValidShadowRequest
    <2> QED  BY <2>2, <2>3, <2>4
  <1>4. thresholds = [active |-> Active,
                      shadow |-> IF request = Unset THEN Active ELSE Selected!Resolve(request)]
    BY <1>1 DEF SelectedInv, ThresholdsOf, Selection!Resolve, Selected!Resolve
  <1>5. /\ pass = "active" /\ running = FALSE /\ todo = {}
        /\ action = [k \in Key |-> "abstain"] /\ winners = [p \in Selected!Pass |-> {}]
    BY <1>1 DEF SelectedInv, Idle, Selection!Pass, Selected!Pass
  <1>6. /\ features' \in {f \in [Key -> Appraisal] : Selected!DistinctKeys(f)}
        /\ request' \in {r \in ShadowRequest : Selected!ValidShadowRequest(r)} \cup {Unset}
        /\ thresholds' = [active |-> Active,
                          shadow |-> IF request' = Unset THEN Active ELSE Selected!Resolve(request')]
        /\ pass' = "active" /\ running' = FALSE /\ todo' = {}
        /\ action' = [k \in Key |-> "abstain"]
        /\ blockers' = [k \in Key |-> features'[k].blockers]
        /\ winners' = [p \in Selected!Pass |-> {}]
    BY <1>1, <1>2, <1>3, <1>4, <1>5
  <1> QED  BY <1>6 DEF Selected!Init, Selected!DistinctKeys, Selected!ValidShadowRequest,
                       Selected!Resolve, Selected!Pass

LEMMA SelectedInvNext ==
    RetainedInv /\ ServedInv /\ BestInv /\ PassInv /\ SelectedInv /\ [Next]_vars => SelectedInv'
  <1> SUFFICES ASSUME RetainedInv, ServedInv, BestInv, PassInv, SelectedInv, [Next]_vars
               PROVE  SelectedInv'
    OBVIOUS
  <1>0. UNCHANGED <<body, thresholds, request>>
            => thresholds' = ThresholdsOf(body)' /\ request' = body'.shadow
    BY DEF SelectedInv, ThresholdsOf, Selection!Resolve
  <1>1. CASE \E o \in pending : ScoreRoute(o)
    BY <1>0, <1>1 DEF ScoreRoute, SelectedInv
  <1>2. CASE Generated
    <2>1. Selected!Init'
      BY <1>2, GeneratedSelects
    <2>2. Selected!Init' => Selected!IInv' /\ Selected!OutcomeInv'
      BY SelectedInit, PTL
    <2>3. stage' = "active" /\ UNCHANGED <<body, thresholds, request>>
      BY <1>2 DEF Generated
    <2> QED  BY <1>0, <2>1, <2>2, <2>3 DEF SelectedInv
  <1>3. CASE Select
    <2>1. /\ Selection!Next /\ stage # "score" /\ stage' = stage
          /\ UNCHANGED <<body, thresholds, request>>
      BY <1>3 DEF Select, PassInv, Selection!Next, Selection!Begin, Selection!LoseMargin,
                  Selection!LoseSpan, Selection!Win, Selection!Visit, Selection!End, Selection!Pass
    <2>2. Selected!Next
      BY <2>1, SelectSelects
    <2> QED  BY <1>0, <2>1, <2>2, SelectedNext DEF SelectedInv
  <1>4. CASE Respond \/ RespondShadow
    <2>1. stage # "score" /\ stage' # "score" /\ UNCHANGED <<body, selectionVars>>
      BY <1>4 DEF Respond, RespondShadow
    <2>2. UNCHANGED <<body, thresholds, request>>
      BY <2>1 DEF selectionVars
    <2> QED  BY <1>0, <2>1, <2>2, SelectedStays DEF SelectedInv
  <1>5. CASE \E r \in Retained, accepted, encoder \in BOOLEAN : Judge(r[1], r[2], accepted, encoder)
    <2>1. Fresh'
      BY <1>5, JudgeFresh
    <2>2. Fresh' => SelectedInv'
      BY SelectedFresh, PTL
    <2> QED  BY <2>1, <2>2
  <1>6. CASE UNCHANGED vars
    <2>1. UNCHANGED <<stage, body, selectionVars>>
      BY <1>6 DEF vars
    <2>2. UNCHANGED <<body, thresholds, request>>
      BY <2>1 DEF selectionVars
    <2>3. CASE stage = "score"
      BY <1>0, <2>1, <2>2, <2>3 DEF SelectedInv, selectionVars
    <2>4. CASE stage # "score"
      BY <1>0, <2>1, <2>2, <2>4, SelectedStays DEF SelectedInv
    <2> QED  BY <2>3, <2>4
  <1> QED  BY <1>1, <1>2, <1>3, <1>4, <1>5, <1>6 DEF Next

LEMMA SelectedAlways == Spec => [](BestInv /\ SelectedInv)
  BY InitFresh, BestFresh, BestNext, ServedAlways, PassAlways, SelectedFresh, SelectedInvNext, PTL
     DEF Spec

-----------------------------------------------------------------------------
(* What a response says of its candidates, from what each pass selected.   *)
Entry(k, why) ==
    [key |-> k, start |-> k[2], end |-> k[3], name |-> memories[k[1]].name,
     output |-> memories[k[1]].canonical, blockers |-> Selected!Marks(k, "active"),
     reason |-> why[k],
     signals |-> Signals(memories[k[1]], body.text, kept[k], body.encoder)]

Entries(why) == {Entry(k, why) : k \in Retained}

Verdict(p) ==
    IF winners[p] # {} THEN "apply"
    ELSE IF \E k \in Retained : Selected!Outcome(k, p) = "suggest" THEN "suggest" ELSE "abstain"

TracedInv ==
    /\ stage = "active" /\ pass # "active" => ~running
    /\ stage = "shadow" => request # Unset
    /\ stage \in {"shadow", "answered"} =>
          /\ answer.action = Verdict("active")
          /\ \E why : answer.trace = Entries(why)
    /\ stage = "answered" /\ request # Unset => answer.shadowAction = Verdict("shadow")

LEMMA OutcomeStays ==
    ASSUME UNCHANGED <<features, thresholds>>, NEW p, winners'[p] = winners[p]
    PROVE  \A k : /\ Selected!Outcome(k, p)' = Selected!Outcome(k, p)
                  /\ Selected!Marks(k, p)' = Selected!Marks(k, p)
  <1>1. \A k : Selected!Applicable(k, p)' <=> Selected!Applicable(k, p)
    BY DEF Selected!Applicable
  <1>2. \A k : Selected!Ambiguous(k, thresholds[p])' <=> Selected!Ambiguous(k, thresholds[p])
    BY DEF Selected!Ambiguous, Selected!WithinMargin, Selected!ContextWins, Selected!Rivals,
           Selected!Overlaps, Selected!Strength
  <1>3. \A k : Selected!InitialAction(k, thresholds[p], features[k].blockers)'
                  = Selected!InitialAction(k, thresholds[p], features[k].blockers)
    BY DEF Selected!InitialAction
  <1> QED  BY <1>1, <1>2, <1>3 DEF Selected!Outcome, Selected!Marks

LEMMA TraceStays ==
    ASSUME UNCHANGED <<memories, body, kept, features, thresholds>>,
           NEW p, winners'[p] = winners[p]
    PROVE  /\ Verdict(p)' = Verdict(p)
           /\ p = "active" => \A why : Entries(why)' = Entries(why)
  <1>1. \A k : /\ Selected!Outcome(k, p)' = Selected!Outcome(k, p)
               /\ Selected!Marks(k, p)' = Selected!Marks(k, p)
    BY OutcomeStays
  <1>2. Retained' = Retained
    BY DEF Retained
  <1>3. Verdict(p)' = Verdict(p)
    BY <1>1, <1>2 DEF Verdict
  <1>4. ASSUME p = "active", NEW k, NEW why PROVE Entry(k, why)' = Entry(k, why)
    <2>1. Selected!Marks(k, "active")' = Selected!Marks(k, "active")
      BY <1>1, <1>4
    <2>2. Signals(memories[k[1]], body.text, kept[k], body.encoder)'
              = Signals(memories[k[1]], body.text, kept[k], body.encoder)
      BY Zenon
    <2> QED  BY <2>1, <2>2 DEF Entry
  <1>5. ASSUME p = "active", NEW why PROVE Entries(why)' = Entries(why)
    BY <1>2, <1>4, <1>5 DEF Entries
  <1> QED  BY <1>3, <1>5

LEMMA TracedNext ==
    PassInv /\ AnswerInv /\ SelectedInv /\ TracedInv /\ [Next]_vars => TracedInv'
  <1> SUFFICES ASSUME PassInv, AnswerInv, SelectedInv, TracedInv, [Next]_vars PROVE TracedInv'
    OBVIOUS
  <1>1. CASE stage' = "score"
    BY <1>1 DEF TracedInv
  <1>2. CASE Generated
    <2>1. stage' = "active" /\ pass' = "active"
      BY <1>2 DEF Generated, SelectedInv
    <2> QED  BY <2>1 DEF TracedInv
  <1>3. CASE Respond
    <2>1. /\ stage = "active" /\ pass # "active" /\ ~running
          /\ UNCHANGED <<memories, body, kept, selectionVars>>
          /\ stage' = IF pass = "shadow" THEN "shadow" ELSE "answered"
          /\ answer' = [answer EXCEPT !.text = Rendered(body.text, winners["active"]),
                                      !.action = DecisionAction("active"),
                                      !.trace = Traced]
      BY <1>3 DEF Respond, TracedInv
    <2>2. Selected!OutcomeInv
      BY <2>1 DEF SelectedInv
    <2>3. pass \in {"active", "shadow", "done"} /\ (pass = "done" => request = Unset)
      BY <2>1 DEF PassInv, AnswerInv
    <2>4. Selected!Latest = "active"
      BY <2>1, <2>3 DEF Selected!Latest
    <2>5. ASSUME NEW k \in Key
          PROVE  action[k] = Selected!Outcome(k, "active") /\ blockers[k] = Selected!Marks(k, "active")
      BY <2>1, <2>2, <2>4 DEF Selected!OutcomeInv
    <2>6. DecisionAction("active") = Verdict("active")
      BY <2>5 DEF DecisionAction, Verdict, Retained
    <2> DEFINE why == [k \in Retained |-> Reason(k)]
    <2>7. ASSUME NEW k \in Retained
          PROVE  [key |-> k, start |-> k[2], end |-> k[3], name |-> memories[k[1]].name,
                  output |-> memories[k[1]].canonical, blockers |-> blockers[k], reason |-> Reason(k),
                  signals |-> Signals(memories[k[1]], body.text, kept[k], body.encoder)]
                     = Entry(k, why)
      <3>1. blockers[k] = Selected!Marks(k, "active") /\ why[k] = Reason(k)
        BY <2>5 DEF Retained
      <3> HIDE DEF why
      <3> QED  BY <3>1 DEF Entry
    <2> HIDE DEF why
    <2>8. PICK w : Traced = Entries(w)
      <3>1. Traced = Entries(why)
        BY <2>7 DEF Traced, Entries
      <3> QED  BY <3>1
    <2>9. answer'.action = DecisionAction("active") /\ answer'.trace = Traced
      BY <2>1 DEF AnswerInv
    <2>10. /\ Verdict("active")' = Verdict("active")
           /\ \A v : Entries(v)' = Entries(v)
      BY <2>1, TraceStays DEF selectionVars
    <2>11. answer'.action = Verdict("active")'
           /\ answer'.trace = Entries(w)'
      BY <2>6, <2>8, <2>9, <2>10
    <2>12. stage' = "shadow" => request' # Unset
      BY <2>1, <2>2 DEF Selected!OutcomeInv, selectionVars
    <2>13. stage' = "answered" => request' = Unset
      BY <2>1, <2>3 DEF selectionVars
    <2> QED  BY <2>1, <2>11, <2>12, <2>13 DEF TracedInv
  <1>4. CASE RespondShadow
    <2>1. /\ stage = "shadow" /\ pass = "done"
          /\ UNCHANGED <<memories, body, kept, selectionVars>>
          /\ stage' = "answered"
          /\ answer' = [answer EXCEPT !.shadowText = Rendered(body.text, winners["shadow"]),
                                      !.shadowAction = DecisionAction("shadow")]
      BY <1>4 DEF RespondShadow
    <2>2. Selected!OutcomeInv /\ Selected!IInv
      BY <2>1 DEF SelectedInv
    <2>3. ~running
      BY <2>1, <2>2 DEF Selected!IInv, Selected!LoopInv, Selected!Pass
    <2>4. Selected!Latest = "shadow"
      BY <2>1, <2>3 DEF Selected!Latest, TracedInv
    <2>5. ASSUME NEW k \in Key PROVE action[k] = Selected!Outcome(k, "shadow")
      BY <2>1, <2>2, <2>3, <2>4 DEF Selected!OutcomeInv
    <2>6. DecisionAction("shadow") = Verdict("shadow")
      BY <2>5 DEF DecisionAction, Verdict, Retained
    <2>7. answer'.shadowAction = DecisionAction("shadow") /\ answer'.action = answer.action
          /\ answer'.trace = answer.trace
      BY <2>1 DEF AnswerInv
    <2>8. /\ Verdict("active")' = Verdict("active") /\ Verdict("shadow")' = Verdict("shadow")
          /\ \A v : Entries(v)' = Entries(v)
      BY <2>1, TraceStays DEF selectionVars
    <2> QED  BY <2>1, <2>6, <2>7, <2>8 DEF TracedInv
  <1>5. CASE Select
    <2>1. /\ pass = stage /\ Selection!Next /\ pass \in {"active", "shadow"}
          /\ UNCHANGED <<memories, body, stage, kept, answer>>
      BY <1>5 DEF Select, AnswerInv, PassInv
    <2>2. /\ UNCHANGED <<features, thresholds, request>>
          /\ pass' = pass \/ ~running'
      BY <2>1 DEF Selection!Next, Selection!Begin, Selection!LoseMargin, Selection!LoseSpan,
                  Selection!Win, Selection!Visit, Selection!End
    <2>3. CASE stage = "active"
      BY <2>1, <2>2, <2>3 DEF TracedInv
    <2>4. CASE stage = "shadow"
      <3>1. winners' = winners \/ winners' = [winners EXCEPT !["shadow"] = winners'["shadow"]]
        BY <2>1, <2>4 DEF Selection!Next, Selection!Begin, Selection!LoseMargin,
                          Selection!LoseSpan, Selection!Win, Selection!Visit, Selection!End, PassInv
      <3>2. winners'["active"] = winners["active"]
        BY <3>1 DEF PassInv, Selection!Pass
      <3>3. /\ Verdict("active")' = Verdict("active")
            /\ \A v : Entries(v)' = Entries(v)
        BY <2>1, <2>2, <3>2, TraceStays
      <3> QED  BY <2>1, <2>2, <2>4, <3>3 DEF TracedInv
    <2> QED  BY <2>1, <2>3, <2>4
  <1>6. CASE UNCHANGED vars
    <2>1. /\ Verdict("active")' = Verdict("active") /\ Verdict("shadow")' = Verdict("shadow")
          /\ \A v : Entries(v)' = Entries(v)
      BY <1>6, TraceStays DEF vars, selectionVars
    <2> QED  BY <1>6, <2>1 DEF TracedInv, vars, selectionVars
  <1>7. (\E o \in pending : ScoreRoute(o)) => stage' = "score"
    BY DEF ScoreRoute
  <1>8. (\E r \in Retained, accepted, encoder \in BOOLEAN : Judge(r[1], r[2], accepted, encoder))
            => stage' = "score"
    BY DEF Judge
  <1> QED  BY <1>1, <1>2, <1>3, <1>4, <1>5, <1>6, <1>7, <1>8 DEF Next

LEMMA TracedAlways == Spec => []TracedInv
  <1>1. Init => TracedInv
    BY DEF Init, TracedInv
  <1> QED  BY <1>1, TracedNext, PassAlways, AnswerAlways, SelectedAlways, PTL DEF Spec

-----------------------------------------------------------------------------
(* The calibrator's loop, candidate by candidate.                          *)
AheadIn(all) == {p \in all \X all : Ahead(p[1], p[2])}

Takes(all, list, n, last, run) ==
    /\ run[0] = {} /\ run[n] = last
    /\ \A j \in 1 .. n : run[j] = Taken(all, run[j - 1], list[j])

LEMMA TakingRuns ==
    ASSUME NEW all, NEW n \in Nat, NEW list, DOMAIN list = 1 .. n,
           list = Sorted({x \in all : x.action = "apply"}, {p \in all \X all : Ahead(p[1], p[2])})
    PROVE  \E run : Takes(all, list, n, Won(all), run)
  <1> DEFINE seq == Sorted({x \in all : x.action = "apply"}, {p \in all \X all : Ahead(p[1], p[2])})
             c == [kind |-> "take", all |-> all]
             none == {}
             Step(g, s) ==
                IF s = {} THEN {}
                ELSE LET x == Max(s) IN Taken(all, g[s \ {x}], seq[x])
             iter == CHOOSE g : g = [s \in SUBSET DOMAIN seq |-> Step(g, s)]
  <1>1. Won(all) = iter[DOMAIN seq]
    BY DEF Won, FoldLeft, MapThenFoldSet
  <1>2. c.kind = "take" /\ c.all = all
    OBVIOUS
  <1>3. DOMAIN seq = 1 .. n
    OBVIOUS
  <1> HIDE DEF seq, c
  <1>4. \A g, s : Step(g, s) = Folding(c, none, seq, g, s)
    BY <1>2 DEF Folding, Stride
  <1> HIDE DEF Step, none
  <1>5. \E g : Folded(c, none, seq, g)
    BY <1>3, FoldingExists
  <1>6. \E g : g = [s \in SUBSET DOMAIN seq |-> Step(g, s)]
    <2>1. PICK g : g = [s \in SUBSET DOMAIN seq |-> Folding(c, none, seq, g, s)]
      BY <1>5 DEF Folded
    <2>2. g = [s \in SUBSET DOMAIN seq |-> Step(g, s)]
      BY <1>4, <2>1
    <2> QED  BY <2>2
  <1>7. iter = [s \in SUBSET DOMAIN seq |-> Step(iter, s)]
    BY <1>6
  <1> HIDE DEF iter
  <1>8. Folded(c, none, seq, iter)
    BY <1>4, <1>7 DEF Folded
  <1>9. \E run : Runs(c, none, seq, n, iter[DOMAIN seq], run)
    BY <1>3, <1>8, FoldingRuns
  <1>10. PICK run : /\ run[0] = none /\ run[n] = iter[DOMAIN seq]
                    /\ \A i \in 1 .. n : run[i] = Stride(c, run[i - 1], seq[i])
    BY <1>9 DEF Runs
  <1>11. ASSUME NEW j \in 1 .. n PROVE run[j] = Taken(all, run[j - 1], seq[j])
    <2>1. run[j] = Stride(c, run[j - 1], seq[j])
      BY <1>10
    <2>2. \A out, x : Stride(c, out, x) = Taken(all, out, x)
      BY <1>2 DEF Stride
    <2> QED  BY <2>1, <2>2
  <1>12. Takes(all, list, n, Won(all), run)
    BY <1>1, <1>10, <1>11 DEF Takes, seq, none
  <1> QED  BY <1>12

(* Putting the winners in, winner by winner.                               *)
Patched(out, x) == SubSeq(out, 1, x.start) \o x.output \o SubSeq(out, x.end + 1, Len(out))

Patches(text, list, n, last, run) ==
    /\ run[0] = text /\ run[n] = last
    /\ \A j \in 1 .. n : run[j] = Patched(run[j - 1], list[j])

LEMMA PatchingRuns ==
    ASSUME NEW text, NEW won, NEW n \in Nat, NEW list, DOMAIN list = 1 .. n,
           list = Sorted(won, {p \in won \X won : p[1].start > p[2].start})
    PROVE  \E run : Patches(text, list, n, Spliced(text, won), run)
  <1> DEFINE seq == Sorted(won, {p \in won \X won : p[1].start > p[2].start})
             c == [kind |-> "patch"]
             Step(g, s) ==
                IF s = {} THEN text
                ELSE LET x == Max(s)
                     IN  SubSeq(g[s \ {x}], 1, seq[x].start) \o seq[x].output
                            \o SubSeq(g[s \ {x}], seq[x].end + 1, Len(g[s \ {x}]))
             iter == CHOOSE g : g = [s \in SUBSET DOMAIN seq |-> Step(g, s)]
  <1>1. Spliced(text, won) = iter[DOMAIN seq]
    BY DEF Spliced, FoldLeft, MapThenFoldSet
  <1>2. c.kind = "patch"
    OBVIOUS
  <1>3. DOMAIN seq = 1 .. n
    OBVIOUS
  <1> HIDE DEF seq, c
  <1>4. \A g, s : Step(g, s) = Folding(c, text, seq, g, s)
    BY <1>2 DEF Folding, Stride
  <1> HIDE DEF Step
  <1>5. \E g : Folded(c, text, seq, g)
    BY <1>3, FoldingExists
  <1>6. \E g : g = [s \in SUBSET DOMAIN seq |-> Step(g, s)]
    <2>1. PICK g : g = [s \in SUBSET DOMAIN seq |-> Folding(c, text, seq, g, s)]
      BY <1>5 DEF Folded
    <2>2. g = [s \in SUBSET DOMAIN seq |-> Step(g, s)]
      BY <1>4, <2>1
    <2> QED  BY <2>2
  <1>7. iter = [s \in SUBSET DOMAIN seq |-> Step(iter, s)]
    BY <1>6
  <1> HIDE DEF iter
  <1>8. Folded(c, text, seq, iter)
    BY <1>4, <1>7 DEF Folded
  <1>9. \E run : Runs(c, text, seq, n, iter[DOMAIN seq], run)
    BY <1>3, <1>8, FoldingRuns
  <1>10. PICK run : /\ run[0] = text /\ run[n] = iter[DOMAIN seq]
                    /\ \A i \in 1 .. n : run[i] = Stride(c, run[i - 1], seq[i])
    BY <1>9 DEF Runs
  <1>11. ASSUME NEW j \in 1 .. n PROVE run[j] = Patched(run[j - 1], seq[j])
    <2>1. run[j] = Stride(c, run[j - 1], seq[j])
      BY <1>10
    <2>2. \A out, x : Stride(c, out, x) = Patched(out, x)
      BY <1>2 DEF Stride, Patched
    <2> QED  BY <2>1, <2>2
  <1>12. Patches(text, list, n, Spliced(text, won), run)
    BY <1>1, <1>10, <1>11 DEF Patches, seq
  <1> QED  BY <1>12

-----------------------------------------------------------------------------
(* A strict total order on the candidates the loop does not pass over.     *)
Applied(all) == {x \in all : x.action = "apply"}

Orderly(all) ==
    /\ IsFiniteSet(all)
    /\ \A x \in Applied(all) : ~Ahead(x, x)
    /\ \A x, y, z \in Applied(all) : Ahead(x, y) /\ Ahead(y, z) => Ahead(x, z)
    /\ \A x, y \in Applied(all) : x = y \/ Ahead(x, y) \/ Ahead(y, x)

(* A set of winners: decided candidates that cross no winner ahead of them. *)
Kernel(all, set) ==
    /\ set \subseteq Applied(all)
    /\ \A x \in Applied(all) :
          x \in set <=> ~Undecided(x, all) /\ ~\E w \in set : Ahead(w, x) /\ Crossing(w, x)

Listing(all, list, n) ==
    /\ n \in Nat /\ list \in [1 .. n -> Applied(all)]
    /\ \A x \in Applied(all) : \E j \in 1 .. n : list[j] = x
    /\ \A i, j \in 1 .. n : i < j => Ahead(list[i], list[j])

LEMMA ListingExists ==
    ASSUME NEW all, Orderly(all)
    PROVE  /\ Listing(all, Sorted(Applied(all), AheadIn(all)), Cardinality(Applied(all)))
  <1> DEFINE S == Applied(all)
             R == AheadIn(all)
  <1>1. IsFiniteSet(S)
    <2>1. S \subseteq all
      BY DEF Applied
    <2> QED  BY <2>1, FS_Subset DEF Orderly
  <1>2. \A x, y \in S : <<x, y>> \in R <=> Ahead(x, y)
    BY DEF AheadIn, Applied
  <1> HIDE DEF R
  <1>3. /\ \A x \in S : <<x, x>> \notin R
        /\ \A x, y, z \in S : <<x, y>> \in R /\ <<y, z>> \in R => <<x, z>> \in R
        /\ \A x, y \in S : x = y \/ <<x, y>> \in R \/ <<y, x>> \in R
    BY <1>2 DEF Orderly
  <1> HIDE DEF S
  <1>4. /\ Cardinality(S) \in Nat
        /\ Sorted(S, R) \in [1 .. Cardinality(S) -> S]
        /\ \A x \in S : \E n \in 1 .. Cardinality(S) : Sorted(S, R)[n] = x
        /\ \A i, j \in 1 .. Cardinality(S) : i < j => <<Sorted(S, R)[i], Sorted(S, R)[j]>> \in R
    BY <1>1, <1>3, SortedLists
  <1>5. \A i, j \in 1 .. Cardinality(S) : i < j => Ahead(Sorted(S, R)[i], Sorted(S, R)[j])
    BY <1>2, <1>4
  <1>6. Listing(all, Sorted(S, R), Cardinality(S))
    BY <1>4, <1>5 DEF Listing, S
  <1> QED  BY <1>6 DEF S, R

(* In the list, ahead is earlier.                                          *)
LEMMA ListedEarlier ==
    ASSUME NEW all, Orderly(all), NEW list, NEW n, Listing(all, list, n),
           NEW i \in 1 .. n, NEW j \in 1 .. n
    PROVE  /\ Ahead(list[i], list[j]) <=> i < j
           /\ list[i] = list[j] <=> i = j
  <1>1. /\ list[i] \in Applied(all) /\ list[j] \in Applied(all) /\ n \in Nat
        /\ i < j => Ahead(list[i], list[j])
        /\ j < i => Ahead(list[j], list[i])
    BY DEF Listing
  <1>2. /\ ~Ahead(list[i], list[i]) /\ ~Ahead(list[j], list[j])
        /\ Ahead(list[i], list[j]) /\ Ahead(list[j], list[i]) => Ahead(list[i], list[i])
    BY <1>1 DEF Orderly
  <1>3. i < j \/ j < i \/ i = j
    BY <1>1
  <1> QED  BY <1>1, <1>2, <1>3

(* The loop selects such a set.                                            *)
LEMMA WonIsKernel ==
    ASSUME NEW all, Orderly(all)
    PROVE  Kernel(all, Won(all))
  <1> DEFINE list == Sorted(Applied(all), AheadIn(all))
             n == Cardinality(Applied(all))
  <1>1. Listing(all, list, n)
    BY ListingExists
  <1>2. PICK run : Takes(all, list, n, Won(all), run)
    <2>1. list = Sorted({x \in all : x.action = "apply"}, {p \in all \X all : Ahead(p[1], p[2])})
      BY DEF Applied, AheadIn
    <2> HIDE DEF list, n
    <2>2. n \in Nat /\ DOMAIN list = 1 .. n
      BY <1>1 DEF Listing
    <2> QED  BY <2>1, <2>2, TakingRuns
  <1> HIDE DEF list, n
  <1>3. /\ n \in Nat /\ list \in [1 .. n -> Applied(all)]
        /\ \A x \in Applied(all) : \E j \in 1 .. n : list[j] = x
    BY <1>1 DEF Listing
  <1>4. \A i, j \in 1 .. n : list[i] = list[j] => i = j
    BY <1>1, ListedEarlier
  <1> DEFINE Upto(k) == {list[j] : j \in 1 .. k}
             Free(j, set) == ~Undecided(list[j], all)
                             /\ ~\E i \in 1 .. j - 1 : list[i] \in set /\ Crossing(list[i], list[j])
             Done(k) == /\ run[k] \subseteq Upto(k)
                        /\ \A j \in 1 .. k : list[j] \in run[k] <=> Free(j, run[k])
  <1>5. Done(0)
    BY <1>2 DEF Takes
  <1>6. ASSUME NEW k \in 1 .. n, Done(k - 1) PROVE Done(k)
    <2>1. run[k] = Taken(all, run[k - 1], list[k])
      BY <1>2 DEF Takes
    <2>2. k \in Nat /\ k - 1 \in Nat /\ 1 .. k - 1 \subseteq 1 .. n /\ k \notin 1 .. k - 1
      BY <1>3
    <2>3. list[k] \notin run[k - 1]
      BY <1>4, <1>6, <2>2
    <2>4. run[k] = run[k - 1] \/ run[k] = run[k - 1] \cup {list[k]}
      BY <2>1 DEF Taken
    <2>5. \A j \in 1 .. k - 1 : list[j] \in run[k] <=> list[j] \in run[k - 1]
      BY <1>4, <2>2, <2>4
    <2>6. list[k] \in run[k]
             <=> ~Undecided(list[k], all) /\ ~\E w \in run[k - 1] : Crossing(w, list[k])
      BY <2>1, <2>3 DEF Taken
    <2>7. (\E w \in run[k - 1] : Crossing(w, list[k]))
             <=> \E i \in 1 .. k - 1 : list[i] \in run[k] /\ Crossing(list[i], list[k])
      <3>1. ASSUME NEW w \in run[k - 1], Crossing(w, list[k])
            PROVE  \E i \in 1 .. k - 1 : list[i] \in run[k] /\ Crossing(list[i], list[k])
        <4>1. PICK i \in 1 .. k - 1 : w = list[i]
          BY <1>6
        <4> QED  BY <2>5, <3>1, <4>1
      <3> QED  BY <2>5, <3>1
    <2>8. list[k] \in run[k] <=> Free(k, run[k])
      BY <2>6, <2>7
    <2>9. ASSUME NEW j \in 1 .. k - 1 PROVE list[j] \in run[k] <=> Free(j, run[k])
      <3>1. list[j] \in run[k - 1] <=> Free(j, run[k - 1])
        BY <1>6
      <3>2. \A i \in 1 .. j - 1 : list[i] \in run[k] <=> list[i] \in run[k - 1]
        BY <2>2, <2>5
      <3> QED  BY <2>5, <3>1, <3>2
    <2>10. run[k] \subseteq Upto(k)
      <3>1. Upto(k - 1) \subseteq Upto(k) /\ list[k] \in Upto(k)
        BY <2>2
      <3>2. run[k - 1] \subseteq Upto(k - 1)
        BY <1>6
      <3> HIDE DEF Upto
      <3> QED  BY <2>4, <3>1, <3>2
    <2>11. \A j \in 1 .. k : list[j] \in run[k] <=> Free(j, run[k])
      <3>1. \A j \in 1 .. k : j = k \/ j \in 1 .. k - 1
        BY <2>2
      <3> HIDE DEF Free
      <3> QED  BY <2>8, <2>9, <3>1
    <2> QED  BY <2>10, <2>11
  <1> HIDE DEF Done
  <1>7. Done(n)
    <2> DEFINE Bad == {k \in 0 .. n : ~Done(k)}
    <2> SUFFICES ASSUME n \in Bad PROVE FALSE
      BY <1>3
    <2>1. PICK k \in Bad : \A i \in Bad : k <= i
      <3>1. Bad \in SUBSET Nat
        OBVIOUS
      <3> HIDE DEF Bad
      <3> QED  BY <3>1, NatLeast
    <2>2. k # 0
      BY <1>5, <2>1
    <2>3. k \in 1 .. n /\ k - 1 \in 0 .. n /\ k - 1 \notin Bad
      BY <1>3, <2>1, <2>2
    <2>4. Done(k - 1) /\ ~Done(k)
      BY <2>1, <2>3
    <2> QED  BY <1>6, <2>3, <2>4
  <1>8. Won(all) = run[n]
    BY <1>2 DEF Takes
  <1>9. Won(all) \subseteq Applied(all)
    <2>1. Upto(n) \subseteq Applied(all)
      BY <1>3
    <2> QED  BY <1>7, <1>8, <2>1 DEF Done
  <1>10. ASSUME NEW x \in Applied(all)
         PROVE  x \in Won(all)
                  <=> ~Undecided(x, all) /\ ~\E w \in Won(all) : Ahead(w, x) /\ Crossing(w, x)
    <2>1. PICK j \in 1 .. n : list[j] = x
      BY <1>3
    <2>2. x \in Won(all) <=> Free(j, Won(all))
      BY <1>7, <1>8, <2>1 DEF Done
    <2>3. (\E w \in Won(all) : Ahead(w, x) /\ Crossing(w, x))
             <=> \E i \in 1 .. j - 1 : list[i] \in Won(all) /\ Crossing(list[i], list[j])
      <3>1. ASSUME NEW w \in Won(all), Ahead(w, x), Crossing(w, x)
            PROVE  \E i \in 1 .. j - 1 : list[i] \in Won(all) /\ Crossing(list[i], list[j])
        <4>1. PICK i \in 1 .. n : list[i] = w
          BY <1>3, <1>9
        <4>2. i < j
          BY <1>1, <2>1, <3>1, <4>1, ListedEarlier
        <4>3. i \in 1 .. j - 1
          BY <1>3, <4>2
        <4> QED  BY <2>1, <3>1, <4>1, <4>3
      <3>2. ASSUME NEW i \in 1 .. j - 1, list[i] \in Won(all), Crossing(list[i], list[j])
            PROVE  \E w \in Won(all) : Ahead(w, x) /\ Crossing(w, x)
        <4>1. i \in 1 .. n /\ i < j
          BY <1>3
        <4>2. Ahead(list[i], list[j])
          BY <1>1, <4>1, ListedEarlier
        <4> QED  BY <2>1, <3>2, <4>2
      <3> QED  BY <3>1, <3>2
    <2> QED  BY <2>1, <2>2, <2>3
  <1> QED  BY <1>9, <1>10 DEF Kernel

(* And there is only one.                                                  *)
LEMMA OneKernel ==
    ASSUME NEW all, Orderly(all), NEW A, Kernel(all, A), NEW B, Kernel(all, B)
    PROVE  A = B
  <1> DEFINE list == Sorted(Applied(all), AheadIn(all))
             n == Cardinality(Applied(all))
  <1>1. Listing(all, list, n)
    BY ListingExists
  <1> HIDE DEF list, n
  <1>2. /\ n \in Nat /\ list \in [1 .. n -> Applied(all)]
        /\ \A x \in Applied(all) : \E j \in 1 .. n : list[j] = x
    BY <1>1 DEF Listing
  <1> DEFINE Bad == {j \in 1 .. n : ~(list[j] \in A <=> list[j] \in B)}
  <1>3. Bad = {}
    <2> SUFFICES ASSUME Bad # {} PROVE FALSE
      OBVIOUS
    <2>1. PICK j \in Bad : \A i \in Bad : j <= i
      <3>1. Bad \in SUBSET Nat /\ Bad # {}
        BY <1>2
      <3> HIDE DEF Bad
      <3> QED  BY <3>1, NatLeast
    <2>2. j \in 1 .. n /\ ~(list[j] \in A <=> list[j] \in B) /\ list[j] \in Applied(all)
      BY <1>2, <2>1
    <2>3. ASSUME NEW w \in Applied(all), Ahead(w, list[j]) PROVE w \in A <=> w \in B
      <3>1. PICK i \in 1 .. n : list[i] = w
        BY <1>2
      <3>2. i < j
        BY <1>1, <2>2, <2>3, <3>1, ListedEarlier
      <3>3. i \notin Bad
        BY <1>2, <2>1, <2>2, <3>2
      <3> QED  BY <3>1, <3>3
    <2>4. /\ A \subseteq Applied(all) /\ B \subseteq Applied(all)
          /\ list[j] \in A <=> ~Undecided(list[j], all)
                               /\ ~\E w \in A : Ahead(w, list[j]) /\ Crossing(w, list[j])
          /\ list[j] \in B <=> ~Undecided(list[j], all)
                               /\ ~\E w \in B : Ahead(w, list[j]) /\ Crossing(w, list[j])
      BY <2>2 DEF Kernel
    <2> QED  BY <2>2, <2>3, <2>4
  <1>4. ASSUME NEW x \in Applied(all) PROVE x \in A <=> x \in B
    <2>1. PICK j \in 1 .. n : list[j] = x
      BY <1>2
    <2> QED  BY <1>3, <2>1
  <1> QED  BY <1>4 DEF Kernel

-----------------------------------------------------------------------------
(* A request that has been answered.                                       *)
AnsweredInv ==
    /\ RetainedInv /\ ServedInv /\ PassInv /\ AnswerInv /\ SelectedInv /\ TracedInv
    /\ stage = "answered"

(* The calibrator's copies of the candidates, scored and with their first  *)
(* actions under thresholds th.                                            *)
Mirrors(told, th) ==
    \A k \in Retained :
        /\ told[k].start = k[2] /\ told[k].end = k[3]
        /\ told[k].name = memories[k[1]].name /\ told[k].output = memories[k[1]].canonical
        /\ told[k].score = features[k].score
        /\ told[k].signals.positive = features[k].pos
        /\ told[k].signals.negative = features[k].neg
        /\ told[k].action = FirstAction(features[k].score, Selected!Marks(k, "active"), th)

Copies(told) == {told[k] : k \in Retained}

(* The engine's own weights give every candidate its own score.            *)
LEMMA ReplayScores ==
    ASSUME RetainedInv, ServedInv, NEW k \in Retained, NEW th
    PROVE  LET s == Signals(memories[k[1]], body.text, kept[k], body.encoder) IN
           /\ Rescore(s, Shipped(th)) = features[k].score
           /\ s.positive = features[k].pos /\ s.negative = features[k].neg
  <1> DEFINE memory == memories[k[1]]
             route == kept[k]
             text == body.text
             encoder == body.encoder
             s == Signals(memory, text, route, encoder)
             f == features[k]
  <1>1. k \in Key /\ encoder \in BOOLEAN
    BY DEF Retained, ServedInv, Asked
  <1>2. Routed(memory, text, route) /\ f = Scored(memory, text, route, encoder)
    BY <1>1, RetainedType DEF ServedInv
  <1>3. /\ s.lexical \in Int /\ s.authorized \in Int /\ s.phonetic \in Int
        /\ s.confidence \in Int /\ s.learned \in Int /\ s.positive \in Scale
        /\ s.negative \in Scale
    <2> HIDE DEF memory, route, text, encoder
    <2> QED  BY <1>1, <1>2, SignalsType, Zenon
  <1>4. f.score = Score(s) /\ f.pos = s.positive /\ f.neg = s.negative
    <2> HIDE DEF memory, route, text, encoder, f
    <2>1. f = Appraised(memory, route.span, s, encoder)
      BY <1>2 DEF Scored
    <2> HIDE DEF s
    <2> QED  BY <2>1 DEF Appraised
  <1>5. Rescore(s, Shipped(th)) = Score(s)
    <2> HIDE DEF s
    <2> DEFINE config == Shipped(th)
    <2>1. /\ config.lexical = LexicalWeight /\ config.authorization = AuthorizationWeight
          /\ config.context = ContextWeight /\ config.phonetic = PhoneticWeight
          /\ config.alternative = AlternativeWeight /\ config.learned = LearnedWeight
          /\ config.negative = NegativeWeight /\ config.transform = "legacy_power_035"
      BY DEF Shipped
    <2> HIDE DEF config
    <2>2. \A p \in 0 .. 1000 : Curve("legacy_power_035", p) = Power(p)
      BY ReplayAssumption
    <2>3. ReplayContext(s, "legacy_power_035") = ContextSignal(s.scope, s.positive)
      <3>1. Curve("legacy_power_035", s.positive) = Power(s.positive)
        BY <1>3, <2>2 DEF Scale
      <3> QED  BY <3>1 DEF ReplayContext, ContextSignal
    <2>4. RawScore(s, config) =
              LexicalWeight * s.lexical + AuthorizationWeight * s.authorized
              + ContextWeight * ContextSignal(s.scope, s.positive)
              + PhoneticWeight * s.phonetic + AlternativeWeight * s.confidence
              + LearnedWeight * s.learned - NegativeWeight * s.negative
      BY <2>1, <2>3, Zenon DEF RawScore
    <2>5. Rescore(s, config) = Clamped(RawScore(s, config) \div 100)
      BY DEF Rescore, Clamped
    <2>6. Score(s) = Clamped((LexicalWeight * s.lexical + AuthorizationWeight * s.authorized
              + ContextWeight * ContextSignal(s.scope, s.positive)
              + PhoneticWeight * s.phonetic + AlternativeWeight * s.confidence
              + LearnedWeight * s.learned - NegativeWeight * s.negative) \div 100)
      BY DEF Score
    <2>7. Rescore(s, config) = Score(s)
      BY <2>4, <2>5, <2>6, Zenon
    <2> QED  BY <2>7 DEF config
  <1> HIDE DEF s, f
  <1>6. /\ Rescore(s, Shipped(th)) = f.score /\ s.positive = f.pos /\ s.negative = f.neg
    BY <1>4, <1>5
  <1> QED  BY <1>6, Zenon DEF s, f, memory, route, text, encoder

(* What the calibrator reads of a trace, and what it makes of it.          *)
LEMMA CopiesExist ==
    ASSUME RetainedInv, ServedInv, NEW why, NEW th
    PROVE  \E told :
              /\ Mirrors(told, th)
              /\ {Acted(c, Rescore(c.signals, Shipped(th)), Shipped(th)) : c \in Entries(why)}
                     = Copies(told)
  <1> DEFINE config == Shipped(th)
             told == [k \in Retained |-> Acted(Entry(k, why), features[k].score, config)]
  <1>1. config.apply = th.apply /\ config.suggest = th.suggest
    BY DEF Shipped
  <1>2. ASSUME NEW k \in Retained
        PROVE  /\ told[k].start = k[2] /\ told[k].end = k[3]
               /\ told[k].name = memories[k[1]].name /\ told[k].output = memories[k[1]].canonical
               /\ told[k].score = features[k].score
               /\ told[k].signals.positive = features[k].pos
               /\ told[k].signals.negative = features[k].neg
               /\ told[k].action = FirstAction(features[k].score, Selected!Marks(k, "active"), th)
               /\ Acted(Entry(k, why), Rescore(Entry(k, why).signals, config), config) = told[k]
    <2> DEFINE s == Signals(memories[k[1]], body.text, kept[k], body.encoder)
               e == Entry(k, why)
               m == Selected!Marks(k, "active")
    <2>1. Rescore(s, config) = features[k].score
          /\ s.positive = features[k].pos /\ s.negative = features[k].neg
      BY ReplayScores
    <2> HIDE DEF s, m
    <2>2. /\ e.start = k[2] /\ e.end = k[3] /\ e.name = memories[k[1]].name
          /\ e.output = memories[k[1]].canonical /\ e.blockers = m /\ e.signals = s
      BY DEF Entry, s, m
    <2>3. told[k] = Acted(e, features[k].score, config)
      OBVIOUS
    <2> HIDE DEF e, told, config
    <2>4. /\ told[k].start = e.start /\ told[k].end = e.end /\ told[k].name = e.name
          /\ told[k].output = e.output /\ told[k].score = features[k].score
          /\ told[k].signals = e.signals
          /\ told[k].action = FirstAction(features[k].score, e.blockers, config)
      BY <2>3 DEF Acted
    <2>5. FirstAction(features[k].score, m, config) = FirstAction(features[k].score, m, th)
      BY <1>1 DEF FirstAction
    <2>6. Acted(e, Rescore(e.signals, config), config) = told[k]
      BY <2>1, <2>2, <2>3
    <2>7. /\ told[k].start = k[2] /\ told[k].end = k[3]
          /\ told[k].name = memories[k[1]].name /\ told[k].output = memories[k[1]].canonical
          /\ told[k].score = features[k].score
          /\ told[k].signals.positive = features[k].pos
          /\ told[k].signals.negative = features[k].neg
          /\ told[k].action = FirstAction(features[k].score, m, th)
          /\ Acted(e, Rescore(e.signals, config), config) = told[k]
      BY <2>1, <2>2, <2>4, <2>5, <2>6
    <2> QED  BY <2>7, Zenon DEF m, e
  <1> HIDE DEF told
  <1>3. Mirrors(told, th)
    BY <1>2 DEF Mirrors
  <1> HIDE DEF config
  <1>4. {Acted(c, Rescore(c.signals, config), config) : c \in Entries(why)} = Copies(told)
    BY <1>2 DEF Copies, Entries
  <1>5. {Acted(c, Rescore(c.signals, Shipped(th)), Shipped(th)) : c \in Entries(why)} = Copies(told)
    BY <1>4, Zenon DEF config
  <1> QED  BY <1>3, <1>5

-----------------------------------------------------------------------------
(* The numbers of a retained candidate, and that the others are far away.  *)
LEMMA RetainedNumbers ==
    ASSUME RetainedInv, ServedInv, NEW k \in Retained
    PROVE  /\ k \in Key /\ k[1] \in Memory /\ k[2] \in Int /\ k[3] \in Int /\ k[2] < k[3]
           /\ k = <<k[1], k[2], k[3]>>
           /\ features[k].start = k[2] /\ features[k].end = k[3]
           /\ features[k].name = memories[k[1]].name /\ features[k].name \in Int
           /\ features[k].score \in Int /\ features[k].pos \in Int /\ features[k].neg \in Int
  <1>1. k \in Key /\ features[k].start = k[2] /\ features[k].end = k[3]
    BY RetainedSignals DEF ServedInv
  <1>2. MaxLength \in Nat
    BY InferenceAssumption, Zenon
  <1>3. /\ k[1] \in Memory /\ k[2] \in Int /\ k[3] \in Int /\ k[2] < k[3]
        /\ k = <<k[1], k[2], k[3]>>
    BY <1>1, <1>2 DEF Key
  <1>4. features[k] \in Appraisal /\ features[k].name = memories[k[1]].name
    BY <1>1, RetainedType DEF ServedInv
  <1>5. features[k].name \in Int /\ features[k].score \in Int
        /\ features[k].pos \in Int /\ features[k].neg \in Int
    BY <1>4, AppraisalType, ScaleInt
  <1> QED  BY <1>1, <1>3, <1>4, <1>5

LEMMA RivalsRetained ==
    ASSUME RetainedInv, ServedInv, NEW k \in Retained
    PROVE  Selected!Rivals(k) = {r \in Retained \ {k} : Selected!Overlaps(k, r)}
  <1>1. ASSUME NEW r \in Key, r \notin Retained PROVE ~Selected!Overlaps(k, r)
    <2>1. features[r] = Parked(memories, r)
      BY <1>1, RetainedType DEF ServedInv
    <2>2. MaxLength \in Nat
      BY InferenceAssumption, Zenon
    <2>3. k[3] <= MaxLength /\ k[3] \in Int /\ r[2] \in Nat
      BY <1>1, <2>2, RetainedNumbers DEF Key
    <2>4. features[r].start = r[2] + MaxLength
      BY <2>1 DEF Parked
    <2>5. features[k].end = k[3]
      BY RetainedNumbers
    <2> QED  BY <2>2, <2>3, <2>4, <2>5 DEF Selected!Overlaps
  <1>2. Retained \subseteq Key
    BY DEF Retained
  <1> QED  BY <1>1, <1>2 DEF Selected!Rivals

(* The copies are as far apart and in the same order.                      *)
LEMMA MirroredOrder ==
    ASSUME RetainedInv, ServedInv, NEW told, NEW th, Mirrors(told, th),
           NEW a \in Retained, NEW b \in Retained
    PROVE  /\ Crossing(told[a], told[b]) <=> Selected!Overlaps(a, b)
           /\ Ahead(told[a], told[b]) <=> Selected!Precedes(a, b)
           /\ told[a] = told[b] => a = b
           /\ Strength(told[a]) = Selected!Strength(a)
  <1>1. /\ a[1] \in Memory /\ a[2] \in Int /\ a[3] \in Int /\ a = <<a[1], a[2], a[3]>>
        /\ features[a].start = a[2] /\ features[a].end = a[3]
        /\ features[a].name = memories[a[1]].name /\ features[a].name \in Int
        /\ features[a].score \in Int
    BY RetainedNumbers
  <1>2. /\ b[1] \in Memory /\ b[2] \in Int /\ b[3] \in Int /\ b = <<b[1], b[2], b[3]>>
        /\ features[b].start = b[2] /\ features[b].end = b[3]
        /\ features[b].name = memories[b[1]].name /\ features[b].name \in Int
        /\ features[b].score \in Int
    BY RetainedNumbers
  <1>3. /\ told[a].start = a[2] /\ told[a].end = a[3] /\ told[a].name = memories[a[1]].name
        /\ told[a].score = features[a].score
        /\ told[a].signals.positive = features[a].pos
        /\ told[a].signals.negative = features[a].neg
    BY DEF Mirrors
  <1>4. /\ told[b].start = b[2] /\ told[b].end = b[3] /\ told[b].name = memories[b[1]].name
        /\ told[b].score = features[b].score
    BY DEF Mirrors
  <1>5. Crossing(told[a], told[b]) <=> Selected!Overlaps(a, b)
    BY <1>1, <1>2, <1>3, <1>4 DEF Crossing, Selected!Overlaps
  <1>6. Ahead(told[a], told[b]) <=> Selected!Precedes(a, b)
    <2>1. Ahead(told[a], told[b]) <=>
              \/ features[a].score > features[b].score
              \/ /\ features[a].score = features[b].score
                 /\ \/ a[2] < b[2]
                    \/ a[2] = b[2] /\ a[3] > b[3]
                    \/ a[2] = b[2] /\ a[3] = b[3] /\ features[a].name < features[b].name
      BY <1>1, <1>2, <1>3, <1>4 DEF Ahead
    <2>2. Selected!Precedes(a, b) <=>
              \/ features[a].score > features[b].score
              \/ /\ features[a].score = features[b].score
                 /\ \/ a[2] < b[2]
                    \/ /\ a[2] = b[2]
                       /\ \/ a[3] - a[2] > b[3] - b[2]
                          \/ a[3] - a[2] = b[3] - b[2] /\ features[a].name < features[b].name
      BY <1>1, <1>2 DEF Selected!Precedes
    <2> QED  BY <1>1, <1>2, <2>1, <2>2
  <1>7. told[a] = told[b] => a = b
    <2>1. memories[a[1]].name = memories[b[1]].name => a[1] = b[1]
      BY <1>1, <1>2, HeldType DEF ServedInv
    <2> QED  BY <1>1, <1>2, <1>3, <1>4, <2>1
  <1>8. Strength(told[a]) = Selected!Strength(a)
    BY <1>3 DEF Strength, Selected!Strength
  <1> QED  BY <1>5, <1>6, <1>7, <1>8

(* The lead over the best is the least lead.                               *)
Graded(R, f) == IsFiniteSet(R) /\ R # {} /\ \A r \in R : f[r] \in Int

LeadsByLess(R, f, x, m) == x - Max({f[r] : r \in R}) < m <=> \E r \in R : x - f[r] < m

LEMMA LeadOverBest ==
    ASSUME NEW R, NEW f, Graded(R, f), NEW x \in Int, NEW m \in Int
    PROVE  LeadsByLess(R, f, x, m)
  <1> DEFINE S == {f[r] : r \in R}
  <1>1. S \in SUBSET Int /\ IsFiniteSet(S) /\ S # {}
    BY FiniteImage DEF Graded
  <1>2. \A r \in R : f[r] \in S
    OBVIOUS
  <1>3. \A y \in S : \E r \in R : f[r] = y
    OBVIOUS
  <1> HIDE DEF S
  <1>4. Max(S) \in S /\ \A y \in S : y <= Max(S)
    BY <1>1, Extremes
  <1>5. Max(S) \in Int
    BY <1>1, <1>4
  <1> USE DEF Graded
  <1>6. ASSUME x - Max(S) < m PROVE \E r \in R : x - f[r] < m
    <2>1. PICK r \in R : f[r] = Max(S)
      BY <1>3, <1>4
    <2> QED  BY <1>6, <2>1
  <1>7. ASSUME NEW r \in R, x - f[r] < m PROVE x - Max(S) < m
    <2>1. f[r] <= Max(S) /\ f[r] \in Int
      BY <1>2, <1>4
    <2> QED  BY <1>5, <1>7, <2>1
  <1>8. x - Max(S) < m <=> \E r \in R : x - f[r] < m
    BY <1>6, <1>7
  <1> QED  BY <1>8 DEF S, LeadsByLess

(* The calibrator finds undecided what the selection finds ambiguous.      *)
LEMMA MirroredUndecided ==
    ASSUME RetainedInv, ServedInv, NEW told, NEW th, Mirrors(told, th),
           NEW limits, limits.margin = ReplayMargin, NEW k \in Retained
    PROVE  Undecided(told[k], Copies(told)) <=> Selected!Ambiguous(k, limits)
  <1> DEFINE R == {r \in Retained \ {k} : Selected!Overlaps(k, r)}
             Others == {o \in Copies(told) \ {told[k]} : Crossing(told[k], o)}
             scores == [r \in R |-> features[r].score]
             strengths == [r \in R |-> Selected!Strength(r)]
  <1>1. /\ \A r \in Retained : Crossing(told[k], told[r]) <=> Selected!Overlaps(k, r)
        /\ \A r \in Retained : told[k] = told[r] => k = r
        /\ \A r \in Retained : Strength(told[r]) = Selected!Strength(r)
    BY MirroredOrder
  <1>2. Others = {told[r] : r \in R}
    BY <1>1 DEF Copies
  <1>3. Selected!Rivals(k) = R
    BY RivalsRetained
  <1>4. \A r \in Retained : /\ told[r].score = features[r].score
                            /\ told[r].signals.positive = features[r].pos
                            /\ features[r].score \in Int /\ features[r].pos \in Int
                            /\ features[r].neg \in Int
    BY RetainedNumbers DEF Mirrors
  <1>5. \A r \in Retained : Selected!Strength(r) \in Int
    BY <1>4 DEF Selected!Strength
  <1>6. IsFiniteSet(R) /\ R \subseteq Retained
    <2>1. R \subseteq Key
      BY DEF Retained
    <2> QED  BY <2>1, KeysFinite, FS_Subset
  <1>7. {o.score : o \in Others} = {scores[r] : r \in R}
    BY <1>2, <1>4, <1>6
  <1>8. {Strength(o) : o \in Others} = {strengths[r] : r \in R}
    BY <1>1, <1>2, <1>6
  <1>9. Others = {} <=> R = {}
    BY <1>2
  <1>10. \A r \in R : /\ scores[r] = features[r].score /\ scores[r] \in Int
                      /\ strengths[r] = Selected!Strength(r) /\ strengths[r] \in Int
    BY <1>4, <1>5, <1>6
  <1>11. ReplayMargin \in Int /\ ReplayFloor = MinConflictPositive
         /\ ReplayAdvantage = MinAdvantage /\ MinAdvantage \in Int
    <2>1. /\ Active \in Selection!Thresholds /\ ReplayMargin = Active.margin
          /\ ReplayFloor = MinConflictPositive /\ ReplayAdvantage = MinAdvantage
          /\ MinAdvantage \in 1 .. 1000
      BY ReplayAssumption
    <2> QED  BY <2>1 DEF Selection!Thresholds, Selection!Grade
  <1>12. /\ features[k].score \in Int /\ told[k].score = features[k].score
         /\ told[k].signals.positive = features[k].pos
         /\ Strength(told[k]) = Selected!Strength(k) /\ Selected!Strength(k) \in Int
    BY <1>1, <1>4, <1>5
  <1>13. Undecided(told[k], Copies(told)) <=>
            /\ Others # {}
            /\ told[k].score - Max({o.score : o \in Others}) < ReplayMargin
            /\ ~(/\ told[k].signals.positive >= ReplayFloor
                 /\ Strength(told[k]) - Max({Strength(o) : o \in Others}) >= ReplayAdvantage)
    BY DEF Undecided
  <1>14. Selected!Ambiguous(k, limits) <=>
            /\ \E r \in R : features[k].score - features[r].score < ReplayMargin
            /\ ~(/\ features[k].pos >= MinConflictPositive
                 /\ \A r \in R : Selected!Strength(k) - Selected!Strength(r) >= MinAdvantage)
    BY <1>3 DEF Selected!Ambiguous, Selected!WithinMargin, Selected!ContextWins
  <1> HIDE DEF R, Others, scores, strengths
  <1>15. CASE R = {}
    BY <1>9, <1>13, <1>14, <1>15
  <1>16. CASE R # {}
    <2>1. features[k].score - Max({scores[r] : r \in R}) < ReplayMargin
              <=> \E r \in R : features[k].score - scores[r] < ReplayMargin
      <3>1. Graded(R, scores)
        BY <1>6, <1>10, <1>16 DEF Graded
      <3>2. features[k].score \in Int /\ ReplayMargin \in Int
        BY <1>11, <1>12
      <3>3. LeadsByLess(R, scores, features[k].score, ReplayMargin)
        BY <3>1, <3>2, LeadOverBest
      <3> QED  BY <3>3 DEF LeadsByLess
    <2>2. Selected!Strength(k) - Max({strengths[r] : r \in R}) < MinAdvantage
              <=> \E r \in R : Selected!Strength(k) - strengths[r] < MinAdvantage
      <3>1. Graded(R, strengths)
        BY <1>6, <1>10, <1>16 DEF Graded
      <3>2. Selected!Strength(k) \in Int /\ MinAdvantage \in Int
        BY <1>11, <1>12
      <3>3. LeadsByLess(R, strengths, Selected!Strength(k), MinAdvantage)
        BY <3>1, <3>2, LeadOverBest
      <3> QED  BY <3>3 DEF LeadsByLess
    <2>3. Max({strengths[r] : r \in R}) \in Int
      <3> DEFINE T == {strengths[r] : r \in R}
      <3>1. T \in SUBSET Int /\ IsFiniteSet(T) /\ T # {}
        BY <1>6, <1>10, <1>16, FiniteImage
      <3> HIDE DEF T
      <3>2. Max(T) \in T
        BY <3>1, Extremes
      <3>3. Max(T) \in Int
        BY <3>1, <3>2
      <3> QED  BY <3>3 DEF T
    <2>4. Selected!Strength(k) - Max({strengths[r] : r \in R}) >= MinAdvantage
              <=> \A r \in R : Selected!Strength(k) - Selected!Strength(r) >= MinAdvantage
      BY <1>10, <1>11, <1>12, <2>2, <2>3
    <2>5. features[k].score - Max({scores[r] : r \in R}) < ReplayMargin
              <=> \E r \in R : features[k].score - features[r].score < ReplayMargin
      BY <1>10, <2>1
    <2> QED  BY <1>7, <1>8, <1>9, <1>11, <1>12, <1>13, <1>14, <1>16, <2>4, <2>5
  <1> QED  BY <1>15, <1>16

(* The copies are ordered.                                                 *)
LEMMA MirroredOrderly ==
    ASSUME RetainedInv, ServedInv, NEW told, NEW th, Mirrors(told, th)
    PROVE  Orderly(Copies(told))
  <1> DEFINE Past(a, b) ==
                \/ features[a].score > features[b].score
                \/ /\ features[a].score = features[b].score
                   /\ \/ a[2] < b[2]
                      \/ a[2] = b[2] /\ a[3] > b[3]
                      \/ a[2] = b[2] /\ a[3] = b[3] /\ features[a].name < features[b].name
  <1>1. \A a \in Retained : /\ a[2] \in Int /\ a[3] \in Int /\ features[a].score \in Int
                            /\ features[a].name \in Int /\ features[a].name = memories[a[1]].name
                            /\ a[1] \in Memory /\ a = <<a[1], a[2], a[3]>>
    BY RetainedNumbers
  <1>2. ASSUME NEW a \in Retained, NEW b \in Retained
        PROVE  Ahead(told[a], told[b]) <=> Past(a, b)
    <2>1. /\ told[a].start = a[2] /\ told[a].end = a[3] /\ told[a].name = features[a].name
          /\ told[a].score = features[a].score
      BY <1>1 DEF Mirrors
    <2>2. /\ told[b].start = b[2] /\ told[b].end = b[3] /\ told[b].name = features[b].name
          /\ told[b].score = features[b].score
      BY <1>1 DEF Mirrors
    <2> QED  BY <2>1, <2>2 DEF Ahead
  <1>3. ASSUME NEW a \in Retained, NEW b \in Retained, features[a].name = features[b].name
        PROVE  a[1] = b[1]
    BY <1>1, <1>3, HeldType DEF ServedInv
  <1>4. \A a, b \in Retained : a = b \/ Past(a, b) \/ Past(b, a)
    <2> SUFFICES ASSUME NEW a \in Retained, NEW b \in Retained, a # b
                 PROVE  Past(a, b) \/ Past(b, a)
      OBVIOUS
    <2>1. a[2] # b[2] \/ a[3] # b[3] \/ features[a].name # features[b].name
      BY <1>1, <1>3
    <2> QED  BY <1>1, <2>1
  <1>5. \A a \in Retained : ~Past(a, a)
    BY <1>1
  <1>6. \A a, b, c \in Retained : Past(a, b) /\ Past(b, c) => Past(a, c)
    BY <1>1
  <1>7. IsFiniteSet(Copies(told))
    <2>1. IsFiniteSet(Retained)
      BY KeysFinite, FS_Subset DEF Retained
    <2> QED  BY <2>1, FiniteImage DEF Copies
  <1> HIDE DEF Past
  <1>8. \A x \in Applied(Copies(told)) : \E a \in Retained : x = told[a]
    BY DEF Applied, Copies
  <1>9. \A x \in Applied(Copies(told)) : ~Ahead(x, x)
    BY <1>2, <1>5, <1>8
  <1>10. \A x, y \in Applied(Copies(told)) : x = y \/ Ahead(x, y) \/ Ahead(y, x)
    BY <1>2, <1>4, <1>8
  <1>11. ASSUME NEW x \in Applied(Copies(told)), NEW y \in Applied(Copies(told)),
                NEW z \in Applied(Copies(told)), Ahead(x, y), Ahead(y, z)
         PROVE  Ahead(x, z)
    <2>1. PICK a \in Retained, b \in Retained, c \in Retained :
             x = told[a] /\ y = told[b] /\ z = told[c]
      BY <1>8
    <2>2. Past(a, b) /\ Past(b, c)
      BY <1>2, <1>11, <2>1
    <2>3. Past(a, c)
      BY <1>6, <2>2
    <2> QED  BY <1>2, <2>1, <2>3
  <1> QED  BY <1>7, <1>9, <1>10, <1>11 DEF Orderly

-----------------------------------------------------------------------------
LEMMA SelectedOrderFree == Selected!IInv => Selected!ActiveOrderFree
  <1>1. /\ 1000 \in Nat
        /\ MinConflictPositive \in Selected!Grade
        /\ MinAdvantage \in Selected!Grade
        /\ Active \in Selected!Thresholds
        /\ Unset \notin Selected!Grade
        /\ ShadowRequest \subseteq Selected!ShadowRequestType
    BY ArbitrationAssumed DEF GradesAre
  <1>2. /\ Appraisal \subseteq Selected!FeatureType
        /\ \A f \in Appraisal : f.start < f.end
    BY ArbitrationAssumed DEF FeaturesAre
  <1>3. Active.apply + Active.margin > 1000 /\ MinAdvantage > 0
    BY ArbitrationAssumed DEF PolicyIs
  <1> QED  BY <1>1, <1>2, <1>3, Selected!OrderFree

(* A pass of an answered request, and its thresholds.                      *)
Answered(p) == p \in Selection!Pass /\ (p = "shadow" => request # Unset)

LEMMA AnsweredPass ==
    ASSUME AnsweredInv, NEW p, Answered(p)
    PROVE  /\ Selected!IInv /\ Selected!Finished(p)
           /\ p \in Selected!Pass
           /\ thresholds["active"] = Active
           /\ winners["active"] = Selected!Eligible("active")
           /\ winners[p] \subseteq Selected!Eligible(p)
           /\ winners[p] = {c \in Selected!Eligible(p) :
                 ~\E w \in winners[p] : Selected!Precedes(w, c) /\ Selected!Overlaps(w, c)}
           /\ winners[p] \subseteq Retained
  <1>1. pass = "done" /\ stage = "answered" /\ Selected!IInv
    BY DEF AnsweredInv, AnswerInv, SelectedInv
  <1>2. Selected!Finished(p) /\ Selected!Finished("active") /\ p \in Selected!Pass
    BY <1>1 DEF Answered, Selected!Finished, Selection!Pass, Selected!Pass
  <1>3. winners["active"] = Selected!Eligible("active")
    BY <1>1, <1>2, SelectedOrderFree DEF Selected!ActiveOrderFree
  <1>4. thresholds["active"] = Active
    BY <1>1 DEF Selected!IInv, Selected!InputInv
  <1>5. winners[p] = {c \in Selected!Eligible(p) :
                 ~\E w \in winners[p] : Selected!Precedes(w, c) /\ Selected!Overlaps(w, c)}
    BY <1>1, <1>2 DEF Selected!IInv, Selected!SelectionIsKernel
  <1>6. ASSUME NEW k \in winners[p] PROVE k \in Retained
    <2>1. k \in Key /\ features[k].blockers = {}
      BY <1>6 DEF AnsweredInv, PassInv, Answered
    <2>2. k \notin Retained => features[k] = Parked(memories, k)
      BY <2>1, RetainedType DEF AnsweredInv, ServedInv
    <2> QED  BY <2>1, <2>2 DEF Parked
  <1>7. winners[p] \subseteq Selected!Eligible(p)
    BY <1>5
  <1> QED  BY <1>1, <1>2, <1>3, <1>4, <1>5, <1>6, <1>7

(* A threshold for suggestions is not above the one for edits, unless it   *)
(* was left out of the request: then it is the active one.                 *)
LEMMA ThresholdsInOrder ==
    ASSUME AnsweredInv, NEW p, Answered(p)
    PROVE  /\ thresholds[p].apply \in Int /\ thresholds[p].suggest \in Int
           /\ Active.apply \in Int /\ Active.suggest \in Int /\ Active.suggest <= Active.apply
           /\ \/ thresholds[p].suggest <= thresholds[p].apply
              \/ thresholds[p].suggest = Active.suggest
  <1>1. Active.apply \in Int /\ Active.suggest \in Int /\ Active.suggest <= Active.apply
    <2>1. Active \in Selection!Thresholds /\ Active.suggest <= Active.apply
      BY ReplayAssumption
    <2>2. Active.apply \in 0 .. 1000 /\ Active.suggest \in 0 .. 1000
      BY <2>1 DEF Selection!Thresholds, Selection!Grade
    <2>3. Active.apply \in Scale /\ Active.suggest \in Scale
      BY <2>2 DEF Scale
    <2>4. Active.apply \in Int /\ Active.suggest \in Int
      BY <2>3, ScaleInt, Zenon
    <2> QED  BY <2>1, <2>4, Zenon
  <1>2. thresholds[p].apply \in Int /\ thresholds[p].suggest \in Int
    <2>1. thresholds[p] \in Selected!Thresholds
      BY AnsweredPass DEF Selected!IInv, Selected!TypeOK
    <2>2. thresholds[p].apply \in 0 .. 1000 /\ thresholds[p].suggest \in 0 .. 1000
      BY <2>1 DEF Selected!Thresholds, Selected!Grade
    <2>3. thresholds[p].apply \in Scale /\ thresholds[p].suggest \in Scale
      BY <2>2 DEF Scale
    <2> QED  BY <2>3, ScaleInt, Zenon
  <1>3. CASE p = "active"
    BY <1>1, <1>2, <1>3, AnsweredPass
  <1>4. CASE p = "shadow" /\ request # Unset
    <2>1. PICK c \in Body : body = [c EXCEPT !.encoder = body.encoder]
      BY DEF AnsweredInv, ServedInv, Asked
    <2>2. c \in BodyType /\ (c.shadow # Unset => Selection!ValidShadowRequest(c.shadow))
      BY InferenceAssumption, Zenon
    <2>3. body.shadow = c.shadow
      BY <2>1, <2>2 DEF BodyType
    <2>4. request = body.shadow /\ thresholds = ThresholdsOf(body)
      BY DEF AnsweredInv, SelectedInv
    <2>5. thresholds["shadow"] = Selection!Resolve(request) /\ Selection!ValidShadowRequest(request)
      BY <1>4, <2>2, <2>3, <2>4 DEF ThresholdsOf
    <2>6. /\ thresholds["shadow"].apply = request.apply
          /\ thresholds["shadow"].suggest
                = IF request.suggest = Unset THEN Active.suggest ELSE request.suggest
      BY <2>5 DEF Selection!Resolve
    <2>7. request.suggest # Unset => request.apply >= request.suggest
      BY <2>5 DEF Selection!ValidShadowRequest
    <2> QED  BY <1>1, <1>2, <1>4, <2>6, <2>7
  <1>5. p = "active" \/ (p = "shadow" /\ request # Unset)
    BY DEF Answered, Selection!Pass
  <1> QED  BY <1>3, <1>4, <1>5

(* The blockers of a trace: those of scoring, and the margin's for what    *)
(* the active policy would have applied; none for an occupied span.        *)
LEMMA TracedMarks ==
    ASSUME AnsweredInv, NEW p, Answered(p), thresholds[p].margin = ReplayMargin, NEW k \in Retained
    PROVE  Selected!Marks(k, "active") =
              IF /\ features[k].blockers = {} /\ features[k].score >= Active.apply
                 /\ Selected!Ambiguous(k, thresholds[p])
              THEN {"INSUFFICIENT_WINNER_MARGIN"} ELSE features[k].blockers
  <1>1. /\ winners["active"] = Selected!Eligible("active") /\ thresholds["active"] = Active
    BY AnsweredPass
  <1>2. Active.margin = ReplayMargin
    BY ReplayAssumption
  <1>3. Selected!Ambiguous(k, thresholds["active"]) <=> Selected!Ambiguous(k, thresholds[p])
    BY <1>1, <1>2 DEF Selected!Ambiguous, Selected!WithinMargin
  <1>4. k \in Key
    BY DEF Retained
  <1>5. Selected!Applicable(k, "active")
           <=> features[k].blockers = {} /\ features[k].score >= Active.apply
    BY <1>1 DEF Selected!Applicable
  <1>6. Selected!Applicable(k, "active") /\ ~Selected!Ambiguous(k, thresholds["active"])
           => k \in winners["active"] /\ features[k].blockers = {}
    BY <1>1, <1>4, <1>5 DEF Selected!Eligible
  <1> QED  BY <1>3, <1>5, <1>6 DEF Selected!Marks

(* The facts about one candidate: what the calibrator makes of it.         *)
LEMMA MirroredOutcome ==
    ASSUME AnsweredInv, NEW p, Answered(p), thresholds[p].margin = ReplayMargin,
           NEW told, Mirrors(told, thresholds[p]), NEW k \in Retained
    PROVE  /\ told[k].action = "apply" /\ ~Undecided(told[k], Copies(told))
                 <=> k \in Selected!Eligible(p)
           /\ (\/ told[k].action = "suggest"
               \/ told[k].action = "apply" /\ Undecided(told[k], Copies(told)))
                 <=> Selected!Outcome(k, p) = "suggest"
  <1> DEFINE f == features[k]
             th == thresholds[p]
             m == Selected!Marks(k, "active")
             ambiguous == Selected!Ambiguous(k, thresholds[p])
  <1>1. RetainedInv /\ ServedInv
    BY DEF AnsweredInv
  <1>2. Undecided(told[k], Copies(told)) <=> ambiguous
    BY <1>1, MirroredUndecided
  <1>3. m = IF f.blockers = {} /\ f.score >= Active.apply /\ ambiguous
            THEN {"INSUFFICIENT_WINNER_MARGIN"} ELSE f.blockers
    BY TracedMarks
  <1>4. f.score \in Int /\ k \in Key
    BY <1>1, RetainedNumbers
  <1>5. /\ th.apply \in Int /\ th.suggest \in Int
        /\ Active.apply \in Int /\ Active.suggest \in Int /\ Active.suggest <= Active.apply
        /\ th.suggest <= th.apply \/ th.suggest = Active.suggest
    BY ThresholdsInOrder
  <1>6. told[k].action = FirstAction(f.score, m, th)
    BY DEF Mirrors
  <1>7. k \in Selected!Eligible(p) <=> f.blockers = {} /\ f.score >= th.apply /\ ~ambiguous
    BY <1>4 DEF Selected!Eligible
  <1>8. Selected!Outcome(k, p) = "suggest" <=>
           IF f.blockers = {} /\ f.score >= th.apply THEN ambiguous
           ELSE "NEGATIVE_CONTEXT_EVIDENCE" \notin f.blockers /\ f.score >= th.suggest
    BY DEF Selected!Outcome, Selected!Applicable, Selected!InitialAction
  <1>9. /\ FirstAction(f.score, m, th) = "apply" <=> f.score >= th.apply /\ m = {}
        /\ FirstAction(f.score, m, th) = "suggest" <=>
              /\ ~(f.score >= th.apply /\ m = {})
              /\ "NEGATIVE_CONTEXT_EVIDENCE" \notin m /\ f.score >= th.suggest
    BY DEF FirstAction
  <1> HIDE DEF f, th, m, ambiguous
  <1>10. CASE f.blockers = {} /\ f.score >= Active.apply /\ ambiguous
    <2>1. m # {} /\ "NEGATIVE_CONTEXT_EVIDENCE" \notin m
      BY <1>3, <1>10
    <2>2. f.score >= th.apply => f.score >= th.suggest
      BY <1>4, <1>5, <1>10
    <2> QED  BY <1>2, <1>6, <1>7, <1>8, <1>9, <1>10, <2>1, <2>2
  <1>11. CASE ~(f.blockers = {} /\ f.score >= Active.apply /\ ambiguous)
    <2>1. m = f.blockers
      BY <1>3, <1>11
    <2>2. CASE f.blockers = {} /\ f.score >= th.apply
      BY <1>2, <1>6, <1>7, <1>8, <1>9, <2>1, <2>2
    <2>3. CASE ~(f.blockers = {} /\ f.score >= th.apply)
      BY <1>2, <1>6, <1>7, <1>8, <1>9, <2>1, <2>3
    <2> QED  BY <2>2, <2>3
  <1> QED  BY <1>10, <1>11

(* The winners of the replay are the copies of what the pass selected.     *)
LEMMA MirroredWinners ==
    ASSUME AnsweredInv, NEW p, Answered(p), thresholds[p].margin = ReplayMargin,
           NEW told, Mirrors(told, thresholds[p])
    PROVE  Won(Copies(told)) = {told[k] : k \in winners[p]}
  <1> DEFINE all == Copies(told)
             set == {told[k] : k \in winners[p]}
  <1>1. RetainedInv /\ ServedInv
    BY DEF AnsweredInv
  <1>2. Orderly(all)
    BY <1>1, MirroredOrderly
  <1>3. /\ winners[p] \subseteq Selected!Eligible(p) /\ winners[p] \subseteq Retained
        /\ \A k : k \in winners[p] <=>
              /\ k \in Selected!Eligible(p)
              /\ ~\E w \in winners[p] : Selected!Precedes(w, k) /\ Selected!Overlaps(w, k)
    BY AnsweredPass, Zenon
  <1>4. \A k \in Retained : told[k].action = "apply" /\ ~Undecided(told[k], all)
                               <=> k \in Selected!Eligible(p)
    BY MirroredOutcome
  <1>5. \A a, b \in Retained : /\ Crossing(told[a], told[b]) <=> Selected!Overlaps(a, b)
                               /\ Ahead(told[a], told[b]) <=> Selected!Precedes(a, b)
                               /\ told[a] = told[b] => a = b
    BY <1>1, MirroredOrder
  <1>6. \A k \in Retained : told[k] \in all
    BY DEF Copies
  <1>7. \A x \in all : \E k \in Retained : x = told[k]
    BY DEF Copies
  <1> HIDE DEF all
  <1>8. set \subseteq Applied(all)
    BY <1>3, <1>4, <1>6 DEF Applied
  <1>9. ASSUME NEW x \in Applied(all)
        PROVE  x \in set <=> ~Undecided(x, all) /\ ~\E w \in set : Ahead(w, x) /\ Crossing(w, x)
    <2>1. PICK k \in Retained : x = told[k]
      BY <1>7 DEF Applied
    <2>2. x \in set <=> k \in winners[p]
      BY <1>3, <1>5, <2>1
    <2>3. k \in Selected!Eligible(p) <=> ~Undecided(x, all)
      BY <1>4, <2>1 DEF Applied
    <2>4. (\E w \in set : Ahead(w, x) /\ Crossing(w, x))
             <=> \E w \in winners[p] : Selected!Precedes(w, k) /\ Selected!Overlaps(w, k)
      <3>1. \A w \in winners[p] : Ahead(told[w], x) /\ Crossing(told[w], x)
                                     <=> Selected!Precedes(w, k) /\ Selected!Overlaps(w, k)
        BY <1>3, <1>5, <2>1
      <3> QED  BY <3>1
    <2> HIDE DEF set
    <2> QED  BY <1>3, <2>2, <2>3, <2>4
  <1> HIDE DEF set
  <1>10. Kernel(all, set)
    BY <1>8, <1>9 DEF Kernel
  <1>11. Won(all) = set
    BY <1>2, <1>10, WonIsKernel, OneKernel
  <1> QED  BY <1>11 DEF all, set

-----------------------------------------------------------------------------
(* The calibrator's copies of edits, put in, make the text of the edits.   *)
LEMMA PatchingIsRendering ==
    ASSUME NEW V, NEW mems, NEW text, NEW edits, Apart(V, mems, text, edits), NEW told,
           \A k \in edits : /\ told[k].start = k[2] /\ told[k].end = k[3]
                            /\ told[k].output = mems[k[1]].canonical
    PROVE  Spliced(text, {told[k] : k \in edits}) = RenderingOf(mems, text, edits)
  <1> DEFINE S == {told[k] : k \in edits}
             R == {q \in S \X S : q[1].start > q[2].start}
             n == Cardinality(S)
             order == Sorted(S, R)
             list == [j \in 1 .. n |-> CHOOSE k \in edits : told[k] = order[j]]
             N == Len(text)
  <1>1. IsFiniteSet(edits) /\ text \in Seq(V) /\ N \in Nat /\ DOMAIN text = 1 .. N
    BY LenProperties DEF Apart
  <1>2. \A k \in edits : k[2] \in Nat /\ k[3] \in Nat /\ k[2] < k[3]
    BY DEF Apart
  <1>3. \A a, b \in edits : a = b \/ a[2] > b[2] \/ b[2] > a[2]
    BY <1>2 DEF Apart
  <1>4. IsFiniteSet(S)
    BY <1>1, FiniteImage
  <1>5. \A x \in S : \E k \in edits : told[k] = x
    OBVIOUS
  <1>6. \A k \in edits : told[k] \in S
    OBVIOUS
  <1>7. \A x, y \in S : <<x, y>> \in R <=> x.start > y.start
    OBVIOUS
  <1> HIDE DEF R
  <1>8. /\ \A x \in S : x.start \in Nat
        /\ \A x, y \in S : x = y \/ x.start > y.start \/ y.start > x.start
    <2> HIDE DEF S
    <2>1. \A x \in S : x.start \in Nat
      BY <1>2, <1>5
    <2>2. \A x, y \in S : x = y \/ x.start > y.start \/ y.start > x.start
      BY <1>3, <1>5
    <2> QED  BY <2>1, <2>2
  <1> HIDE DEF S
  <1>9. /\ \A x \in S : <<x, x>> \notin R
        /\ \A x, y, z \in S : <<x, y>> \in R /\ <<y, z>> \in R => <<x, z>> \in R
        /\ \A x, y \in S : x = y \/ <<x, y>> \in R \/ <<y, x>> \in R
    BY <1>7, <1>8
  <1>10. /\ n \in Nat /\ order \in [1 .. n -> S]
         /\ \A x \in S : \E j \in 1 .. n : order[j] = x
         /\ \A i, j \in 1 .. n : i < j => <<order[i], order[j]>> \in R
    BY <1>4, <1>9, SortedLists
  <1>11. order = Sorted(S, {q \in S \X S : q[1].start > q[2].start})
    BY DEF R
  <1> HIDE DEF n, order
  <1>12. ASSUME NEW j \in 1 .. n
         PROVE  list[j] \in edits /\ told[list[j]] = order[j]
    <2>1. order[j] \in S
      BY <1>10
    <2>2. \E k \in edits : told[k] = order[j]
      BY <1>5, <2>1
    <2> QED  BY <2>2
  <1>13. list \in [1 .. n -> edits]
    BY <1>12
  <1> HIDE DEF list
  <1>14. Descends(edits, list, n)
    <2>1. ASSUME NEW k \in edits PROVE \E j \in 1 .. n : list[j] = k
      <3>1. PICK j \in 1 .. n : order[j] = told[k]
        BY <1>6, <1>10
      <3>2. list[j] \in edits /\ told[list[j]] = told[k]
        BY <1>12, <3>1
      <3>3. list[j][2] = k[2]
        BY <3>2
      <3>4. list[j] = k
        BY <1>2, <1>3, <3>2, <3>3
      <3> QED  BY <3>4
    <2>2. ASSUME NEW i \in 1 .. n, NEW j \in 1 .. n, i < j PROVE list[i][2] > list[j][2]
      <3>1. order[i].start > order[j].start
        BY <1>7, <1>10, <2>2
      <3>2. order[i].start = list[i][2] /\ order[j].start = list[j][2]
        BY <1>12
      <3> QED  BY <3>1, <3>2
    <2> QED  BY <1>13, <2>1, <2>2 DEF Descends
  <1>15. PICK run : Patches(text, order, n, Spliced(text, S), run)
    <2>1. n \in Nat /\ DOMAIN order = 1 .. n
      BY <1>10
    <2> QED  BY <1>11, <2>1, PatchingRuns
  <1>16. run[0] = text /\ run[n] = Spliced(text, S)
    BY <1>15 DEF Patches
  <1>17. ASSUME NEW j \in 1 .. n PROVE run[j] = Inserted(mems, run[j - 1], list[j])
    <2>1. run[j] = Patched(run[j - 1], order[j])
      BY <1>15 DEF Patches
    <2>2. /\ order[j].start = list[j][2] /\ order[j].end = list[j][3]
          /\ order[j].output = mems[list[j][1]].canonical
      BY <1>12
    <2>3. Patched(run[j - 1], order[j])
             = SubSeq(run[j - 1], 1, list[j][2]) \o mems[list[j][1]].canonical
                  \o SubSeq(run[j - 1], list[j][3] + 1, Len(run[j - 1]))
      BY <2>2 DEF Patched
    <2>4. 0 + 1 = 1
      OBVIOUS
    <2> QED  BY <2>1, <2>3, <2>4, Zenon DEF Inserted, Followed, Part
  <1>18. PICK weave : weave[N] = WeavingOf(mems, text, edits) /\ Weaves(mems, text, edits, weave)
    BY <1>1, WeavingRuns
  <1>19. run[n] = weave[Len(text)]
    BY <1>10, <1>14, <1>16, <1>17, <1>18, SplicedIsWoven
  <1>20. RenderingOf(mems, text, edits) = WeavingOf(mems, text, edits)
    BY RenderingIsWeaving
  <1>21. Spliced(text, S) = RenderingOf(mems, text, edits)
    BY <1>16, <1>18, <1>19, <1>20
  <1> QED  BY <1>21 DEF S

(* The replay of a pass from the trace.                                    *)
LEMMA PassReplayed ==
    ASSUME AnsweredInv, NEW p, Answered(p), thresholds[p].margin = ReplayMargin
    PROVE  LET replay == Replayed([text |-> body.text, candidates |-> answer.trace],
                                  Shipped(thresholds[p]))
           IN  /\ replay.output = RenderingOf(memories, body.text, winners[p])
               /\ replay.action = Verdict(p)
  <1> DEFINE config == Shipped(thresholds[p])
             row == [text |-> body.text, candidates |-> answer.trace]
             replay == Replayed(row, config)
  <1>1. RetainedInv /\ ServedInv /\ PassInv /\ AnswerInv /\ p \in Selection!Pass
    BY DEF AnsweredInv, Answered
  <1>2. PICK why : answer.trace = Entries(why)
    BY DEF AnsweredInv, TracedInv
  <1>3. PICK told : /\ Mirrors(told, thresholds[p])
                    /\ {Acted(c, Rescore(c.signals, config), config) : c \in Entries(why)}
                          = Copies(told)
    BY <1>1, CopiesExist
  <1>4. replay = Settled(body.text, Copies(told))
    <2>1. row.text = body.text /\ row.candidates = Entries(why)
      BY <1>2
    <2> HIDE DEF row, config
    <2> QED  BY <1>3, <2>1 DEF Replayed
  <1> HIDE DEF replay, row, config
  <1>5. Won(Copies(told)) = {told[k] : k \in winners[p]}
    BY <1>3, MirroredWinners
  <1>6. Spliced(body.text, {told[k] : k \in winners[p]})
           = RenderingOf(memories, body.text, winners[p])
    <2>1. Apart(Word \cup Separator, memories, body.text, winners[p])
      BY <1>1, WinnersApart
    <2>2. winners[p] \subseteq Retained
      BY AnsweredPass
    <2>3. \A k \in winners[p] : /\ told[k].start = k[2] /\ told[k].end = k[3]
                                /\ told[k].output = memories[k[1]].canonical
      BY <1>3, <2>2 DEF Mirrors
    <2> QED  BY <2>1, <2>3, PatchingIsRendering
  <1>7. replay.output = RenderingOf(memories, body.text, winners[p])
    BY <1>4, <1>5, <1>6 DEF Settled
  <1> DEFINE suggested == {c \in Copies(told) :
                              \/ c.action = "suggest"
                              \/ c.action = "apply" /\ Undecided(c, Copies(told))}
  <1>8. suggested # {} <=> \E k \in Retained : Selected!Outcome(k, p) = "suggest"
    <2>1. \A k \in Retained :
             (\/ told[k].action = "suggest"
              \/ told[k].action = "apply" /\ Undecided(told[k], Copies(told)))
             <=> Selected!Outcome(k, p) = "suggest"
      BY <1>3, MirroredOutcome
    <2>2. \A k \in Retained : told[k] \in Copies(told)
      BY DEF Copies
    <2>3. \A c \in Copies(told) : \E k \in Retained : c = told[k]
      BY DEF Copies
    <2> QED  BY <2>1, <2>2, <2>3
  <1>9. replay.action = IF Won(Copies(told)) # {} THEN "apply"
                        ELSE IF suggested # {} THEN "suggest" ELSE "abstain"
    BY <1>4, Zenon DEF Settled
  <1> HIDE DEF suggested
  <1>10. Won(Copies(told)) # {} <=> winners[p] # {}
    BY <1>5
  <1>11. replay.action = Verdict(p)
    BY <1>8, <1>9, <1>10, Zenon DEF Verdict
  <1> QED  BY <1>7, <1>11 DEF replay, row, config

(* The calibrator, given nothing but the trace of an answer, its text and  *)
(* the weights the engine ran with, arrives at the engine's own answer     *)
(* under the active policy, and at the shadow answer under the shadow      *)
(* thresholds, although the blockers in the trace are those of the active  *)
(* pass (calibrate_v7_policy.py, simulate; infer).  A shadow policy with a *)
(* winner margin of its own is left out: the calibrator has one constant.  *)
THEOREM ReplayIsFaithful == Spec => []ReplayFaithful
  <1>1. RetainedInv /\ ServedInv /\ PassInv /\ AnswerInv /\ SelectedInv /\ TracedInv
            => ReplayFaithful
    <2> SUFFICES ASSUME RetainedInv, ServedInv, PassInv, AnswerInv, SelectedInv, TracedInv,
                        stage = "answered"
                 PROVE  ReplayFaithful
      BY DEF ReplayFaithful
    <2> DEFINE row == [text |-> body.text, candidates |-> answer.trace]
               active == Replayed(row, Shipped(thresholds.active))
               shadow == Replayed(row, Shipped(thresholds.shadow))
    <2>1. AnsweredInv
      BY DEF AnsweredInv
    <2>2. active.output = answer.text /\ active.action = answer.action
      <3>1. Answered("active")
        BY DEF Answered, Selection!Pass
      <3>2. thresholds["active"].margin = ReplayMargin
        <4>1. thresholds["active"] = Active
          BY <2>1, <3>1, AnsweredPass
        <4> QED  BY <4>1, ReplayAssumption
      <3>3. /\ active.output = RenderingOf(memories, body.text, winners["active"])
            /\ active.action = Verdict("active")
        BY <2>1, <3>1, <3>2, PassReplayed
      <3>4. /\ answer.text = RenderingOf(memories, body.text, winners["active"])
            /\ answer.action = Verdict("active")
        BY DEF AnswerInv, TracedInv
      <3> HIDE DEF active
      <3> QED  BY <3>3, <3>4
    <2>3. ASSUME request # Unset, thresholds.shadow.margin = ReplayMargin
          PROVE  shadow.output = answer.shadowText /\ shadow.action = answer.shadowAction
      <3>1. Answered("shadow")
        BY <2>3 DEF Answered, Selection!Pass
      <3>2. thresholds["shadow"].margin = ReplayMargin
        BY <2>3
      <3>3. /\ shadow.output = RenderingOf(memories, body.text, winners["shadow"])
            /\ shadow.action = Verdict("shadow")
        BY <2>1, <3>1, <3>2, PassReplayed
      <3>4. /\ answer.shadowText = RenderingOf(memories, body.text, winners["shadow"])
            /\ answer.shadowAction = Verdict("shadow")
        BY <2>3 DEF AnswerInv, TracedInv
      <3> HIDE DEF shadow
      <3> QED  BY <3>3, <3>4
    <2> HIDE DEF active, shadow
    <2>4. ReplayFaithful
      <3>1. /\ active.output = answer.text /\ active.action = answer.action
            /\ request # Unset /\ thresholds.shadow.margin = ReplayMargin
                => /\ shadow.output = answer.shadowText
                   /\ shadow.action = answer.shadowAction
        BY <2>2, <2>3
      <3> QED  BY <3>1, Zenon DEF ReplayFaithful, active, shadow
    <2> QED  BY <2>4
  <1> QED  BY <1>1, ServedAlways, PassAlways, AnswerAlways, SelectedAlways, TracedAlways, PTL
=============================================================================
