-------------------------- MODULE ArbitrationProofs --------------------------
(***************************************************************************)
(* Proofs about Arbitration for every set of candidates, every scoring of  *)
(* them, every shadow request and every policy that meets the assumptions. *)
(***************************************************************************)
EXTENDS Arbitration, TLAPS

(* A candidate that the initial action of pass p would apply.              *)
Applicable(c, p) ==
    /\ features[c].blockers = {}
    /\ features[c].score >= thresholds[p].apply

(* The candidates of the running pass that the loop has visited were all   *)
(* settled for a reason, and everything still to visit comes later.        *)
LoopInv ==
    running =>
        /\ pass \in Pass
        /\ \A c \in todo : Applicable(c, pass)
        /\ \A w \in winners[pass], c \in todo : w \notin todo /\ Precedes(w, c)
        /\ \A c \in Candidate \ todo :
              Applicable(c, pass) =>
                 \/ c \in winners[pass]
                 \/ Ambiguous(c, thresholds[pass])
                 \/ \E w \in winners[pass] : Precedes(w, c) /\ Overlaps(w, c)

(* What a pass that has not started has selected.                          *)
FreshInv ==
    /\ pass = "active" => winners["shadow"] = {}
    /\ ~running /\ pass \in Pass => winners[pass] = {}

InputInv ==
    /\ DistinctKeys(features)
    /\ thresholds["active"] = Active

IInv ==
    /\ TypeOK
    /\ InputInv
    /\ FreshInv
    /\ LoopInv
    /\ WinnersSound
    /\ SelectionIsKernel

-----------------------------------------------------------------------------
LEMMA FeatureFields ==
    ASSUME TypeOK, NEW c \in Candidate
    PROVE  /\ features[c] \in FeatureType
           /\ features[c].start \in Nat
           /\ features[c].end \in Nat
           /\ features[c].start < features[c].end
           /\ features[c].score \in Int
           /\ features[c].score <= MaxGrade
           /\ features[c].pos \in Int
           /\ features[c].neg \in Int
           /\ features[c].name \in Nat
           /\ features[c].blockers \in SUBSET {"ELIGIBILITY", "NEGATIVE_CONTEXT_EVIDENCE"}
<1>1. features[c] \in Feature
  BY DEF TypeOK
<1>2. features[c] \in FeatureType /\ features[c].start < features[c].end
  BY <1>1, FeatureAssumption
<1>3. QED
  BY <1>2, GradesAssumption DEF FeatureType, Grade

(* Two different candidates are always ordered by the sort key.            *)
LEMMA PrecedesTotal ==
    ASSUME TypeOK, DistinctKeys(features), NEW a \in Candidate, NEW b \in Candidate, a # b
    PROVE  Precedes(a, b) \/ Precedes(b, a)
<1>1. /\ features[a].start \in Nat /\ features[a].end \in Nat
      /\ features[a].score \in Int /\ features[a].name \in Nat
  BY FeatureFields
<1>2. /\ features[b].start \in Nat /\ features[b].end \in Nat
      /\ features[b].score \in Int /\ features[b].name \in Nat
  BY FeatureFields
<1>3. \/ features[a].name # features[b].name
      \/ features[a].start # features[b].start
      \/ features[a].end # features[b].end
  BY DEF DistinctKeys
<1>4. QED
  BY <1>1, <1>2, <1>3 DEF Precedes

LEMMA PrecedesIrreflexive ==
    ASSUME TypeOK, NEW a \in Candidate
    PROVE  ~Precedes(a, a)
BY FeatureFields DEF Precedes

(* Under the active policy two candidates that are eligible on their own   *)
(* never overlap: each would be inside the other's winner margin, and only *)
(* one of them can have the larger context strength.                       *)
LEMMA EligibleDisjoint ==
    ASSUME TypeOK, thresholds["active"] = Active,
           NEW a \in Eligible("active"), NEW b \in Eligible("active"), a # b
    PROVE  ~Overlaps(a, b)
<1> SUFFICES ASSUME Overlaps(a, b)
             PROVE  FALSE
  OBVIOUS
<1>1. a \in Candidate /\ b \in Candidate
  BY DEF Eligible
<1>2. a \in Rivals(b) /\ b \in Rivals(a)
  BY <1>1 DEF Rivals, Overlaps
<1>3. /\ features[a].score \in Int /\ features[a].score <= MaxGrade
      /\ features[a].pos \in Int /\ features[a].neg \in Int
  BY <1>1, FeatureFields
<1>4. /\ features[b].score \in Int /\ features[b].score <= MaxGrade
      /\ features[b].pos \in Int /\ features[b].neg \in Int
  BY <1>1, FeatureFields
<1>5. /\ Active.apply \in Int /\ Active.margin \in Int
      /\ MaxGrade \in Int /\ MinAdvantage \in Int
  BY GradesAssumption DEF Thresholds, Grade
<1>6. features[a].score >= Active.apply /\ features[b].score >= Active.apply
  BY DEF Eligible
<1>7. /\ features[a].score - features[b].score < Active.margin
      /\ features[b].score - features[a].score < Active.margin
  BY <1>3, <1>4, <1>5, <1>6, ActivePolicyAssumption
<1>8. WithinMargin(a, Active) /\ WithinMargin(b, Active)
  BY <1>2, <1>7 DEF WithinMargin
<1>9. ContextWins(a) /\ ContextWins(b)
  BY <1>8 DEF Eligible, Ambiguous
<1>10. Strength(a) - Strength(b) >= MinAdvantage /\ Strength(b) - Strength(a) >= MinAdvantage
  BY <1>2, <1>9 DEF ContextWins
<1>11. QED
  BY <1>3, <1>4, <1>5, <1>10, ActivePolicyAssumption DEF Strength

-----------------------------------------------------------------------------
LEMMA ResolveType ==
    ASSUME NEW r \in ShadowRequest
    PROVE  Resolve(r) \in Thresholds
<1>1. r \in ShadowRequestType
  BY GradesAssumption
<1>2. /\ r.apply \in Grade
      /\ r.suggest \in Grade \cup {Unset}
      /\ r.margin \in Grade \cup {Unset}
  BY <1>1 DEF ShadowRequestType
<1>3. Active.suggest \in Grade /\ Active.margin \in Grade
  BY GradesAssumption DEF Thresholds
<1>4. QED
  BY <1>2, <1>3 DEF Resolve, Thresholds

LEMMA InitialActionType ==
    ASSUME NEW c, NEW th, NEW blocked
    PROVE  InitialAction(c, th, blocked) \in Action
BY DEF InitialAction, Action

LEMMA InitIInv == Init => IInv
<1> SUFFICES ASSUME Init
             PROVE  IInv
  OBVIOUS
<1>1. features \in [Candidate -> Feature] /\ DistinctKeys(features)
  BY DEF Init
<1>2. thresholds \in [Pass -> Thresholds] /\ thresholds["active"] = Active
  <2>1. (IF request = Unset THEN Active ELSE Resolve(request)) \in Thresholds
    BY ResolveType, GradesAssumption DEF Init
  <2>2. DOMAIN thresholds = Pass
    BY DEF Init, Pass
  <2>3. QED
    BY <2>1, GradesAssumption DEF Init, Pass
<1>3. \A c \in Candidate : features[c].blockers \in SUBSET Blocker
  <2>1. TAKE c \in Candidate
  <2>2. features[c] \in FeatureType
    BY <1>1, FeatureAssumption
  <2>3. QED
    BY <2>2 DEF FeatureType, Blocker
<1>4. TypeOK
  BY <1>1, <1>2, <1>3 DEF Init, TypeOK, Pass, Action
<1>5. InputInv /\ FreshInv /\ LoopInv
  BY <1>1, <1>2 DEF Init, InputInv, FreshInv, LoopInv, Pass
<1>6. WinnersSound /\ SelectionIsKernel
  BY DEF Init, WinnersSound, SelectionIsKernel, Finished
<1>7. QED
  BY <1>4, <1>5, <1>6 DEF IInv

-----------------------------------------------------------------------------
LEMMA BeginIInv == IInv /\ Begin => IInv'
<1> SUFFICES ASSUME IInv, Begin
             PROVE  IInv'
  OBVIOUS
<1> USE DEF IInv
<1>1. \A c \in Candidate : CopiedBlockers[c] = features[c].blockers
  BY DEF CopiedBlockers
<1>2. TypeOK'
  <2>1. blockers' \in [Candidate -> SUBSET Blocker]
    BY FeatureFields, <1>1 DEF Begin, CopiedBlockers, Blocker
  <2>2. action' \in [Candidate -> Action]
    BY InitialActionType DEF Begin
  <2>3. QED
    BY <2>1, <2>2 DEF Begin, TypeOK
<1>3. InputInv'
  BY DEF InputInv, DistinctKeys, Begin
<1>4. winners[pass] = {} /\ pass \in Pass
  BY DEF FreshInv, Begin
<1>5. \A c \in Candidate : c \in todo' <=> Applicable(c, pass)
  <2>1. TAKE c \in Candidate
  <2>2. action'[c] = InitialAction(c, thresholds[pass], features[c].blockers)
    BY <1>1 DEF Begin
  <2>3. c \in todo' <=> action'[c] = "apply"
    BY DEF Begin
  <2>4. QED
    BY <2>2, <2>3 DEF InitialAction, Applicable
<1>6. LoopInv'
  <2>1. \A c \in Candidate : Applicable(c, pass)' <=> Applicable(c, pass)
    BY DEF Applicable, Begin
  <2>2. todo' \subseteq Candidate
    BY DEF Begin
  <2>3. QED
    BY <1>4, <1>5, <2>1, <2>2 DEF LoopInv, Begin
<1>7. FreshInv'
  BY DEF FreshInv, Begin
<1>8. WinnersSound'
  BY DEF WinnersSound, Begin, Eligible, Ambiguous, WithinMargin, ContextWins,
         Rivals, Overlaps, Strength
<1>9. SelectionIsKernel'
  BY DEF SelectionIsKernel, Finished, Begin, Eligible, Ambiguous, WithinMargin, ContextWins,
         Rivals, Overlaps, Strength, Precedes
<1>10. QED
  BY <1>2, <1>3, <1>6, <1>7, <1>8, <1>9

(* What every visit of a candidate leaves alone, and what it may rely on.  *)
LEMMA VisitFacts ==
    ASSUME IInv, NEW c \in Candidate, Visit(c)
    PROVE  /\ pass \in Pass /\ running /\ c \in todo
           /\ c \notin winners[pass]
           /\ Applicable(c, pass)
           /\ \A o \in todo \ {c} : Precedes(c, o)
           /\ ~Finished(pass)
           /\ \A a \in Candidate, p \in Pass : Applicable(a, p)' <=> Applicable(a, p)
           /\ \A a \in Candidate, p \in Pass :
                 Ambiguous(a, thresholds[p])' <=> Ambiguous(a, thresholds[p])
           /\ \A a, b \in Candidate :
                 /\ Overlaps(a, b)' <=> Overlaps(a, b)
                 /\ Precedes(a, b)' <=> Precedes(a, b)
           /\ \A p \in Pass : Eligible(p)' = Eligible(p) /\ (Finished(p)' <=> Finished(p))
<1> USE DEF IInv
<1>1. pass \in Pass /\ running /\ c \in todo
  BY DEF Visit
<1>2. c \notin winners[pass] /\ Applicable(c, pass)
  BY <1>1 DEF LoopInv
<1>3. \A o \in todo \ {c} : Precedes(c, o)
  BY PrecedesTotal DEF Visit, TypeOK, InputInv
<1>4. ~Finished(pass)
  BY <1>1 DEF Finished, Pass
<1>5. UNCHANGED <<features, thresholds, request, pass, running>>
  BY DEF Visit
<1>6. \A a \in Candidate, p \in Pass : Applicable(a, p)' <=> Applicable(a, p)
  BY <1>5 DEF Applicable
<1>7. \A a \in Candidate, p \in Pass :
         Ambiguous(a, thresholds[p])' <=> Ambiguous(a, thresholds[p])
  BY <1>5 DEF Ambiguous, WithinMargin, ContextWins, Rivals, Overlaps, Strength
<1>8. \A a, b \in Candidate :
         /\ Overlaps(a, b)' <=> Overlaps(a, b)
         /\ Precedes(a, b)' <=> Precedes(a, b)
  BY <1>5 DEF Overlaps, Precedes
<1>9. \A p \in Pass : Eligible(p)' = Eligible(p) /\ (Finished(p)' <=> Finished(p))
  BY <1>5, <1>7 DEF Eligible, Finished
<1>10. QED
  BY <1>1, <1>2, <1>3, <1>4, <1>6, <1>7, <1>8, <1>9

(* A visit that does not select the candidate.                             *)
LEMMA LoseIInv ==
    ASSUME IInv, NEW c \in Candidate, Visit(c), UNCHANGED winners,
           action' \in [Candidate -> Action], blockers' \in [Candidate -> SUBSET Blocker],
           Ambiguous(c, thresholds[pass]) \/ Occupied(c)
    PROVE  IInv'
<1> USE DEF IInv
<1>1. UNCHANGED <<features, thresholds, request, pass, running, winners>> /\ todo' = todo \ {c}
  BY DEF Visit
<1>2. TypeOK'
  BY <1>1 DEF TypeOK
<1>3. InputInv' /\ FreshInv'
  BY <1>1 DEF InputInv, FreshInv, DistinctKeys
<1>4. winners[pass] \subseteq Candidate
  BY VisitFacts DEF TypeOK
<1>5. LoopInv'
  <2>1. \A a \in Candidate \ todo' :
          Applicable(a, pass) =>
             \/ a \in winners[pass]
             \/ Ambiguous(a, thresholds[pass])
             \/ \E w \in winners[pass] : Precedes(w, a) /\ Overlaps(w, a)
    <3>1. TAKE a \in Candidate \ todo'
    <3>2. CASE a # c
      BY <1>1, <3>2, VisitFacts DEF LoopInv
    <3>3. CASE a = c
      <4>1. ASSUME Occupied(c)
            PROVE  \E w \in winners[pass] : Precedes(w, c) /\ Overlaps(w, c)
        BY <4>1, VisitFacts DEF Occupied, LoopInv, Overlaps
      <4>2. QED
        BY <3>3, <4>1
    <3>4. QED
      BY <3>2, <3>3
  <2>2. \A a \in todo' : Applicable(a, pass)
    BY <1>1, VisitFacts DEF LoopInv
  <2>3. \A w \in winners[pass], a \in todo' : w \notin todo' /\ Precedes(w, a)
    BY <1>1, VisitFacts DEF LoopInv
  <2>4. todo' \subseteq Candidate
    BY <1>1 DEF TypeOK
  <2>5. QED
    BY <1>1, <1>4, <2>1, <2>2, <2>3, <2>4, VisitFacts DEF LoopInv
<1>6. WinnersSound'
  BY <1>1, VisitFacts DEF WinnersSound, TypeOK
<1>7. SelectionIsKernel'
  <2>1. \A p \in Pass : Eligible(p) \subseteq Candidate /\ winners[p] \subseteq Candidate
    BY DEF Eligible, TypeOK
  <2>2. QED
    BY <1>1, <2>1, VisitFacts DEF SelectionIsKernel
<1>8. QED
  BY <1>2, <1>3, <1>5, <1>6, <1>7

LEMMA WinIInv ==
    ASSUME IInv, NEW c \in Candidate, Win(c)
    PROVE  IInv'
<1> USE DEF IInv
<1>0. Visit(c) /\ ~Ambiguous(c, thresholds[pass]) /\ ~Occupied(c)
  BY DEF Win
<1>1. /\ UNCHANGED <<features, thresholds, request, pass, running, action, blockers>>
      /\ todo' = todo \ {c}
      /\ winners' = [winners EXCEPT ![pass] = @ \cup {c}]
  BY DEF Win, Visit
<1>2. TypeOK'
  BY <1>1 DEF TypeOK
<1>3. pass \in Pass /\ running
  BY <1>0, VisitFacts
<1>4. /\ winners'[pass] = winners[pass] \cup {c}
      /\ \A p \in Pass \ {pass} : winners'[p] = winners[p]
      /\ winners[pass] \subseteq Candidate
  BY <1>1, <1>3 DEF TypeOK
<1>5. InputInv' /\ FreshInv'
  BY <1>1, <1>3, <1>4 DEF InputInv, FreshInv, DistinctKeys, Pass
<1>6. LoopInv'
  <2>1. \A a \in Candidate \ todo' :
          Applicable(a, pass) =>
             \/ a \in winners'[pass]
             \/ Ambiguous(a, thresholds[pass])
             \/ \E w \in winners'[pass] : Precedes(w, a) /\ Overlaps(w, a)
    BY <1>1, <1>3, <1>4 DEF LoopInv
  <2>2. \A a \in todo' : Applicable(a, pass)
    BY <1>1, <1>3 DEF LoopInv
  <2>3. \A w \in winners'[pass], a \in todo' : w \notin todo' /\ Precedes(w, a)
    BY <1>0, <1>1, <1>3, <1>4, VisitFacts DEF LoopInv
  <2>4. todo' \subseteq Candidate
    BY <1>1 DEF TypeOK
  <2>5. QED
    BY <1>0, <1>1, <1>3, <1>4, <2>1, <2>2, <2>3, <2>4, VisitFacts DEF LoopInv
<1>7. WinnersSound'
  <2>1. c \in Eligible(pass)
    BY <1>0, VisitFacts DEF Eligible, Applicable
  <2>2. \A w \in winners[pass] : ~Overlaps(c, w) /\ ~Overlaps(w, c)
    BY <1>0 DEF Occupied, Overlaps
  <2>3. \A p \in Pass : winners'[p] \subseteq Eligible(p)
    BY <1>4, <2>1 DEF WinnersSound
  <2>4. \A p \in Pass : \A a, b \in winners'[p] : a # b => ~Overlaps(a, b)
    BY <1>3, <1>4, <2>2 DEF WinnersSound
  <2>5. \A p \in Pass : winners'[p] \subseteq Candidate
    BY <1>4 DEF TypeOK
  <2>6. QED
    BY <1>0, <2>3, <2>4, <2>5, VisitFacts DEF WinnersSound
<1>8. SelectionIsKernel'
  <2>1. \A p \in Pass : Eligible(p) \subseteq Candidate /\ winners[p] \subseteq Candidate
    BY DEF Eligible, TypeOK
  <2>2. \A p \in Pass : Finished(p) => p # pass
    BY <1>0, VisitFacts
  <2>3. QED
    BY <1>0, <1>4, <2>1, <2>2, VisitFacts DEF SelectionIsKernel
<1>9. QED
  BY <1>2, <1>5, <1>6, <1>7, <1>8

LEMMA EndIInv == IInv /\ End => IInv'
<1> SUFFICES ASSUME IInv, End
             PROVE  IInv'
  OBVIOUS
<1> USE DEF IInv
<1>1. UNCHANGED <<features, thresholds, request, todo, action, blockers, winners>>
  BY DEF End
<1>2. /\ pass \in Pass /\ running /\ todo = {} /\ running' = FALSE
      /\ pass' = IF pass = "active" /\ request # Unset THEN "shadow" ELSE "done"
  BY DEF End
<1>3. TypeOK'
  BY <1>1, <1>2 DEF TypeOK, Pass
<1>4. InputInv' /\ LoopInv'
  BY <1>1, <1>2 DEF InputInv, LoopInv, DistinctKeys
<1>5. FreshInv'
  BY <1>1, <1>2 DEF FreshInv, Pass
<1>6. \A p \in Pass : Eligible(p)' = Eligible(p)
  BY <1>1 DEF Eligible, Ambiguous, WithinMargin, ContextWins, Rivals, Overlaps, Strength
<1>7. \A p \in Pass : Eligible(p) \subseteq Candidate /\ winners[p] \subseteq Candidate
  BY DEF Eligible, TypeOK
<1>8. WinnersSound'
  BY <1>1, <1>6 DEF WinnersSound, Overlaps
<1>9. winners[pass] = {c \in Eligible(pass) :
                         ~\E w \in winners[pass] : Precedes(w, c) /\ Overlaps(w, c)}
  <2>1. \A c \in winners[pass] :
          /\ c \in Eligible(pass)
          /\ ~\E w \in winners[pass] : Precedes(w, c) /\ Overlaps(w, c)
    BY <1>2, <1>7, PrecedesIrreflexive DEF WinnersSound
  <2>2. ASSUME NEW c \in Eligible(pass),
               ~\E w \in winners[pass] : Precedes(w, c) /\ Overlaps(w, c)
        PROVE  c \in winners[pass]
    BY <1>2, <2>2 DEF LoopInv, Eligible, Applicable
  <2>3. QED
    BY <2>1, <2>2
<1>10. \A p \in Pass : Finished(p)' => Finished(p) \/ p = pass
  BY <1>1, <1>2 DEF Finished, Pass
<1>11. SelectionIsKernel'
  <2>1. ASSUME NEW p \in Pass, Finished(p)'
        PROVE  winners[p] = {c \in Eligible(p) :
                               ~\E w \in winners[p] : Precedes(w, c) /\ Overlaps(w, c)}
    BY <1>9, <1>10, <2>1 DEF SelectionIsKernel
  <2>2. QED
    BY <1>1, <1>6, <2>1 DEF SelectionIsKernel, Overlaps, Precedes
<1>12. QED
  BY <1>3, <1>4, <1>5, <1>8, <1>11

LEMMA NextIInv == IInv /\ [Next]_vars => IInv'
<1> SUFFICES ASSUME IInv, [Next]_vars
             PROVE  IInv'
  OBVIOUS
<1>1. CASE Begin
  BY <1>1, BeginIInv
<1>2. ASSUME NEW c \in Candidate, LoseMargin(c)
      PROVE  IInv'
  <2>1. action' \in [Candidate -> Action] /\ blockers' \in [Candidate -> SUBSET Blocker]
    BY <1>2 DEF LoseMargin, IInv, TypeOK, Action, Blocker
  <2>2. QED
    BY <1>2, <2>1, LoseIInv DEF LoseMargin
<1>3. ASSUME NEW c \in Candidate, LoseSpan(c)
      PROVE  IInv'
  <2>1. action' \in [Candidate -> Action] /\ blockers' \in [Candidate -> SUBSET Blocker]
    BY <1>3 DEF LoseSpan, IInv, TypeOK, Action, Blocker
  <2>2. QED
    BY <1>3, <2>1, LoseIInv DEF LoseSpan
<1>4. ASSUME NEW c \in Candidate, Win(c)
      PROVE  IInv'
  BY <1>4, WinIInv
<1>5. CASE End
  BY <1>5, EndIInv
<1>6. CASE UNCHANGED vars
  BY <1>6 DEF vars, IInv, TypeOK, InputInv, FreshInv, LoopInv, WinnersSound,
              SelectionIsKernel, DistinctKeys, Finished, Applicable, Eligible, Ambiguous,
              WithinMargin, ContextWins, Rivals, Overlaps, Strength, Precedes
<1>7. QED
  BY <1>1, <1>2, <1>3, <1>4, <1>5, <1>6 DEF Next

LEMMA Invariance == Spec => []IInv
BY InitIInv, NextIInv, PTL DEF Spec

-----------------------------------------------------------------------------
(* Arbitration never leaves its types.                                     *)
THEOREM TypeCorrect == Spec => []TypeOK
<1>1. IInv => TypeOK
  BY DEF IInv
<1>2. QED
  BY <1>1, Invariance, PTL

(* Whatever the scores and thresholds, the edits a pass selects are        *)
(* pairwise disjoint, unblocked and above the pass's apply threshold.      *)
THEOREM WinnersAreSound == Spec => []WinnersSound
<1>1. IInv => WinnersSound
  BY DEF IInv
<1>2. QED
  BY <1>1, Invariance, PTL

(* Each pass computes the kernel of the scored candidates under its own    *)
(* thresholds: the shadow pass is a function of the request and the scores *)
(* only.                                                                   *)
THEOREM SelectionIsAKernel == Spec => []SelectionIsKernel
<1>1. IInv => SelectionIsKernel
  BY DEF IInv
<1>2. QED
  BY <1>1, Invariance, PTL

(* The kernel of disjoint candidates is all of them.                       *)
LEMMA OrderFree == IInv => ActiveOrderFree
<1> SUFFICES ASSUME IInv, Finished("active")
             PROVE  winners["active"] = Eligible("active")
  BY DEF ActiveOrderFree
<1>1. winners["active"] = {c \in Eligible("active") :
          ~\E w \in winners["active"] : Precedes(w, c) /\ Overlaps(w, c)}
  BY DEF IInv, SelectionIsKernel, Pass
<1>2. \A c \in Eligible("active"), w \in winners["active"] :
          ~(Precedes(w, c) /\ Overlaps(w, c))
  <2>1. TAKE c \in Eligible("active"), w \in winners["active"]
  <2>2. w \in Eligible("active")
    BY <1>1
  <2>3. CASE w = c
    BY <2>3, PrecedesIrreflexive DEF IInv, Eligible
  <2>4. CASE w # c
    BY <2>2, <2>4, EligibleDisjoint DEF IInv, InputInv
  <2>5. QED
    BY <2>3, <2>4
<1>3. QED
  BY <1>1, <1>2

(* For every policy whose margin does not fit above its apply threshold,   *)
(* the order in which candidates are visited decides nothing.              *)
THEOREM ActiveSelectionIsOrderFree == Spec => []ActiveOrderFree
BY OrderFree, Invariance, PTL

(* Two overlapping candidates that both clear the apply threshold are both *)
(* inside the other's margin: without a conflict advantage neither wins.   *)
LEMMA CloseRivalsAmbiguous ==
    ASSUME TypeOK, NEW a \in Candidate, NEW b \in Candidate, a # b, Overlaps(a, b),
           features[b].score >= Active.apply, ~ContextWins(a)
    PROVE  Ambiguous(a, Active)
<1>1. features[a].score \in Int /\ features[a].score <= MaxGrade /\ features[b].score \in Int
  BY FeatureFields
<1>2. Active.apply \in Int /\ Active.margin \in Int /\ MaxGrade \in Int
  BY GradesAssumption DEF Thresholds, Grade
<1>3. features[a].score - features[b].score < Active.margin
  BY <1>1, <1>2, ActivePolicyAssumption
<1>4. b \in Rivals(a)
  BY DEF Rivals
<1>5. QED
  BY <1>3, <1>4 DEF Ambiguous, WithinMargin

(* For every such policy, competing edits stay suggestions unless the      *)
(* context singles one out.                                                *)
THEOREM CompetitorsAreNotApplied == Spec => []CompetitorsStaySuggestions
<1>1. IInv => CompetitorsStaySuggestions
  <2> SUFFICES ASSUME IInv, NEW a \in Candidate, NEW b \in Candidate, a # b, Overlaps(a, b),
                      features[a].score >= Active.apply, features[b].score >= Active.apply,
                      ~ContextWins(a), ~ContextWins(b)
               PROVE  a \notin winners["active"] /\ b \notin winners["active"]
    BY DEF CompetitorsStaySuggestions
  <2>1. Overlaps(b, a)
    BY DEF Overlaps
  <2>2. Ambiguous(a, Active) /\ Ambiguous(b, Active)
    BY <2>1, CloseRivalsAmbiguous DEF IInv
  <2>3. a \notin Eligible("active") /\ b \notin Eligible("active")
    BY <2>2 DEF Eligible, IInv, InputInv
  <2>4. QED
    BY <2>3 DEF IInv, WinnersSound, Pass
<1>2. QED
  BY <1>1, Invariance, PTL

-----------------------------------------------------------------------------
(* What pass p leaves of a candidate: its action and its blockers follow   *)
(* from the scores and from what the pass selected.                        *)
Outcome(c, p) ==
    IF Applicable(c, p)
    THEN IF Ambiguous(c, thresholds[p]) THEN "suggest"
         ELSE IF c \in winners[p] THEN "apply" ELSE "abstain"
    ELSE InitialAction(c, thresholds[p], features[c].blockers)

Marks(c, p) ==
    IF Applicable(c, p)
    THEN IF Ambiguous(c, thresholds[p]) THEN {"INSUFFICIENT_WINNER_MARGIN"}
         ELSE IF c \in winners[p] THEN {} ELSE {"OVERLAPPING_WINNER"}
    ELSE features[c].blockers

(* The pass that ended last, or the one whose loop is running.             *)
Latest ==
    IF running THEN pass
    ELSE IF pass = "done" /\ request # Unset THEN "shadow" ELSE "active"

OutcomeInv ==
    /\ pass = "shadow" => request # Unset
    /\ running \/ pass # "active" =>
          \A c \in Candidate :
             IF c \in todo THEN action[c] = "apply" /\ blockers[c] = {}
             ELSE action[c] = Outcome(c, Latest) /\ blockers[c] = Marks(c, Latest)
    /\ ~running => todo = {}

LEMMA InitOutcome == Init => OutcomeInv
  BY DEF Init, OutcomeInv

LEMMA BeginOutcome == IInv /\ OutcomeInv /\ Begin => OutcomeInv'
<1> SUFFICES ASSUME IInv, OutcomeInv, Begin
             PROVE  OutcomeInv'
  OBVIOUS
<1>1. /\ pass \in Pass /\ running' = TRUE /\ pass' = pass
      /\ blockers' = CopiedBlockers
      /\ action' = [c \in Candidate |-> InitialAction(c, thresholds[pass], CopiedBlockers[c])]
      /\ todo' = {c \in Candidate : action'[c] = "apply"}
      /\ UNCHANGED <<features, thresholds, request>>
  BY DEF Begin
<1>2. Latest' = pass
  BY <1>1 DEF Latest
<1>3. ASSUME NEW c \in Candidate
      PROVE  IF c \in todo' THEN action'[c] = "apply" /\ blockers'[c] = {}
             ELSE action'[c] = Outcome(c, pass)' /\ blockers'[c] = Marks(c, pass)'
  <2>1. /\ blockers'[c] = features[c].blockers
        /\ action'[c] = InitialAction(c, thresholds[pass], features[c].blockers)
        /\ c \in todo' <=> action'[c] = "apply"
    BY <1>1 DEF CopiedBlockers
  <2>2. action'[c] = "apply" <=> Applicable(c, pass)
    BY <2>1 DEF InitialAction, Applicable
  <2>3. Applicable(c, pass)' <=> Applicable(c, pass)
    BY <1>1 DEF Applicable
  <2>4. /\ InitialAction(c, thresholds[pass], features[c].blockers)'
               = InitialAction(c, thresholds[pass], features[c].blockers)
        /\ features[c].blockers' = features[c].blockers
    BY <1>1 DEF InitialAction
  <2>5. CASE Applicable(c, pass)
    BY <2>1, <2>2, <2>5 DEF Applicable
  <2>6. CASE ~Applicable(c, pass)
    BY <2>1, <2>2, <2>3, <2>4, <2>6 DEF Outcome, Marks
  <2>7. QED
    BY <2>5, <2>6
<1>4. QED
  BY <1>1, <1>2, <1>3 DEF OutcomeInv

(* A visit settles its candidate and leaves the others.                    *)
LEMMA VisitOutcome ==
    ASSUME IInv, OutcomeInv, NEW c \in Candidate, Visit(c),
           action' = [action EXCEPT ![c] = action'[c]],
           blockers' = [blockers EXCEPT ![c] = blockers'[c]],
           \A o \in Candidate \ {c} : o \in winners'[pass] <=> o \in winners[pass],
           action'[c] = Outcome(c, pass)', blockers'[c] = Marks(c, pass)'
    PROVE  OutcomeInv'
<1>1. /\ pass \in Pass /\ running /\ c \in todo
      /\ todo' = todo \ {c} /\ UNCHANGED <<features, thresholds, request, pass, running>>
  BY DEF Visit
<1>2. Latest = pass /\ Latest' = pass
  BY <1>1 DEF Latest
<1>3. /\ \A a \in Candidate, p \in Pass : Applicable(a, p)' <=> Applicable(a, p)
      /\ \A a \in Candidate, p \in Pass :
            Ambiguous(a, thresholds[p])' <=> Ambiguous(a, thresholds[p])
  BY VisitFacts
<1>4. action \in [Candidate -> Action] /\ blockers \in [Candidate -> SUBSET Blocker]
  BY DEF IInv, TypeOK
<1>5. ASSUME NEW o \in Candidate
      PROVE  IF o \in todo' THEN action'[o] = "apply" /\ blockers'[o] = {}
             ELSE action'[o] = Outcome(o, pass)' /\ blockers'[o] = Marks(o, pass)'
  <2>1. CASE o = c
    BY <1>1, <2>1
  <2>2. CASE o # c
    <3>1. action'[o] = action[o] /\ blockers'[o] = blockers[o] /\ (o \in todo' <=> o \in todo)
      BY <1>1, <1>4, <2>2
    <3>2. Outcome(o, pass)' = Outcome(o, pass) /\ Marks(o, pass)' = Marks(o, pass)
      <4>1. o \in winners'[pass] <=> o \in winners[pass]
        BY <2>2
      <4>2. /\ Applicable(o, pass)' <=> Applicable(o, pass)
            /\ Ambiguous(o, thresholds[pass])' <=> Ambiguous(o, thresholds[pass])
            /\ features[o].blockers' = features[o].blockers
        BY <1>1, <1>3
      <4>3. InitialAction(o, thresholds[pass], features[o].blockers)'
               = InitialAction(o, thresholds[pass], features[o].blockers)
        BY <1>1 DEF InitialAction
      <4>4. QED
        BY <1>1, <4>1, <4>2, <4>3 DEF Outcome, Marks
    <3>3. IF o \in todo THEN action[o] = "apply" /\ blockers[o] = {}
          ELSE action[o] = Outcome(o, pass) /\ blockers[o] = Marks(o, pass)
      BY <1>1, <1>2 DEF OutcomeInv
    <3>4. QED
      BY <3>1, <3>2, <3>3
  <2>3. QED
    BY <2>1, <2>2
<1>6. QED
  BY <1>1, <1>2, <1>5 DEF OutcomeInv

LEMMA NextOutcome == IInv /\ OutcomeInv /\ [Next]_vars => OutcomeInv'
<1> SUFFICES ASSUME IInv, OutcomeInv, [Next]_vars
             PROVE  OutcomeInv'
  OBVIOUS
<1>1. CASE Begin
  BY <1>1, BeginOutcome
<1>2. ASSUME NEW c \in Candidate, Visit(c)
      PROVE  /\ Applicable(c, pass) /\ Applicable(c, pass)'
             /\ pass' = pass /\ pass \in Pass /\ c \notin winners[pass]
             /\ Ambiguous(c, thresholds[pass])' <=> Ambiguous(c, thresholds[pass])
             /\ action[c] = "apply" /\ blockers[c] = {}
             /\ action \in [Candidate -> Action] /\ blockers \in [Candidate -> SUBSET Blocker]
             /\ winners \in [Pass -> SUBSET Candidate]
  <2>1. Applicable(c, pass) /\ pass' = pass /\ pass \in Pass /\ running /\ c \in todo
        /\ c \notin winners[pass]
    BY <1>2, VisitFacts DEF Visit
  <2>2. /\ Applicable(c, pass)' <=> Applicable(c, pass)
        /\ Ambiguous(c, thresholds[pass])' <=> Ambiguous(c, thresholds[pass])
    BY <1>2, <2>1, VisitFacts
  <2>3. action[c] = "apply" /\ blockers[c] = {}
    BY <2>1 DEF OutcomeInv
  <2>4. QED
    BY <2>1, <2>2, <2>3 DEF IInv, TypeOK
<1>3. ASSUME NEW c \in Candidate, LoseMargin(c)
      PROVE  OutcomeInv'
  <2>1. /\ Visit(c) /\ Ambiguous(c, thresholds[pass]) /\ UNCHANGED winners
        /\ action' = [action EXCEPT ![c] = "suggest"]
        /\ blockers' = [blockers EXCEPT ![c] = @ \cup {"INSUFFICIENT_WINNER_MARGIN"}]
    BY <1>3 DEF LoseMargin
  <2>2. action'[c] = "suggest" /\ blockers'[c] = {"INSUFFICIENT_WINNER_MARGIN"}
    BY <1>2, <2>1
  <2>3. Outcome(c, pass)' = "suggest" /\ Marks(c, pass)' = {"INSUFFICIENT_WINNER_MARGIN"}
    BY <1>2, <2>1 DEF Outcome, Marks
  <2>4. QED
    BY <1>2, <2>1, <2>2, <2>3, VisitOutcome
<1>4. ASSUME NEW c \in Candidate, LoseSpan(c)
      PROVE  OutcomeInv'
  <2>1. /\ Visit(c) /\ ~Ambiguous(c, thresholds[pass]) /\ UNCHANGED winners
        /\ action' = [action EXCEPT ![c] = "abstain"]
        /\ blockers' = [blockers EXCEPT ![c] = @ \cup {"OVERLAPPING_WINNER"}]
    BY <1>4 DEF LoseSpan
  <2>2. action'[c] = "abstain" /\ blockers'[c] = {"OVERLAPPING_WINNER"}
    BY <1>2, <2>1
  <2>3. Outcome(c, pass)' = "abstain" /\ Marks(c, pass)' = {"OVERLAPPING_WINNER"}
    BY <1>2, <2>1 DEF Outcome, Marks
  <2>4. QED
    BY <1>2, <2>1, <2>2, <2>3, VisitOutcome
<1>5. ASSUME NEW c \in Candidate, Win(c)
      PROVE  OutcomeInv'
  <2>1. /\ Visit(c) /\ ~Ambiguous(c, thresholds[pass]) /\ UNCHANGED <<action, blockers>>
        /\ winners' = [winners EXCEPT ![pass] = @ \cup {c}]
    BY <1>5 DEF Win
  <2>2. winners'[pass] = winners[pass] \cup {c}
    BY <1>2, <2>1
  <2>3. Outcome(c, pass)' = "apply" /\ Marks(c, pass)' = {}
    BY <1>2, <2>1, <2>2 DEF Outcome, Marks
  <2>4. /\ action' = [action EXCEPT ![c] = action'[c]]
        /\ blockers' = [blockers EXCEPT ![c] = blockers'[c]]
    BY <1>2, <2>1
  <2>5. QED
    BY <1>2, <2>1, <2>2, <2>3, <2>4, VisitOutcome
<1>6. CASE UNCHANGED <<features, thresholds, winners, request, todo, action, blockers>>
           /\ Latest' = Latest /\ (running' \/ pass' # "active" => running \/ pass # "active")
           /\ (pass' = "shadow" => request # Unset) /\ (~running' => todo = {})
  <2>1. \A c, p : Applicable(c, p)' <=> Applicable(c, p)
    BY <1>6 DEF Applicable
  <2>2. \A c, th : Ambiguous(c, th)' <=> Ambiguous(c, th)
    BY <1>6 DEF Ambiguous, WithinMargin, ContextWins, Rivals, Overlaps, Strength
  <2>3. \A c, th, b : InitialAction(c, th, b)' = InitialAction(c, th, b)
    BY <1>6 DEF InitialAction
  <2>4. \A c : Outcome(c, Latest)' = Outcome(c, Latest) /\ Marks(c, Latest)' = Marks(c, Latest)
    BY <1>6, <2>1, <2>2, <2>3 DEF Outcome, Marks
  <2>5. QED
    BY <1>6, <2>4 DEF OutcomeInv
<1>7. CASE End
  <2>1. /\ pass \in Pass /\ running /\ todo = {} /\ running' = FALSE
        /\ pass' = IF pass = "active" /\ request # Unset THEN "shadow" ELSE "done"
        /\ UNCHANGED <<features, thresholds, request, todo, action, blockers, winners>>
    BY <1>7 DEF End
  <2>2. Latest' = Latest
    BY <2>1 DEF Latest, Pass, OutcomeInv
  <2>3. QED
    BY <1>6, <2>1, <2>2
<1>8. CASE UNCHANGED vars
  <2>1. /\ UNCHANGED <<features, thresholds, winners, request, todo, action, blockers>>
        /\ UNCHANGED <<pass, running>>
    BY <1>8 DEF vars
  <2>2. Latest' = Latest
    BY <2>1 DEF Latest
  <2>3. QED
    BY <1>6, <2>1, <2>2 DEF OutcomeInv
<1>9. QED
  BY <1>1, <1>3, <1>4, <1>5, <1>7, <1>8 DEF Next

(* What a pass leaves of a candidate, its action and its blockers, follows *)
(* from the scores and from what the pass selected, in whichever order the *)
(* loop went and whatever the other pass left (_select_winners).           *)
THEOREM OutcomesFollow == Spec => []OutcomeInv
BY InitIInv, NextIInv, InitOutcome, NextOutcome, PTL DEF Spec
=============================================================================
