---------------------------- MODULE Arbitration ----------------------------
(***************************************************************************)
(* Conflict arbitration of one inference request (engine.py,               *)
(* _initial_candidate_action, _select_winners, resolve_shadow_thresholds,   *)
(* and the two calls of _select_winners made by infer).                    *)
(*                                                                         *)
(* infer scores the candidate edits of a transcript once.  The selection   *)
(* loop then runs over a copy of them under the active thresholds and,     *)
(* when the request carries a shadow policy, over another copy under the   *)
(* shadow thresholds.  A candidate is an edit of the span start..end by    *)
(* one memory; scores and context similarities are the code's decimals     *)
(* scaled to integers 0..MaxGrade.                                         *)
(***************************************************************************)
EXTENDS Integers, FiniteSets

CONSTANTS
    Candidate,              \* the candidates_by_key entries of the request
    Feature,                \* what scoring may have produced for a candidate
    MaxGrade,               \* the integer that stands for 1.0
    Active,                 \* active_decision_thresholds()
    ShadowRequest,          \* shadow_policy payloads a client may send
    Unset,                  \* an optional field the client left out
    MinConflictPositive,    \* minimum_conflict_positive_context
    MinAdvantage            \* MINIMUM_CONFLICT_CONTEXT_ADVANTAGE

Grade == 0 .. MaxGrade

Action == {"apply", "suggest", "abstain"}

(* Blockers raised by scoring (the first two classes) and by the loop.     *)
Blocker == {"ELIGIBILITY", "NEGATIVE_CONTEXT_EVIDENCE",
            "INSUFFICIENT_WINNER_MARGIN", "OVERLAPPING_WINNER"}

Thresholds == [apply : Grade, suggest : Grade, margin : Grade]

(* A scored candidate; name is the rank of its canonical form's casefold.  *)
FeatureType ==
    [start : Nat, end : Nat, score : Grade, pos : Grade, neg : Grade,
     name : Nat, blockers : SUBSET {"ELIGIBILITY", "NEGATIVE_CONTEXT_EVIDENCE"}]

ShadowRequestType ==
    [apply : Grade, suggest : Grade \cup {Unset}, margin : Grade \cup {Unset}]

ASSUME GradesAssumption ==
    /\ MaxGrade \in Nat
    /\ MinConflictPositive \in Grade
    /\ MinAdvantage \in Grade
    /\ Active \in Thresholds
    /\ Unset \notin Grade
    /\ ShadowRequest \subseteq ShadowRequestType

ASSUME FeatureAssumption ==
    /\ Feature \subseteq FeatureType
    /\ \A f \in Feature : f.start < f.end

(* The shipped policy: a lead of minimum_winner_margin cannot fit between  *)
(* the apply threshold and 1.0, and the conflict advantage is positive.    *)
ASSUME ActivePolicyAssumption ==
    /\ Active.apply + Active.margin > MaxGrade
    /\ MinAdvantage > 0

-----------------------------------------------------------------------------
VARIABLES
    features,   \* base_candidates: the scored candidates, shared by both passes
    thresholds, \* the thresholds of each pass
    request,    \* the shadow_policy payload, or Unset when there is none
    pass,       \* the _select_winners call being made
    running,    \* whether its loop has begun
    todo,       \* candidates the loop has still to visit
    action,     \* candidate.action of the pass's copies
    blockers,   \* candidate.blockers of the pass's copies
    winners     \* the winners each pass has selected

vars == <<features, thresholds, request, pass, running, todo, action, blockers, winners>>

Pass == {"active", "shadow"}

(* The request validator: only an explicit suggest threshold is compared.  *)
ValidShadowRequest(r) == r.suggest # Unset => r.apply >= r.suggest

Resolve(r) ==
    [apply   |-> r.apply,
     suggest |-> IF r.suggest = Unset THEN Active.suggest ELSE r.suggest,
     margin  |-> IF r.margin = Unset THEN Active.margin ELSE r.margin]

-----------------------------------------------------------------------------
InitialAction(c, th, blocked) ==
    IF features[c].score >= th.apply /\ blocked = {} THEN "apply"
    ELSE IF "NEGATIVE_CONTEXT_EVIDENCE" \in blocked THEN "abstain"
    ELSE IF features[c].score >= th.suggest THEN "suggest"
    ELSE "abstain"

Overlaps(a, b) ==
    /\ features[b].start < features[a].end
    /\ features[a].start < features[b].end

Rivals(c) == {r \in Candidate \ {c} : Overlaps(c, r)}

Strength(c) == features[c].pos - features[c].neg

(* Mistake: the runner-up is the best of the rivals not scored higher.     *)
WithinMargin_NotHigher(c, th) ==
    \E r \in Rivals(c) : /\ features[r].score <= features[c].score
                         /\ features[c].score - features[r].score < th.margin

(* candidate.score - runner_up < minimum_winner_margin                     *)
WithinMargin(c, th) == \E r \in Rivals(c) : features[c].score - features[r].score < th.margin

(* Mistake: context that is strong enough need not beat the competitors'.  *)
ContextWins_Alone(c) == features[c].pos >= MinConflictPositive

ContextWins(c) ==
    /\ features[c].pos >= MinConflictPositive
    /\ \A r \in Rivals(c) : Strength(c) - Strength(r) >= MinAdvantage

Ambiguous(c, th) == WithinMargin(c, th) /\ ~ContextWins(c)

(* The sort key of the loop: higher score, earlier start, longer span,     *)
(* then canonical form.                                                    *)
Precedes(a, b) ==
    LET fa == features[a]
        fb == features[b]
        la == fa.end - fa.start
        lb == fb.end - fb.start
    IN  \/ fa.score > fb.score
        \/ /\ fa.score = fb.score
           /\ \/ fa.start < fb.start
              \/ /\ fa.start = fb.start
                 /\ \/ la > lb
                    \/ la = lb /\ fa.name < fb.name

(* Mistake: only the span itself counts as occupied.                       *)
Occupied_SameSpan(c) ==
    \E w \in winners[pass] : /\ features[w].start = features[c].start
                             /\ features[w].end = features[c].end

(* any(left < candidate.end and candidate.start < right ... in occupied)   *)
Occupied(c) == \E w \in winners[pass] : Overlaps(c, w)

-----------------------------------------------------------------------------
(* Keys (memory, start, end) are unique: a memory keeps one candidate per  *)
(* span, and distinct memories of a user have distinct canonical forms.    *)
DistinctKeys(f) ==
    \A a, b \in Candidate :
        a # b => \/ f[a].name # f[b].name
                 \/ f[a].start # f[b].start
                 \/ f[a].end # f[b].end

Init ==
    /\ features \in {f \in [Candidate -> Feature] : DistinctKeys(f)}
    /\ request \in {r \in ShadowRequest : ValidShadowRequest(r)} \cup {Unset}
    /\ thresholds = [active |-> Active,
                     shadow |-> IF request = Unset THEN Active ELSE Resolve(request)]
    /\ pass = "active"
    /\ running = FALSE
    /\ todo = {}
    /\ action = [c \in Candidate |-> "abstain"]
    /\ blockers = [c \in Candidate |-> features[c].blockers]
    /\ winners = [p \in Pass |-> {}]

(* Mistake: the second pass works on the candidates of the first.          *)
CopiedBlockers_Shared == blockers

(* The blockers a pass starts from: a fresh copy of the scored candidates' *)
CopiedBlockers == [c \in Candidate |-> features[c].blockers]

(* Copy the base candidates, set the initial actions and start the loop.   *)
Begin ==
    /\ pass \in Pass
    /\ ~running
    /\ running' = TRUE
    /\ blockers' = CopiedBlockers
    /\ action' = [c \in Candidate |-> InitialAction(c, thresholds[pass], CopiedBlockers[c])]
    /\ todo' = {c \in Candidate : action'[c] = "apply"}
    /\ UNCHANGED <<features, thresholds, request, pass, winners>>

(* c is the next candidate of the loop.                                    *)
Visit(c) ==
    /\ pass \in Pass
    /\ running
    /\ c \in todo
    /\ \A o \in todo \ {c} : ~Precedes(o, c)
    /\ todo' = todo \ {c}
    /\ UNCHANGED <<features, thresholds, request, pass, running>>

LoseMargin(c) ==
    /\ Visit(c)
    /\ Ambiguous(c, thresholds[pass])
    /\ action' = [action EXCEPT ![c] = "suggest"]
    /\ blockers' = [blockers EXCEPT ![c] = @ \cup {"INSUFFICIENT_WINNER_MARGIN"}]
    /\ UNCHANGED winners

LoseSpan(c) ==
    /\ Visit(c)
    /\ ~Ambiguous(c, thresholds[pass])
    /\ Occupied(c)
    /\ action' = [action EXCEPT ![c] = "abstain"]
    /\ blockers' = [blockers EXCEPT ![c] = @ \cup {"OVERLAPPING_WINNER"}]
    /\ UNCHANGED winners

Win(c) ==
    /\ Visit(c)
    /\ ~Ambiguous(c, thresholds[pass])
    /\ ~Occupied(c)
    /\ winners' = [winners EXCEPT ![pass] = @ \cup {c}]
    /\ UNCHANGED <<action, blockers>>

(* The loop is exhausted: infer goes on to the shadow pass, if requested.  *)
End ==
    /\ pass \in Pass
    /\ running
    /\ todo = {}
    /\ running' = FALSE
    /\ pass' = IF pass = "active" /\ request # Unset THEN "shadow" ELSE "done"
    /\ UNCHANGED <<features, thresholds, request, todo, action, blockers, winners>>

Next ==
    \/ Begin
    \/ \E c \in Candidate : LoseMargin(c)
    \/ \E c \in Candidate : LoseSpan(c)
    \/ \E c \in Candidate : Win(c)
    \/ End

Spec == Init /\ [][Next]_vars

-----------------------------------------------------------------------------
TypeOK ==
    /\ features \in [Candidate -> Feature]
    /\ thresholds \in [Pass -> Thresholds]
    /\ request \in ShadowRequest \cup {Unset}
    /\ pass \in Pass \cup {"done"}
    /\ running \in BOOLEAN
    /\ todo \in SUBSET Candidate
    /\ action \in [Candidate -> Action]
    /\ blockers \in [Candidate -> SUBSET Blocker]
    /\ winners \in [Pass -> SUBSET Candidate]

(* Passes whose loop has run to its end.                                   *)
Finished(p) ==
    \/ pass = "done" /\ (p = "shadow" => request # Unset)
    \/ pass = "shadow" /\ p = "active"

(* The candidates that survive the blockers, the threshold and the margin  *)
(* test on their own, judged from what scoring produced.                   *)
Eligible(p) ==
    {c \in Candidate : /\ features[c].blockers = {}
                       /\ features[c].score >= thresholds[p].apply
                       /\ ~Ambiguous(c, thresholds[p])}

(* No pass ever edits overlapping text, and every edit it makes is         *)
(* unblocked and above that pass's own apply threshold ("Eligibility       *)
(* blockers remain authoritative"): _render_winners splices the winners    *)
(* into the text and relies on both.                                       *)
WinnersSound ==
    \A p \in Pass :
        /\ winners[p] \subseteq Eligible(p)
        /\ \A a, b \in winners[p] : a # b => ~Overlaps(a, b)

(* Under the active policy processing order never decides: the winners are *)
(* exactly the candidates that are eligible on their own, so neither the   *)
(* sort nor the occupied-span check can change the returned transcript.    *)
ActiveOrderFree == Finished("active") => winners["active"] = Eligible("active")

(* A finished pass has selected the one set a reader would compute from    *)
(* the scored candidates alone: eligible candidates that no earlier winner *)
(* overlaps.  In particular the shadow pass sees nothing of the blockers   *)
(* and actions the active pass left behind.                                *)
SelectionIsKernel ==
    \A p \in Pass : Finished(p) =>
        winners[p] = {c \in Eligible(p) :
                        ~\E w \in winners[p] : Precedes(w, c) /\ Overlaps(w, c)}

(* Whenever two overlapping candidates both clear the apply threshold and  *)
(* neither has the conflict advantage, the active pass applies neither:    *)
(* "Otherwise every competing edit remains a suggestion".                  *)
CompetitorsStaySuggestions ==
    Finished("active") =>
        \A a, b \in Candidate :
            /\ a # b
            /\ Overlaps(a, b)
            /\ features[a].score >= Active.apply
            /\ features[b].score >= Active.apply
            /\ ~ContextWins(a)
            /\ ~ContextWins(b)
            => {a, b} \cap winners["active"] = {}
=============================================================================
