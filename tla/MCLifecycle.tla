---------------------------- MODULE MCLifecycle ----------------------------
(***************************************************************************)
(* Small instances of MemoryLifecycle for TLC.  The trust policy is the    *)
(* one shipped in policy.toml; every cfg chooses the requests of its run.  *)
(***************************************************************************)
EXTENDS MemoryLifecycle, TLC

CONSTANTS m1, m2, d1, d2, f1, f2, f3, e1, e2, c1, c2

NoVariants == {{}}
OneVariant == {{f2}}
Sharing == {{f2}, {f3}}

NoChanges == {}
AnyChange == [canonical : {NoForm}, state : State \cup {Keep}, scope : {Keep}, manual : BOOLEAN]
StateChanges == [canonical : {NoForm}, state : State, scope : {Keep}, manual : {FALSE}]
ScopeChanges == [canonical : {NoForm}, state : {Keep}, scope : Scope, manual : {FALSE}]
Renames == [canonical : Form, state : {Keep}, scope : {Keep}, manual : {FALSE}]
ManualRenames == [canonical : Form, state : {Keep}, scope : {Keep}, manual : {TRUE}]

NoBundle == {}
OneItem == {[event |-> e1, canonical |-> f1, variants |-> {f2}, scope |-> "global",
             state |-> "suppressed"]}

Starts == 1 .. 2
OneStart == {1}

ContextSymmetry == Permutations(Context)
StoreSymmetry == Permutations(MemoryId) \cup Permutations(Context)

(* Two mixes of requests: memories are taught, corrected, renamed and      *)
(* imported with client event ids, or taught and judged.  The two together *)
(* are out of TLC's reach; both merge and delete.                          *)
Undecided == \A d \in DecisionId : decisions[d].status = "unused"

OnlyJudged ==
    \A m \in MemoryId : \A i \in DOMAIN memories[m].observations :
       LET o == memories[m].observations[i]
       IN  o.kind \in {"explicit_teach", "intervention_feedback"} /\ o.event[1] # "client"

OneMix == Undecided \/ OnlyJudged
=============================================================================
