--------------------------- MODULE MCArbitration ---------------------------
(* Instances of Arbitration for TLC: grades are hundredths, thresholds are *)
(* those of policy.toml.                                                   *)
EXTENDS Arbitration, TLC

Symmetry == Permutations(Candidate)

MCActive == [apply |-> 90, suggest |-> 72, margin |-> 12]

(* Two adjacent spans and the one that covers both.                        *)
Spans == {<<0, 1>>, <<1, 2>>, <<0, 2>>}

(* Scores at 1.0, at the apply threshold and far below it; contexts with   *)
(* no evidence, at the conflict floor, and strong but contradicted; and    *)
(* blocked candidates that would otherwise win.                            *)
MCFeature ==
    {[start |-> sp[1], end |-> sp[2], score |-> sc, pos |-> ctx[1], neg |-> ctx[2],
      name |-> nm, blockers |-> {}] :
        sp \in Spans, sc \in {100, 90, 80},
        ctx \in {<<0, 0>>, <<20, 0>>, <<40, 5>>}, nm \in {1, 2}}
    \cup
    {[start |-> sp[1], end |-> sp[2], score |-> 100, pos |-> 40, neg |-> 0,
      name |-> 3, blockers |-> {bl}] :
        sp \in {<<0, 1>>, <<0, 2>>}, bl \in {"ELIGIBILITY", "NEGATIVE_CONTEXT_EVIDENCE"}}

MCShadowRequest ==
    {[apply |-> 80, suggest |-> 70, margin |-> m] : m \in {0, 5, Unset}}
    \cup {[apply |-> 60, suggest |-> Unset, margin |-> Unset],
          [apply |-> 80, suggest |-> 90, margin |-> Unset]}
=============================================================================
