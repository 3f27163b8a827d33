----------------------------- MODULE MCEvaluation -----------------------------
(***************************************************************************)
(* Two processes, two sealable datasets and one each that is empty or in   *)
(* the tree, two output directories in the repository and one outside.     *)
(*                                                                         *)
(* The policy that is evaluated comes from a corpus of four rows and a    *)
(* safety corpus of two, one of which the best threshold would get wrong.  *)
(***************************************************************************)
EXTENDS HoldoutGuard, Calibration, TLC

CONSTANTS c1, c2, sealed1, sealed2, empty, tracked, out1, out2, outside

Symmetry == Permutations({c1, c2}) \cup Permutations({sealed1, sealed2})
            \cup Permutations({out1, out2})

MCCurve(transform, positive) == positive

(* A global candidate for the first word, of the given score.              *)
MCCandidate(score, start) ==
    [start |-> start, end |-> start + 1, name |-> start, output |-> <<"Aaditya">>,
     score |-> score, blockers |-> {},
     signals |->
        [scope |-> "global", positive |-> 0, negative |-> 0, phonetic |-> 0, confidence |-> 0,
         learned |-> 0, authorized |-> 1000, lexical |-> (100 * score - 24000) \div 72 + 1]]

(* The engine applied what scored 900.                                     *)
MCRow(score, expected) ==
    [text |-> <<"aditya", "called">>, candidates |-> {MCCandidate(score, 0)},
     trace |-> <<MCCandidate(score, 0)>>,
     expected_output |-> <<expected, "called">>,
     expected_action |-> IF expected = "aditya" THEN "abstain" ELSE "apply",
     engine_output |-> <<IF score >= 900 THEN "Aaditya" ELSE "aditya", "called">>,
     engine_action |-> IF score >= 900 THEN "apply" ELSE "suggest"]

(* A blocked candidate for the second word, nearly as good: with less      *)
(* weight on the lexical signal it comes first.                            *)
MCRival ==
    LET c == MCCandidate(909, 1) IN
    [c EXCEPT !.blockers = {"ELIGIBILITY"},
              !.signals = [@ EXCEPT !.scope = "contextual", !.positive = 930, !.phonetic = 1000,
                                    !.lexical = 800]]

MCRivalled ==
    [MCRow(915, "Aaditya") EXCEPT !.candidates = @ \cup {MCRival}, !.trace = Append(@, MCRival)]

MCCorpus ==
    <<MCRow(915, "Aaditya"), MCRow(940, "Aaditya"), MCRow(870, "aditya"), MCRivalled>>
MCSafety == <<MCRow(920, "aditya"), MCRow(935, "Aaditya")>>
MCRows == {MCCorpus[i] : i \in DOMAIN MCCorpus} \cup {MCSafety[i] : i \in DOMAIN MCSafety}

MCBaseline ==
    [transform |-> "legacy_power_035", lexical |-> 72, authorization |-> 14, context |-> 10,
     phonetic |-> 10, alternative |-> 10, learned |-> 9, negative |-> 65,
     apply |-> 900, suggest |-> 720]

MCConfigurations ==
    <<MCBaseline, [MCBaseline EXCEPT !.lexical = 65, !.apply = 850], [MCBaseline EXCEPT !.apply = 850],
      [MCBaseline EXCEPT !.apply = 860, !.transform = "linear"]>>

MCRank(config) == CHOOSE n \in DOMAIN MCConfigurations : MCConfigurations[n] = config

ASSUME Reproduced /\ SelectedIsBest /\ GateAgrees
=============================================================================
