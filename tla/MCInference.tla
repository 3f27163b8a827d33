---------------------------- MODULE MCInference ----------------------------
(***************************************************************************)
(* Two memories whose forms compete: "aditya" for Aaditya and "adithya"    *)
(* for Adithya Rao, in a handful of transcripts.  Similarities, phonetic   *)
(* keys and embeddings are tables; the policy is that of policy.toml.      *)
(***************************************************************************)
EXTENDS Inference

aditya == <<"aditya">>
adithya == <<"adithya">>
hall == <<"aditya", " ", "hall">>

MCLength(s) ==
    CASE s \in {"aditya", "aaditya"} -> 6 [] s = "adithya" -> 7 [] s \in {"rao", "met"} -> 3
      [] OTHER -> 5

MCSimilarity(a, b) ==
    CASE a = b -> 1000
      [] {a, b} = {aditya, adithya} -> 923
      [] {a, b} = {<<"adithyaa">>, adithya} -> 933
      [] {a, b} = {<<"aditha">>, aditya} -> 833
      [] {a, b} = {<<"aditha">>, adithya} -> 923
      [] OTHER -> 300

MCSounds(form) ==
    CASE form = aditya -> "ATTY" [] form \in {adithya, <<"adithyaa">>} -> "AT0Y"
      [] form = <<"aditha">> -> "AT0" [] form = hall -> "ATTYHL" [] OTHER -> "OTHER"

(* The embeddings of two different contexts: close when they share a word. *)
MCResemblance(a, b) ==
    IF a = b THEN 1000
    ELSE IF (Range(a) \cap Range(b)) \ {"[TERM]", " "} # {} THEN 800 ELSE 650

(* min(1, 1.2 * p ** 0.35), a value for each stretch.                      *)
MCPower(p) ==
    CASE p >= 594 -> 1000 [] p >= 500 -> 941 [] p >= 400 -> 871 [] p >= 300 -> 787
      [] p >= 200 -> 683 [] p >= 150 -> 618 [] p > 0 -> 400 [] OTHER -> 0

message == <<"message", " ", "aditya", " ", "today">>
paint == <<"paint", " ", "aditya", " ", "hall">>
meet == <<"aditya", " ", "met", " ", "adithya">>
garbled == <<"message", " ", "aditha", " ", "today">>

Voice == [model |-> "voice", rank |-> 1]
Second == [model |-> "voice", rank |-> 2]
MCAsr == {Voice, Second}

Seen(polarity, text, embedded) ==
    [polarity |-> polarity, text |-> text, span |-> <<2, 3>>, embedded |-> embedded]

Outcomes(n, asr, source, target) ==
    [i \in 1 .. n |-> [asr |-> asr, source |-> source, target |-> target, accepted |-> TRUE]]

Record(name, canonical, variants, state, scope, evidence, outcomes) ==
    [name |-> name, canonical |-> canonical, variants |-> variants, state |-> state,
     scope |-> scope, evidence |-> evidence, outcomes |-> outcomes]

Aaditya ==
    {Record(1, <<"aaditya">>, variants, "confirmed", scope, evidence, <<>>) :
        variants \in {{aditya}, {aditya, hall}}, scope \in {"global", "contextual"},
        evidence \in {<<Seen("positive", message, TRUE)>>,
                      <<Seen("positive", paint, FALSE), Seen("negative", message, FALSE)>>}}

(* Its embeddings are as many as the cap allows, for and against: one text *)
(* was rejected often, and its context embedded once.                      *)
AadityaFull ==
    Record(1, <<"aaditya">>, {aditya}, "confirmed", "global",
           <<Seen("positive", message, TRUE)>>
               \o [i \in 1 .. 9 |-> Seen("negative", paint, i = 1)], <<>>)

Rao == <<"adithya", " ", "rao">>

AdithyaRao ==
    {Record(2, Rao, {adithya}, "confirmed", "global", <<>>, <<>>),
     Record(2, Rao, {adithya}, "candidate", "global", <<>>, Outcomes(2, Voice, aditya, Rao)),
     Record(2, Rao, {adithya, aditya}, "confirmed", "contextual",
            <<Seen("positive", paint, TRUE)>>, Outcomes(3, Second, aditya, Rao)),
     Record(2, Rao, {adithya, aditya}, "suppressed", "global", <<>>, <<>>)}

MCStore ==
    {<<a, r>> : a \in Aaditya, r \in AdithyaRao}
    \cup {<<AadityaFull, r>> : r \in {a \in AdithyaRao : a.state # "confirmed"}}

Plain(text, asr, shadow) ==
    [text |-> text, alternatives |-> <<>>, asr |-> asr, shadow |-> shadow, encoder |-> TRUE]

Alternative(text, rank, confidence) == [text |-> text, asr |-> rank, confidence |-> confidence]

MCCurve(transform, positive) == MCPower(positive)

Looser == [apply |-> 800, suggest |-> Unset, margin |-> 0]
Lower == [apply |-> 800, suggest |-> Unset, margin |-> Unset]
Higher == [apply |-> 960, suggest |-> Unset, margin |-> Unset]

MCBody ==
    {Plain(message, NoAsr, shadow) : shadow \in {Looser, Higher}}
    \cup {Plain(paint, Voice, Lower), Plain(meet, NoAsr, Looser), Plain(meet, NoAsr, Higher),
     [Plain(garbled, NoAsr, Unset) EXCEPT !.alternatives =
        <<Alternative(message, Voice, 950), Alternative(message, Second, 700)>>]}

MCShadowRequest == {Looser, Lower, Higher}
MCActive == [apply |-> 900, suggest |-> 720, margin |-> 120]
=============================================================================
