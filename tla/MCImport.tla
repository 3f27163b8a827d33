------------------------------ MODULE MCImport ------------------------------
(***************************************************************************)
(* A small instance of PortableImport for TLC: two requests, two entries,  *)
(* and bundles with a repeated canonical form and with a repeated variant. *)
(***************************************************************************)
EXTENDS PortableImport, TLC

CONSTANTS f1, f2, f3

Item1 == [canonical |-> f1, variants |-> <<f3, f2>>, scope |-> "global", state |-> "suppressed"]

Item2 == [canonical |-> f2, variants |-> <<f3>>, scope |-> "contextual", state |-> "confirmed"]

(* The same memory once more, and a variant in two spellings.              *)
Repeated == [canonical |-> f1, variants |-> <<f3>>, scope |-> "contextual", state |-> "candidate"]

TwoSpellings == [canonical |-> f2, variants |-> <<f3, f3>>, scope |-> "global", state |-> "candidate"]

SmallBundles == {<<Item1, Item2>>, <<Item1, Repeated>>, <<Item1, TwoSpellings>>}

SmallEdits ==
    {[canonical |-> NoForm, state |-> "suppressed", scope |-> Keep, manual |-> FALSE],
     [canonical |-> f3, state |-> Keep, scope |-> Keep, manual |-> FALSE]}

Starts == {1}
=============================================================================
