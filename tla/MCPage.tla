------------------------------- MODULE MCPage -------------------------------
(***************************************************************************)
(* The page with two memories, for TLC.                                    *)
(***************************************************************************)
EXTENDS WebClient, TLC

CONSTANTS m1, m2
=============================================================================
