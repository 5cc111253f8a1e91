------------------------------ MODULE MCStaleness ------------------------------
(***************************************************************************)
(* One unit file with a few contents, in one of two quadlets.              *)
(***************************************************************************)
EXTENDS Status, FiniteSets, TLC

CONSTANTS app, a, b, q1, q2

Permutable == Permutations({a, b}) \cup Permutations({q1, q2})
=============================================================================
