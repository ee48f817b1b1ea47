----------------------------- MODULE MCBasecamp ------------------------------
(***************************************************************************)
(* One or two distributions, listed or created by init, one or two keys.     *)
(***************************************************************************)
EXTENDS BasecampUi

CONSTANTS A, B, a, b, w1, w2

MC_OneListed == [name \in Names |-> IF name = a THEN A ELSE Nothing]
MC_TwoListed == [name \in Names |-> IF name = a THEN A ELSE B]

\* One import of another key.
MC_KeyChanges == {<<w1, w2>>}
=============================================================================
