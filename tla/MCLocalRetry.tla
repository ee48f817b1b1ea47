----------------------------- MODULE MCLocalRetry ----------------------------
(***************************************************************************)
(* One command at a time, more of them: repeated fundings and claims, some  *)
(* interrupted, whose transactions may still be included later; close edits *)
(* the file only.                                                          *)
(***************************************************************************)
EXTENDS MCLocal

MC_OneProcess == {p1}

\* As many coins as fit into U64Max, so that the last total is reached.
MC_TwoCoins == [MC_InitialWallet EXCEPT ![dist].balance = 2]

=============================================================================
