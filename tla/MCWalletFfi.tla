---------------------------- MODULE MCWalletFfi -----------------------------
(***************************************************************************)
(* Two threads and two wallet directories, each with the key of one account. *)
(***************************************************************************)
EXTENDS WalletFfi, TLC

CONSTANTS t1, t2, h1, h2, a1, a2

MC_signing_keys == (h1 :> {a1}) @@ (h2 :> {a2})
=============================================================================
