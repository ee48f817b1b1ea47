--------------------------- MODULE MCEligibility ----------------------------
(***************************************************************************)
(* Two claim keys P and Q, the negative N of P, three decoys of which one    *)
(* can be encrypted to, a tree with four leaves.                             *)
(***************************************************************************)
EXTENDS Eligibility, TLC

CONSTANTS P, Q, N, D1, D2, D3, dest

MC_Addresses == {P, Q, N, D1, D2, D3}
MC_x25519 == (P :> "p") @@ (N :> "p") @@ (Q :> "q") @@ (D1 :> "d")
MC_Decoys == <<D1, D2, D3>>
Line(address, raw_amount) == [address |-> address, raw_amount |-> raw_amount]
MC_Lines == {Line(P, 1), Line(Q, 1), Line(Q, 2), Line(N, 1), Line(Q, 0)}
=============================================================================
