--------------------------- MODULE MCTwoAirdrops ----------------------------
(***************************************************************************)
(* Two airdrops of one distributor over the same allowlist and salts, with *)
(* a shared recovery account: what a claim in one does to the other.  bob  *)
(* signed for airdrop A only, ann for both.                                *)
(***************************************************************************)
EXTENDS DistributionXProgram, TLC

CONSTANTS A, B, dist, rec, new1, ann, bob

MC_AirdropIds == {A, B}
MC_Addresses == {ann, bob}
MC_Salts == {"s1", "s2"}
MC_Wallets == {dist, rec, new1}

MC_InitArgs ==
    {[merkle_root |-> {[address |-> ann, bucket_id |-> 0, salt |-> "s1"],
                       [address |-> bob, bucket_id |-> 0, salt |-> "s2"]},
      tree_depth |-> 20, bucket_table |-> <<1>>, image_id |-> "claim",
      expiry_unix |-> 1, recovery_address |-> rec, now_unix |-> 0]}

MC_Signatures == {<<ann, A, new1>>, <<ann, B, rec>>, <<bob, A, rec>>}

MC_InitialWallet ==
    dist :> [owner |-> "transfer", balance |-> 3] @@
    rec :> [owner |-> "transfer", balance |-> 0] @@
    new1 :> [owner |-> "default", balance |-> 0]

=============================================================================
