------------------------------- MODULE MCLocal -------------------------------
(***************************************************************************)
(* Two processes, four commands, an airdrop of two rows: what overlapping,  *)
(* repeated and interrupted commands leave on the ledger and in state.json. *)
(***************************************************************************)
EXTENDS LocalSubmission, TLC

CONSTANTS A, B, dist, rec, new1, new2, ann, bob, p1, p2

MC_AirdropIds == {A, B}
MC_Addresses == {ann, bob}
MC_Salts == {"s1", "s2", "s3"}
MC_Wallets == {dist, rec, new1, new2}
MC_Processes == {p1, p2}
ProcessSymmetry == Permutations(MC_Processes)

MC_Args(rows) ==
    [merkle_root |-> rows, tree_depth |-> 20, bucket_table |-> <<1>>, image_id |-> "claim",
     expiry_unix |-> 1, recovery_address |-> rec, now_unix |-> 0]

MC_LocalArgs ==
    A :> MC_Args({[address |-> ann, bucket_id |-> 0, salt |-> "s1"],
                  [address |-> bob, bucket_id |-> 0, salt |-> "s2"]}) @@
    B :> MC_Args({[address |-> ann, bucket_id |-> 0, salt |-> "s3"]})

MC_InitArgs == {MC_LocalArgs[id] : id \in MC_AirdropIds}

MC_Signatures == {<<ann, A, new1>>, <<bob, A, new2>>, <<ann, B, new2>>}

MC_InitialWallet ==
    dist :> [owner |-> "transfer", balance |-> 3] @@
    rec :> [owner |-> "transfer", balance |-> 0] @@
    new1 :> [owner |-> "default", balance |-> 0] @@
    new2 :> [owner |-> "default", balance |-> 0]

=============================================================================
