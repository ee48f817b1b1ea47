----------------------------- MODULE MCProgram ------------------------------
(***************************************************************************)
(* One airdrop, in detail: two salts shared by three rows (two rows collide *)
(* on a salt), a bucket outside the table, every kind of init argument.    *)
(***************************************************************************)
EXTENDS DistributionXProgram, TLC

CONSTANTS A, dist, rec, new1, ann, bob

MC_AirdropIds == {A}
MC_Addresses == {ann, bob}
MC_Salts == {"s1", "s2"}
MC_Wallets == {dist, rec, new1}

MC_Row(a, b, s) == [address |-> a, bucket_id |-> b, salt |-> s]

MC_Tree == {MC_Row(ann, 0, "s1"), MC_Row(bob, 1, "s2")}
MC_OddTree == {MC_Row(ann, 0, "s1"), MC_Row(bob, 1, "s1"), MC_Row(bob, 7, "s2")}

MC_Args(root, depth, table, image, expiry, recovery) ==
    [merkle_root |-> root, tree_depth |-> depth, bucket_table |-> table,
     image_id |-> image, expiry_unix |-> expiry, recovery_address |-> recovery,
     now_unix |-> 0]

\* Valid: ordinary, colliding salts, recovery on the distributor, recovery on
\* an account nobody initialised, expiry beyond u64 milliseconds.  Invalid:
\* depth, table, amount, image, expiry.
MC_InitArgs ==
    {MC_Args(MC_Tree, 20, <<1, 2>>, "claim", 1, rec),
     MC_Args(MC_OddTree, 20, <<1, 2>>, "claim", 1, rec),
     MC_Args(MC_Tree, 20, <<1, 2>>, "claim", 1, dist),
     MC_Args(MC_Tree, 20, <<1>>, "claim", 1, new1),
     MC_Args(MC_Tree, 20, <<1, 2>>, "claim", 2, rec),
     MC_Args(MC_Tree, 19, <<1, 2>>, "claim", 1, rec),
     MC_Args(MC_Tree, 20, <<>>, "claim", 1, rec),
     MC_Args(MC_Tree, 20, <<0, 2>>, "claim", 1, rec),
     MC_Args(MC_Tree, 20, <<1, 2>>, "other", 1, rec),
     MC_Args(MC_Tree, 20, <<1, 2>>, "claim", 0, rec)}

MC_Signatures ==
    {<<ann, A, new1>>, <<ann, A, rec>>, <<bob, A, new1>>, <<bob, A, ZeroCommitment>>}

MC_InitialWallet ==
    dist :> [owner |-> "transfer", balance |-> 4] @@
    rec :> [owner |-> "transfer", balance |-> 0] @@
    new1 :> [owner |-> "default", balance |-> 0]

=============================================================================
