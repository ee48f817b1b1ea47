------------------------------- MODULE MCCli --------------------------------
(***************************************************************************)
(* Three airdrop names, "team a", "team_a" and "club", the first two of      *)
(* which sanitise to one file name, and three airdrop ids.                   *)
(***************************************************************************)
EXTENDS CliState, TLC

CONSTANTS A, B, C, p1, p2, spaced, underscored, club, team_file, club_file

MC_Ids == {A, B}
MC_MoreIds == {A, B, C}
MC_Names == {spaced, club}
MC_SharingNames == {spaced, underscored, club}
MC_safe_path_component == [name \in Names |-> IF name = club THEN club_file ELSE team_file]

Symmetry == Permutations(Ids) \cup Permutations(Processes)

\* Two names with a file each are interchangeable together with their files.
OtherName ==
    (spaced :> club) @@ (club :> spaced) @@ (team_file :> club_file) @@ (club_file :> team_file)
MoreSymmetry == Symmetry \cup {OtherName}
=============================================================================
