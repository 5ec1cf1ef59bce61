------------------------------ MODULE MCMedia -------------------------------
(* An instance of Media for TLC.                                               *)
EXTENDS Media, TLC

MediaSymmetry == Permutations(Entity) \cup Permutations(Key) \cup Permutations(Medium)
                   \cup Permutations(Editor)
=============================================================================
