----------------------------- MODULE MCSessions -----------------------------
(* An instance of Sessions for TLC.                                            *)
EXTENDS Sessions, TLC

SessionsSymmetry == Permutations(User) \cup Permutations(Token) \cup Permutations(Call)
=============================================================================
