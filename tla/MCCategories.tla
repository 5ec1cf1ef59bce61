---------------------------- MODULE MCCategories ----------------------------
(* An instance of Categories for TLC.                                          *)
EXTENDS Categories, TLC

CategoriesSymmetry == Permutations(Category) \cup Permutations(Editor)
=============================================================================
