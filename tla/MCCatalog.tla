----------------------------- MODULE MCCatalog ------------------------------
(* The instance of Catalog for TLC.                                            *)
EXTENDS Catalog, TLC

\* A brand and the attributes of a category meet in no guard: there is a brand, or has
\* been one that somebody counted the products of, only while there are no attributes.
CatalogBound ==
  \/ attributes = {}
  \/ /\ (brands \cup raced) \cap Brand = {}
     /\ \A e \in Editor : staff[e].row.brand = None

CatalogSymmetry == Permutations(Product) \cup Permutations(Variant) \cup Permutations(Sku)
                     \cup Permutations(Value) \cup Permutations(Editor)
=============================================================================
