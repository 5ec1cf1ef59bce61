----------------------------- MODULE MCImports ------------------------------
(* The instances of Imports for TLC.                                           *)
EXTENDS Imports, TLC

CONSTANTS a1, x1, x2, s1, s2, k1, n1, n2, n3, g1, g2

Row(name, sku, value) ==
  [category |-> k1, name |-> name, brand |-> None, sku |-> sku,
   values |-> [a \in Attribute |-> IF a = a1 THEN value ELSE None], sound |-> TRUE]

\* Two variants of a product, before a row that is wrong; two products whose names slugify
\* alike; a row, one of another product, and one that has the combination of the first and
\* the SKU of the second.
Files == {<<Row(n1, s1, x1), Row(n1, s2, x2), [Row(n2, s1, x1) EXCEPT !.sound = FALSE]>>,
          <<Row(n1, s1, x1), Row(n3, s2, x1)>>,
          <<Row(n1, s1, x1), Row(n2, s2, x1), Row(n1, s2, x1)>>}

Lower == [n \in Name |-> n]
Slugs == [n \in Name |-> IF n = n2 THEN g2 ELSE g1]

\* Two commits at once, or an import and a call of the catalogue, without what imports do
\* not look at: two calls, options, optional attributes, the status and updates of a product's
\* values are in Catalog.
Apart ==
  /\ Cardinality({e \in Editor : ~At(e, "idle")}) <= 1
  /\ \A e \in Editor : ~At(e, "replaceValues")
  /\ raced = {}
  /\ options[a1] = {}
  /\ links[k1][a1] # "optional"
  /\ \A p \in Product : ~products[p].published

\* One upload for the one batch.
OneUpload ==
  \A e, d \in Editor : Doing(e, "preview") =>
    /\ \A b \in Batch : batches[b] = NoBatch
    /\ Doing(d, "preview") => d = e

\* Staff has the first name, SKU and value in hand; a product's slug is that of its name.
StaffBound ==
  /\ \A e \in Editor : /\ staff[e].sku # s2 /\ staff[e].values[a1] # x2
                        /\ staff[e].row.name \notin {n2, n3} /\ staff[e].row.values[a1] # x2
                        /\ staff[e].row.slug # g2
  /\ \A p \in Product : Listed(p) => products[p].slug = SlugOf[products[p].name]

\* Once the links that were relied on have changed, staff only deletes.
ThenDeletes ==
  \A e \in Editor : ruled[k1] = "changed" => staff[e].at \in {"idle", "deleteProduct", "deleteVariant"}

ImportsBound == Apart /\ OneUpload /\ StaffBound /\ ThenDeletes

ImportsSymmetry == Permutations(Product) \cup Permutations(Variant) \cup Permutations(Editor)
=============================================================================
