--------------------------- MODULE Catalog_proofs ---------------------------
(* Machine-checked proofs about Catalog and Imports, for every value of their  *)
(* constants.                                                                  *)
EXTENDS Imports, WellFoundedInduction, TLAPS

USE CatalogAssumption

\* A row without attribute values, and a call at nothing, are well formed.
LEMMA EmptyType ==
  /\ NoValues \in Values
  /\ NoProduct \in ProductRow
  /\ NoVariant \in VariantRow
  /\ Idle \in StaffCall
<1>1. NoValues \in Values
  BY DEF NoValues, Values
<1>2. NoProduct \in ProductRow /\ NoVariant \in VariantRow
  BY <1>1 DEF NoProduct, ProductRow, NoVariant, VariantRow
<1> QED
  BY <1>1, <1>2 DEF Idle, StaffCall

\* The values an update leaves behind, from well-formed ones.
LEMMA ReplacedType ==
  ASSUME NEW old \in Values, NEW call \in StaffCall
  PROVE  Replaced(old, call) \in Values
BY DEF Replaced, Values, StaffCall

\* Every step of the catalogue keeps the types.
LEMMA RowsTypeStep ==
  RowsTypeOK /\ [CatalogNext]_catalogVars => RowsTypeOK'
<1> SUFFICES ASSUME RowsTypeOK, [CatalogNext]_catalogVars
             PROVE  RowsTypeOK'
  OBVIOUS
<1> USE EmptyType DEF RowsTypeOK, Role
<1>1. ASSUME NEW a \in Attribute, CreateAttribute(a)
      PROVE  RowsTypeOK'
  BY <1>1 DEF CreateAttribute
<1>2. ASSUME NEW a \in Attribute, NEW v \in Value, AddOption(a, v) \/ RemoveOption(a, v)
      PROVE  RowsTypeOK'
  BY <1>2 DEF AddOption, RemoveOption
<1>3. ASSUME NEW a \in Attribute, NEW k \in Category, NEW role \in Role, LinkToCategory(k, a, role)
      PROVE  RowsTypeOK'
  BY <1>3 DEF LinkToCategory, Relink
<1>4. ASSUME NEW a \in Attribute, NEW k \in Category, UnlinkFromCategory(k, a)
      PROVE  RowsTypeOK'
  BY <1>4 DEF UnlinkFromCategory, Relink
<1>5. ASSUME NEW b \in Brand, CreateBrand(b)
      PROVE  RowsTypeOK'
  BY <1>5 DEF CreateBrand
<1>6. ASSUME NEW p \in Product, NEW n \in Name, NEW s \in Slug, NEW b \in Brand \cup {None},
             NEW published \in BOOLEAN, UpdateProduct(p, n, s, b, published)
      PROVE  RowsTypeOK'
  <2>1. [products[p] EXCEPT !.name = n, !.slug = s, !.brand = b, !.published = published] \in ProductRow
    BY DEF ProductRow
  <2>2. products' \in [Product -> ProductRow]
    BY <1>6, <2>1 DEF UpdateProduct
  <2>3. raced' \subseteq Product \cup Attribute \cup Brand \cup {None}
    BY <1>6 DEF UpdateProduct
  <2> QED
    BY <1>6, <2>2, <2>3 DEF UpdateProduct
<1>7. ASSUME NEW e \in Editor, EditorStep(e)
      PROVE  RowsTypeOK'
  <2>1. ASSUME NEW a \in Attribute, RemoveAttributeRead(e, a)
        PROVE  RowsTypeOK'
    BY <1>7, <2>1 DEF RemoveAttributeRead, Start, rowVars, StaffCall, Idle
  <2>2. CASE RemoveAttributeWrite(e)
    BY <1>7, <2>2 DEF RemoveAttributeWrite, End
  <2>3. ASSUME NEW b \in Brand, RemoveBrandRead(e, b)
        PROVE  RowsTypeOK'
    BY <1>7, <2>3 DEF RemoveBrandRead, Start, rowVars, StaffCall, Idle
  <2>4. CASE RemoveBrandWrite(e)
    <3>1. ASSUME NEW p \in Product
          PROVE  [products[p] EXCEPT !.brand = None] \in ProductRow
      BY DEF ProductRow
    <3>2. products' \in [Product -> ProductRow]
      BY <2>4, <3>1 DEF RemoveBrandWrite
    <3> QED
      BY <1>7, <2>4, <3>2 DEF RemoveBrandWrite, End
  <2>5. ASSUME NEW row \in NewProducts, NEW s \in Sku \cup {None}, CreateProductRead(e, row, s)
        PROVE  RowsTypeOK'
    <3>1. [Idle EXCEPT !.at = "insertProduct", !.row = row, !.sku = s] \in StaffCall
      BY DEF StaffCall, Idle, NewProducts
    <3> QED
      BY <1>7, <2>5, <3>1 DEF CreateProductRead, Start, Use, rowVars
  <2>6. ASSUME NEW p \in Product, NEW x \in Variant, CreateProductWrite(e, p, x)
        PROVE  RowsTypeOK'
    <3>1. staff[e].row \in ProductRow /\ staff[e].sku \in Sku \cup {None}
      BY DEF StaffCall
    <3>2. products' \in [Product -> ProductRow]
      BY <2>6, <3>1 DEF CreateProductWrite
    <3>3. [product |-> p, sku |-> staff[e].sku, combination |-> NoValues] \in VariantRow
      BY <3>1 DEF VariantRow
    <3>4. variants' \in [Variant -> VariantRow]
      BY <2>6, <3>3 DEF CreateProductWrite
    <3>5. raced' \subseteq Product \cup Attribute \cup Brand \cup {None}
      BY <2>6, <3>1 DEF CreateProductWrite, ProductRow
    <3> QED
      BY <1>7, <2>6, <3>2, <3>4, <3>5 DEF CreateProductWrite, End
  <2>7. ASSUME NEW p \in Product, NEW values \in Values, ReplaceValuesDelete(e, p, values)
        PROVE  RowsTypeOK'
    <3>1. Given(products[p].values) \subseteq Attribute
      BY DEF Given
    <3>2. [Idle EXCEPT !.at = "replaceValues", !.product = p, !.values = values,
                       !.deleted = Given(products[p].values)] \in StaffCall
      BY <3>1 DEF StaffCall, Idle
    <3> QED
      BY <1>7, <2>7, <3>2 DEF ReplaceValuesDelete, Start, Use, rowVars
  <2>8. CASE ReplaceValuesInsert(e)
    <3> DEFINE p == staff[e].product
    <3>1. products' \in [Product -> ProductRow]
      <4>1. CASE p \in Product
        <5>1. Replaced(products[p].values, staff[e]) \in Values
          BY <4>1, ReplacedType DEF ProductRow
        <5>2. [products[p] EXCEPT !.values = Replaced(products[p].values, staff[e])] \in ProductRow
          BY <4>1, <5>1 DEF ProductRow
        <5> QED
          BY <2>8, <4>1, <5>2 DEF ReplaceValuesInsert
      <4>2. CASE p \notin Product
        BY <2>8, <4>2 DEF ReplaceValuesInsert
      <4> QED
        BY <4>1, <4>2
    <3>2. staff' \in [Editor -> StaffCall]
      <4>1. ASSUME NEW d \in Editor
            PROVE  [staff[d] EXCEPT !.deleted = @ \ staff[e].deleted] \in StaffCall
        BY DEF StaffCall
      <4> QED
        BY <2>8, <4>1 DEF ReplaceValuesInsert
    <3> QED
      BY <2>8, <3>1, <3>2 DEF ReplaceValuesInsert
  <2>9. ASSUME NEW p \in Product, RemoveProductRead(e, p)
        PROVE  RowsTypeOK'
    BY <1>7, <2>9 DEF RemoveProductRead, Start, rowVars, StaffCall, Idle
  <2>10. CASE RemoveProductWrite(e)
    BY <1>7, <2>10 DEF RemoveProductWrite, End
  <2>11. ASSUME NEW p \in Product, NEW s \in Sku, NEW values \in Values, CreateVariantRead(e, p, s, values)
         PROVE  RowsTypeOK'
    <3>1. [Idle EXCEPT !.at = "insertVariant", !.product = p, !.sku = s, !.values = values] \in StaffCall
      BY DEF StaffCall, Idle
    <3> QED
      BY <1>7, <2>11, <3>1 DEF CreateVariantRead, Start, Use, rowVars
  <2>12. ASSUME NEW x \in Variant, CreateVariantWrite(e, x)
         PROVE  RowsTypeOK'
    <3>1. [product |-> staff[e].product, sku |-> staff[e].sku,
           combination |-> staff[e].values] \in VariantRow
      BY DEF VariantRow, StaffCall
    <3>2. variants' \in [Variant -> VariantRow]
      BY <2>12, <3>1 DEF CreateVariantWrite
    <3> QED
      BY <1>7, <2>12, <3>2 DEF CreateVariantWrite, End
  <2>13. ASSUME NEW x \in Variant, RemoveVariantRead(e, x)
         PROVE  RowsTypeOK'
    <3>1. [Idle EXCEPT !.at = "deleteVariant", !.variant = x,
                       !.product = variants[x].product] \in StaffCall
      BY DEF StaffCall, Idle, VariantRow
    <3> QED
      BY <1>7, <2>13, <3>1 DEF RemoveVariantRead, Start, rowVars
  <2>14. CASE RemoveVariantWrite(e)
    <3>1. staff[e].product \in Product \cup {None}
      BY DEF StaffCall
    <3> QED
      BY <1>7, <2>14, <3>1 DEF RemoveVariantWrite, End
  <2>15. CASE Fail(e)
    BY <1>7, <2>15 DEF Fail, End, rowVars
  <2> QED
    BY <1>7, <2>1, <2>2, <2>3, <2>4, <2>5, <2>6, <2>7, <2>8, <2>9, <2>10, <2>11, <2>12,
       <2>13, <2>14, <2>15 DEF EditorStep
<1>8. CASE UNCHANGED catalogVars
  BY <1>8 DEF catalogVars, rowVars
<1> QED
  BY <1>1, <1>2, <1>3, <1>4, <1>5, <1>6, <1>7, <1>8
     DEF CatalogNext, SingleStep, AttributesNext

\* Of the steps of a call, these alone change a table.
LEMMA Writes ==
  ASSUME NEW e \in Editor, EditorStep(e)
  PROVE  \/ UNCHANGED rowVars
         \/ RemoveAttributeWrite(e) \/ RemoveBrandWrite(e) \/ ReplaceValuesInsert(e)
         \/ RemoveProductWrite(e) \/ RemoveVariantWrite(e)
         \/ \E p \in Product, x \in Variant : CreateProductWrite(e, p, x)
         \/ \E x \in Variant : CreateVariantWrite(e, x)
<1>1. ASSUME NEW a, RemoveAttributeRead(e, a) \/ RemoveBrandRead(e, a)
      PROVE  UNCHANGED rowVars
  BY <1>1 DEF RemoveAttributeRead, RemoveBrandRead, rowVars
<1>5. ASSUME NEW p, RemoveProductRead(e, p) \/ RemoveVariantRead(e, p)
      PROVE  UNCHANGED rowVars
  BY <1>5 DEF RemoveProductRead, RemoveVariantRead, rowVars
<1>6. ASSUME Fail(e)
      PROVE  UNCHANGED rowVars
  BY <1>6 DEF Fail, rowVars
<1>2. ASSUME NEW row, NEW s, CreateProductRead(e, row, s)
      PROVE  UNCHANGED rowVars
  BY <1>2 DEF CreateProductRead, rowVars
<1>3. ASSUME NEW p, NEW values, ReplaceValuesDelete(e, p, values)
      PROVE  UNCHANGED rowVars
  BY <1>3 DEF ReplaceValuesDelete, rowVars
<1>4. ASSUME NEW p, NEW s, NEW values, CreateVariantRead(e, p, s, values)
      PROVE  UNCHANGED rowVars
  BY <1>4 DEF CreateVariantRead, rowVars
<1> QED
  BY <1>1, <1>2, <1>3, <1>4, <1>5, <1>6 DEF EditorStep

\* What a step of the catalogue makes of the references.
LEMMA ReferencesStep ==
  ASSUME RowsTypeOK, ReferencesHold, [CatalogNext]_catalogVars
  PROVE  ReferencesHold'
<1>T. /\ attributes \subseteq Attribute /\ brands \subseteq Brand
      /\ options \in [Attribute -> SUBSET Value]
      /\ links \in [Category -> [Attribute -> Role]]
      /\ products \in [Product -> ProductRow]
      /\ variants \in [Variant -> VariantRow]
      /\ staff \in [Editor -> StaffCall]
  BY DEF RowsTypeOK
<1>E. Given(NoValues) = {}
  BY DEF Given, NoValues
<1>1. ASSUME AttributesNext \/ \E b \in Brand : CreateBrand(b)
      PROVE  ReferencesHold'
  <2>1. UNCHANGED <<products, variants>> /\ attributes \subseteq attributes' /\ brands \subseteq brands'
    BY <1>1 DEF AttributesNext, CreateAttribute, AddOption, RemoveOption, CreateBrand, LinkToCategory, UnlinkFromCategory
  <2>2. ASSUME NEW c \in Attribute \ attributes', NEW l \in Category
        PROVE  options'[c] = {} /\ links'[l][c] = "none"
    <3>1. c \notin attributes /\ options[c] = {} /\ links[l][c] = "none"
      BY <2>1, <2>2 DEF ReferencesHold
    <3>2. options'[c] = {}
      BY <1>T, <1>1, <3>1 DEF AttributesNext, CreateAttribute, AddOption, RemoveOption, CreateBrand,
         LinkToCategory, UnlinkFromCategory
    <3>3. links'[l][c] = "none"
      BY <1>T, <1>1, <3>1 DEF AttributesNext, CreateAttribute, AddOption, RemoveOption, CreateBrand,
         LinkToCategory, UnlinkFromCategory, Relink
    <3> QED
      BY <3>2, <3>3
  <2>3. ASSUME NEW c \in Attribute \ attributes'
        PROVE  options'[c] = {}
    <3>1. c \notin attributes /\ options[c] = {}
      BY <2>1, <2>3 DEF ReferencesHold
    <3> QED
      BY <1>T, <1>1, <3>1 DEF AttributesNext, CreateAttribute, AddOption, RemoveOption, CreateBrand,
         LinkToCategory, UnlinkFromCategory
  <2> QED
    BY <2>1, <2>2, <2>3 DEF ReferencesHold
<1>2. ASSUME NEW p \in Product, NEW n \in Name, NEW s \in Slug, NEW b \in Brand \cup {None},
             NEW published \in BOOLEAN, UpdateProduct(p, n, s, b, published)
      PROVE  ReferencesHold'
  <2>1. /\ products'[p].brand = b /\ products'[p].values = products[p].values
        /\ \A q \in Product \ {p} : products'[q] = products[q]
    BY <1>T, <1>2 DEF UpdateProduct, ProductRow
  <2>2. b \in brands \cup {None} /\ UNCHANGED <<attributes, options, links, brands, variants>>
    BY <1>2 DEF UpdateProduct
  <2> QED
    BY <2>1, <2>2 DEF ReferencesHold
<1>3. ASSUME NEW e \in Editor, RemoveAttributeWrite(e)
      PROVE  ReferencesHold'
  <2> DEFINE a == staff[e].attribute
  <2>1. /\ a \in attributes /\ ~InValues(a) /\ attributes' = attributes \ {a}
        /\ UNCHANGED <<brands, products, variants>>
    BY <1>3 DEF RemoveAttributeWrite
  <2>2. ASSUME NEW c \in Attribute \ attributes'
        PROVE  options'[c] = {} /\ \A k \in Category : links'[k][c] = "none"
    BY <1>T, <1>3, <2>1, <2>2 DEF RemoveAttributeWrite, ReferencesHold
  <2> QED
    BY <2>1, <2>2 DEF ReferencesHold, InValues
<1>4. ASSUME NEW e \in Editor, RemoveBrandWrite(e)
      PROVE  ReferencesHold'
  <2> DEFINE b == staff[e].brand
  <2>1. \A p \in Product : /\ products'[p].values = products[p].values
                           /\ products'[p].brand = IF products[p].brand = b THEN None ELSE products[p].brand
    BY <1>T, <1>4 DEF RemoveBrandWrite, ProductRow
  <2>2. brands' = brands \ {b} /\ UNCHANGED <<attributes, options, links, variants>>
    BY <1>4 DEF RemoveBrandWrite
  <2> QED
    BY <2>1, <2>2 DEF ReferencesHold
<1>5. ASSUME NEW e \in Editor, NEW p \in Product, NEW x \in Variant, CreateProductWrite(e, p, x)
      PROVE  ReferencesHold'
  <2>1. /\ products'[p] = staff[e].row /\ \A q \in Product \ {p} : products'[q] = products[q]
        /\ staff[e].row.brand \in brands \cup {None} /\ Given(staff[e].row.values) \subseteq attributes
        /\ UNCHANGED <<attributes, options, links, brands>>
    BY <1>T, <1>5 DEF CreateProductWrite
  <2>2. \A y \in Variant : variants'[y] = variants[y] \/ variants'[y].combination = NoValues
    BY <1>T, <1>5 DEF CreateProductWrite
  <2> QED
    BY <1>E, <2>1, <2>2 DEF ReferencesHold
<1>6. ASSUME NEW e \in Editor, ReplaceValuesInsert(e)
      PROVE  ReferencesHold'
  <2> DEFINE p == staff[e].product
  <2>1. /\ UNCHANGED <<attributes, options, links, brands, variants>>
        /\ Given(staff[e].values) \subseteq attributes
        /\ \A q \in Product : /\ products'[q].brand = products[q].brand
                              /\ products'[q].values \in
                                   {products[q].values, Replaced(products[q].values, staff[e])}
    BY <1>T, <1>6 DEF ReplaceValuesInsert, ProductRow
  <2>2. \A old : Given(Replaced(old, staff[e])) \subseteq Given(staff[e].values) \cup Given(old)
    BY DEF Given, Replaced
  <2> QED
    BY <2>1, <2>2 DEF ReferencesHold
<1>7. ASSUME NEW e \in Editor, RemoveProductWrite(e)
      PROVE  ReferencesHold'
  <2>1. /\ UNCHANGED <<attributes, options, links, brands>>
        /\ \A q \in Product : products'[q] \in {products[q], NoProduct}
        /\ \A x \in Variant : variants'[x] \in {variants[x], NoVariant}
    BY <1>T, <1>7 DEF RemoveProductWrite
  <2>2. /\ NoProduct.brand = None /\ NoProduct.values = NoValues
        /\ NoVariant.combination = NoValues
    BY DEF NoProduct, NoVariant
  <2> QED
    BY <1>E, <2>1, <2>2 DEF ReferencesHold
<1>8. ASSUME NEW e \in Editor, (\E x \in Variant : CreateVariantWrite(e, x)) \/ RemoveVariantWrite(e)
      PROVE  ReferencesHold'
  <2>1. /\ UNCHANGED <<attributes, options, links, brands, products>>
        /\ \A y \in Variant : \/ variants'[y] \in {variants[y], NoVariant}
                               \/ Given(variants'[y].combination) \subseteq attributes
    BY <1>T, <1>8 DEF CreateVariantWrite, RemoveVariantWrite
  <2>2. NoVariant.combination = NoValues
    BY DEF NoVariant
  <2> QED
    BY <1>E, <2>1, <2>2 DEF ReferencesHold
<1>9. ASSUME UNCHANGED rowVars
      PROVE  ReferencesHold'
  BY <1>9 DEF rowVars, ReferencesHold
<1>10. ASSUME NEW e \in Editor, EditorStep(e)
       PROVE  ReferencesHold'
  BY <1>3, <1>4, <1>5, <1>6, <1>7, <1>8, <1>9, <1>10, Writes
<1>11. ASSUME SingleStep
       PROVE  ReferencesHold'
  BY <1>1, <1>2, <1>11 DEF SingleStep
<1>12. ASSUME UNCHANGED catalogVars
       PROVE  ReferencesHold'
  BY <1>9, <1>12 DEF catalogVars
<1> QED
  BY <1>10, <1>11, <1>12 DEF CatalogNext

\* Every reachable state of the catalogue is well formed, and every reference in it leads to
\* something that is there (the foreign keys of schema.prisma:128-257), although what a call
\* has read may be gone when it writes.
THEOREM CatalogTypeCorrect == CatalogSpec => []CatalogTypeOK
<1>1. CatalogInit => RowsTypeOK /\ ReferencesHold
  BY EmptyType DEF CatalogInit, RowsTypeOK, ReferencesHold, Role, NoProduct, NoVariant, Given, NoValues
<1>2. RowsTypeOK /\ ReferencesHold /\ [CatalogNext]_catalogVars => (RowsTypeOK /\ ReferencesHold)'
  BY RowsTypeStep, ReferencesStep
<1> QED
  BY <1>1, <1>2, PTL DEF CatalogSpec, CatalogTypeOK

----------------------------------------------------------------------------
\* What a call that has counted knows, unless it was overtaken: the invariant behind
\* RemovalsAreGuarded.
LastVariantSafe(e) ==
  At(e, "deleteVariant") =>
    LET x == staff[e].variant
        p == staff[e].product
    IN  /\ x \in Variant /\ p \in Product
        /\ variants[x] # NoVariant =>
             /\ variants[x].product = p
             /\ p \notin raced => \E y \in Variant \ {x} : variants[y].product = p
ProductSafe(e) ==
  At(e, "deleteProduct") =>
    LET p == staff[e].product
    IN  p \in Product /\ (products[p].published => p \in raced)
AttributeSafe(e) ==
  At(e, "deleteAttribute") =>
    LET a == staff[e].attribute
    IN  a \in Attribute /\ (a \in raced \/ \A k \in Category : links[k][a] = "none")
BrandSafe(e) ==
  At(e, "deleteBrand") =>
    LET b == staff[e].brand
    IN  b \in Brand /\ (b \in raced \/ \A p \in Product : products[p].brand # b)

\* Each variant is of a product that is there (the foreign key), only products that are
\* there are published, and what is about to be inserted is a draft in a category, or
\* for a product.
RowsListed ==
  /\ \A x \in Variant : variants[x] # NoVariant =>
       variants[x].product \in Product /\ Listed(variants[x].product)
  /\ \A p \in Product : products[p].published => Listed(p)
Drafts(e) ==
  /\ At(e, "insertProduct") => ~staff[e].row.published /\ staff[e].row.category \in Category
  /\ At(e, "insertVariant") => staff[e].product \in Product

RemovalsInv ==
  /\ RowsTypeOK
  /\ RowsListed
  /\ \A e \in Editor : /\ LastVariantSafe(e) /\ ProductSafe(e) /\ AttributeSafe(e)
                       /\ BrandSafe(e) /\ Drafts(e)

\* Every step keeps what the calls know.
LEMMA RemovalsStep ==
  RemovalsInv /\ [CatalogNext]_catalogVars => RemovalsInv'
<1> SUFFICES ASSUME RemovalsInv, [CatalogNext]_catalogVars
             PROVE  RemovalsInv'
  OBVIOUS
<1>0. RowsTypeOK'
  BY RowsTypeStep DEF RemovalsInv
<1> DEFINE Safe(e) == /\ LastVariantSafe(e) /\ ProductSafe(e) /\ AttributeSafe(e)
                      /\ BrandSafe(e) /\ Drafts(e)
<1>T. /\ attributes \subseteq Attribute
      /\ links \in [Category -> [Attribute -> Role]]
      /\ products \in [Product -> ProductRow]
      /\ variants \in [Variant -> VariantRow]
      /\ staff \in [Editor -> StaffCall]
      /\ RowsListed
      /\ \A e \in Editor : Safe(e)
  BY DEF RemovalsInv, RowsTypeOK
<1> SUFFICES RowsListed' /\ \A e \in Editor : Safe(e)'
  BY <1>0 DEF RemovalsInv
<1> HIDE DEF Safe
<1>1. ASSUME NEW a \in Attribute, CreateAttribute(a)
      PROVE  RowsListed' /\ \A e \in Editor : Safe(e)'
  BY <1>T, <1>1 DEF CreateAttribute, RowsListed, Listed, Safe, At, LastVariantSafe,
     ProductSafe, AttributeSafe, BrandSafe, Drafts
<1>2. ASSUME NEW a \in Attribute, NEW v \in Value, AddOption(a, v) \/ RemoveOption(a, v)
      PROVE  RowsListed' /\ \A e \in Editor : Safe(e)'
  BY <1>T, <1>2 DEF AddOption, RemoveOption, RowsListed, Listed, Safe, At, LastVariantSafe,
     ProductSafe, AttributeSafe, BrandSafe, Drafts
<1>3. ASSUME NEW a \in Attribute, NEW k \in Category, NEW role \in Role, LinkToCategory(k, a, role)
      PROVE  RowsListed' /\ \A e \in Editor : Safe(e)'
  <2>1. RowsListed'
    BY <1>T, <1>3 DEF LinkToCategory, RowsListed, Listed
  <2>2. ASSUME NEW e \in Editor
        PROVE  AttributeSafe(e)'
    <3>1. AttributeSafe(e)
      BY <1>T DEF Safe
    <3>2. CASE staff[e].attribute = a
      BY <1>3, <3>1, <3>2 DEF LinkToCategory, About, At, AttributeSafe
    <3>3. CASE staff[e].attribute # a
      BY <1>T, <1>3, <3>1, <3>3 DEF LinkToCategory, Relink, At, AttributeSafe
    <3> QED
      BY <3>2, <3>3
  <2>3. ASSUME NEW e \in Editor
        PROVE  LastVariantSafe(e)' /\ ProductSafe(e)' /\ BrandSafe(e)' /\ Drafts(e)'
    BY <1>T, <1>3 DEF LinkToCategory, Safe, At, LastVariantSafe, ProductSafe, BrandSafe, Drafts
  <2> QED
    BY <2>1, <2>2, <2>3 DEF Safe
<1>4. ASSUME NEW a \in Attribute, NEW k \in Category, UnlinkFromCategory(k, a)
      PROVE  RowsListed' /\ \A e \in Editor : Safe(e)'
  <2>1. RowsListed'
    BY <1>T, <1>4 DEF UnlinkFromCategory, RowsListed, Listed
  <2>2. ASSUME NEW e \in Editor
        PROVE  AttributeSafe(e)'
    BY <1>T, <1>4 DEF UnlinkFromCategory, Relink, At, Safe, AttributeSafe
  <2>3. ASSUME NEW e \in Editor
        PROVE  LastVariantSafe(e)' /\ ProductSafe(e)' /\ BrandSafe(e)' /\ Drafts(e)'
    BY <1>T, <1>4 DEF UnlinkFromCategory, Safe, At, LastVariantSafe, ProductSafe, BrandSafe, Drafts
  <2> QED
    BY <2>1, <2>2, <2>3 DEF Safe
<1>5. ASSUME NEW b \in Brand, CreateBrand(b)
      PROVE  RowsListed' /\ \A e \in Editor : Safe(e)'
  BY <1>T, <1>5 DEF CreateBrand, RowsListed, Listed, Safe, At, LastVariantSafe,
     ProductSafe, AttributeSafe, BrandSafe, Drafts
<1>6. ASSUME NEW p \in Product, NEW n \in Name, NEW s \in Slug, NEW b \in Brand \cup {None},
             NEW published \in BOOLEAN, UpdateProduct(p, n, s, b, published)
      PROVE  RowsListed' /\ \A e \in Editor : Safe(e)'
  <2>1. \A q \in Product : /\ Listed(q)' <=> Listed(q)
                           /\ q # p => products'[q] = products[q]
    BY <1>T, <1>6 DEF UpdateProduct, Listed, ProductRow
  <2>2. products'[p].brand = b /\ products'[p].published = published
    BY <1>T, <1>6 DEF UpdateProduct, ProductRow
  <2>3. RowsListed'
    BY <1>T, <1>6, <2>1 DEF UpdateProduct, RowsListed
  <2>4. ASSUME NEW e \in Editor
        PROVE  ProductSafe(e)'
    <3>1. ProductSafe(e)
      BY <1>T DEF Safe
    <3> QED
      BY <1>6, <2>1, <2>2, <3>1 DEF UpdateProduct, About, At, ProductSafe
  <2>5. ASSUME NEW e \in Editor
        PROVE  BrandSafe(e)'
    <3>1. BrandSafe(e)
      BY <1>T DEF Safe
    <3> QED
      BY <1>6, <2>1, <2>2, <3>1 DEF UpdateProduct, About, At, BrandSafe
  <2>6. ASSUME NEW e \in Editor
        PROVE  LastVariantSafe(e)' /\ AttributeSafe(e)' /\ Drafts(e)'
    BY <1>T, <1>6 DEF UpdateProduct, Safe, At, LastVariantSafe, AttributeSafe, Drafts
  <2> QED
    BY <2>3, <2>4, <2>5, <2>6 DEF Safe
<1>7. ASSUME NEW e \in Editor, EditorStep(e)
      PROVE  RowsListed' /\ \A d \in Editor : Safe(d)'
  \* A call that only reads and stores a record that is safe.
  <2>R. ASSUME UNCHANGED <<rowVars, raced>>, \A d \in Editor \ {e} : staff'[d] = staff[d],
               Safe(e)'
        PROVE  RowsListed' /\ \A d \in Editor : Safe(d)'
    BY <1>T, <2>R DEF rowVars, RowsListed, Listed, Safe, At, LastVariantSafe, ProductSafe,
       AttributeSafe, BrandSafe, Drafts
  <2>1. ASSUME NEW a \in Attribute, RemoveAttributeRead(e, a)
        PROVE  RowsListed' /\ \A d \in Editor : Safe(d)'
    <3>1. staff'[e].at = "deleteAttribute" /\ staff'[e].attribute = a
      BY <1>T, <1>7, <2>1 DEF RemoveAttributeRead, Start, Idle
    <3>2. Safe(e)'
      BY <2>1, <3>1 DEF RemoveAttributeRead, AttributeUnused, rowVars, Safe, At,
         LastVariantSafe, ProductSafe, AttributeSafe, BrandSafe, Drafts
    <3> QED
      BY <1>T, <2>R, <2>1, <3>2 DEF RemoveAttributeRead, Start
  <2>2. CASE RemoveAttributeWrite(e)
    <3> DEFINE a == staff[e].attribute
    <3>1. staff'[e].at = "idle" /\ \A d \in Editor \ {e} : staff'[d] = staff[d]
      BY <1>T, <1>7, <2>2 DEF RemoveAttributeWrite, End, Idle
    <3>2. RowsListed'
      BY <1>T, <2>2 DEF RemoveAttributeWrite, RowsListed, Listed
    <3>3. ASSUME NEW d \in Editor
          PROVE  AttributeSafe(d)'
      <4>1. AttributeSafe(d)
        BY <1>T DEF Safe
      <4>2. \A k \in Category, x \in Attribute : links[k][x] = "none" => links'[k][x] = "none"
        BY <1>T, <2>2 DEF RemoveAttributeWrite
      <4> QED
        BY <2>2, <3>1, <4>1, <4>2 DEF RemoveAttributeWrite, At, AttributeSafe
    <3>4. ASSUME NEW d \in Editor
          PROVE  LastVariantSafe(d)' /\ ProductSafe(d)' /\ BrandSafe(d)' /\ Drafts(d)'
      BY <1>T, <2>2, <3>1 DEF RemoveAttributeWrite, Safe, At, LastVariantSafe, ProductSafe,
         BrandSafe, Drafts
    <3> QED
      BY <3>2, <3>3, <3>4 DEF Safe
  <2>3. ASSUME NEW b \in Brand, RemoveBrandRead(e, b)
        PROVE  RowsListed' /\ \A d \in Editor : Safe(d)'
    <3>1. staff'[e].at = "deleteBrand" /\ staff'[e].brand = b
      BY <1>T, <1>7, <2>3 DEF RemoveBrandRead, Start, Idle
    <3>2. Safe(e)'
      BY <2>3, <3>1 DEF RemoveBrandRead, BrandUnused, rowVars, Safe, At,
         LastVariantSafe, ProductSafe, AttributeSafe, BrandSafe, Drafts
    <3> QED
      BY <1>T, <2>R, <2>3, <3>2 DEF RemoveBrandRead, Start
  <2>4. CASE RemoveBrandWrite(e)
    <3>1. staff'[e].at = "idle" /\ \A d \in Editor \ {e} : staff'[d] = staff[d]
      BY <1>T, <1>7, <2>4 DEF RemoveBrandWrite, End, Idle
    <3>2. \A q \in Product : /\ Listed(q)' <=> Listed(q)
                             /\ products'[q].published = products[q].published
                             /\ products'[q].brand \in {None, products[q].brand}
      BY <1>T, <2>4 DEF RemoveBrandWrite, Listed, ProductRow
    <3>3. RowsListed'
      BY <1>T, <2>4, <3>2 DEF RemoveBrandWrite, RowsListed
    <3>4. ASSUME NEW d \in Editor
          PROVE  ProductSafe(d)' /\ BrandSafe(d)'
      <4>1. ProductSafe(d) /\ BrandSafe(d)
        BY <1>T DEF Safe
      <4> QED
        BY <2>4, <3>1, <3>2, <4>1 DEF RemoveBrandWrite, At, ProductSafe, BrandSafe
    <3>5. ASSUME NEW d \in Editor
          PROVE  LastVariantSafe(d)' /\ AttributeSafe(d)' /\ Drafts(d)'
      BY <1>T, <2>4, <3>1 DEF RemoveBrandWrite, Safe, At, LastVariantSafe, AttributeSafe, Drafts
    <3> QED
      BY <3>3, <3>4, <3>5 DEF Safe
  <2>5. ASSUME NEW row \in NewProducts, NEW s \in Sku \cup {None}, CreateProductRead(e, row, s)
        PROVE  RowsListed' /\ \A d \in Editor : Safe(d)'
    <3>1. staff'[e].at = "insertProduct" /\ staff'[e].row = row
      BY <1>T, <1>7, <2>5 DEF CreateProductRead, Start, Idle
    <3>2. Safe(e)'
      BY <3>1 DEF NewProducts, ProductRow, Safe, At,
         LastVariantSafe, ProductSafe, AttributeSafe, BrandSafe, Drafts
    <3> QED
      BY <1>T, <2>R, <2>5, <3>2 DEF CreateProductRead, Start
  <2>6. ASSUME NEW p \in Product, NEW x \in Variant, CreateProductWrite(e, p, x)
        PROVE  RowsListed' /\ \A d \in Editor : Safe(d)'
    <3> DEFINE row == staff[e].row
    <3>1. staff'[e].at = "idle" /\ \A d \in Editor \ {e} : staff'[d] = staff[d]
      BY <1>T, <1>7, <2>6 DEF CreateProductWrite, End, Idle
    <3>2. /\ ~Listed(p) /\ New(p)
          /\ products'[p] = row /\ \A q \in Product \ {p} : products'[q] = products[q]
      BY <1>T, <2>6 DEF CreateProductWrite
    <3>3. ~row.published /\ row.category \in Category
      BY <1>T, <1>7, <2>6 DEF CreateProductWrite, Safe, Drafts
    <3>4. Listed(p)' /\ \A q \in Product \ {p} : Listed(q)' <=> Listed(q)
      BY <3>2, <3>3 DEF Listed
    <3>5. \/ variants' = variants
          \/ /\ variants[x] = NoVariant /\ New(x)
             /\ variants' = [variants EXCEPT ![x] =
                  [product |-> p, sku |-> staff[e].sku, combination |-> NoValues]]
      BY <2>6 DEF CreateProductWrite
    <3>6. /\ \A y \in Variant : variants[y] # NoVariant => variants'[y] = variants[y]
          /\ \A y \in Variant : variants'[y] = variants[y] \/ (y = x /\ New(x) /\ variants'[y].product = p)
      BY <1>T, <3>5
    <3>7. RowsListed'
      BY <1>T, <3>2, <3>3, <3>4, <3>6 DEF RowsListed
    <3>8. ASSUME NEW d \in Editor
          PROVE  ProductSafe(d)' /\ BrandSafe(d)'
      <4>1. ProductSafe(d) /\ BrandSafe(d)
        BY <1>T DEF Safe
      <4>2. raced' = raced \cup {b \in {row.brand} : About("deleteBrand", "brand", b)}
        BY <2>6 DEF CreateProductWrite
      <4> QED
        BY <3>1, <3>2, <3>3, <4>1, <4>2 DEF About, At, ProductSafe, BrandSafe
    <3>9. ASSUME NEW d \in Editor
          PROVE  LastVariantSafe(d)'
      <4>1. LastVariantSafe(d) /\ raced \subseteq raced'
        BY <1>T, <2>6 DEF Safe, CreateProductWrite
      <4>2. New(x) => staff[d].variant # x
        BY DEF New, Met
      <4>3. NoVariant.product \notin Product
        BY DEF NoVariant
      <4> QED
        BY <1>T, <3>1, <3>6, <4>1, <4>2, <4>3 DEF At, LastVariantSafe
    <3>10. ASSUME NEW d \in Editor
           PROVE  AttributeSafe(d)' /\ Drafts(d)'
      BY <1>T, <2>6, <3>1 DEF CreateProductWrite, Safe, At, AttributeSafe, Drafts
    <3> QED
      BY <3>7, <3>8, <3>9, <3>10 DEF Safe
  <2>7. ASSUME NEW p \in Product, NEW values \in Values, ReplaceValuesDelete(e, p, values)
        PROVE  RowsListed' /\ \A d \in Editor : Safe(d)'
    <3>1. staff'[e].at = "replaceValues"
      BY <1>T, <1>7, <2>7 DEF ReplaceValuesDelete, Start, Idle
    <3>2. Safe(e)'
      BY <3>1 DEF Safe, At, LastVariantSafe, ProductSafe, AttributeSafe, BrandSafe, Drafts
    <3> QED
      BY <1>T, <2>R, <2>7, <3>2 DEF ReplaceValuesDelete, Start
  <2>8. CASE ReplaceValuesInsert(e)
    <3>1. /\ staff'[e].at = "idle"
          /\ \A d \in Editor \ {e} :
               /\ staff'[d].at = staff[d].at /\ staff'[d].product = staff[d].product
               /\ staff'[d].variant = staff[d].variant /\ staff'[d].brand = staff[d].brand
               /\ staff'[d].attribute = staff[d].attribute /\ staff'[d].row = staff[d].row
      BY <1>T, <1>7, <2>8 DEF ReplaceValuesInsert, Idle, StaffCall
    <3>2. \A q \in Product : /\ Listed(q)' <=> Listed(q)
                             /\ products'[q].published = products[q].published
                             /\ products'[q].brand = products[q].brand
      BY <1>T, <2>8 DEF ReplaceValuesInsert, Listed, ProductRow
    <3>3. RowsListed'
      BY <1>T, <2>8, <3>2 DEF ReplaceValuesInsert, RowsListed
    <3>4. ASSUME NEW d \in Editor
          PROVE  Safe(d)'
      <4>1. UNCHANGED <<links, variants, raced>> /\ Safe(d)
        BY <1>T, <2>8 DEF ReplaceValuesInsert
      <4>2. LastVariantSafe(d)' /\ AttributeSafe(d)' /\ Drafts(d)'
        BY <3>1, <4>1 DEF Safe, At, LastVariantSafe, AttributeSafe, Drafts
      <4>3. ProductSafe(d)' /\ BrandSafe(d)'
        BY <3>1, <3>2, <4>1 DEF Safe, At, ProductSafe, BrandSafe
      <4> QED
        BY <4>2, <4>3 DEF Safe
    <3> QED
      BY <3>3, <3>4
  <2>9. ASSUME NEW p \in Product, RemoveProductRead(e, p)
        PROVE  RowsListed' /\ \A d \in Editor : Safe(d)'
    <3>1. staff'[e].at = "deleteProduct" /\ staff'[e].product = p
      BY <1>T, <1>7, <2>9 DEF RemoveProductRead, Start, Idle
    <3>2. Safe(e)'
      BY <2>9, <3>1 DEF RemoveProductRead, rowVars, Safe, At,
         LastVariantSafe, ProductSafe, AttributeSafe, BrandSafe, Drafts
    <3> QED
      BY <1>T, <2>R, <2>9, <3>2 DEF RemoveProductRead, Start
  <2>10. CASE RemoveProductWrite(e)
    <3> DEFINE p == staff[e].product
    <3>1. staff'[e].at = "idle" /\ \A d \in Editor \ {e} : staff'[d] = staff[d]
      BY <1>T, <1>7, <2>10 DEF RemoveProductWrite, End, Idle
    <3>2. /\ p \in Product
          /\ products'[p] = NoProduct
          /\ \A q \in Product \ {p} : products'[q] = products[q]
          /\ \A x \in Variant : variants'[x] = IF variants[x].product = p THEN NoVariant ELSE variants[x]
      BY <1>T, <1>7, <2>10 DEF RemoveProductWrite, Safe, ProductSafe
    <3>3. RowsListed'
      BY <1>T, <3>2 DEF RowsListed, Listed, NoProduct
    <3>4. ASSUME NEW d \in Editor
          PROVE  Safe(d)'
      <4>1. UNCHANGED <<links, raced>> /\ Safe(d)
        BY <1>T, <2>10 DEF RemoveProductWrite
      <4>2. AttributeSafe(d)' /\ Drafts(d)'
        BY <3>1, <4>1 DEF Safe, At, AttributeSafe, Drafts
      <4>3. ProductSafe(d)' /\ BrandSafe(d)'
        BY <3>1, <3>2, <4>1 DEF Safe, At, ProductSafe, BrandSafe, NoProduct
      <4>4. LastVariantSafe(d)'
        BY <1>T, <3>1, <3>2, <4>1 DEF Safe, At, LastVariantSafe
      <4> QED
        BY <4>2, <4>3, <4>4 DEF Safe
    <3> QED
      BY <3>3, <3>4
  <2>11. ASSUME NEW p \in Product, NEW s \in Sku, NEW values \in Values, CreateVariantRead(e, p, s, values)
         PROVE  RowsListed' /\ \A d \in Editor : Safe(d)'
    <3>1. staff'[e].at = "insertVariant" /\ staff'[e].product = p
      BY <1>T, <1>7, <2>11 DEF CreateVariantRead, Start, Idle
    <3>2. Safe(e)'
      BY <3>1 DEF Safe, At, LastVariantSafe, ProductSafe, AttributeSafe, BrandSafe, Drafts
    <3> QED
      BY <1>T, <2>R, <2>11, <3>2 DEF CreateVariantRead, Start
  <2>12. ASSUME NEW x \in Variant, CreateVariantWrite(e, x)
         PROVE  RowsListed' /\ \A d \in Editor : Safe(d)'
    <3> DEFINE p == staff[e].product
    <3>1. staff'[e].at = "idle" /\ \A d \in Editor \ {e} : staff'[d] = staff[d]
      BY <1>T, <1>7, <2>12 DEF CreateVariantWrite, End, Idle
    <3>2. /\ Listed(p) /\ variants[x] = NoVariant /\ New(x)
          /\ variants'[x].product = p
          /\ \A y \in Variant \ {x} : variants'[y] = variants[y]
          /\ UNCHANGED <<links, products, raced>>
      BY <1>T, <2>12 DEF CreateVariantWrite
    <3>3. p \in Product
      BY <1>T, <1>7, <2>12 DEF CreateVariantWrite, Safe, Drafts
    <3>4. RowsListed'
      BY <1>T, <3>2, <3>3 DEF RowsListed, Listed
    <3>5. ASSUME NEW d \in Editor
          PROVE  Safe(d)'
      <4>1. Safe(d)
        BY <1>T
      <4>2. AttributeSafe(d)' /\ Drafts(d)' /\ ProductSafe(d)' /\ BrandSafe(d)'
        BY <3>1, <3>2, <4>1 DEF Safe, At, AttributeSafe, Drafts, ProductSafe, BrandSafe
      <4>3. staff[d].variant # x
        BY <3>2 DEF New, Met
      <4>4. LastVariantSafe(d)'
        BY <1>T, <3>1, <3>2, <4>1, <4>3 DEF Safe, At, LastVariantSafe, NoVariant
      <4> QED
        BY <4>2, <4>4 DEF Safe
    <3> QED
      BY <3>4, <3>5
  <2>13. ASSUME NEW x \in Variant, RemoveVariantRead(e, x)
         PROVE  RowsListed' /\ \A d \in Editor : Safe(d)'
    <3>1. /\ staff'[e].at = "deleteVariant" /\ staff'[e].variant = x
          /\ staff'[e].product = variants[x].product
      BY <1>T, <1>7, <2>13 DEF RemoveVariantRead, Start, Idle
    <3>2. variants[x].product \in Product /\ \E y \in Variant \ {x} : variants[y].product = variants[x].product
      BY <1>T, <2>13 DEF RemoveVariantRead, HasAnother, VariantsOf, RowsListed
    <3>3. Safe(e)'
      BY <2>13, <3>1, <3>2 DEF RemoveVariantRead, rowVars, Safe, At,
         LastVariantSafe, ProductSafe, AttributeSafe, BrandSafe, Drafts
    <3> QED
      BY <1>T, <2>R, <2>13, <3>3 DEF RemoveVariantRead, Start
  <2>14. CASE RemoveVariantWrite(e)
    <3> DEFINE x == staff[e].variant
               p == staff[e].product
    <3>1. staff'[e].at = "idle" /\ \A d \in Editor \ {e} : staff'[d] = staff[d]
      BY <1>T, <1>7, <2>14 DEF RemoveVariantWrite, End, Idle
    <3>2. /\ x \in Variant /\ p \in Product /\ variants[x].product = p
          /\ variants'[x] = NoVariant
          /\ \A y \in Variant \ {x} : variants'[y] = variants[y]
          /\ UNCHANGED <<links, products>>
          /\ raced \subseteq raced'
      BY <1>T, <1>7, <2>14 DEF RemoveVariantWrite, Safe, LastVariantSafe
    <3>3. RowsListed'
      BY <1>T, <3>2 DEF RowsListed, Listed
    <3>4. ASSUME NEW d \in Editor
          PROVE  Safe(d)'
      <4>1. Safe(d)
        BY <1>T
      <4>2. AttributeSafe(d)' /\ Drafts(d)' /\ ProductSafe(d)' /\ BrandSafe(d)'
        BY <3>1, <3>2, <4>1 DEF Safe, At, AttributeSafe, Drafts, ProductSafe, BrandSafe
      <4>3. d # e /\ At(d, "deleteVariant") /\ staff[d].product = p => p \in raced'
        BY <2>14 DEF RemoveVariantWrite
      <4>4. LastVariantSafe(d)'
        BY <1>T, <3>1, <3>2, <4>1, <4>3 DEF Safe, At, LastVariantSafe
      <4> QED
        BY <4>2, <4>4 DEF Safe
    <3> QED
      BY <3>3, <3>4
  <2>15. CASE Fail(e)
    <3>1. staff'[e].at = "idle"
      BY <1>T, <1>7, <2>15 DEF Fail, End, Idle
    <3>2. Safe(e)'
      BY <3>1 DEF Safe, At, LastVariantSafe, ProductSafe, AttributeSafe, BrandSafe, Drafts
    <3> QED
      BY <1>T, <2>R, <2>15, <3>2 DEF Fail, End
  <2> QED
    BY <1>7, <2>1, <2>2, <2>3, <2>4, <2>5, <2>6, <2>7, <2>8, <2>9, <2>10, <2>11, <2>12,
       <2>13, <2>14, <2>15 DEF EditorStep
<1>8. CASE UNCHANGED catalogVars
  BY <1>T, <1>8 DEF catalogVars, rowVars, RowsListed, Listed, Safe, At, LastVariantSafe,
     ProductSafe, AttributeSafe, BrandSafe, Drafts
<1> QED
  BY <1>1, <1>2, <1>3, <1>4, <1>5, <1>6, <1>7, <1>8
     DEF CatalogNext, SingleStep, AttributesNext

\* A step takes a variant, a product, an attribute or a brand only by its deletion.
LEMMA Deletions ==
  ASSUME RemovalsInv, [CatalogNext]_catalogVars
  PROVE  /\ \/ \E e \in Editor : RemoveVariantWrite(e) \/ RemoveProductWrite(e)
            \/ \A x \in Variant : variants[x] # NoVariant => variants'[x] = variants[x]
         /\ \/ \E e \in Editor : RemoveProductWrite(e)
            \/ \A p \in Product : Listed(p) => Listed(p)'
         /\ (\E e \in Editor : RemoveAttributeWrite(e)) \/ attributes \subseteq attributes'
         /\ (\E e \in Editor : RemoveBrandWrite(e)) \/ brands \subseteq brands'
<1>T. /\ products \in [Product -> ProductRow] /\ variants \in [Variant -> VariantRow]
      /\ staff \in [Editor -> StaffCall]
      /\ \A e \in Editor : Drafts(e)
  BY DEF RemovalsInv, RowsTypeOK
<1>1. ASSUME NEW e \in Editor, NEW p \in Product, NEW x \in Variant, CreateProductWrite(e, p, x)
      PROVE  /\ \A y \in Variant : variants[y] # NoVariant => variants'[y] = variants[y]
             /\ \A q \in Product : Listed(q) => Listed(q)'
  BY <1>T, <1>1 DEF CreateProductWrite, Listed
<1>2. ASSUME NEW e \in Editor, ReplaceValuesInsert(e) \/ RemoveBrandWrite(e)
      PROVE  \A q \in Product : Listed(q) => Listed(q)'
  BY <1>T, <1>2 DEF ReplaceValuesInsert, RemoveBrandWrite, Listed, ProductRow
<1>3. ASSUME SingleStep
      PROVE  /\ UNCHANGED variants
             /\ \A q \in Product : Listed(q) => Listed(q)'
             /\ attributes \subseteq attributes' /\ brands \subseteq brands'
  <2>1. CASE AttributesNext \/ \E b \in Brand : CreateBrand(b)
    BY <2>1 DEF AttributesNext, CreateAttribute, AddOption, RemoveOption, LinkToCategory,
       UnlinkFromCategory, CreateBrand, Listed
  <2>2. ASSUME NEW p \in Product, NEW n \in Name, NEW s \in Slug, NEW b \in Brand \cup {None},
               NEW published \in BOOLEAN, UpdateProduct(p, n, s, b, published)
        PROVE  /\ UNCHANGED <<variants, attributes, brands>>
               /\ \A q \in Product : Listed(q) => Listed(q)'
    BY <1>T, <2>2 DEF UpdateProduct, Listed, ProductRow
  <2> QED
    BY <1>3, <2>1, <2>2 DEF SingleStep
<1>4. ASSUME UNCHANGED rowVars
      PROVE  UNCHANGED <<attributes, brands, products, variants>>
  BY <1>4 DEF rowVars
<1>5. ASSUME NEW e \in Editor, EditorStep(e)
      PROVE  /\ \/ RemoveVariantWrite(e) \/ RemoveProductWrite(e)
                \/ \A x \in Variant : variants[x] # NoVariant => variants'[x] = variants[x]
             /\ RemoveProductWrite(e) \/ \A p \in Product : Listed(p) => Listed(p)'
             /\ RemoveAttributeWrite(e) \/ attributes \subseteq attributes'
             /\ RemoveBrandWrite(e) \/ brands \subseteq brands'
  <2>1. CASE UNCHANGED rowVars
    BY <1>4, <2>1 DEF Listed
  <2>2. CASE RemoveAttributeWrite(e)
    <3>1. UNCHANGED <<brands, products, variants>>
      BY <2>2 DEF RemoveAttributeWrite
    <3> QED
      BY <2>2, <3>1 DEF Listed
  <2>3. CASE RemoveBrandWrite(e)
    <3>1. UNCHANGED <<attributes, variants>>
      BY <2>3 DEF RemoveBrandWrite
    <3> QED
      BY <1>2, <2>3, <3>1
  <2>4. CASE ReplaceValuesInsert(e)
    <3>1. UNCHANGED <<attributes, brands, variants>>
      BY <2>4 DEF ReplaceValuesInsert
    <3> QED
      BY <1>2, <2>4, <3>1
  <2>5. CASE RemoveProductWrite(e)
    <3>1. UNCHANGED <<attributes, brands>>
      BY <2>5 DEF RemoveProductWrite
    <3> QED
      BY <2>5, <3>1
  <2>6. CASE RemoveVariantWrite(e)
    <3>1. UNCHANGED <<attributes, brands, products>>
      BY <2>6 DEF RemoveVariantWrite
    <3> QED
      BY <2>6, <3>1 DEF Listed
  <2>7. ASSUME NEW p \in Product, NEW x \in Variant, CreateProductWrite(e, p, x)
        PROVE  UNCHANGED <<attributes, brands>>
    BY <2>7 DEF CreateProductWrite
  <2>8. ASSUME NEW x \in Variant, CreateVariantWrite(e, x)
        PROVE  /\ \A y \in Variant : variants[y] # NoVariant => variants'[y] = variants[y]
               /\ UNCHANGED <<attributes, brands, products>>
    BY <1>T, <2>8 DEF CreateVariantWrite
  <2> QED
    BY <1>1, <1>5, <2>1, <2>2, <2>3, <2>4, <2>5, <2>6, <2>7, <2>8, Writes DEF Listed
<1>6. ASSUME UNCHANGED catalogVars
      PROVE  UNCHANGED <<attributes, brands, products, variants>>
  BY <1>6 DEF catalogVars, rowVars
<1>7. CASE UNCHANGED catalogVars
  BY <1>6, <1>7 DEF Listed
<1>8. CASE SingleStep
  BY <1>3, <1>8
<1>9. CASE \E e \in Editor : EditorStep(e)
  BY <1>5, <1>9
<1> QED
  BY <1>7, <1>8, <1>9 DEF CatalogNext

\* What a step of the catalogue takes had nothing that depends on it, unless it came
\* between the count and the deletion.
Guarded ==
  /\ \A p \in Product \ raced' :
       /\ Listed(p) /\ Listed(p)' /\ VariantsOf(p) # {} => VariantsOf(p)' # {}
       /\ products[p].published => Listed(p)'
  /\ \A a \in attributes \ (attributes' \cup raced'), k \in Category : links[k][a] = "none"
  /\ \A b \in brands \ (brands' \cup raced'), p \in Product : products[p].brand # b

LEMMA StepGuarded == RemovalsInv /\ [CatalogNext]_catalogVars => Guarded
<1>1. ASSUME RemovalsInv, [CatalogNext]_catalogVars,
             NEW p \in Product, p \notin raced', Listed(p), Listed(p)', VariantsOf(p) # {}
      PROVE  VariantsOf(p)' # {}
  <2>1. PICK x \in Variant : variants[x].product = p
    BY <1>1 DEF VariantsOf
  <2>2. CASE \A y \in Variant : variants[y] # NoVariant => variants'[y] = variants[y]
    BY <2>1, <2>2 DEF VariantsOf, NoVariant
  <2>3. ASSUME NEW e \in Editor, RemoveProductWrite(e)
        PROVE  VariantsOf(p)' # {}
    <3>1. staff[e].product # p
      BY <1>1, <2>3 DEF RemoveProductWrite, Listed, NoProduct, RemovalsInv, RowsTypeOK
    <3> QED
      BY <1>1, <2>1, <2>3, <3>1 DEF RemoveProductWrite, VariantsOf
  <2>4. ASSUME NEW e \in Editor, RemoveVariantWrite(e)
        PROVE  VariantsOf(p)' # {}
    <3>1. LastVariantSafe(e) /\ p \notin raced
      BY <1>1, <2>4 DEF RemovalsInv, RemoveVariantWrite
    <3>2. PICK y \in Variant \ {staff[e].variant} : variants[y].product = p
      BY <2>1, <2>4, <3>1 DEF RemoveVariantWrite, LastVariantSafe
    <3>3. variants'[y] = variants[y]
      BY <1>1, <2>4, <3>2 DEF RemoveVariantWrite, RemovalsInv, RowsTypeOK
    <3> QED
      BY <3>2, <3>3 DEF VariantsOf
  <2> QED
    BY <1>1, <2>2, <2>3, <2>4, Deletions
<1>2. ASSUME RemovalsInv, [CatalogNext]_catalogVars,
             NEW p \in Product, p \notin raced', products[p].published
      PROVE  Listed(p)'
  <2>1. Listed(p)
    BY <1>2 DEF RemovalsInv, RowsListed
  <2>2. ASSUME NEW e \in Editor, RemoveProductWrite(e)
        PROVE  Listed(p)'
    <3>1. ProductSafe(e) /\ p \notin raced
      BY <1>2, <2>2 DEF RemovalsInv, RemoveProductWrite
    <3>2. products'[p] = products[p]
      BY <1>2, <2>2, <3>1 DEF RemoveProductWrite, ProductSafe, RemovalsInv, RowsTypeOK
    <3> QED
      BY <2>1, <3>2 DEF Listed
  <2> QED
    BY <1>2, <2>1, <2>2, Deletions
<1>3. ASSUME RemovalsInv, [CatalogNext]_catalogVars,
             NEW a \in attributes \ (attributes' \cup raced'), NEW k \in Category
      PROVE  links[k][a] = "none"
  <2>1. PICK e \in Editor : RemoveAttributeWrite(e)
    BY <1>3, Deletions
  <2>2. AttributeSafe(e) /\ staff[e].attribute = a
    BY <1>3, <2>1 DEF RemovalsInv, RemoveAttributeWrite
  <2> QED
    BY <1>3, <2>1, <2>2 DEF RemoveAttributeWrite, AttributeSafe
<1>4. ASSUME RemovalsInv, [CatalogNext]_catalogVars,
             NEW b \in brands \ (brands' \cup raced'), NEW p \in Product
      PROVE  products[p].brand # b
  <2>1. PICK e \in Editor : RemoveBrandWrite(e)
    BY <1>4, Deletions
  <2>2. BrandSafe(e) /\ staff[e].brand = b
    BY <1>4, <2>1 DEF RemovalsInv, RemoveBrandWrite
  <2> QED
    BY <1>4, <2>1, <2>2 DEF RemoveBrandWrite, BrandSafe
<1> QED
  BY <1>1, <1>2, <1>3, <1>4 DEF Guarded

\* Nothing is deleted by its caller's own error (the guards of the four remove methods),
\* whatever else happens between a call's count and its deletion.
THEOREM RemovalsGuarded == CatalogSpec => RemovalsAreGuarded
<1>1. CatalogInit => RemovalsInv
  BY EmptyType DEF CatalogInit, RemovalsInv, RowsTypeOK, Role, RowsListed, NoProduct, Idle, At,
     LastVariantSafe, ProductSafe, AttributeSafe, BrandSafe, Drafts
<1>2. RemovalsInv /\ [CatalogNext]_catalogVars => [Guarded]_catalogVars
  BY StepGuarded
<1> QED
  BY <1>1, <1>2, RemovalsStep, PTL DEF CatalogSpec, RemovalsAreGuarded, Guarded

----------------------------------------------------------------------------
\* Somebody has relied on the links of k; and they are still the ones relied on.
Bound(k) == ruled[k] # "open"
Trusted(k) == ruled[k] = "used"

InfoFits(rules, values) ==
  /\ RequiredAttributes(rules) \subseteq Given(values)
  /\ Given(values) \subseteq InfoAttributes(rules)
TypeFits(rules, row) == row.type = "SIMPLE" => VariantAttributes(rules) = {}

\* The invariant behind RulesFollowed: what is in the tables was validated against links
\* that are bound, and so was what calls in progress are about to write.
ProductRuled(p) ==
  LET row == products[p] IN
  Listed(p) => /\ Bound(row.category)
               /\ Trusted(row.category) => /\ TypeFits(links[row.category], row)
                                           /\ InfoFits(links[row.category], row.values)
SimpleSingle(p) ==
  Listed(p) /\ products[p].type = "SIMPLE" /\ Trusted(products[p].category) =>
    \E x \in Variant : VariantsOf(p) = {x}
VariantRuled(x) ==
  LET k == products[variants[x].product].category IN
  variants[x] # NoVariant /\ Trusted(k) =>
    Given(variants[x].combination) = VariantAttributes(links[k])

InsertRuled(e) ==
  LET row == staff[e].row IN
  At(e, "insertProduct") =>
    /\ row.category \in Category
    /\ Bound(row.category)
    /\ Trusted(row.category) => /\ TypeFits(links[row.category], row)
                                /\ InfoFits(links[row.category], row.values)
ReplaceRuled(e) ==
  LET p == staff[e].product
      k == products[p].category
  IN  At(e, "replaceValues") =>
        /\ p \in Product
        /\ Listed(p) => Bound(k) /\ (Trusted(k) => InfoFits(links[k], staff[e].values))
VariantCallRuled(e) ==
  LET p == staff[e].product
      k == products[p].category
  IN  At(e, "insertVariant") =>
        /\ p \in Product
        /\ Listed(p) => /\ products[p].type = "VARIABLE"
                        /\ Bound(k)
                        /\ Trusted(k) => Given(staff[e].values) = VariantAttributes(links[k])
DeleteRuled(e) ==
  LET p == staff[e].product IN
  At(e, "deleteVariant") =>
    /\ p \in Product
    /\ Listed(p) /\ Trusted(products[p].category) => products[p].type = "VARIABLE"

RulesInv ==
  /\ RemovalsInv
  /\ \A p \in Product : ProductRuled(p) /\ SimpleSingle(p)
  /\ \A x \in Variant : VariantRuled(x)
  /\ \A e \in Editor : /\ InsertRuled(e) /\ ReplaceRuled(e) /\ VariantCallRuled(e)
                       /\ DeleteRuled(e)

\* Links that somebody relies on are relied on for good, and trusted only while they
\* stay as they are.
LinksKept ==
  \A k \in Category : Bound(k) => /\ Bound(k)'
                                  /\ Trusted(k)' => Trusted(k) /\ links'[k] = links[k]

LEMMA LinksStep ==
  ASSUME RowsTypeOK, [CatalogNext]_catalogVars
  PROVE  LinksKept
<1>T. /\ links \in [Category -> [Attribute -> Role]]
      /\ ruled \in [Category -> {"open", "used", "changed"}]
  BY DEF RowsTypeOK
<1>1. ASSUME NEW k \in Category, NEW rules, Relink(k, rules)
      PROVE  LinksKept
  BY <1>T, <1>1 DEF Relink, LinksKept, Bound, Trusted
<1>2. ASSUME NEW k \in Category, Use(k), UNCHANGED links
      PROVE  LinksKept
  BY <1>T, <1>2 DEF Use, LinksKept, Bound, Trusted
<1>3. ASSUME UNCHANGED <<links, ruled>>
      PROVE  LinksKept
  BY <1>3 DEF LinksKept, Bound, Trusted
<1>4. ASSUME NEW e \in Editor, RemoveAttributeWrite(e)
      PROVE  LinksKept
  <2> DEFINE a == staff[e].attribute
  <2>1. ASSUME NEW k \in Category, Bound(k)
        PROVE  Bound(k)' /\ (Trusted(k)' => Trusted(k) /\ links[k][a] = "none")
    BY <1>T, <1>4, <2>1 DEF RemoveAttributeWrite, Bound, Trusted
  <2>2. ASSUME NEW k \in Category, links[k][a] = "none"
        PROVE  links'[k] = links[k]
    BY <1>T, <1>4, <2>2 DEF RemoveAttributeWrite
  <2> QED
    BY <2>1, <2>2 DEF LinksKept
<1>5. ASSUME NEW e \in Editor, NEW row \in NewProducts, NEW s, CreateProductRead(e, row, s)
      PROVE  LinksKept
  BY <1>2, <1>5 DEF CreateProductRead, NewProducts, ProductRow, rowVars
<1>6. ASSUME NEW e \in Editor, NEW p \in Product, NEW x,
             ReplaceValuesDelete(e, p, x) \/ \E s \in Sku : CreateVariantRead(e, p, s, x)
      PROVE  LinksKept
  <2>1. Listed(p) /\ Use(products[p].category) /\ UNCHANGED links
    <3>1. CASE ReplaceValuesDelete(e, p, x)
      BY <3>1 DEF ReplaceValuesDelete, rowVars
    <3>2. ASSUME NEW s, CreateVariantRead(e, p, s, x)
          PROVE  Listed(p) /\ Use(products[p].category) /\ UNCHANGED links
      BY <3>2 DEF CreateVariantRead, rowVars
    <3> QED
      BY <1>6, <3>1, <3>2
  <2>2. products[p].category \in Category
    BY <2>1 DEF Listed, RowsTypeOK, ProductRow
  <2> QED
    BY <1>2, <2>1, <2>2
<1>7. CASE \/ \E a \in Attribute : \E k \in Category : \/ \E role \in Role : LinkToCategory(k, a, role)
                                                       \/ UnlinkFromCategory(k, a)
  BY <1>1, <1>7 DEF LinkToCategory, UnlinkFromCategory
<1>8. CASE SingleStep
  <2>1. ASSUME \/ \E a \in Attribute : CreateAttribute(a) \/ \E v \in Value : AddOption(a, v) \/ RemoveOption(a, v)
               \/ \E b \in Brand : CreateBrand(b)
        PROVE  UNCHANGED <<links, ruled>>
    BY <2>1 DEF CreateAttribute, AddOption, RemoveOption, CreateBrand
  <2>2. ASSUME NEW p, NEW n, NEW s, NEW b, NEW published, UpdateProduct(p, n, s, b, published)
        PROVE  UNCHANGED <<links, ruled>>
    BY <2>2 DEF UpdateProduct
  <2> QED
    BY <1>3, <1>7, <1>8, <2>1, <2>2 DEF SingleStep, AttributesNext
<1>9. ASSUME NEW e \in Editor, EditorStep(e)
      PROVE  LinksKept
  <2>1. CASE RemoveBrandWrite(e) \/ ReplaceValuesInsert(e) \/ RemoveProductWrite(e) \/ RemoveVariantWrite(e)
    BY <1>3, <2>1 DEF RemoveBrandWrite, ReplaceValuesInsert, RemoveProductWrite, RemoveVariantWrite
  <2>2. ASSUME NEW p, NEW x, CreateProductWrite(e, p, x) \/ CreateVariantWrite(e, x)
        PROVE  LinksKept
    BY <1>3, <2>2 DEF CreateProductWrite, CreateVariantWrite
  <2>3. ASSUME NEW a, \/ RemoveAttributeRead(e, a) \/ RemoveBrandRead(e, a)
                      \/ RemoveProductRead(e, a) \/ RemoveVariantRead(e, a)
        PROVE  UNCHANGED <<links, ruled>>
    BY <2>3 DEF RemoveAttributeRead, RemoveBrandRead, RemoveProductRead, RemoveVariantRead, rowVars
  <2>4. ASSUME Fail(e)
        PROVE  UNCHANGED <<links, ruled>>
    BY <2>4 DEF Fail, rowVars
  <2> QED
    BY <1>3, <1>4, <1>5, <1>6, <1>9, <2>1, <2>2, <2>3, <2>4 DEF EditorStep
<1>10. CASE UNCHANGED catalogVars
  BY <1>3, <1>10 DEF catalogVars, rowVars
<1> QED
  BY <1>8, <1>9, <1>10 DEF CatalogNext

\* p is there after a step only if it was before, of the same category and type.
Stays(p) ==
  Listed(p)' => /\ Listed(p)
                /\ products'[p].category = products[p].category
                /\ products'[p].type = products[p].type

\* A product that keeps its values stays as it was validated.
LEMMA ProductKept ==
  ASSUME RulesInv, LinksKept, NEW p \in Product, Stays(p), products'[p].values = products[p].values
  PROVE  ProductRuled(p)'
<1>1. ProductRuled(p) /\ (Listed(p) => products[p].category \in Category)
  BY DEF RulesInv, RemovalsInv, RowsTypeOK, ProductRow, Listed
<1> QED
  BY <1>1 DEF ProductRuled, Stays, LinksKept, TypeFits

\* So does a variant that stays.
LEMMA VariantKept ==
  ASSUME RulesInv, LinksKept, NEW x \in Variant, variants'[x] \in {variants[x], NoVariant},
         variants'[x] # NoVariant => Stays(variants[x].product) /\ Listed(variants[x].product)'
  PROVE  VariantRuled(x)'
<1>1. CASE variants'[x] = NoVariant
  BY <1>1 DEF VariantRuled
<1>2. CASE variants'[x] # NoVariant
  <2> DEFINE p == variants[x].product
  <2>1. /\ variants'[x] = variants[x] /\ variants[x] # NoVariant
        /\ products'[p].category = products[p].category
        /\ p \in Product /\ Listed(p)
    BY <1>2 DEF RulesInv, RemovalsInv, RowsListed, Stays
  <2>2. VariantRuled(x) /\ products[p].category \in Category /\ Bound(products[p].category)
    BY <2>1 DEF RulesInv, RemovalsInv, RowsTypeOK, ProductRow, Listed, ProductRuled
  <2> QED
    BY <2>1, <2>2 DEF VariantRuled, LinksKept
<1> QED
  BY <1>1, <1>2

\* And a call that does not get on, as long as the product it is about, if any, stays.
LEMMA CallKept ==
  ASSUME RulesInv, LinksKept, NEW e \in Editor,
         staff'[e].at = staff[e].at, staff'[e].product = staff[e].product,
         staff'[e].row = staff[e].row, staff'[e].values = staff[e].values,
         staff[e].product \in Product => Stays(staff[e].product)
  PROVE  InsertRuled(e)' /\ ReplaceRuled(e)' /\ VariantCallRuled(e)' /\ DeleteRuled(e)'
<1>1. InsertRuled(e)'
  BY DEF RulesInv, InsertRuled, LinksKept, At, TypeFits
<1> DEFINE p == staff[e].product
<1>2. p \in Product /\ Listed(p) => products[p].category \in Category
  BY DEF RulesInv, RemovalsInv, RowsTypeOK, ProductRow, Listed
<1>3. ReplaceRuled(e)'
  BY <1>2 DEF RulesInv, ReplaceRuled, LinksKept, At, Stays
<1>4. VariantCallRuled(e)'
  <2> SUFFICES ASSUME At(e, "insertVariant")
               PROVE  VariantCallRuled(e)'
    BY DEF VariantCallRuled, At
  <2> DEFINE k == products[p].category
  <2>1. p \in Product /\ Stays(p)
    BY DEF RulesInv, VariantCallRuled
  <2>2. CASE Listed(p)'
    <3>1. /\ Listed(p) /\ products'[p].category = k
          /\ products'[p].type = products[p].type
      BY <2>1, <2>2 DEF Stays
    <3>2. /\ products[p].type = "VARIABLE" /\ Bound(k)
          /\ Trusted(k) => Given(staff[e].values) = VariantAttributes(links[k])
      BY <3>1 DEF RulesInv, VariantCallRuled
    <3>3. Bound(k)' /\ (Trusted(k)' => Trusted(k) /\ links'[k] = links[k])
      BY <1>2, <2>1, <3>1, <3>2 DEF LinksKept, Bound, Trusted
    <3> QED
      BY <2>1, <3>1, <3>2, <3>3 DEF VariantCallRuled, Bound, Trusted
  <2>3. CASE ~Listed(p)'
    BY <2>1, <2>3 DEF VariantCallRuled
  <2> QED
    BY <2>2, <2>3
<1>5. DeleteRuled(e)'
  <2>1. CASE At(e, "deleteVariant") /\ Listed(p)' /\ Trusted(products[p].category)'
    <3>1. /\ p \in Product /\ Listed(p) /\ products'[p].category = products[p].category
          /\ products'[p].type = products[p].type
      BY <2>1 DEF RulesInv, DeleteRuled, Stays
    <3>2. Bound(products[p].category) /\ Trusted(products[p].category)
      BY <1>2, <2>1, <3>1 DEF RulesInv, ProductRuled, LinksKept, Trusted
    <3> QED
      BY <3>1, <3>2 DEF RulesInv, DeleteRuled, At
  <2> QED
    BY <2>1 DEF RulesInv, DeleteRuled, At
<1> QED
  BY <1>1, <1>3, <1>4, <1>5

\* A simple product whose variants are left alone keeps its single one.
LEMMA SingleKept ==
  ASSUME RulesInv, LinksKept, NEW p \in Product, Stays(p), VariantsOf(p)' = VariantsOf(p)
  PROVE  SimpleSingle(p)'
<1> SUFFICES ASSUME Listed(p)', products'[p].type = "SIMPLE", Trusted(products[p].category)'
             PROVE  \E x \in Variant : VariantsOf(p)' = {x}
  BY DEF SimpleSingle
<1>1. /\ Listed(p) /\ products'[p].category = products[p].category
      /\ products[p].type = "SIMPLE" /\ products[p].category \in Category
  BY DEF Stays, RulesInv, RemovalsInv, RowsTypeOK, ProductRow, Listed
<1>2. Trusted(products[p].category)
  BY <1>1 DEF RulesInv, ProductRuled, LinksKept, Trusted
<1> QED
  BY <1>1, <1>2 DEF RulesInv, SimpleSingle

\* Every step keeps what was validated.
LEMMA RulesStep ==
  RulesInv /\ [CatalogNext]_catalogVars => RulesInv'
<1> SUFFICES ASSUME RulesInv, [CatalogNext]_catalogVars
             PROVE  RulesInv'
  OBVIOUS
<1> DEFINE TablesRuled == /\ \A p \in Product : ProductRuled(p) /\ SimpleSingle(p)
                          /\ \A x \in Variant : VariantRuled(x)
           CallRuled(e) == /\ InsertRuled(e) /\ ReplaceRuled(e) /\ VariantCallRuled(e)
                           /\ DeleteRuled(e)
<1>0. RemovalsInv /\ RemovalsInv' /\ LinksKept
  BY RemovalsStep, LinksStep DEF RulesInv, RemovalsInv
<1>T. /\ links \in [Category -> [Attribute -> Role]]
      /\ ruled \in [Category -> {"open", "used", "changed"}]
      /\ products \in [Product -> ProductRow]
      /\ variants \in [Variant -> VariantRow]
      /\ staff \in [Editor -> StaffCall]
      /\ RowsListed /\ RowsListed'
      /\ TablesRuled /\ \A e \in Editor : CallRuled(e) /\ Drafts(e)
  BY <1>0 DEF RulesInv, RemovalsInv, RowsTypeOK
<1> SUFFICES TablesRuled' /\ \A e \in Editor : CallRuled(e)'
  BY <1>0 DEF RulesInv
\* The tables, when no product but its brand or status changes and no variant does.
<1>K. ASSUME \A p \in Product : Stays(p) /\ products'[p].values = products[p].values,
             UNCHANGED variants
      PROVE  TablesRuled'
  <2>1. ASSUME NEW p \in Product
        PROVE  ProductRuled(p)' /\ SimpleSingle(p)'
    BY <1>0, <1>K, ProductKept, SingleKept DEF VariantsOf
  <2>2. ASSUME NEW x \in Variant
        PROVE  VariantRuled(x)'
    BY <1>0, <1>T, <1>K, VariantKept DEF RowsListed
  <2> QED
    BY <2>1, <2>2
\* The calls that do not get on meanwhile.
<1>C. ASSUME NEW e \in Editor, staff'[e] = staff[e], \A p \in Product : Stays(p)
      PROVE  CallRuled(e)'
  BY <1>0, <1>C, CallKept
<1>S. UNCHANGED products => \A p \in Product : Stays(p) /\ products'[p].values = products[p].values
  BY DEF Stays, Listed
<1>1. ASSUME SingleStep
      PROVE  TablesRuled' /\ \A e \in Editor : CallRuled(e)'
  <2>1. ASSUME AttributesNext \/ \E b \in Brand : CreateBrand(b)
        PROVE  UNCHANGED <<products, variants, staff>>
    BY <2>1 DEF AttributesNext, CreateAttribute, AddOption, RemoveOption, LinkToCategory,
       UnlinkFromCategory, CreateBrand
  <2>2. ASSUME NEW q \in Product, NEW n \in Name, NEW s \in Slug, NEW b \in Brand \cup {None},
               NEW published \in BOOLEAN, UpdateProduct(q, n, s, b, published)
        PROVE  /\ UNCHANGED <<variants, staff>>
               /\ \A p \in Product : Stays(p) /\ products'[p].values = products[p].values
    BY <1>T, <2>2 DEF UpdateProduct, Stays, Listed, ProductRow
  <2>3. /\ UNCHANGED <<variants, staff>>
        /\ \A p \in Product : Stays(p) /\ products'[p].values = products[p].values
    BY <1>1, <1>S, <2>1, <2>2 DEF SingleStep
  <2> QED
    BY <1>K, <1>C, <2>3
<1>2. ASSUME NEW e \in Editor, EditorStep(e)
      PROVE  TablesRuled' /\ \A d \in Editor : CallRuled(d)'
  \* A call that only reads and stores a record that is sound.
  <2>R. ASSUME UNCHANGED <<products, variants>>, \A d \in Editor \ {e} : staff'[d] = staff[d],
               CallRuled(e)'
        PROVE  TablesRuled' /\ \A d \in Editor : CallRuled(d)'
    BY <1>K, <1>C, <1>S, <2>R
  \* A call that ends.
  <2>E. ASSUME End(e)
        PROVE  CallRuled(e)' /\ \A d \in Editor \ {e} : staff'[d] = staff[d]
    <3>1. staff'[e].at = "idle" /\ \A d \in Editor \ {e} : staff'[d] = staff[d]
      BY <1>T, <2>E DEF End, Idle
    <3> QED
      BY <3>1 DEF InsertRuled, ReplaceRuled, VariantCallRuled, DeleteRuled, At
  \* A call that begins with a deletion in mind has nothing to validate.
  <2>D. ASSUME NEW c, Start(e, c),
               c.at \in {"deleteAttribute", "deleteBrand", "deleteProduct"}
        PROVE  CallRuled(e)' /\ \A d \in Editor \ {e} : staff'[d] = staff[d]
    BY <1>T, <2>D DEF Start, InsertRuled, ReplaceRuled, VariantCallRuled, DeleteRuled, At
  <2>1. ASSUME NEW a \in Attribute, RemoveAttributeRead(e, a)
        PROVE  TablesRuled' /\ \A d \in Editor : CallRuled(d)'
    BY <2>1, <2>D, <2>R DEF RemoveAttributeRead, rowVars, Idle
  <2>2. CASE RemoveAttributeWrite(e)
    BY <2>2, <2>E, <2>R DEF RemoveAttributeWrite
  <2>3. ASSUME NEW b \in Brand, RemoveBrandRead(e, b)
        PROVE  TablesRuled' /\ \A d \in Editor : CallRuled(d)'
    BY <2>3, <2>D, <2>R DEF RemoveBrandRead, rowVars, Idle
  <2>4. CASE RemoveBrandWrite(e)
    <3>1. ASSUME NEW p \in Product
          PROVE  Stays(p) /\ products'[p].values = products[p].values
      BY <1>T, <2>4 DEF RemoveBrandWrite, Stays, Listed, ProductRow
    <3> QED
      BY <1>K, <1>C, <2>4, <2>E, <3>1 DEF RemoveBrandWrite
  <2>5. ASSUME NEW row \in NewProducts, NEW s \in Sku \cup {None}, CreateProductRead(e, row, s)
        PROVE  TablesRuled' /\ \A d \in Editor : CallRuled(d)'
    <3>1. /\ staff'[e].at = "insertProduct" /\ staff'[e].row = row
          /\ \A d \in Editor \ {e} : staff'[d] = staff[d]
      BY <1>T, <2>5 DEF CreateProductRead, Start, Idle
    <3>2. row.category \in Category /\ Bound(row.category)'
      BY <1>T, <2>5 DEF CreateProductRead, NewProducts, ProductRow, Use, Bound
    <3>3. TypeFits(links[row.category], row) /\ InfoFits(links[row.category], row.values)
      BY <2>5 DEF CreateProductRead, TypeFits, InfoFits, ValidInfo
    <3>4. UNCHANGED <<links, products, variants>>
      BY <2>5 DEF CreateProductRead, rowVars
    <3>5. CallRuled(e)'
      BY <3>1, <3>2, <3>3, <3>4 DEF InsertRuled, ReplaceRuled, VariantCallRuled, DeleteRuled,
         At, Bound, TypeFits
    <3> QED
      BY <2>R, <3>1, <3>4, <3>5
  <2>7. ASSUME NEW p \in Product, NEW values \in Values, ReplaceValuesDelete(e, p, values)
        PROVE  TablesRuled' /\ \A d \in Editor : CallRuled(d)'
    <3> DEFINE k == products[p].category
    <3>1. /\ staff'[e].at = "replaceValues" /\ staff'[e].product = p /\ staff'[e].values = values
          /\ \A d \in Editor \ {e} : staff'[d] = staff[d]
      BY <1>T, <2>7 DEF ReplaceValuesDelete, Start, Idle
    <3>2. k \in Category /\ ruled'[k] # "open"
      BY <1>T, <2>7 DEF ReplaceValuesDelete, Listed, ProductRow, Use
    <3>3. InfoFits(links[k], values)
      BY <2>7 DEF ReplaceValuesDelete, InfoFits, ValidInfo
    <3>4. UNCHANGED <<links, products, variants>>
      BY <2>7 DEF ReplaceValuesDelete, rowVars
    <3>5. CallRuled(e)'
      BY <3>1, <3>2, <3>3, <3>4 DEF InsertRuled, ReplaceRuled, VariantCallRuled, DeleteRuled,
         At, Bound
    <3> QED
      BY <2>R, <3>1, <3>4, <3>5
  <2>9. ASSUME NEW p \in Product, RemoveProductRead(e, p)
        PROVE  TablesRuled' /\ \A d \in Editor : CallRuled(d)'
    BY <2>9, <2>D, <2>R DEF RemoveProductRead, rowVars, Idle
  <2>11. ASSUME NEW p \in Product, NEW s \in Sku, NEW values \in Values, CreateVariantRead(e, p, s, values)
         PROVE  TablesRuled' /\ \A d \in Editor : CallRuled(d)'
    <3> DEFINE k == products[p].category
    <3>1. /\ staff'[e].at = "insertVariant" /\ staff'[e].product = p /\ staff'[e].values = values
          /\ \A d \in Editor \ {e} : staff'[d] = staff[d]
      BY <1>T, <2>11 DEF CreateVariantRead, Start, Idle
    <3>2. k \in Category /\ ruled'[k] # "open"
      BY <1>T, <2>11 DEF CreateVariantRead, Listed, ProductRow, Use
    <3>3. Given(values) = VariantAttributes(links[k]) /\ products[p].type = "VARIABLE"
      BY <2>11 DEF CreateVariantRead, ValidVariant
    <3>4. UNCHANGED <<links, products, variants>>
      BY <2>11 DEF CreateVariantRead, rowVars
    <3>5. CallRuled(e)'
      BY <3>1, <3>2, <3>3, <3>4 DEF InsertRuled, ReplaceRuled, VariantCallRuled, DeleteRuled,
         At, Bound
    <3> QED
      BY <2>R, <3>1, <3>4, <3>5
  <2>13. ASSUME NEW x \in Variant, RemoveVariantRead(e, x)
         PROVE  TablesRuled' /\ \A d \in Editor : CallRuled(d)'
    <3> DEFINE p == variants[x].product
    <3>1. /\ staff'[e].at = "deleteVariant" /\ staff'[e].product = p
          /\ \A d \in Editor \ {e} : staff'[d] = staff[d]
      BY <1>T, <2>13 DEF RemoveVariantRead, Start, Idle
    <3>2. p \in Product /\ Listed(p)
      BY <1>T, <2>13 DEF RemoveVariantRead, RowsListed
    <3>3. Trusted(products[p].category) => products[p].type = "VARIABLE"
      <4>1. VariantsOf(p) \ {x} # {} /\ x \in VariantsOf(p)
        BY <2>13 DEF RemoveVariantRead, HasAnother, VariantsOf
      <4>2. Trusted(products[p].category) => products[p].type # "SIMPLE"
        BY <1>T, <3>2, <4>1 DEF SimpleSingle
      <4> QED
        BY <1>T, <3>2, <4>2 DEF ProductRow
    <3>4. UNCHANGED <<products, variants, ruled>>
      BY <2>13 DEF RemoveVariantRead, rowVars
    <3>5. CallRuled(e)'
      BY <3>1, <3>2, <3>3, <3>4 DEF InsertRuled, ReplaceRuled, VariantCallRuled, DeleteRuled, At,
         Trusted
    <3> QED
      BY <2>R, <3>1, <3>4, <3>5
  <2>15. CASE Fail(e)
    BY <2>15, <2>E, <2>R DEF Fail, rowVars
  <2>6. ASSUME NEW p \in Product, NEW x \in Variant, CreateProductWrite(e, p, x)
        PROVE  TablesRuled' /\ \A d \in Editor : CallRuled(d)'
    <3> DEFINE row == staff[e].row
    <3>1. /\ ~Listed(p) /\ New(p) /\ UNCHANGED links
          /\ products'[p] = row /\ \A q \in Product \ {p} : products'[q] = products[q]
      BY <1>T, <2>6 DEF CreateProductWrite
    <3>2. /\ row.category \in Category /\ Bound(row.category)
          /\ Trusted(row.category) => /\ TypeFits(links[row.category], row)
                                      /\ InfoFits(links[row.category], row.values)
      BY <1>T, <2>6 DEF CreateProductWrite, InsertRuled
    <3>3. UNCHANGED ruled
      BY <2>6 DEF CreateProductWrite
    <3>4. \A q \in Product \ {p} : Stays(q) /\ products'[q].values = products[q].values
      BY <3>1 DEF Stays, Listed
    <3>5. \/ row.type = "VARIABLE" /\ variants' = variants
          \/ /\ row.type = "SIMPLE" /\ variants[x] = NoVariant
             /\ variants' = [variants EXCEPT ![x] =
                  [product |-> p, sku |-> staff[e].sku, combination |-> NoValues]]
      BY <2>6 DEF CreateProductWrite
    <3>6. \A y \in Variant : variants[y].product # p /\ NoVariant.product \notin Product
      BY <1>T, <3>1 DEF RowsListed, NoVariant
    <3>7. ProductRuled(p)' /\ SimpleSingle(p)'
      <4>1. ProductRuled(p)'
        BY <3>1, <3>2, <3>3 DEF ProductRuled, Bound, Trusted
      <4>2. SimpleSingle(p)'
        <5>1. CASE row.type = "SIMPLE" /\ variants' = [variants EXCEPT ![x] =
                  [product |-> p, sku |-> staff[e].sku, combination |-> NoValues]]
          <6>1. \A y \in Variant : variants'[y].product = p <=> y = x
            BY <1>T, <3>6, <5>1
          <6> QED
            BY <6>1 DEF VariantsOf, SimpleSingle
        <5>2. CASE row.type = "VARIABLE"
          BY <3>1, <5>2 DEF SimpleSingle
        <5> QED
          BY <3>5, <5>1, <5>2
      <4> QED
        BY <4>1, <4>2
    <3>8. ASSUME NEW q \in Product \ {p}
          PROVE  ProductRuled(q)' /\ SimpleSingle(q)'
      <4>1. VariantsOf(q)' = VariantsOf(q)
        BY <1>T, <3>5, <3>6 DEF VariantsOf
      <4> QED
        BY <1>0, <3>4, <4>1, ProductKept, SingleKept
    <3>9. ASSUME NEW y \in Variant
          PROVE  VariantRuled(y)'
      <4>1. CASE variants'[y] = variants[y]
        BY <1>0, <1>T, <3>4, <3>6, <4>1, VariantKept DEF RowsListed
      <4>2. CASE variants'[y] # variants[y]
        <5>1. /\ row.type = "SIMPLE" /\ variants'[y].product = p
              /\ variants'[y].combination = NoValues
          BY <1>T, <3>5, <4>2
        <5>2. Given(NoValues) = {}
          BY DEF Given, NoValues
        <5> QED
          BY <3>1, <3>2, <3>3, <5>1, <5>2 DEF VariantRuled, Trusted, TypeFits
      <4> QED
        BY <4>1, <4>2
    <3>10. ASSUME NEW d \in Editor \ {e}
           PROVE  CallRuled(d)'
      <4>1. staff'[d] = staff[d] /\ staff[d].product # p
        BY <2>6, <2>E, <3>1 DEF CreateProductWrite, New, Met
      <4> QED
        BY <1>0, <3>4, <4>1, CallKept
    <3> QED
      BY <2>6, <2>E, <3>7, <3>8, <3>9, <3>10 DEF CreateProductWrite
  <2>8. CASE ReplaceValuesInsert(e)
    <3> DEFINE p == staff[e].product
               call == staff[e]
               old == products[p].values
               k == products[p].category
    <3>1. /\ staff'[e] = Idle
          /\ \A d \in Editor \ {e} :
               /\ staff'[d].at = staff[d].at /\ staff'[d].product = staff[d].product
               /\ staff'[d].row = staff[d].row /\ staff'[d].values = staff[d].values
      BY <1>T, <2>8 DEF ReplaceValuesInsert, StaffCall
    <3>2. /\ p \in Product /\ Listed(p) /\ k \in Category /\ Bound(k)
          /\ Trusted(k) => InfoFits(links[k], call.values)
      BY <1>T, <2>8 DEF ReplaceValuesInsert, ReplaceRuled, Listed, ProductRow
    <3>3. /\ UNCHANGED <<links, ruled, variants>>
          /\ products'[p] = [products[p] EXCEPT !.values = Replaced(old, call)]
          /\ \A q \in Product \ {p} : products'[q] = products[q]
      BY <1>T, <2>8, <3>2 DEF ReplaceValuesInsert
    <3>4. /\ products'[p].values = Replaced(old, call)
          /\ \A q \in Product : Stays(q)
      BY <1>T, <3>2, <3>3 DEF ProductRow, Stays, Listed
    <3>5. ASSUME NEW q \in Product, q = p
          PROVE  ProductRuled(q)'
      <4>1. products'[q].category = k /\ products'[q].type = products[q].type
        BY <1>T, <3>3, <3>2, <3>5 DEF ProductRow
      <4>2. ASSUME Trusted(k)
            PROVE  InfoFits(links[k], Replaced(old, call)) /\ TypeFits(links[k], products[p])
        <5>1. InfoFits(links[k], old) /\ TypeFits(links[k], products[p])
          BY <1>T, <3>2, <4>2 DEF ProductRuled
        <5>2. Given(call.values) \subseteq Given(Replaced(old, call))
          BY DEF Given, Replaced
        <5>3. Given(Replaced(old, call)) \subseteq Given(call.values) \cup Given(old)
          BY DEF Given, Replaced
        <5> QED
          BY <3>2, <4>2, <5>1, <5>2, <5>3 DEF InfoFits
      <4> QED
        BY <3>2, <3>3, <3>4, <3>5, <4>1, <4>2 DEF ProductRuled, Bound, Trusted, TypeFits
    <3>6. ASSUME NEW q \in Product
          PROVE  ProductRuled(q)' /\ SimpleSingle(q)'
      <4>1. VariantsOf(q)' = VariantsOf(q)
        BY <3>3 DEF VariantsOf
      <4>2. SimpleSingle(q)'
        BY <1>0, <3>4, <4>1, SingleKept
      <4>3. q # p => ProductRuled(q)'
        BY <1>0, <3>3, <3>4, ProductKept
      <4> QED
        BY <3>5, <4>2, <4>3
    <3>7. ASSUME NEW y \in Variant
          PROVE  VariantRuled(y)'
      BY <1>0, <1>T, <3>3, <3>4, VariantKept DEF RowsListed
    <3>8. ASSUME NEW d \in Editor \ {e}
          PROVE  CallRuled(d)'
      BY <1>0, <3>1, <3>4, CallKept
    <3>9. CallRuled(e)'
      BY <3>1 DEF InsertRuled, ReplaceRuled, VariantCallRuled, DeleteRuled, At, Idle
    <3> QED
      BY <3>6, <3>7, <3>8, <3>9
  <2>10. CASE RemoveProductWrite(e)
    <3> DEFINE p == staff[e].product
    <3>1. p \in Product /\ Listed(p)
      BY <1>0, <2>10 DEF RemoveProductWrite, RemovalsInv, ProductSafe
    <3>2. /\ products'[p] = NoProduct /\ \A q \in Product \ {p} : products'[q] = products[q]
          /\ \A y \in Variant : variants'[y] = IF variants[y].product = p THEN NoVariant ELSE variants[y]
      BY <1>T, <2>10, <3>1 DEF RemoveProductWrite
    <3>3. ASSUME NEW q \in Product
          PROVE  Stays(q) /\ (q = p => ~Listed(q)')
      <4>1. CASE q = p
        BY <3>2, <4>1 DEF Listed, NoProduct, Stays
      <4>2. CASE q # p
        BY <3>2, <4>2 DEF Listed, Stays
      <4> QED
        BY <4>1, <4>2
    <3>4. ASSUME NEW q \in Product
          PROVE  ProductRuled(q)' /\ SimpleSingle(q)'
      <4>1. CASE q = p
        BY <3>3, <4>1 DEF ProductRuled, SimpleSingle
      <4>2. CASE q # p
        <5>1. VariantsOf(q)' = VariantsOf(q)
          BY <3>2, <4>2 DEF VariantsOf, NoVariant
        <5> QED
          BY <1>0, <3>2, <3>3, <4>2, <5>1, ProductKept, SingleKept
      <4> QED
        BY <4>1, <4>2
    <3>5. ASSUME NEW y \in Variant
          PROVE  VariantRuled(y)'
      BY <1>0, <1>T, <3>2, <3>3, VariantKept DEF RowsListed
    <3>6. ASSUME NEW d \in Editor \ {e}
          PROVE  CallRuled(d)'
      BY <1>C, <2>10, <2>E, <3>3 DEF RemoveProductWrite
    <3> QED
      BY <2>10, <2>E, <3>4, <3>5, <3>6 DEF RemoveProductWrite
  <2>12. ASSUME NEW x \in Variant, CreateVariantWrite(e, x)
         PROVE  TablesRuled' /\ \A d \in Editor : CallRuled(d)'
    <3> DEFINE p == staff[e].product
               k == products[p].category
    <3>1. /\ p \in Product /\ Listed(p) /\ k \in Category
          /\ products[p].type = "VARIABLE"
          /\ Trusted(k) => Given(staff[e].values) = VariantAttributes(links[k])
      BY <1>T, <2>12 DEF CreateVariantWrite, VariantCallRuled, Listed, ProductRow
    <3>2. /\ UNCHANGED <<products, links, ruled>> /\ variants[x] = NoVariant
          /\ variants'[x].product = p /\ variants'[x].combination = staff[e].values
          /\ \A y \in Variant \ {x} : variants'[y] = variants[y]
      BY <1>T, <2>12 DEF CreateVariantWrite
    <3>3. \A q \in Product : Stays(q) /\ products'[q].values = products[q].values
      BY <1>S, <3>2
    <3>4. ASSUME NEW q \in Product
          PROVE  ProductRuled(q)' /\ SimpleSingle(q)'
      <4>1. ProductRuled(q)'
        BY <1>0, <3>3, ProductKept
      <4>2. q = p => SimpleSingle(q)'
        BY <3>1, <3>2 DEF SimpleSingle
      <4>3. q # p => VariantsOf(q)' = VariantsOf(q)
        BY <3>2 DEF VariantsOf, NoVariant
      <4> QED
        BY <1>0, <3>3, <4>1, <4>2, <4>3, SingleKept
    <3>5. ASSUME NEW y \in Variant
          PROVE  VariantRuled(y)'
      <4>1. CASE y = x
        BY <3>1, <3>2, <4>1 DEF VariantRuled, Trusted
      <4>2. CASE y # x
        BY <1>0, <1>T, <3>2, <3>3, <4>2, VariantKept DEF RowsListed
      <4> QED
        BY <4>1, <4>2
    <3>6. ASSUME NEW d \in Editor \ {e}
          PROVE  CallRuled(d)'
      BY <1>C, <2>12, <2>E, <3>3 DEF CreateVariantWrite
    <3> QED
      BY <2>12, <2>E, <3>4, <3>5, <3>6 DEF CreateVariantWrite
  <2>14. CASE RemoveVariantWrite(e)
    <3> DEFINE x == staff[e].variant
               p == staff[e].product
    <3>1. /\ x \in Variant /\ p \in Product /\ variants[x].product = p
          /\ variants'[x] = NoVariant /\ \A y \in Variant \ {x} : variants'[y] = variants[y]
          /\ UNCHANGED products
      BY <1>0, <1>T, <2>14 DEF RemoveVariantWrite, RemovalsInv, LastVariantSafe
    <3>2. /\ Listed(p) /\ Trusted(products[p].category) => products[p].type = "VARIABLE"
          /\ UNCHANGED ruled
      BY <1>T, <2>14 DEF RemoveVariantWrite, DeleteRuled
    <3>3. \A q \in Product : Stays(q) /\ products'[q].values = products[q].values
      BY <1>S, <3>1
    <3>4. ASSUME NEW q \in Product
          PROVE  ProductRuled(q)' /\ SimpleSingle(q)'
      <4>1. ProductRuled(q)'
        BY <1>0, <3>3, ProductKept
      <4>2. q = p => SimpleSingle(q)'
        BY <3>1, <3>2 DEF SimpleSingle, Listed, Trusted
      <4>3. q # p => VariantsOf(q)' = VariantsOf(q)
        BY <3>1 DEF VariantsOf, NoVariant
      <4> QED
        BY <1>0, <3>3, <4>1, <4>2, <4>3, SingleKept
    <3>5. ASSUME NEW y \in Variant
          PROVE  VariantRuled(y)'
      BY <1>0, <1>T, <3>1, <3>3, VariantKept DEF RowsListed
    <3>6. ASSUME NEW d \in Editor \ {e}
          PROVE  CallRuled(d)'
      BY <1>C, <2>14, <2>E, <3>3 DEF RemoveVariantWrite
    <3> QED
      BY <2>14, <2>E, <3>4, <3>5, <3>6 DEF RemoveVariantWrite
  <2> QED
    BY <1>2, <2>1, <2>2, <2>3, <2>4, <2>5, <2>6, <2>7, <2>8, <2>9, <2>10, <2>11, <2>12,
       <2>13, <2>14, <2>15 DEF EditorStep
<1>3. CASE UNCHANGED catalogVars
  BY <1>K, <1>C, <1>S, <1>3 DEF catalogVars, rowVars
<1> QED
  BY <1>1, <1>2, <1>3 DEF CatalogNext

\* What was validated is in the catalogue from the start, and is what its rules ask for.
LEMMA RulesInit == CatalogInit => RulesInv
BY EmptyType DEF CatalogInit, RulesInv, RemovalsInv, RowsTypeOK, Role, RowsListed,
   NoProduct, Idle, At, LastVariantSafe, ProductSafe, AttributeSafe, BrandSafe, Drafts,
   ProductRuled, SimpleSingle, VariantRuled, InsertRuled, ReplaceRuled, VariantCallRuled,
   DeleteRuled, Listed

LEMMA RulesImply == RulesInv => RulesFollowed
<1> SUFFICES ASSUME RulesInv, NEW p \in Product, Listed(p),
                    ruled[products[p].category] # "changed"
             PROVE  LET rules == links[products[p].category] IN
                      /\ products[p].type = "SIMPLE" =>
                           VariantAttributes(rules) = {} /\ \E x \in Variant : VariantsOf(p) = {x}
                      /\ \A x \in VariantsOf(p) :
                           Given(variants[x].combination) = VariantAttributes(rules)
                      /\ RequiredAttributes(rules) \subseteq Given(products[p].values)
                      /\ Given(products[p].values) \subseteq InfoAttributes(rules)
  BY DEF RulesFollowed
<1>1. products[p].category \in Category /\ Trusted(products[p].category)
  BY DEF RulesInv, RemovalsInv, RowsTypeOK, ProductRow, Listed, ProductRuled, Bound, Trusted
<1>2. /\ TypeFits(links[products[p].category], products[p])
      /\ InfoFits(links[products[p].category], products[p].values)
      /\ SimpleSingle(p)
  BY <1>1 DEF RulesInv, ProductRuled
<1>3. ASSUME NEW x \in VariantsOf(p)
      PROVE  Given(variants[x].combination) = VariantAttributes(links[products[p].category])
  BY <1>1, <1>3 DEF RulesInv, VariantRuled, VariantsOf, NoVariant
<1> QED
  BY <1>1, <1>2, <1>3 DEF TypeFits, InfoFits, SimpleSingle

\* However calls overlap, the products and variants of a category obey its links as long
\* as those are the ones its first product was validated against
\* (attribute-values.helper.ts:20, products.service.ts:110, variants.service.ts:36).
THEOREM CatalogObeysItsRules == CatalogSpec => []RulesFollowed
BY RulesInit, RulesImply, RulesStep, PTL DEF CatalogSpec

----------------------------------------------------------------------------
(* Imports.                                                                   *)

\* What a batch and an import under way look like.
BatchOf(file) ==
  LET n == Len(file) IN
    [status : {"PREVIEWED"}, file : {file}, rows : [1..n -> {"VALID", "ERROR"}],
     resolved : [1..n -> {None}]]
      \cup [status : {"COMMITTED"}, file : {file}, rows : [1..n -> {"COMMITTED", "SKIPPED"}],
            resolved : [1..n -> Variant \cup {None}]]
Batches == UNION {BatchOf(file) : file \in File}

Plan == [rules : [Attribute -> Role], product : Product \cup {None}, brand : Brand \cup {None}]
Plans == UNION {[D -> Plan] : D \in SUBSET Nat}

Preview == [at : {"preview"}, file : File, branded : SUBSET Nat, taken : SUBSET Nat,
            todo : SUBSET Category, valid : SUBSET Nat]
Commit == [at : {"commit"}, batch : Batch, valid : SUBSET Nat, todo : SUBSET Nat, plan : Plans]
Import == {NoImport} \cup Preview \cup Commit

\* A row that was found valid, under the links rules of the categories of which status
\* tells whether somebody relies on them: it has what they ask for, and no row before
\* it is the same.
RowRuled(rules, status, file, i) ==
  LET k == file[i].category IN
  /\ k \in Category /\ file[i].sku \in Sku
  /\ FirstOfSku(file, i)
  /\ status[k] # "open"
  /\ status[k] = "used" =>
       /\ VariantAttributes(rules[k]) \cup RequiredAttributes(rules[k]) \subseteq Given(file[i].values)
       /\ FirstOfCombination(file, rules[k], i)

\* What a commit has found for a group of rows of the category k, table being the products.
PlanRuled(rules, status, table, k, plan) ==
  /\ status[k] = "used" => plan.rules = rules[k]
  /\ plan.product \in Product /\ table[plan.product].category # None =>
       table[plan.product].category = k

\* The rows that a commit writes, or has written.
Accepted(b) == {i \in DOMAIN batches[b].rows : batches[b].rows[i] \in {"VALID", "COMMITTED"}}

BatchRuled(b) ==
  batches[b] # NoBatch => \A i \in Accepted(b) : RowRuled(links, ruled, batches[b].file, i)

\* The variant a row was given still has the SKU of the row, as long as it is there.
BatchResolved(b) ==
  LET resolved == batches[b].resolved IN
  batches[b] # NoBatch =>
    /\ \A i \in DOMAIN resolved : resolved[i] # None =>
         /\ i \in Accepted(b)
         /\ variants[resolved[i]] # NoVariant => variants[resolved[i]].sku = batches[b].file[i].sku
    /\ batches[b].status = "COMMITTED" => \A i \in Accepted(b) : resolved[i] # None

UploadSound(e) ==
  importing[e].at = "preview" =>
    \A i \in importing[e].valid : /\ i \in DOMAIN importing[e].file
                                  /\ RowRuled(links, ruled, importing[e].file, i)

\* A commit is about to write the accepted rows, group by group.
CommitSound(e) ==
  LET b == importing[e].batch
      file == batches[b].file
      valid == importing[e].valid
      plan == importing[e].plan
  IN
  importing[e].at = "commit" =>
    /\ batches[b] # NoBatch
    /\ valid = Accepted(b) /\ valid # {}
    /\ DOMAIN plan = {Leader(file, valid, i) : i \in valid}
    /\ importing[e].todo \subseteq DOMAIN plan
    /\ \A i \in DOMAIN plan \ importing[e].todo :
         PlanRuled(links, ruled, products, file[i].category, plan[i])

ImportsInv ==
  /\ RulesInv
  /\ ReferencesHold
  /\ batches \in [Batch -> {NoBatch} \cup Batches]
  /\ importing \in [Editor -> Import]
  /\ \A b \in Batch : BatchRuled(b) /\ BatchResolved(b)
  /\ \A e \in Editor : UploadSound(e) /\ CommitSound(e)

\* A file, a batch and an import, by their fields.
LEMMA FileShape ==
  ASSUME NEW file \in File
  PROVE  /\ Len(file) \in Nat /\ DOMAIN file = 1..Len(file)
         /\ \A i \in DOMAIN file : file[i] \in FileRow
<1>1. file \in Seq(FileRow)
  BY ImportsAssumption
<1> QED
  BY <1>1

LEMMA FileRowShape ==
  ASSUME NEW row \in FileRow
  PROVE  /\ row.category \in Category \cup {None} /\ row.name \in Name
         /\ row.brand \in Brand \cup {None} /\ row.sku \in Sku \cup {None}
         /\ row.values \in Values
BY DEF FileRow

LEMMA BatchShape ==
  ASSUME batches \in [Batch -> {NoBatch} \cup Batches],
         NEW b \in Batch, batches[b] # NoBatch
  PROVE  LET n == Len(batches[b].file) IN
         /\ batches[b].file \in File
         /\ batches[b] \in BatchOf(batches[b].file)
         /\ DOMAIN batches[b].rows = 1..n /\ DOMAIN batches[b].resolved = 1..n
         /\ \A i \in 1..n : batches[b].resolved[i] \in Variant \cup {None}
         /\ batches[b].status \in {"PREVIEWED", "COMMITTED"}
         /\ Accepted(b) \subseteq 1..n
         /\ ValidRows(b) \subseteq Accepted(b)
         /\ batches[b].status = "PREVIEWED" =>
              /\ ValidRows(b) = Accepted(b)
              /\ \A i \in 1..n : batches[b].rows[i] \in {"VALID", "ERROR"} /\ batches[b].resolved[i] = None
         /\ batches[b].status = "COMMITTED" =>
              \A i \in 1..n : batches[b].rows[i] \in {"COMMITTED", "SKIPPED"}
<1>1. PICK file \in File : batches[b] \in BatchOf(file)
  BY DEF Batches
<1>2. batches[b].file = file
  BY <1>1 DEF BatchOf
<1>3. /\ batches[b].status = "PREVIEWED" \/ batches[b].status = "COMMITTED"
      /\ batches[b].status = "PREVIEWED" =>
           /\ batches[b].rows \in [1..Len(file) -> {"VALID", "ERROR"}]
           /\ batches[b].resolved \in [1..Len(file) -> {None}]
      /\ batches[b].status = "COMMITTED" =>
           /\ batches[b].rows \in [1..Len(file) -> {"COMMITTED", "SKIPPED"}]
           /\ batches[b].resolved \in [1..Len(file) -> Variant \cup {None}]
  BY <1>1 DEF BatchOf
<1>4. Accepted(b) \subseteq DOMAIN batches[b].rows /\ ValidRows(b) \subseteq Accepted(b)
  BY DEF Accepted, ValidRows
<1>5. CASE batches[b].status = "PREVIEWED"
  <2>1. ValidRows(b) = Accepted(b)
    BY <1>3, <1>5 DEF Accepted, ValidRows
  <2> QED
    BY <1>1, <1>2, <1>3, <1>4, <1>5, <2>1
<1>6. CASE batches[b].status = "COMMITTED"
  BY <1>1, <1>2, <1>3, <1>4, <1>6
<1> QED
  BY <1>3, <1>5, <1>6

LEMMA ImportShape ==
  ASSUME NEW import \in Import
  PROVE  /\ import.at = "preview" =>
              /\ import \in Preview
              /\ import.file \in File /\ import.todo \subseteq Category /\ import.valid \subseteq Nat
         /\ import.at = "commit" =>
              /\ import \in Commit
              /\ import.batch \in Batch /\ import.valid \subseteq Nat /\ import.todo \subseteq Nat
              /\ DOMAIN import.plan \subseteq Nat /\ import.plan \in [DOMAIN import.plan -> Plan]
<1>1. NoImport.at = "idle"
  BY DEF NoImport
<1>2. ASSUME import \in Commit
      PROVE  DOMAIN import.plan \subseteq Nat /\ import.plan \in [DOMAIN import.plan -> Plan]
  <2>1. import.plan \in Plans
    BY <1>2 DEF Commit
  <2> QED
    BY <2>1 DEF Plans
<1> QED
  BY <1>1, <1>2 DEF Import, Preview, Commit

LEMMA NoBatchStatus ==
  /\ NoBatch.status = "none" /\ NoImport.at = "idle" /\ NoImport \in Import
BY DEF NoBatch, NoImport, Import

\* A set of rows has a first one.
LEMMA FirstOfRows ==
  ASSUME NEW S \in SUBSET Nat, S # {}
  PROVE  Min(S) \in S /\ \A j \in S : Min(S) <= j
<1>1. PICK i \in S : \A j \in S : ~(<<j, i>> \in OpToRel(<, Nat))
  BY NatLessThanWellFounded, WFMin
<1>2. ASSUME NEW j \in S
      PROVE  i <= j
  <2>1. ~(j < i)
    BY <1>1, <1>2 DEF OpToRel
  <2> QED
    BY <1>2, <2>1
<1> QED
  BY <1>2 DEF Min

\* The leader of a row is of its group, and leads all of it.
LEMMA LeaderOf ==
  ASSUME NEW file, NEW S \in SUBSET Nat, NEW i \in S
  PROVE  /\ Leader(file, S, i) \in S /\ Alike(file, i, Leader(file, S, i))
         /\ \A j \in S : Alike(file, i, j) => Leader(file, S, i) <= j
         /\ \A j \in S : Alike(file, i, j) => Leader(file, S, j) = Leader(file, S, i)
<1> DEFINE group(j) == {l \in S : Alike(file, j, l)}
<1>1. i \in group(i)
  BY DEF Alike
<1>2. Min(group(i)) \in group(i) /\ \A j \in group(i) : Min(group(i)) <= j
  BY <1>1, FirstOfRows
<1>3. \A j \in S : Alike(file, i, j) => group(j) = group(i)
  BY DEF Alike
<1> QED
  BY <1>2, <1>3 DEF Leader

\* Of two rows one is validated before the other.
LEMMA BeforeIsTotal ==
  ASSUME NEW file \in File, NEW i \in DOMAIN file, NEW j \in DOMAIN file, i # j
  PROVE  Before(file, i, j) \/ Before(file, j, i)
<1> DEFINE D == DOMAIN file
           li == Leader(file, D, i)
           lj == Leader(file, D, j)
<1>1. D \subseteq Nat
  BY FileShape
<1>2. /\ li \in Nat /\ Alike(file, i, li)
      /\ lj \in Nat /\ Alike(file, j, lj)
  BY <1>1, LeaderOf
<1> HIDE DEF li, lj
<1>3. li = lj => Alike(file, i, j) /\ Alike(file, j, i)
  BY <1>2 DEF Alike
<1>4. li < lj \/ lj < li \/ li = lj
  BY <1>2
<1>5. i < j \/ j < i
  BY <1>1
<1> QED
  BY <1>3, <1>4, <1>5 DEF Before, li, lj

\* Two valid rows of a file do not stand in each other's way.
LEMMA RuledRowsDiffer ==
  ASSUME NEW rules, NEW status, NEW file \in File, NEW i \in DOMAIN file, NEW j \in DOMAIN file,
         i # j, RowRuled(rules, status, file, i), RowRuled(rules, status, file, j)
  PROVE  LET k == file[i].category IN
         /\ file[i].sku # file[j].sku
         /\ Alike(file, i, j) /\ status[k] = "used" =>
              OfVariant(rules[k], file[i].values) # OfVariant(rules[k], file[j].values)
<1>1. file[i].sku # file[j].sku
  BY BeforeIsTotal DEF RowRuled, FirstOfSku
<1>2. ASSUME Alike(file, i, j), status[file[i].category] = "used"
      PROVE  OfVariant(rules[file[i].category], file[i].values)
               # OfVariant(rules[file[i].category], file[j].values)
  <2>1. Alike(file, j, i) /\ file[j].category = file[i].category
    BY <1>2 DEF Alike
  <2>2. i < j \/ j < i
    BY FileShape
  <2>3. /\ FirstOfCombination(file, rules[file[i].category], i)
        /\ FirstOfCombination(file, rules[file[i].category], j)
    BY <1>2, <2>1 DEF RowRuled
  <2> QED
    BY <1>2, <2>1, <2>2, <2>3 DEF FirstOfCombination
<1> QED
  BY <1>1, <1>2

\* A row that was found valid stays so, and what was found for a group of rows in a
\* category that is relied on, as long as the product, if it is there, is what it was.
LEMMA RowKept ==
  ASSUME LinksKept, NEW file, NEW i, RowRuled(links, ruled, file, i)
  PROVE  RowRuled(links', ruled', file, i)
<1> DEFINE k == file[i].category
<1>1. k \in Category /\ Bound(k)
  BY DEF RowRuled, Bound
<1>2. /\ ruled'[k] # "open"
      /\ ruled'[k] = "used" => ruled[k] = "used" /\ links'[k] = links[k]
  BY <1>1 DEF LinksKept, Bound, Trusted
<1> QED
  BY <1>2 DEF RowRuled

LEMMA PlanKept ==
  ASSUME LinksKept, NEW k \in Category, ruled[k] # "open", NEW plan,
         PlanRuled(links, ruled, products, k, plan),
         plan.product \in Product => Stays(plan.product)
  PROVE  PlanRuled(links', ruled', products', k, plan)
<1>1. ruled'[k] = "used" => ruled[k] = "used" /\ links'[k] = links[k]
  BY DEF LinksKept, Bound, Trusted
<1> QED
  BY <1>1 DEF PlanRuled, Stays, Listed

\* A call that relies on links that stay leaves everything as it was validated.
LEMMA UseKeeps ==
  ASSUME RulesInv, NEW k \in Category, Use(k), UNCHANGED <<rowVars, staff, raced>>
  PROVE  RulesInv' /\ LinksKept
<1>1. RowsTypeOK /\ ruled \in [Category -> {"open", "used", "changed"}]
  BY DEF RulesInv, RemovalsInv, RowsTypeOK
<1>2. LinksKept
  BY <1>1 DEF Use, rowVars, LinksKept, Bound, Trusted
<1>3. RowsTypeOK'
  BY <1>1 DEF RowsTypeOK, Use, rowVars
<1>4. RemovalsInv'
  BY <1>3 DEF RulesInv, RemovalsInv, rowVars, RowsListed, Listed, LastVariantSafe, ProductSafe,
     AttributeSafe, BrandSafe, Drafts, At
<1>5. \A p \in Product : Stays(p) /\ products'[p].values = products[p].values
  BY DEF rowVars, Stays, Listed
<1>6. ASSUME NEW p \in Product
      PROVE  ProductRuled(p)' /\ SimpleSingle(p)'
  <2>1. VariantsOf(p)' = VariantsOf(p)
    BY DEF VariantsOf, rowVars
  <2> QED
    BY <1>2, <1>5, <2>1, ProductKept, SingleKept
<1>7. ASSUME NEW x \in Variant
      PROVE  VariantRuled(x)'
  <2>1. variants'[x] = variants[x]
    BY DEF rowVars
  <2>2. variants[x] # NoVariant =>
          variants[x].product \in Product /\ Listed(variants[x].product)'
    BY DEF RulesInv, RemovalsInv, RowsListed, Listed, rowVars
  <2> QED
    BY <1>2, <1>5, <2>1, <2>2, VariantKept
<1>8. ASSUME NEW e \in Editor
      PROVE  InsertRuled(e)' /\ ReplaceRuled(e)' /\ VariantCallRuled(e)' /\ DeleteRuled(e)'
  BY <1>2, <1>5, CallKept
<1> QED
  BY <1>2, <1>4, <1>6, <1>7, <1>8 DEF RulesInv

\* What a step does to variants that imports know: it may delete them, no more.  And to
\* products that a commit under way knows.
RowsStay == \A x \in Variant \ FreshVariants : variants'[x] \in {variants[x], NoVariant}
MetStay(e) == \A p \in Product : p \in ImportMet(e) => Stays(p)

\* A batch that is left alone stays sound.
LEMMA BatchKept ==
  ASSUME ImportsInv, LinksKept, RowsStay, NEW b \in Batch, batches'[b] = batches[b]
  PROVE  BatchRuled(b)' /\ BatchResolved(b)'
<1> SUFFICES ASSUME batches[b] # NoBatch
             PROVE  BatchRuled(b)' /\ BatchResolved(b)'
  BY DEF BatchRuled, BatchResolved
<1>1. Accepted(b)' = Accepted(b)
  BY DEF Accepted
<1>2. /\ DOMAIN batches[b].resolved = 1..Len(batches[b].file)
      /\ \A i \in DOMAIN batches[b].resolved : batches[b].resolved[i] \in Variant \cup {None}
  BY BatchShape DEF ImportsInv
<1>3. BatchRuled(b)'
  <2>1. \A i \in Accepted(b) : RowRuled(links', ruled', batches[b].file, i)
    BY RowKept DEF ImportsInv, BatchRuled
  <2> QED
    BY <1>1, <2>1 DEF BatchRuled
<1>4. ASSUME NEW i \in DOMAIN batches[b].resolved, batches[b].resolved[i] # None
      PROVE  variants'[batches[b].resolved[i]] \in {variants[batches[b].resolved[i]], NoVariant}
  <2>1. batches[b].resolved[i] \in Range(batches[b].resolved)
    BY <1>4 DEF Range
  <2> QED
    BY <1>2, <1>4, <2>1 DEF RowsStay, FreshVariants
<1>5. BatchResolved(b)'
  BY <1>1, <1>4 DEF ImportsInv, BatchResolved
<1> QED
  BY <1>3, <1>5

\* So does an upload that waits.
LEMMA UploadKept ==
  ASSUME ImportsInv, LinksKept, NEW e \in Editor, importing'[e] = importing[e]
  PROVE  UploadSound(e)'
<1>1. UploadSound(e)
  BY DEF ImportsInv
<1>2. \A i : RowRuled(links, ruled, importing[e].file, i) =>
               RowRuled(links', ruled', importing[e].file, i)
  BY RowKept
<1> QED
  BY <1>1, <1>2 DEF UploadSound

\* What a commit is at.
LEMMA CommitShape ==
  ASSUME ImportsInv, NEW e \in Editor, importing[e].at = "commit"
  PROVE  LET b == importing[e].batch
             file == batches[b].file
             valid == importing[e].valid
             plan == importing[e].plan
         IN  /\ b \in Batch /\ batches[b] # NoBatch /\ file \in File
             /\ valid = Accepted(b) /\ valid # {} /\ valid \subseteq DOMAIN file /\ valid \subseteq Nat
             /\ plan \in [DOMAIN plan -> Plan] /\ DOMAIN plan \subseteq valid
             /\ importing[e].todo \subseteq DOMAIN plan
             /\ \A i \in valid : /\ Leader(file, valid, i) \in DOMAIN plan
                                 /\ Alike(file, i, Leader(file, valid, i))
                                 /\ RowRuled(links, ruled, file, i)
             /\ \A i \in DOMAIN plan : Leader(file, valid, i) = i
             /\ \A i \in DOMAIN plan \ importing[e].todo :
                  PlanRuled(links, ruled, products, file[i].category, plan[i])
<1> DEFINE b == importing[e].batch
           file == batches[b].file
           valid == importing[e].valid
           plan == importing[e].plan
<1>1. /\ b \in Batch /\ valid \subseteq Nat
      /\ plan \in [DOMAIN plan -> Plan]
  BY ImportShape DEF ImportsInv
<1>2. /\ batches[b] # NoBatch /\ valid = Accepted(b) /\ valid # {}
      /\ DOMAIN plan = {Leader(file, valid, i) : i \in valid}
      /\ importing[e].todo \subseteq DOMAIN plan
      /\ \A i \in DOMAIN plan \ importing[e].todo :
           PlanRuled(links, ruled, products, file[i].category, plan[i])
  BY DEF ImportsInv, CommitSound
<1>3. file \in File /\ valid \subseteq DOMAIN file
  BY <1>1, <1>2, BatchShape, FileShape DEF ImportsInv
<1>4. \A i \in valid : RowRuled(links, ruled, file, i)
  BY <1>1, <1>2 DEF ImportsInv, BatchRuled
<1> HIDE DEF b, file, valid, plan
<1>5. \A i \in valid : /\ Leader(file, valid, i) \in valid
                       /\ Alike(file, i, Leader(file, valid, i))
                       /\ Leader(file, valid, Leader(file, valid, i)) = Leader(file, valid, i)
  BY <1>1, LeaderOf
<1>6. /\ DOMAIN plan \subseteq valid
      /\ \A i \in valid : Leader(file, valid, i) \in DOMAIN plan
      /\ \A i \in DOMAIN plan : Leader(file, valid, i) = i
  BY <1>2, <1>5
<1> QED
  BY <1>1, <1>2, <1>3, <1>4, <1>5, <1>6 DEF b, file, valid, plan

\* So does a commit that waits, whose batch has the rows it had.
LEMMA CommitKept ==
  ASSUME ImportsInv, LinksKept, NEW e \in Editor, importing'[e] = importing[e], MetStay(e),
         \A b \in Batch : batches[b] # NoBatch =>
           batches'[b] # NoBatch /\ batches'[b].file = batches[b].file /\ Accepted(b)' = Accepted(b)
  PROVE  CommitSound(e)'
<1> DEFINE b == importing[e].batch
           file == batches[b].file
           valid == importing[e].valid
           plan == importing[e].plan
<1> SUFFICES ASSUME importing[e].at = "commit"
             PROVE  CommitSound(e)'
  BY DEF CommitSound
<1>1. /\ b \in Batch /\ batches[b] # NoBatch /\ DOMAIN plan \subseteq valid
      /\ \A i \in valid : RowRuled(links, ruled, file, i)
      /\ \A i \in DOMAIN plan \ importing[e].todo :
           PlanRuled(links, ruled, products, file[i].category, plan[i])
  BY CommitShape
<1>2. ASSUME NEW i \in DOMAIN plan \ importing[e].todo
      PROVE  PlanRuled(links', ruled', products', file[i].category, plan[i])
  <2>1. file[i].category \in Category /\ ruled[file[i].category] # "open"
    BY <1>1 DEF RowRuled
  <2>2. plan[i].product \in ImportMet(e)
    BY <1>2 DEF ImportMet, Doing
  <2> HIDE DEF file, plan
  <2> QED
    BY <1>1, <1>2, <2>1, <2>2, PlanKept DEF MetStay
<1>3. batches'[b] # NoBatch /\ batches'[b].file = file /\ Accepted(b)' = Accepted(b)
  BY <1>1
<1>4. /\ valid = Accepted(b) /\ valid # {} /\ importing[e].todo \subseteq DOMAIN plan
      /\ DOMAIN plan = {Leader(file, valid, i) : i \in valid}
  BY DEF ImportsInv, CommitSound
<1> QED
  BY <1>2, <1>3, <1>4 DEF CommitSound

\* The calls of the catalogue leave a product in its category as long as it is there.
LEMMA CategoriesStay ==
  ASSUME RemovalsInv, [CatalogNext]_catalogVars, NEW p \in Product, Listed(p)
  PROVE  Stays(p)
<1>T. /\ products \in [Product -> ProductRow] /\ staff \in [Editor -> StaffCall]
  BY DEF RemovalsInv, RowsTypeOK
<1>1. ASSUME UNCHANGED products
      PROVE  Stays(p)
  BY <1>1 DEF Stays, Listed
<1>2. CASE SingleStep
  <2>1. ASSUME AttributesNext \/ \E b \in Brand : CreateBrand(b)
        PROVE  UNCHANGED products
    BY <2>1 DEF AttributesNext, CreateAttribute, AddOption, RemoveOption, LinkToCategory,
       UnlinkFromCategory, CreateBrand
  <2>2. ASSUME NEW q \in Product, NEW n \in Name, NEW s \in Slug, NEW b \in Brand \cup {None},
               NEW published \in BOOLEAN, UpdateProduct(q, n, s, b, published)
        PROVE  Stays(p)
    BY <1>T, <2>2 DEF UpdateProduct, Stays, Listed, ProductRow
  <2> QED
    BY <1>1, <1>2, <2>1, <2>2 DEF SingleStep
<1>3. ASSUME NEW e \in Editor, EditorStep(e)
      PROVE  Stays(p)
  <2>1. CASE \/ UNCHANGED rowVars \/ RemoveAttributeWrite(e) \/ RemoveVariantWrite(e)
             \/ \E x \in Variant : CreateVariantWrite(e, x)
    BY <1>1, <2>1 DEF rowVars, RemoveAttributeWrite, RemoveVariantWrite, CreateVariantWrite
  <2>2. CASE RemoveBrandWrite(e) \/ ReplaceValuesInsert(e)
    BY <1>T, <2>2 DEF RemoveBrandWrite, ReplaceValuesInsert, Stays, Listed, ProductRow
  <2>3. CASE RemoveProductWrite(e)
    BY <1>T, <2>3 DEF RemoveProductWrite, NoProduct, Stays, Listed
  <2>4. ASSUME NEW q \in Product, NEW x \in Variant, CreateProductWrite(e, q, x)
        PROVE  Stays(p)
    BY <1>T, <2>4 DEF CreateProductWrite, Stays, Listed
  <2> QED
    BY <1>3, <2>1, <2>2, <2>3, <2>4, Writes
<1>4. CASE UNCHANGED catalogVars
  BY <1>1, <1>4 DEF catalogVars, rowVars
<1> QED
  BY <1>2, <1>3, <1>4 DEF CatalogNext

\* The calls of the catalogue itself.
LEMMA ImportsCatalogStep ==
  ASSUME ImportsInv, CatalogStep
  PROVE  ImportsInv'
<1>1. /\ [CatalogNext]_catalogVars
      /\ UNCHANGED <<batches, importing>>
      /\ \A x \in Variant : variants[x] = NoVariant /\ variants'[x] # NoVariant => x \in FreshVariants
      /\ \A e \in Editor, p \in Product : p \in ImportMet(e) /\ Listed(p)' => Listed(p)
  BY DEF CatalogStep, CatalogNext, importVars
<1>2. RulesInv /\ RemovalsInv /\ RowsTypeOK /\ ReferencesHold
  BY DEF ImportsInv, RulesInv, RemovalsInv
<1>3. RulesInv' /\ LinksKept /\ ReferencesHold'
  BY <1>1, <1>2, RulesStep, LinksStep, ReferencesStep
<1>4. RowsStay
  <2> SUFFICES ASSUME NEW x \in Variant \ FreshVariants, variants'[x] # NoVariant
               PROVE  variants'[x] = variants[x]
    BY DEF RowsStay
  <2>1. variants[x] # NoVariant
    BY <1>1
  <2>2. variants \in [Variant -> VariantRow]
    BY <1>2 DEF RowsTypeOK
  <2>3. ASSUME NEW e \in Editor, RemoveVariantWrite(e) \/ RemoveProductWrite(e)
        PROVE  variants'[x] = variants[x]
    BY <2>2, <2>3 DEF RemoveVariantWrite, RemoveProductWrite
  <2> QED
    BY <1>1, <1>2, <2>1, <2>3, Deletions
<1>5. \A b \in Batch : BatchRuled(b)' /\ BatchResolved(b)'
  BY <1>1, <1>3, <1>4, BatchKept
<1>6. \A b \in Batch : batches'[b] = batches[b] /\ Accepted(b)' = Accepted(b)
  BY <1>1 DEF Accepted
<1>7. ASSUME NEW e \in Editor
      PROVE  MetStay(e)
  BY <1>1, <1>2, CategoriesStay DEF MetStay, Stays
<1>8. \A e \in Editor : UploadSound(e)' /\ CommitSound(e)'
  BY <1>1, <1>3, <1>6, <1>7, UploadKept, CommitKept
<1> QED
  BY <1>1, <1>3, <1>5, <1>8 DEF ImportsInv

\* An import that goes on or ends while the batches and the catalogue stay as they are.
LEMMA ImportGoesOn ==
  ASSUME ImportsInv, RulesInv', LinksKept, UNCHANGED <<rowVars, batches>>,
         NEW e \in Editor, NEW import \in Import, Go(e, import), UploadSound(e)', CommitSound(e)'
  PROVE  ImportsInv'
<1>1. RowsStay /\ \A d \in Editor : MetStay(d)
  BY DEF RowsStay, MetStay, Stays, Listed, rowVars
<1>2. \A b \in Batch : BatchRuled(b)' /\ BatchResolved(b)'
  BY <1>1, BatchKept
<1>3. importing \in [Editor -> Import]
  BY DEF ImportsInv
<1>4. /\ importing' \in [Editor -> Import]
      /\ \A d \in Editor \ {e} : importing'[d] = importing[d]
  BY <1>3 DEF Go
<1>5. \A b \in Batch : batches'[b] = batches[b] /\ Accepted(b)' = Accepted(b)
  BY DEF Accepted
<1>6. \A d \in Editor \ {e} : UploadSound(d)' /\ CommitSound(d)'
  BY <1>1, <1>4, <1>5, UploadKept, CommitKept
<1>7. batches' \in [Batch -> {NoBatch} \cup Batches]
  BY DEF ImportsInv
<1>8. ReferencesHold'
  BY DEF ImportsInv, ReferencesHold, rowVars
<1> QED
  BY <1>2, <1>4, <1>6, <1>7, <1>8 DEF ImportsInv

LEMMA CatalogRests ==
  ASSUME RulesInv, UNCHANGED catalogVars
  PROVE  RulesInv' /\ LinksKept
<1>1. RulesInv'
  BY RulesStep
<1>2. LinksKept
  BY DEF catalogVars, rowVars, LinksKept, Bound, Trusted
<1> QED
  BY <1>1, <1>2

\* The steps that only read.
LEMMA ImportsReadStep ==
  ASSUME ImportsInv, NEW e \in Editor,
         \/ \E file \in File : UploadRead(e, file)
         \/ \E b \in Batch : CommitRead(e, b)
         \/ ImportFail(e)
  PROVE  ImportsInv'
<1>1. UNCHANGED <<catalogVars, batches>>
  BY DEF UploadRead, CommitRead, ImportFail
<1>2. RulesInv' /\ LinksKept /\ UNCHANGED rowVars
  BY <1>1, CatalogRests DEF ImportsInv, catalogVars
<1>3. ASSUME NEW file \in File, UploadRead(e, file)
      PROVE  ImportsInv'
  <2> DEFINE todo == {file[i].category : i \in DOMAIN file} \ {None}
             import == [at |-> "preview", file |-> file,
                        branded |-> {i \in DOMAIN file : file[i].brand \in brands \cup {None}},
                        taken |-> {i \in DOMAIN file : SkuTaken(file[i].sku)},
                        todo |-> todo, valid |-> {}]
  <2>1. DOMAIN file \subseteq Nat /\ todo \subseteq Category
    BY FileShape, FileRowShape
  <2>2. import \in Import
    BY <2>1 DEF Import, Preview
  <2>3. Go(e, import) /\ import.at = "preview" /\ import.valid = {}
    BY <1>3 DEF UploadRead
  <2> HIDE DEF import
  <2>4. importing'[e] = import
    BY <2>3 DEF ImportsInv, Go
  <2>5. UploadSound(e)' /\ CommitSound(e)'
    BY <2>3, <2>4 DEF UploadSound, CommitSound
  <2> QED
    BY <1>1, <1>2, <2>2, <2>3, <2>5, ImportGoesOn
<1>4. ASSUME NEW b \in Batch, CommitRead(e, b)
      PROVE  ImportsInv'
  <2> DEFINE valid == ValidRows(b)
             leaders == {Leader(batches[b].file, valid, i) : i \in valid}
             plan == [i \in leaders |-> NoPlan]
             import == [at |-> "commit", batch |-> b, valid |-> valid, todo |-> leaders,
                        plan |-> plan]
  <2>1. batches[b] # NoBatch /\ valid # {} /\ batches[b].status = "PREVIEWED"
    BY <1>4, NoBatchStatus DEF CommitRead
  <2>2. valid = Accepted(b) /\ valid \subseteq Nat
    BY <2>1, BatchShape, FileShape DEF ImportsInv
  <2>3. leaders \subseteq Nat
    <3> HIDE DEF valid
    <3> QED
      BY <2>2, LeaderOf
  <2>4. import \in Import
    <3> HIDE DEF leaders, valid
    <3>1. NoPlan \in Plan
      BY DEF NoPlan, Plan, Role
    <3>2. plan \in Plans
      BY <2>3, <3>1 DEF Plans
    <3> HIDE DEF plan
    <3> QED
      BY <2>2, <2>3, <3>2 DEF Import, Commit
  <2>5. Go(e, import)
    BY <1>4 DEF CommitRead
  <2>6. importing'[e] = import
    BY <2>5 DEF ImportsInv, Go
  <2>7. /\ import.at = "commit" /\ import.batch = b /\ import.valid = valid
        /\ import.todo = leaders /\ import.plan = plan /\ DOMAIN plan = leaders
    OBVIOUS
  <2>8. batches' = batches /\ Accepted(b)' = Accepted(b)
    BY <1>1 DEF Accepted
  <2>9. UploadSound(e)' /\ CommitSound(e)'
    <3> HIDE DEF import, plan, valid
    <3>1. UploadSound(e)'
      BY <2>6, <2>7 DEF UploadSound
    <3>2. CommitSound(e)'
      BY <2>1, <2>2, <2>6, <2>7, <2>8 DEF CommitSound, valid
    <3> QED
      BY <3>1, <3>2
  <2> HIDE DEF import
  <2> QED
    BY <1>1, <1>2, <2>4, <2>5, <2>9, ImportGoesOn
<1>5. CASE ImportFail(e)
  <2>1. Go(e, NoImport)
    BY <1>5 DEF ImportFail
  <2>2. importing'[e] = NoImport
    BY <2>1 DEF ImportsInv, Go
  <2>3. UploadSound(e)' /\ CommitSound(e)'
    BY <2>2, NoBatchStatus DEF UploadSound, CommitSound
  <2> QED
    BY <1>1, <1>2, <2>1, <2>3, NoBatchStatus, ImportGoesOn
<1> QED
  BY <1>3, <1>4, <1>5

\* The upload decides on the rows of a category.
LEMMA ImportsRulesStep ==
  ASSUME ImportsInv, NEW e \in Editor, NEW k \in Category, UploadRules(e, k)
  PROVE  ImportsInv'
<1> DEFINE import == importing[e]
           file == import.file
           found == {i \in DOMAIN file : file[i].category = k /\ RowValid(import, links[k], i)}
           next == [import EXCEPT !.todo = @ \ {k}, !.valid = @ \cup found]
<1>1. import.at = "preview" /\ import \in Preview /\ file \in File
  BY ImportShape DEF UploadRules, Doing, ImportsInv
<1>2. Use(k) /\ Go(e, next) /\ UNCHANGED <<rowVars, staff, raced, batches>>
  BY DEF UploadRules
<1>3. RulesInv' /\ LinksKept
  BY <1>2, UseKeeps DEF ImportsInv
<1>4. found \subseteq Nat /\ found \subseteq DOMAIN file
  BY <1>1, FileShape
<1>5. /\ next \in Preview /\ next.at = "preview" /\ next.file = file
      /\ next.valid = import.valid \cup found
  <2> HIDE DEF found
  <2> QED
    BY <1>1, <1>4 DEF Preview
<1> HIDE DEF next
<1>6. importing'[e] = next
  BY <1>2 DEF ImportsInv, Go
<1>7. /\ ruled'[k] # "open" /\ links' = links
      /\ ruled'[k] = "used" => ruled[k] # "changed"
  BY <1>2 DEF Use, rowVars, ImportsInv, RulesInv, RemovalsInv, RowsTypeOK
<1>8. ASSUME NEW i \in found
      PROVE  RowRuled(links', ruled', file, i)
  <2>1. /\ i \in DOMAIN file /\ file[i].category = k
        /\ RowAccepted(import, links[k], i) /\ FirstOfSku(file, i)
        /\ FirstOfCombination(file, links[k], i)
    BY DEF RowValid
  <2>2. /\ file[i].sku # None
        /\ VariantAttributes(links[k]) \cup RequiredAttributes(links[k]) \subseteq Given(file[i].values)
    BY <2>1 DEF RowAccepted
  <2>3. file[i].sku \in Sku
    BY <1>1, <2>1, <2>2, FileShape, FileRowShape
  <2> QED
    BY <1>7, <2>1, <2>2, <2>3 DEF RowRuled
<1>9. ASSUME NEW i \in import.valid
      PROVE  i \in DOMAIN file /\ RowRuled(links', ruled', file, i)
  <2>1. i \in DOMAIN file /\ RowRuled(links, ruled, file, i)
    BY <1>1 DEF ImportsInv, UploadSound
  <2> QED
    BY <1>3, <2>1, RowKept
<1>10. UploadSound(e)'
  BY <1>4, <1>5, <1>6, <1>8, <1>9 DEF UploadSound
<1>11. CommitSound(e)'
  BY <1>5, <1>6 DEF CommitSound
<1> QED
  BY <1>2, <1>3, <1>5, <1>10, <1>11, ImportGoesOn DEF Import

\* The preview is stored.
LEMMA ImportsPreviewStep ==
  ASSUME ImportsInv, NEW e \in Editor, NEW b \in Batch, UploadPreview(e, b)
  PROVE  ImportsInv'
<1> DEFINE import == importing[e]
           file == import.file
           batch == Previewed(file, import.valid)
<1>1. import.at = "preview" /\ file \in File
  BY ImportShape DEF UploadPreview, Doing, ImportsInv
<1>2. DOMAIN file = 1..Len(file) /\ Len(file) \in Nat
  BY <1>1, FileShape
<1>3. /\ batches[b] = NoBatch /\ batches' = [batches EXCEPT ![b] = batch]
      /\ Go(e, NoImport) /\ UNCHANGED catalogVars
  BY DEF UploadPreview
<1>4. /\ RulesInv' /\ LinksKept /\ RowsStay /\ ReferencesHold' /\ \A d \in Editor : MetStay(d)
      /\ links' = links /\ ruled' = ruled
  <2>1. RulesInv' /\ LinksKept
    BY <1>3, CatalogRests DEF ImportsInv
  <2>2. RowsStay /\ \A d \in Editor : MetStay(d)
    BY <1>3 DEF RowsStay, MetStay, Stays, Listed, catalogVars, rowVars
  <2>3. ReferencesHold' /\ links' = links /\ ruled' = ruled
    BY <1>3 DEF ImportsInv, ReferencesHold, catalogVars, rowVars
  <2> QED
    BY <2>1, <2>2, <2>3
<1>5. batches \in [Batch -> {NoBatch} \cup Batches]
  BY DEF ImportsInv
<1>6. /\ batch.file = file /\ batch.status = "PREVIEWED"
      /\ batch.rows = [i \in 1..Len(file) |-> IF i \in import.valid THEN "VALID" ELSE "ERROR"]
      /\ batch.resolved = [i \in 1..Len(file) |-> None]
      /\ batch \in BatchOf(file)
  BY <1>2 DEF Previewed, BatchOf
<1> HIDE DEF batch
<1>7. batches'[b] = batch /\ \A c \in Batch \ {b} : batches'[c] = batches[c]
  BY <1>3, <1>5
<1>8. batches' \in [Batch -> {NoBatch} \cup Batches]
  BY <1>1, <1>3, <1>5, <1>6 DEF Batches
<1>9. BatchRuled(b)'
  <2>1. \A i \in Accepted(b)' : i \in import.valid
    BY <1>6, <1>7 DEF Accepted
  <2>2. \A i \in import.valid : RowRuled(links, ruled, file, i)
    BY <1>1 DEF ImportsInv, UploadSound
  <2> QED
    BY <1>4, <1>6, <1>7, <2>1, <2>2 DEF BatchRuled
<1>10. BatchResolved(b)'
  BY <1>6, <1>7 DEF BatchResolved
<1>11. \A c \in Batch \ {b} : BatchRuled(c)' /\ BatchResolved(c)'
  BY <1>4, <1>7, BatchKept
<1>12. /\ importing' \in [Editor -> Import] /\ importing'[e] = NoImport
       /\ \A d \in Editor \ {e} : importing'[d] = importing[d]
  BY <1>3 DEF ImportsInv, Go, Import
<1>13. UploadSound(e)' /\ CommitSound(e)'
  BY <1>12, NoBatchStatus DEF UploadSound, CommitSound
<1>14. \A c \in Batch : batches[c] # NoBatch =>
         batches'[c] # NoBatch /\ batches'[c].file = batches[c].file /\ Accepted(c)' = Accepted(c)
  BY <1>3, <1>7 DEF Accepted
<1>15. \A d \in Editor \ {e} : UploadSound(d)' /\ CommitSound(d)'
  BY <1>4, <1>12, <1>14, UploadKept, CommitKept
<1> QED
  BY <1>4, <1>8, <1>9, <1>10, <1>11, <1>12, <1>13, <1>15 DEF ImportsInv

\* The commit looks up what one group needs.
LEMMA ImportsLookupStep ==
  ASSUME ImportsInv, NEW e \in Editor, CommitLookup(e)
  PROVE  ImportsInv'
<1> DEFINE import == importing[e]
           b == import.batch
           file == batches[b].file
           i == Min(import.todo)
           k == file[i].category
<1>1. import.at = "commit" /\ import \in Commit /\ import.todo \subseteq Nat /\ import.todo # {}
  BY ImportShape DEF CommitLookup, Doing, ImportsInv
<1>2. i \in import.todo
  BY <1>1, FirstOfRows
<1>3. /\ b \in Batch /\ batches[b] # NoBatch /\ file \in File
      /\ import.valid = Accepted(b) /\ import.valid # {} /\ import.valid \subseteq DOMAIN file
      /\ import.plan \in [DOMAIN import.plan -> Plan] /\ DOMAIN import.plan \subseteq import.valid
      /\ import.todo \subseteq DOMAIN import.plan
      /\ \A j \in import.valid : RowRuled(links, ruled, file, j)
      /\ \A j \in DOMAIN import.plan \ import.todo :
           PlanRuled(links, ruled, products, file[j].category, import.plan[j])
  BY <1>1, CommitShape
<1>4. i \in DOMAIN import.plan /\ i \in import.valid /\ k \in Category /\ ruled[k] # "open"
  BY <1>2, <1>3 DEF RowRuled
<1> HIDE DEF i, file
<1>5. Use(k) /\ UNCHANGED <<rowVars, staff, raced, batches>>
  BY DEF CommitLookup, i, file
<1>6. PICK p \in IF NamedAs(file[i]) = {} THEN {None} ELSE NamedAs(file[i]) :
         Go(e, [import EXCEPT !.todo = @ \ {i},
                  !.plan[i] = [rules |-> links[k], product |-> p,
                               brand |-> IF file[i].brand \in brands THEN file[i].brand ELSE None]])
  BY DEF CommitLookup, i, file
<1> DEFINE found == [rules |-> links[k], product |-> p,
                     brand |-> IF file[i].brand \in brands THEN file[i].brand ELSE None]
           plan == [import.plan EXCEPT ![i] = found]
           next == [import EXCEPT !.todo = @ \ {i}, !.plan = plan]
<1>7. found \in Plan
  <2>1. links[k] \in [Attribute -> Role] /\ brands \subseteq Brand
    BY <1>4 DEF ImportsInv, RulesInv, RemovalsInv, RowsTypeOK
  <2>2. p \in Product \cup {None}
    BY <1>6 DEF NamedAs
  <2> QED
    BY <2>1, <2>2 DEF Plan
<1>8. /\ found.rules = links[k] /\ found.product = p
      /\ p \in Product => products[p].category = k
  BY <1>6 DEF NamedAs
<1> HIDE DEF found
<1>9. Go(e, next)
  <2>1. Go(e, [import EXCEPT !.todo = @ \ {i}, !.plan[i] = found])
    BY <1>6 DEF found
  <2> QED
    BY <1>1, <2>1 DEF Commit
<1>10. /\ DOMAIN plan = DOMAIN import.plan /\ plan \in Plans
       /\ plan[i] = found /\ \A j \in DOMAIN plan \ {i} : plan[j] = import.plan[j]
  <2>1. DOMAIN import.plan \subseteq Nat
    BY <1>1, ImportShape DEF ImportsInv
  <2> QED
    BY <1>3, <1>4, <1>7, <2>1 DEF Plans
<1> HIDE DEF plan
<1>11. /\ next \in Commit /\ next.at = "commit" /\ next.batch = b /\ next.valid = import.valid
       /\ next.todo = import.todo \ {i} /\ next.plan = plan
  BY <1>1, <1>10 DEF Commit
<1> HIDE DEF next
<1>12. RulesInv' /\ LinksKept
  BY <1>4, <1>5, UseKeeps DEF ImportsInv
<1>13. importing'[e] = next
  BY <1>9 DEF ImportsInv, Go
<1>14. /\ batches' = batches /\ links' = links /\ products' = products
       /\ \A c \in Batch : Accepted(c)' = Accepted(c)
       /\ \A q \in Product : Stays(q)
  BY <1>5 DEF Accepted, rowVars, Stays, Listed
<1>15. ASSUME NEW j \in DOMAIN plan \ next.todo
       PROVE  PlanRuled(links', ruled', products', file[j].category, plan[j])
  <2>1. CASE j = i
    BY <1>8, <1>10, <1>14, <2>1 DEF PlanRuled
  <2>2. CASE j # i
    <3>1. /\ plan[j] = import.plan[j] /\ j \in DOMAIN import.plan \ import.todo
          /\ PlanRuled(links, ruled, products, file[j].category, import.plan[j])
      BY <1>3, <1>10, <1>11, <1>15, <2>2
    <3>2. file[j].category \in Category /\ ruled[file[j].category] # "open"
      BY <1>3, <3>1 DEF RowRuled
    <3> QED
      BY <1>12, <1>14, <3>1, <3>2, PlanKept
  <2> QED
    BY <2>1, <2>2
<1>16. DOMAIN plan = {Leader(file, import.valid, j) : j \in import.valid}
  BY <1>1, <1>10 DEF ImportsInv, CommitSound, file
<1>17. UploadSound(e)'
  BY <1>11, <1>13 DEF UploadSound
<1>18. CommitSound(e)'
  <2>1. next.todo \subseteq DOMAIN plan
    BY <1>3, <1>10, <1>11
  <2> QED
    BY <1>3, <1>11, <1>13, <1>14, <1>15, <1>16, <2>1 DEF CommitSound, file
<1> QED
  BY <1>5, <1>9, <1>11, <1>12, <1>17, <1>18, ImportGoesOn DEF Import

\* A table in which rows are inserted, each at a place of its own.
Placed(T, R, id, row) ==
  /\ \A i \in DOMAIN row : id[i] \in T /\ row[i] \in R
  /\ \A i, j \in DOMAIN row : id[i] = id[j] => i = j
HasPlaced(T, R, table, id, row, new) ==
  /\ new \in [T -> R]
  /\ \A i \in DOMAIN row : new[id[i]] = row[i]
  /\ \A x \in T : (\E i \in DOMAIN row : id[i] = x) \/ new[x] = table[x]

LEMMA InsertedAt ==
  ASSUME NEW T, NEW R, NEW table \in [T -> R], NEW id, NEW row, Placed(T, R, id, row)
  PROVE  HasPlaced(T, R, table, id, row, Inserted(table, id, row))
<1> DEFINE new == Inserted(table, id, row)
<1>1. new = [x \in T |-> IF \E i \in DOMAIN row : id[i] = x
                         THEN row[CHOOSE i \in DOMAIN row : id[i] = x] ELSE table[x]]
  BY DEF Inserted
<1> HIDE DEF new
<1> USE DEF Placed
<1>2. ASSUME NEW i \in DOMAIN row
      PROVE  new[id[i]] = row[i]
  <2>1. (CHOOSE j \in DOMAIN row : id[j] = id[i]) = i
    BY <1>2
  <2> QED
    BY <1>1, <1>2, <2>1
<1>3. \A x \in T : (\E i \in DOMAIN row : id[i] = x) \/ new[x] = table[x]
  BY <1>1
<1>4. \A x \in T : new[x] \in R
  BY <1>2, <1>3
<1>5. new \in [T -> R]
  BY <1>1, <1>4
<1> QED
  BY <1>2, <1>3, <1>5 DEF new, HasPlaced

\* A commit that writes: its file, the group of a row, the groups that get a product, and
\* the rows it writes.
Committing(e, home, new) ==
  /\ importing[e].at = "commit"
  /\ home \in [DOMAIN importing[e].plan -> Product]
  /\ new \in Injection(importing[e].valid, FreshVariants)
  /\ CommitWrite(e, home, new)
FileOf(e) == batches[importing[e].batch].file
Group(e, i) == Leader(FileOf(e), importing[e].valid, i)
Made(e) == DOMAIN importing[e].plan \ Found(importing[e].plan)
MadeRow(e, i) == NewProduct(FileOf(e)[i], importing[e].plan[i])
Written(e, home, i) ==
  [product |-> home[Group(e, i)], sku |-> FileOf(e)[i].sku,
   combination |-> OfVariant(importing[e].plan[Group(e, i)].rules, FileOf(e)[i].values)]

LEMMA CommitAt ==
  ASSUME ImportsInv, NEW e \in Editor, importing[e].at = "commit", importing[e].todo = {}
  PROVE  LET valid == importing[e].valid
             plan == importing[e].plan
         IN  /\ importing[e].batch \in Batch /\ batches[importing[e].batch] # NoBatch
             /\ FileOf(e) \in File
             /\ valid = Accepted(importing[e].batch) /\ valid \subseteq DOMAIN FileOf(e)
             /\ DOMAIN plan \subseteq valid
             /\ \A i \in DOMAIN plan : Group(e, i) = i /\ plan[i] \in Plan
             /\ \A i \in valid : /\ Group(e, i) \in DOMAIN plan
                                 /\ FileOf(e)[Group(e, i)].category = FileOf(e)[i].category
                                 /\ FileOf(e)[i].category \in Category
                                 /\ FileOf(e)[i] \in FileRow /\ FileOf(e)[i].sku \in Sku
                                 /\ RowRuled(links, ruled, FileOf(e), i)
             /\ \A i \in DOMAIN plan :
                  PlanRuled(links, ruled, products, FileOf(e)[i].category, plan[i])
<1> DEFINE valid == importing[e].valid
           plan == importing[e].plan
<1>1. /\ importing[e].batch \in Batch /\ batches[importing[e].batch] # NoBatch
      /\ FileOf(e) \in File
      /\ valid = Accepted(importing[e].batch) /\ valid \subseteq DOMAIN FileOf(e)
      /\ DOMAIN plan \subseteq valid /\ plan \in [DOMAIN plan -> Plan]
      /\ \A i \in valid : /\ Group(e, i) \in DOMAIN plan
                          /\ Alike(FileOf(e), i, Group(e, i))
                          /\ RowRuled(links, ruled, FileOf(e), i)
      /\ \A i \in DOMAIN plan : Group(e, i) = i
      /\ \A i \in DOMAIN plan : PlanRuled(links, ruled, products, FileOf(e)[i].category, plan[i])
  BY CommitShape DEF FileOf, Group
<1> HIDE DEF plan, valid
<1>2. ASSUME NEW i \in valid
      PROVE  /\ FileOf(e)[Group(e, i)].category = FileOf(e)[i].category
             /\ FileOf(e)[i].category \in Category
             /\ FileOf(e)[i] \in FileRow /\ FileOf(e)[i].sku \in Sku
  BY <1>1, FileShape DEF Alike, RowRuled
<1> QED
  BY <1>1, <1>2 DEF plan, valid

\* The fields of the rows.
LEMMA WrittenShape ==
  ASSUME NEW e, NEW home, NEW i
  PROVE  /\ Written(e, home, i).product = home[Group(e, i)]
         /\ Written(e, home, i).sku = FileOf(e)[i].sku
         /\ Written(e, home, i).combination =
              OfVariant(importing[e].plan[Group(e, i)].rules, FileOf(e)[i].values)
BY DEF Written

LEMMA NewProductShape ==
  ASSUME NEW row \in FileRow, row.category \in Category, NEW plan \in Plan
  PROVE  LET made == NewProduct(row, plan) IN
         /\ made \in ProductRow
         /\ made.category = row.category /\ ~made.published
         /\ made.type = "SIMPLE" => VariantAttributes(plan.rules) = {}
         /\ made.values = [a \in Attribute |-> IF a \in InfoAttributes(plan.rules)
                                               THEN row.values[a] ELSE None]
<1> DEFINE values == [a \in Attribute |-> IF a \in InfoAttributes(plan.rules)
                                          THEN row.values[a] ELSE None]
           type == IF VariantAttributes(plan.rules) # {} THEN "VARIABLE" ELSE "SIMPLE"
           slug == SlugOf[row.name]
<1>1. NewProduct(row, plan) =
        [category |-> row.category, name |-> row.name, slug |-> slug, brand |-> plan.brand,
         type |-> type, published |-> FALSE, values |-> values]
  BY DEF NewProduct
<1>2. type \in {"SIMPLE", "VARIABLE"} /\ (type = "SIMPLE" => VariantAttributes(plan.rules) = {})
  OBVIOUS
<1>3. row.name \in Name /\ row.values \in Values /\ plan.brand \in Brand \cup {None}
  BY FileRowShape DEF Plan
<1>4. values \in Values
  BY <1>3 DEF Values
<1>5. slug \in Slug
  BY <1>3, ImportsAssumption
<1> HIDE DEF type, values, slug
<1>6. NewProduct(row, plan) \in ProductRow
  BY <1>1, <1>2, <1>3, <1>4, <1>5 DEF ProductRow
<1>7. /\ NewProduct(row, plan).category = row.category /\ ~NewProduct(row, plan).published
      /\ NewProduct(row, plan).type = type /\ NewProduct(row, plan).values = values
  BY <1>1
<1> QED
  BY <1>2, <1>6, <1>7 DEF values

\* What a commit does to the products: those it has found are there, in the category of
\* their rows; each group without one gets one that no call has met and nothing else
\* changes; a removal of the brand of such a product that is under way is noted.
LEMMA CommitProducts ==
  ASSUME ImportsInv, NEW e \in Editor, NEW home, NEW new, Committing(e, home, new)
  PROVE  /\ products' \in [Product -> ProductRow]
         /\ \A i \in DOMAIN importing[e].plan :
              /\ home[i] \in Product /\ products'[home[i]].category = FileOf(e)[i].category
              /\ i \notin Made(e) => Listed(home[i]) /\ products'[home[i]] = products[home[i]]
         /\ \A i \in Made(e) :
              /\ ~Listed(home[i]) /\ Unmet(home[i]) /\ products'[home[i]] = MadeRow(e, i)
              /\ MadeRow(e, i).brand \in brands \cup {None}
              /\ Given(MadeRow(e, i).values) \subseteq attributes
              /\ About("deleteBrand", "brand", MadeRow(e, i).brand) => MadeRow(e, i).brand \in raced'
              /\ \A j \in DOMAIN importing[e].plan : home[j] = home[i] => j = i
         /\ \A q \in Product : (\E i \in Made(e) : q = home[i]) \/ products'[q] = products[q]
         /\ raced \subseteq raced' /\ raced' \subseteq Product \cup Attribute \cup Brand \cup {None}
<1> DEFINE plan == importing[e].plan
           made == MadeProducts(e)
<1>1. /\ importing[e].at = "commit" /\ importing[e].todo = {}
      /\ home \in [DOMAIN plan -> Product] /\ Homes(plan, home)
      /\ Creatable(DOMAIN made, made) /\ products' = Inserted(products, home, made)
      /\ raced' = raced \cup {x \in {made[i].brand : i \in DOMAIN made} :
                                About("deleteBrand", "brand", x)}
  BY DEF Committing, CommitWrite
<1>2. /\ \A i \in DOMAIN plan : /\ FileOf(e)[i] \in FileRow /\ FileOf(e)[i].category \in Category
                                /\ plan[i] \in Plan
                                /\ PlanRuled(links, ruled, products, FileOf(e)[i].category, plan[i])
  BY <1>1, CommitAt
<1>3. DOMAIN made = Made(e) /\ \A i \in Made(e) : made[i] = MadeRow(e, i)
  BY DEF MadeProducts, Made, MadeRow, FileOf
<1>4. Made(e) \subseteq DOMAIN plan /\ \A i \in DOMAIN plan : i \notin Made(e) <=> i \in Found(plan)
  BY DEF Made, Found
<1>5. /\ \A i \in Found(plan) : home[i] = plan[i].product /\ Listed(home[i])
      /\ \A i \in Made(e) : /\ ~Listed(home[i]) /\ Unmet(home[i])
                            /\ \A j \in DOMAIN plan \ {i} : home[j] # home[i]
  BY <1>1 DEF Homes, Made
<1>6. \A i \in Made(e) : MadeRow(e, i) \in ProductRow /\ MadeRow(e, i).category = FileOf(e)[i].category
  BY <1>2, <1>4, NewProductShape DEF MadeRow
<1>7. products \in [Product -> ProductRow] /\ raced \subseteq Product \cup Attribute \cup Brand \cup {None}
  BY DEF ImportsInv, RulesInv, RemovalsInv, RowsTypeOK
<1> HIDE DEF plan, made
<1>8. /\ \A i \in DOMAIN made : home[i] \in Product /\ made[i] \in ProductRow
      /\ \A i, j \in DOMAIN made : home[i] = home[j] => i = j
  BY <1>1, <1>3, <1>4, <1>5, <1>6
<1>9. /\ products' \in [Product -> ProductRow]
      /\ \A i \in Made(e) : products'[home[i]] = MadeRow(e, i)
      /\ \A q \in Product : (\E i \in Made(e) : q = home[i]) \/ products'[q] = products[q]
  <2> DEFINE table == Inserted(products, home, made)
  <2>1. /\ table \in [Product -> ProductRow]
        /\ \A i \in DOMAIN made : table[home[i]] = made[i]
        /\ \A q \in Product : (\E i \in DOMAIN made : home[i] = q) \/ table[q] = products[q]
    <3>1. Placed(Product, ProductRow, home, made)
      BY <1>8 DEF Placed
    <3>2. HasPlaced(Product, ProductRow, products, home, made, table)
      BY <1>7, <3>1, InsertedAt
    <3> QED
      BY <3>2 DEF HasPlaced
  <2>2. products' = table
    BY <1>1
  <2> HIDE DEF table
  <2> QED
    BY <1>3, <2>1, <2>2
<1>10. ASSUME NEW i \in DOMAIN plan, i \notin Made(e)
       PROVE  /\ Listed(home[i]) /\ products'[home[i]] = products[home[i]]
              /\ products[home[i]].category = FileOf(e)[i].category
  <2>1. home[i] = plan[i].product /\ Listed(home[i]) /\ home[i] \in Product
    BY <1>1, <1>4, <1>5, <1>10
  <2>2. products'[home[i]] = products[home[i]]
    BY <1>5, <1>9, <2>1
  <2> QED
    BY <1>2, <1>10, <2>1, <2>2 DEF PlanRuled, Listed
<1>11. ASSUME NEW i \in Made(e)
       PROVE  /\ MadeRow(e, i).brand \in brands \cup {None}
              /\ Given(MadeRow(e, i).values) \subseteq attributes
              /\ About("deleteBrand", "brand", MadeRow(e, i).brand) => MadeRow(e, i).brand \in raced'
  <2>1. made[i] = MadeRow(e, i) /\ i \in DOMAIN made
    BY <1>3
  <2> QED
    BY <1>1, <2>1 DEF Creatable
<1>12. raced \subseteq raced' /\ raced' \subseteq Product \cup Attribute \cup Brand \cup {None}
  <2>1. \A i \in DOMAIN made : made[i].brand \in Brand \cup {None}
    BY <1>3, <1>6 DEF ProductRow
  <2> QED
    BY <1>1, <1>7, <2>1
<1>13. \A i \in DOMAIN plan : home[i] \in Product /\ products'[home[i]].category = FileOf(e)[i].category
  BY <1>1, <1>6, <1>9, <1>10
<1> QED
  BY <1>4, <1>5, <1>9, <1>10, <1>11, <1>12, <1>13 DEF plan

\* What it does to the variants.
LEMMA CommitVariants ==
  ASSUME ImportsInv, NEW e \in Editor, NEW home, NEW new, Committing(e, home, new)
  PROVE  LET valid == importing[e].valid IN
         /\ \A i \in valid : /\ new[i] \in FreshVariants /\ new[i] \in Variant
                             /\ variants'[new[i]] = Written(e, home, i)
                             /\ Written(e, home, i) \in VariantRow
                             /\ ~SkuTaken(FileOf(e)[i].sku)
                             /\ ~CombinationTaken(Written(e, home, i).product,
                                                  Written(e, home, i).combination)
                             /\ Given(Written(e, home, i).combination) \subseteq attributes
         /\ \A i, j \in valid : i # j => \/ Written(e, home, i).product # Written(e, home, j).product
                                         \/ Written(e, home, i).combination
                                              # Written(e, home, j).combination
         /\ \A x \in Variant : (\E i \in valid : x = new[i]) \/ variants'[x] = variants[x]
         /\ variants' \in [Variant -> VariantRow]
<1> DEFINE valid == importing[e].valid
           row == MadeVariants(e, home)
<1>1. /\ importing[e].at = "commit" /\ importing[e].todo = {}
      /\ home \in [DOMAIN importing[e].plan -> Product]
      /\ new \in Injection(valid, FreshVariants)
      /\ Insertable(row) /\ variants' = Inserted(variants, new, row)
  BY DEF Committing, CommitWrite
<1>2. DOMAIN row = valid /\ \A i \in valid : row[i] = Written(e, home, i)
  BY DEF MadeVariants, Written, Group, FileOf
<1>3. ASSUME NEW i \in valid
      PROVE  Written(e, home, i) \in VariantRow
  <2>1. /\ Group(e, i) \in DOMAIN importing[e].plan
        /\ FileOf(e)[i] \in FileRow /\ FileOf(e)[i].sku \in Sku
    BY <1>1, CommitAt
  <2>2. FileOf(e)[i].values \in Values
    BY <2>1, FileRowShape
  <2>3. OfVariant(importing[e].plan[Group(e, i)].rules, FileOf(e)[i].values) \in Values
    BY <2>2 DEF OfVariant, Values
  <2>4. home[Group(e, i)] \in Product
    BY <1>1, <2>1
  <2> QED
    BY <2>1, <2>3, <2>4 DEF Written, VariantRow
<1>4. /\ \A i \in valid : new[i] \in FreshVariants /\ new[i] \in Variant
      /\ \A i, j \in valid : new[i] = new[j] => i = j
  BY <1>1 DEF Injection, IsInjective, FreshVariants
<1>5. variants \in [Variant -> VariantRow]
  BY DEF ImportsInv, RulesInv, RemovalsInv, RowsTypeOK
<1> HIDE DEF valid, row
<1>6. /\ variants' \in [Variant -> VariantRow]
      /\ \A i \in valid : variants'[new[i]] = Written(e, home, i)
      /\ \A x \in Variant : (\E i \in valid : new[i] = x) \/ variants'[x] = variants[x]
  <2> DEFINE table == Inserted(variants, new, row)
  <2>1. Placed(Variant, VariantRow, new, row)
    BY <1>2, <1>3, <1>4 DEF Placed
  <2>2. HasPlaced(Variant, VariantRow, variants, new, row, table)
    BY <1>5, <2>1, InsertedAt
  <2>3. /\ table \in [Variant -> VariantRow]
        /\ \A i \in DOMAIN row : table[new[i]] = row[i]
        /\ \A x \in Variant : (\E i \in DOMAIN row : new[i] = x) \/ table[x] = variants[x]
    BY <2>2 DEF HasPlaced
  <2>4. variants' = table
    BY <1>1
  <2> HIDE DEF table
  <2> QED
    BY <1>2, <2>3, <2>4
<1>7. ASSUME NEW i \in valid
      PROVE  /\ ~SkuTaken(FileOf(e)[i].sku)
             /\ ~CombinationTaken(Written(e, home, i).product, Written(e, home, i).combination)
             /\ Given(Written(e, home, i).combination) \subseteq attributes
             /\ \A j \in valid : i # j =>
                  \/ Written(e, home, i).product # Written(e, home, j).product
                  \/ Written(e, home, i).combination # Written(e, home, j).combination
  <2>1. i \in DOMAIN row /\ row[i] = Written(e, home, i)
    BY <1>2
  <2>2. row[i].sku = FileOf(e)[i].sku
    BY <2>1, WrittenShape
  <2> QED
    BY <1>1, <1>2, <2>1, <2>2 DEF Insertable
<1> QED
  BY <1>3, <1>4, <1>6, <1>7 DEF valid

\* Calls of staff, and commits under way, have met neither the variants nor the products
\* that a commit makes.
LEMMA CommitUnmet ==
  ASSUME ImportsInv, NEW e \in Editor, NEW home, NEW new, Committing(e, home, new)
  PROVE  /\ \A d \in Editor, x \in Variant : staff[d].variant = x => variants'[x] = variants[x]
         /\ \A d \in Editor, q \in Product : staff[d].product = q => products'[q] = products[q]
         /\ \A d \in Editor, q \in Product : q \in ImportMet(d) => products'[q] = products[q]
         /\ \A x \in Variant : variants[x] # NoVariant => variants'[x] = variants[x]
         /\ \A q \in Product : Listed(q) => products'[q] = products[q]
<1>1. \A x \in FreshVariants : variants[x] = NoVariant /\ New(x)
  BY DEF FreshVariants
<1>2. \A x \in Variant \ FreshVariants : variants'[x] = variants[x]
  BY CommitVariants
<1>3. \A d \in Editor, x \in FreshVariants : staff[d].variant # x
  BY <1>1 DEF New, Met
<1>4. /\ \A i \in Made(e) : ~Listed(home[i]) /\ Unmet(home[i])
      /\ \A q \in Product : (\E i \in Made(e) : q = home[i]) \/ products'[q] = products[q]
  BY CommitProducts
<1>5. \A d \in Editor, i \in Made(e) : staff[d].product # home[i] /\ home[i] \notin ImportMet(d)
  BY <1>4 DEF Unmet, New, Met
<1> QED
  BY <1>1, <1>2, <1>3, <1>4, <1>5

\* A commit keeps what the calls that are about to delete may rely on.
LEMMA CommitRemovals ==
  ASSUME ImportsInv, NEW e \in Editor, NEW home, NEW new, Committing(e, home, new)
  PROVE  RemovalsInv'
<1>1. RemovalsInv /\ RowsTypeOK /\ RowsListed
  BY DEF ImportsInv, RulesInv, RemovalsInv
<1>2. UNCHANGED <<attributes, options, links, brands, staff, ruled>>
  BY DEF Committing, CommitWrite
<1>3. /\ products' \in [Product -> ProductRow] /\ variants' \in [Variant -> VariantRow]
      /\ raced \subseteq raced' /\ raced' \subseteq Product \cup Attribute \cup Brand \cup {None}
  BY CommitProducts, CommitVariants
<1>4. RowsTypeOK'
  BY <1>1, <1>2, <1>3 DEF RowsTypeOK
<1>5. /\ \A i \in Made(e) : /\ home[i] \in Product
                            /\ products'[home[i]] = MadeRow(e, i)
                            /\ ~MadeRow(e, i).published
                            /\ MadeRow(e, i).category # None
      /\ \A i \in importing[e].valid : /\ home[Group(e, i)] \in Product
                                       /\ products'[home[Group(e, i)]].category # None
  <2>1. importing[e].at = "commit" /\ importing[e].todo = {}
    BY DEF Committing, CommitWrite
  <2>2. ASSUME NEW i \in Made(e)
        PROVE  ~MadeRow(e, i).published /\ MadeRow(e, i).category # None
    <3>1. /\ FileOf(e)[i] \in FileRow /\ FileOf(e)[i].category \in Category
          /\ importing[e].plan[i] \in Plan
      BY <2>1, <2>2, CommitAt DEF Made
    <3> QED
      BY <3>1, NewProductShape DEF MadeRow
  <2>3. ASSUME NEW i \in importing[e].valid
        PROVE  /\ home[Group(e, i)] \in Product
               /\ products'[home[Group(e, i)]].category # None
    <3>1. Group(e, i) \in DOMAIN importing[e].plan /\ FileOf(e)[Group(e, i)].category \in Category
      BY <2>1, <2>3, CommitAt
    <3> QED
      BY <3>1, CommitProducts
  <2> QED
    BY <2>2, <2>3, CommitProducts DEF Made
<1>6. /\ \A q \in Product : Listed(q) => products'[q] = products[q]
      /\ \A q \in Product : Listed(q) => Listed(q)'
  <2>1. \A q \in Product : Listed(q) => products'[q] = products[q]
    BY CommitUnmet
  <2> QED
    BY <2>1 DEF Listed
<1>7. RowsListed'
  <2>1. ASSUME NEW x \in Variant, variants'[x] # NoVariant
        PROVE  variants'[x].product \in Product /\ products'[variants'[x].product].category # None
    <3>1. CASE variants'[x] = variants[x]
      BY <1>1, <1>6, <2>1, <3>1 DEF RowsListed, Listed
    <3>2. ASSUME NEW i \in importing[e].valid, variants'[x] = Written(e, home, i)
          PROVE  variants'[x].product = home[Group(e, i)]
      BY <3>2, WrittenShape
    <3> QED
      BY <1>5, <3>1, <3>2, CommitVariants
  <2>2. ASSUME NEW q \in Product, products'[q].published
        PROVE  products'[q].category # None
    <3>1. CASE products'[q] = products[q]
      BY <1>1, <2>2, <3>1 DEF RowsListed, Listed
    <3>2. CASE \E i \in Made(e) : q = home[i]
      BY <1>5, <2>2, <3>2
    <3> QED
      BY <3>1, <3>2, CommitProducts
  <2> QED
    BY <2>1, <2>2 DEF RowsListed, Listed
<1>8. ASSUME NEW d \in Editor
      PROVE  LastVariantSafe(d)'
  <2>1. LastVariantSafe(d) /\ staff'[d] = staff[d]
    BY <1>1, <1>2 DEF RemovalsInv
  <2>2. \A x \in Variant : /\ staff[d].variant = x => variants'[x] = variants[x]
                           /\ variants[x].product \in Product => variants'[x] = variants[x]
    BY CommitUnmet DEF NoVariant
  <2> QED
    BY <1>3, <2>1, <2>2 DEF LastVariantSafe, At
<1>9. ASSUME NEW d \in Editor
      PROVE  ProductSafe(d)'
  BY <1>1, <1>2, <1>3, CommitUnmet DEF RemovalsInv, ProductSafe, At
<1>10. ASSUME NEW d \in Editor
       PROVE  AttributeSafe(d)' /\ Drafts(d)'
  BY <1>1, <1>2, <1>3 DEF RemovalsInv, AttributeSafe, Drafts, At
<1>11. ASSUME NEW d \in Editor
       PROVE  BrandSafe(d)'
  <2> SUFFICES ASSUME At(d, "deleteBrand"), NEW q \in Product, products'[q].brand = staff[d].brand,
                      staff[d].brand \notin raced'
               PROVE  FALSE
    BY <1>1, <1>2 DEF RemovalsInv, BrandSafe, At
  <2>1. products[q].brand # staff[d].brand
    BY <1>1, <1>3 DEF RemovalsInv, BrandSafe
  <2>2. PICK i \in Made(e) : q = home[i]
    BY <2>1, CommitProducts
  <2>3. MadeRow(e, i).brand = staff[d].brand
    BY <1>5, <2>2
  <2>4. About("deleteBrand", "brand", MadeRow(e, i).brand)
    BY <2>3 DEF About
  <2> QED
    BY <2>3, <2>4, CommitProducts
<1> QED
  BY <1>4, <1>7, <1>8, <1>9, <1>10, <1>11 DEF RemovalsInv

\* What a commit writes refers to what is there.
LEMMA CommitReferences ==
  ASSUME ImportsInv, NEW e \in Editor, NEW home, NEW new, Committing(e, home, new)
  PROVE  ReferencesHold'
<1>1. UNCHANGED <<attributes, options, links, brands>> /\ ReferencesHold
  BY DEF Committing, CommitWrite, ImportsInv
<1>2. ASSUME NEW p \in Product
      PROVE  /\ products'[p].brand \in brands \cup {None}
             /\ Given(products'[p].values) \subseteq attributes
  <2>1. CASE products'[p] = products[p]
    BY <1>1, <2>1 DEF ReferencesHold
  <2>2. ASSUME NEW i \in Made(e), p = home[i]
        PROVE  /\ products'[p].brand \in brands \cup {None}
               /\ Given(products'[p].values) \subseteq attributes
    BY <2>2, CommitProducts
  <2> QED
    BY <2>1, <2>2, CommitProducts
<1>3. ASSUME NEW x \in Variant
      PROVE  Given(variants'[x].combination) \subseteq attributes
  BY <1>1, CommitVariants DEF ReferencesHold
<1> QED
  BY <1>1, <1>2, <1>3 DEF ReferencesHold

\* The combination of a row that has all variant attributes, and of one without any.
LEMMA CombinationOf ==
  ASSUME NEW rules, NEW values \in Values
  PROVE  /\ VariantAttributes(rules) \subseteq Given(values) =>
              Given(OfVariant(rules, values)) = VariantAttributes(rules)
         /\ VariantAttributes(rules) = {} => OfVariant(rules, values) = NoValues
         /\ Given(values) = {} => values = NoValues
<1>1. VariantAttributes(rules) \subseteq Given(values) =>
        Given(OfVariant(rules, values)) = VariantAttributes(rules)
  BY DEF OfVariant, Given, VariantAttributes
<1>2. VariantAttributes(rules) = {} => OfVariant(rules, values) = NoValues
  BY DEF OfVariant, NoValues
<1>3. Given(values) = {} => values = NoValues
  BY DEF Given, Values, NoValues
<1> QED
  BY <1>1, <1>2, <1>3

\* Where the links are still those of the validation, a commit adds nothing to a simple
\* product: its variant has the empty combination, as all rows would.
LEMMA CommitAddsNoneToSimple ==
  ASSUME ImportsInv, NEW e \in Editor, NEW home, NEW new, Committing(e, home, new),
         NEW p \in Product, Listed(p), products[p].type = "SIMPLE", Trusted(products[p].category)
  PROVE  \A i \in importing[e].valid : home[Group(e, i)] # p
<1> SUFFICES ASSUME NEW i \in importing[e].valid, home[Group(e, i)] = p
             PROVE  FALSE
  OBVIOUS
<1> DEFINE k == products[p].category
           g == Group(e, i)
           rules == importing[e].plan[g].rules
<1>1. importing[e].at = "commit" /\ importing[e].todo = {}
  BY DEF Committing, CommitWrite
<1>2. /\ g \in DOMAIN importing[e].plan /\ FileOf(e)[i] \in FileRow
      /\ PlanRuled(links, ruled, products, FileOf(e)[g].category, importing[e].plan[g])
  BY <1>1, CommitAt
<1>3. products'[p] = products[p] /\ products'[p].category = FileOf(e)[g].category
  BY <1>2, CommitProducts, CommitUnmet
<1>4. rules = links[k]
  BY <1>2, <1>3 DEF PlanRuled, Trusted
<1>5. VariantAttributes(links[k]) = {} /\ \E x \in Variant : VariantsOf(p) = {x}
  BY DEF ImportsInv, RulesInv, ProductRuled, TypeFits, SimpleSingle
<1>6. PICK x \in Variant : VariantsOf(p) = {x}
  BY <1>5
<1>7. variants[x].product = p /\ variants[x] # NoVariant
  BY <1>6 DEF VariantsOf, NoVariant
<1>8. variants[x].combination = NoValues
  <2>1. Given(variants[x].combination) = {}
    BY <1>5, <1>7 DEF ImportsInv, RulesInv, VariantRuled
  <2>2. variants[x].combination \in Values
    BY DEF ImportsInv, RulesInv, RemovalsInv, RowsTypeOK, VariantRow
  <2> QED
    BY <2>1, <2>2, CombinationOf
<1>9. Written(e, home, i).product = p /\ Written(e, home, i).combination = NoValues
  <2>1. FileOf(e)[i].values \in Values
    BY <1>2, FileRowShape
  <2> QED
    BY <1>4, <1>5, <2>1, WrittenShape, CombinationOf
<1>10. ~CombinationTaken(p, NoValues)
  BY <1>9, CommitVariants
<1> QED
  BY <1>6, <1>7, <1>8, <1>10 DEF CombinationTaken, VariantsOf

\* A simple product that a commit makes has one row.
LEMMA CommitOneOfSimple ==
  ASSUME ImportsInv, NEW e \in Editor, NEW home, NEW new, Committing(e, home, new),
         NEW g \in Made(e), MadeRow(e, g).type = "SIMPLE"
  PROVE  \E x \in Variant : VariantsOf(home[g])' = {x}
<1> DEFINE valid == importing[e].valid
           p == home[g]
<1>1. importing[e].at = "commit" /\ importing[e].todo = {}
  BY DEF Committing, CommitWrite
<1>2. g \in DOMAIN importing[e].plan /\ g \in valid /\ Group(e, g) = g
  BY <1>1, CommitAt DEF Made
<1>3. VariantAttributes(importing[e].plan[g].rules) = {}
  <2>1. /\ FileOf(e)[g] \in FileRow /\ FileOf(e)[g].category \in Category
        /\ importing[e].plan[g] \in Plan
    BY <1>1, <1>2, CommitAt
  <2> QED
    BY <2>1, NewProductShape DEF MadeRow
<1>4. p \in Product /\ ~Listed(p) /\ \A j \in DOMAIN importing[e].plan : home[j] = p => j = g
  BY <1>2, CommitProducts
<1>5. ASSUME NEW i \in valid, home[Group(e, i)] = p
      PROVE  i = g
  <2>1. Group(e, i) = g /\ FileOf(e)[i] \in FileRow /\ FileOf(e)[g] \in FileRow
    BY <1>1, <1>2, <1>4, <1>5, CommitAt
  <2>2. FileOf(e)[i].values \in Values /\ FileOf(e)[g].values \in Values
    BY <2>1, FileRowShape
  <2>3. Written(e, home, i).combination = NoValues /\ Written(e, home, g).combination = NoValues
    <3>1. /\ Written(e, home, i).combination = OfVariant(importing[e].plan[g].rules, FileOf(e)[i].values)
          /\ Written(e, home, g).combination = OfVariant(importing[e].plan[g].rules, FileOf(e)[g].values)
      BY <1>2, <2>1, WrittenShape
    <3>2. OfVariant(importing[e].plan[g].rules, FileOf(e)[i].values) = NoValues
      BY <1>3, <2>2, CombinationOf
    <3>3. OfVariant(importing[e].plan[g].rules, FileOf(e)[g].values) = NoValues
      BY <1>3, <2>2, CombinationOf
    <3> QED
      BY <3>1, <3>2, <3>3
  <2>4. Written(e, home, i).product = p /\ Written(e, home, g).product = p
    BY <1>2, <2>1, WrittenShape
  <2> QED
    BY <1>2, <2>3, <2>4, CommitVariants
<1>6. \A x \in Variant : variants[x].product # p
  <2>1. RowsListed
    BY DEF ImportsInv, RulesInv, RemovalsInv
  <2> QED
    BY <1>4, <2>1 DEF RowsListed, NoVariant
<1>7. ASSUME NEW x \in Variant
      PROVE  variants'[x].product = p <=> x = new[g]
  <2>1. variants'[new[g]].product = p
    BY <1>2, CommitVariants, WrittenShape
  <2>2. ASSUME NEW i \in valid, x = new[i], variants'[x].product = p
        PROVE  x = new[g]
    <3>1. variants'[x] = Written(e, home, i)
      BY <2>2, CommitVariants
    <3>2. home[Group(e, i)] = p
      BY <2>2, <3>1, WrittenShape
    <3> QED
      BY <1>5, <2>2, <3>2
  <2> QED
    BY <1>6, <2>1, <2>2, CommitVariants
<1>8. new[g] \in Variant
  BY <1>2, CommitVariants
<1>9. {x \in Variant : variants'[x].product = p} = {new[g]}
  BY <1>7, <1>8
<1> QED
  BY <1>8, <1>9 DEF VariantsOf


\* A commit keeps what was validated: what it writes was validated against links that
\* are, or were, the category's.
LEMMA CommitRuled ==
  ASSUME ImportsInv, NEW e \in Editor, NEW home, NEW new, Committing(e, home, new)
  PROVE  RulesInv' /\ LinksKept
<1> DEFINE valid == importing[e].valid
           plan == importing[e].plan
<1>1. importing[e].at = "commit" /\ importing[e].todo = {} /\ UNCHANGED <<links, staff, ruled>>
  BY DEF Committing, CommitWrite
<1>2. RulesInv /\ RemovalsInv /\ RowsTypeOK /\ RowsListed
  BY DEF ImportsInv, RulesInv, RemovalsInv
<1>3. LinksKept
  BY <1>1 DEF LinksKept, Bound, Trusted
<1>4. ASSUME NEW q \in Product, products'[q] = products[q]
      PROVE  Stays(q) /\ ProductRuled(q)'
  <2>1. Stays(q)
    BY <1>4 DEF Stays, Listed
  <2> QED
    BY <1>2, <1>3, <1>4, <2>1, ProductKept
\* What the rows of a group have, under the rules that were looked up for it.
<1>5. ASSUME NEW i \in valid
      PROVE  LET g == Group(e, i)
                 k == FileOf(e)[i].category
             IN  /\ g \in DOMAIN plan /\ plan[g] \in Plan /\ k \in Category
                 /\ FileOf(e)[g].category = k
                 /\ FileOf(e)[i] \in FileRow /\ FileOf(e)[i].values \in Values
                 /\ Bound(k)
                 /\ Trusted(k) =>
                      /\ plan[g].rules = links[k]
                      /\ VariantAttributes(links[k]) \subseteq Given(FileOf(e)[i].values)
                      /\ RequiredAttributes(links[k]) \subseteq Given(FileOf(e)[i].values)
  <2> DEFINE g == Group(e, i)
             k == FileOf(e)[i].category
  <2>1. /\ g \in DOMAIN plan /\ plan[g] \in Plan /\ k \in Category
        /\ FileOf(e)[g].category = k /\ FileOf(e)[i] \in FileRow
        /\ RowRuled(links, ruled, FileOf(e), i)
        /\ PlanRuled(links, ruled, products, FileOf(e)[g].category, plan[g])
    BY <1>1, CommitAt
  <2>2. FileOf(e)[i].values \in Values
    BY <2>1, FileRowShape
  <2> HIDE DEF g, plan
  <2>3. Bound(k) /\ (Trusted(k) => plan[g].rules = links[k])
    BY <2>1 DEF RowRuled, PlanRuled, Bound, Trusted
  <2>4. Trusted(k) => /\ VariantAttributes(links[k]) \subseteq Given(FileOf(e)[i].values)
                      /\ RequiredAttributes(links[k]) \subseteq Given(FileOf(e)[i].values)
    BY <2>1 DEF RowRuled, Trusted
  <2> QED
    BY <2>1, <2>2, <2>3, <2>4 DEF g, plan
<1>6. ASSUME NEW g \in Made(e)
      PROVE  ProductRuled(home[g])'
  <2> DEFINE k == FileOf(e)[g].category
             row == products'[home[g]]
  <2>1. g \in valid /\ Group(e, g) = g
    BY <1>1, CommitAt DEF Made
  <2>2. /\ FileOf(e)[g] \in FileRow /\ k \in Category /\ plan[g] \in Plan /\ Bound(k)
        /\ Trusted(k) => /\ plan[g].rules = links[k]
                         /\ RequiredAttributes(links[k]) \subseteq Given(FileOf(e)[g].values)
    BY <1>5, <2>1
  <2>3. row = MadeRow(e, g)
    BY CommitProducts
  <2>4. /\ row.category = k
        /\ row.type = "SIMPLE" => VariantAttributes(plan[g].rules) = {}
        /\ row.values = [a \in Attribute |-> IF a \in InfoAttributes(plan[g].rules)
                                             THEN FileOf(e)[g].values[a] ELSE None]
    BY <2>2, <2>3, NewProductShape DEF MadeRow
  <2>5. Given(row.values) = InfoAttributes(plan[g].rules) \cap Given(FileOf(e)[g].values)
    BY <2>4 DEF Given, InfoAttributes
  <2>6. RequiredAttributes(plan[g].rules) \subseteq InfoAttributes(plan[g].rules)
    BY DEF RequiredAttributes, InfoAttributes
  <2> HIDE DEF row, plan
  <2>7. Trusted(k) => TypeFits(links[k], row) /\ InfoFits(links[k], row.values)
    BY <2>2, <2>4, <2>5, <2>6 DEF TypeFits, InfoFits
  <2> QED
    BY <1>1, <2>2, <2>4, <2>7 DEF ProductRuled, Bound, Trusted, row
<1>7. ASSUME NEW q \in Product
      PROVE  ProductRuled(q)'
  BY <1>4, <1>6, CommitProducts
<1>8. ASSUME NEW q \in Product, \A i \in valid : home[Group(e, i)] # q
      PROVE  VariantsOf(q)' = VariantsOf(q)
  <2>1. ASSUME NEW x \in Variant
        PROVE  variants'[x].product = q <=> variants[x].product = q
    <3>1. CASE variants'[x] = variants[x]
      BY <3>1
    <3>2. ASSUME NEW i \in valid, x = new[i]
          PROVE  variants'[x].product # q /\ variants[x].product # q
      <4>1. variants'[x] = Written(e, home, i) /\ x \in FreshVariants
        BY <3>2, CommitVariants
      <4>2. variants'[x].product # q
        BY <1>8, <4>1, WrittenShape
      <4>3. variants[x] = NoVariant
        BY <4>1 DEF FreshVariants
      <4> QED
        BY <4>2, <4>3 DEF NoVariant
    <3> QED
      BY <3>1, <3>2, CommitVariants
  <2> QED
    BY <2>1 DEF VariantsOf
<1>9. ASSUME NEW q \in Product
      PROVE  SimpleSingle(q)'
  <2>1. CASE products'[q] = products[q] /\ \A i \in valid : home[Group(e, i)] # q
    BY <1>2, <1>3, <1>4, <1>8, <2>1, SingleKept
  <2>2. ASSUME products'[q] = products[q], Listed(q), NEW i \in valid, home[Group(e, i)] = q
        PROVE  SimpleSingle(q)'
    <3>1. ~(products[q].type = "SIMPLE" /\ Trusted(products[q].category))
      BY <2>2, CommitAddsNoneToSimple
    <3> QED
      BY <1>1, <2>2, <3>1 DEF SimpleSingle, Trusted
  <2>3. CASE ~Listed(q) /\ products'[q] = products[q]
    BY <2>3 DEF SimpleSingle, Listed
  <2>4. ASSUME NEW g \in Made(e), q = home[g]
        PROVE  SimpleSingle(q)'
    <3>1. products'[q] = MadeRow(e, g)
      BY <2>4, CommitProducts
    <3> QED
      BY <2>4, <3>1, CommitOneOfSimple DEF SimpleSingle
  <2> QED
    BY <2>1, <2>2, <2>3, <2>4, CommitProducts
<1>10. ASSUME NEW x \in Variant
       PROVE  VariantRuled(x)'
  <2>1. CASE variants'[x] = variants[x]
    <3>1. variants[x] # NoVariant => /\ variants[x].product \in Product /\ Listed(variants[x].product)
                                     /\ products'[variants[x].product] = products[variants[x].product]
      BY <1>2, CommitUnmet DEF RowsListed
    <3>2. variants[x] # NoVariant => Stays(variants[x].product) /\ Listed(variants[x].product)'
      BY <2>1, <3>1 DEF Listed, Stays
    <3>3. /\ variants'[x] \in {variants[x], NoVariant}
          /\ variants'[x] # NoVariant => Stays(variants[x].product) /\ Listed(variants[x].product)'
      BY <2>1, <3>2
    <3> QED
      BY <1>2, <1>3, <3>3, VariantKept
  <2>2. ASSUME NEW i \in valid, x = new[i]
        PROVE  VariantRuled(x)'
    <3> DEFINE k == FileOf(e)[i].category
               g == Group(e, i)
    <3>1. variants'[x] = Written(e, home, i)
      BY <2>2, CommitVariants
    <3>2. /\ variants'[x].product = home[g]
          /\ variants'[x].combination = OfVariant(plan[g].rules, FileOf(e)[i].values)
      BY <3>1, WrittenShape
    <3>3. /\ g \in DOMAIN plan /\ FileOf(e)[g].category = k /\ FileOf(e)[i].values \in Values
          /\ Trusted(k) => /\ plan[g].rules = links[k]
                           /\ VariantAttributes(links[k]) \subseteq Given(FileOf(e)[i].values)
      BY <1>5
    <3>4. products'[home[g]].category = k
      BY <3>3, CommitProducts
    <3>5. Trusted(k) => Given(OfVariant(links[k], FileOf(e)[i].values)) = VariantAttributes(links[k])
      BY <3>3, CombinationOf
    <3> HIDE DEF g, plan, k
    <3>6. Trusted(k) => Given(variants'[x].combination) = VariantAttributes(links[k])
      BY <3>2, <3>3, <3>5
    <3>7. products'[variants'[x].product].category = k
      BY <3>2, <3>4
    <3> QED
      BY <1>1, <3>6, <3>7 DEF VariantRuled, Trusted
  <2> QED
    BY <2>1, <2>2, CommitVariants
<1>11. ASSUME NEW d \in Editor
       PROVE  InsertRuled(d)' /\ ReplaceRuled(d)' /\ VariantCallRuled(d)' /\ DeleteRuled(d)'
  <2>1. staff[d].product \in Product => Stays(staff[d].product)
    BY <1>4, CommitUnmet
  <2> QED
    BY <1>1, <1>2, <1>3, <2>1, CallKept
<1> QED
  BY <1>3, <1>7, <1>9, <1>10, <1>11, CommitRemovals DEF RulesInv

\* A batch whose other three fields are written.
Rewritten(old, rows, resolved) ==
  [old EXCEPT !.status = "COMMITTED", !.rows = rows, !.resolved = resolved]
CommittedBatch(file, rows, resolved) ==
  [status |-> "COMMITTED", file |-> file, rows |-> rows, resolved |-> resolved]

LEMMA BatchRewritten ==
  ASSUME NEW file, NEW old \in BatchOf(file), NEW rows, NEW resolved
  PROVE  Rewritten(old, rows, resolved) = CommittedBatch(file, rows, resolved)
<1> DEFINE n == Len(file)
           new == Rewritten(old, rows, resolved)
<1>1. /\ new \in [status : {"COMMITTED"}, file : {file}, rows : {rows}, resolved : {resolved}]
      /\ new.status = "COMMITTED" /\ new.file = file /\ new.rows = rows /\ new.resolved = resolved
  <2>1. CASE old \in [status : {"PREVIEWED"}, file : {file}, rows : [1..n -> {"VALID", "ERROR"}],
                      resolved : [1..n -> {None}]]
    BY <2>1 DEF Rewritten
  <2>2. CASE old \in [status : {"COMMITTED"}, file : {file}, rows : [1..n -> {"COMMITTED", "SKIPPED"}],
                      resolved : [1..n -> Variant \cup {None}]]
    BY <2>2 DEF Rewritten
  <2> QED
    BY <2>1, <2>2 DEF BatchOf
<1> HIDE DEF new
<1>2. new = [status |-> new.status, file |-> new.file, rows |-> new.rows, resolved |-> new.resolved]
  BY <1>1
<1>3. new = CommittedBatch(file, rows, resolved)
  BY <1>1, <1>2 DEF CommittedBatch
<1> QED
  BY <1>3 DEF new

\* What a commit makes of its batch.
LEMMA CommitBatch ==
  ASSUME ImportsInv, NEW e \in Editor, NEW home, NEW new, Committing(e, home, new)
  PROVE  LET b == importing[e].batch
             n == Len(FileOf(e))
         IN
         /\ batches' \in [Batch -> {NoBatch} \cup Batches]
         /\ batches'[b] # NoBatch /\ batches'[b].file = FileOf(e)
         /\ \A c \in Batch \ {b} : batches'[c] = batches[c]
         /\ \A c \in Batch : Accepted(c)' = Accepted(c)
         /\ DOMAIN batches'[b].resolved = 1..n
         /\ \A i \in 1..n :
              batches'[b].resolved[i] = IF i \in importing[e].valid THEN new[i] ELSE None
<1> DEFINE b == importing[e].batch
           file == FileOf(e)
           valid == importing[e].valid
           n == Len(file)
           rows == [i \in 1..n |-> IF i \in valid THEN "COMMITTED" ELSE "SKIPPED"]
           resolved == [i \in 1..n |-> IF i \in valid THEN new[i] ELSE None]
           batch == CommittedBatch(file, rows, resolved)
<1>1. /\ b \in Batch /\ batches[b] # NoBatch /\ file \in File
      /\ valid = Accepted(b) /\ valid \subseteq 1..n
  <2>1. importing[e].at = "commit" /\ importing[e].todo = {}
    BY DEF Committing, CommitWrite
  <2> QED
    BY <2>1, CommitAt, FileShape
<1>2. batches \in [Batch -> {NoBatch} \cup Batches]
  BY DEF ImportsInv
<1>3. /\ batches[b] \in BatchOf(file)
      /\ DOMAIN batches[b].rows = 1..n /\ DOMAIN batches[b].resolved = 1..n
  BY <1>1, <1>2, BatchShape DEF FileOf
<1>4. \A i \in 1..n : i \notin valid => batches[b].resolved[i] = None
  <2>1. BatchResolved(b)
    BY <1>1 DEF ImportsInv
  <2> QED
    BY <1>1, <1>3, <2>1 DEF BatchResolved
<1>5. batches' = [batches EXCEPT ![b] = batch]
  <2> DEFINE old == batches[b]
             newRows == [i \in DOMAIN old.rows |-> IF i \in valid THEN "COMMITTED" ELSE "SKIPPED"]
             newResolved == [i \in DOMAIN old.resolved |-> IF i \in valid THEN new[i] ELSE old.resolved[i]]
  <2>1. batches' = [batches EXCEPT ![b] = Rewritten(old, newRows, newResolved)]
    BY DEF Committing, CommitWrite, Committed, Rewritten
  <2>2. newRows = rows /\ newResolved = resolved
    BY <1>3, <1>4
  <2> HIDE DEF rows, resolved, newRows, newResolved, old
  <2>3. Rewritten(old, rows, resolved) = batch
    BY <1>3, BatchRewritten DEF old
  <2> QED
    BY <2>1, <2>2, <2>3
<1>6. batch \in BatchOf(file)
  <2>1. \A i \in valid : new[i] \in Variant
    BY CommitVariants
  <2>2. rows \in [1..n -> {"COMMITTED", "SKIPPED"}] /\ resolved \in [1..n -> Variant \cup {None}]
    BY <2>1
  <2> HIDE DEF rows, resolved
  <2> QED
    BY <2>2 DEF BatchOf, CommittedBatch
<1> HIDE DEF batch
<1>7. batches'[b] = batch /\ \A c \in Batch \ {b} : batches'[c] = batches[c]
  BY <1>1, <1>2, <1>5
<1>8. batches' \in [Batch -> {NoBatch} \cup Batches]
  BY <1>1, <1>2, <1>5, <1>6 DEF Batches
<1>9. /\ batch # NoBatch /\ batch.file = file /\ batch.rows = rows /\ batch.resolved = resolved
  BY NoBatchStatus DEF batch, CommittedBatch
<1>10. ASSUME NEW c \in Batch
       PROVE  Accepted(c)' = Accepted(c)
  <2>1. CASE c # b
    BY <1>7, <2>1 DEF Accepted
  <2>2. CASE c = b
    <3>1. Accepted(c)' = {i \in 1..n : rows[i] \in {"VALID", "COMMITTED"}}
      BY <1>7, <1>9, <2>2 DEF Accepted
    <3>2. {i \in 1..n : rows[i] \in {"VALID", "COMMITTED"}} = valid
      BY <1>1
    <3> QED
      BY <1>1, <2>2, <3>1, <3>2
  <2> QED
    BY <2>1, <2>2
<1> QED
  BY <1>7, <1>8, <1>9, <1>10

\* A commit keeps the invariant.
LEMMA ImportsCommitStep ==
  ASSUME ImportsInv, NEW e \in Editor, NEW home, NEW new, Committing(e, home, new)
  PROVE  ImportsInv'
<1> DEFINE b == importing[e].batch
           valid == importing[e].valid
<1>1. UNCHANGED <<links, ruled>> /\ Go(e, NoImport)
  BY DEF Committing, CommitWrite
<1>2. RulesInv' /\ LinksKept /\ ReferencesHold'
  BY CommitRuled, CommitReferences
<1>3. RowsStay
  BY CommitVariants DEF RowsStay
<1>4. /\ b \in Batch /\ batches[b] # NoBatch /\ valid = Accepted(b)
  <2>1. importing[e].at = "commit" /\ importing[e].todo = {}
    BY DEF Committing, CommitWrite
  <2> QED
    BY <2>1, CommitAt
<1>5. /\ batches' \in [Batch -> {NoBatch} \cup Batches]
      /\ batches'[b] # NoBatch /\ batches'[b].file = batches[b].file
      /\ \A c \in Batch \ {b} : batches'[c] = batches[c]
      /\ \A c \in Batch : Accepted(c)' = Accepted(c)
      /\ DOMAIN batches'[b].resolved = 1..Len(batches[b].file)
      /\ \A i \in 1..Len(batches[b].file) :
           batches'[b].resolved[i] = IF i \in valid THEN new[i] ELSE None
  BY CommitBatch DEF FileOf
<1>6. \A c \in Batch \ {b} : BatchRuled(c)' /\ BatchResolved(c)'
  BY <1>2, <1>3, <1>5, BatchKept
<1>7. ASSUME NEW c \in Batch, c = b
      PROVE  BatchRuled(c)'
  <2>1. BatchRuled(c)
    BY DEF ImportsInv
  <2>2. batches'[c].file = batches[c].file /\ Accepted(c)' = Accepted(c) /\ batches[c] # NoBatch
    BY <1>4, <1>5, <1>7
  <2>3. links' = links /\ ruled' = ruled
    BY <1>1
  <2> QED
    BY <2>1, <2>2, <2>3 DEF BatchRuled
<1>8. ASSUME NEW c \in Batch, c = b
      PROVE  BatchResolved(c)'
  <2>1. ASSUME NEW i \in valid
        PROVE  /\ i \in 1..Len(batches[b].file)
               /\ new[i] # None /\ variants'[new[i]].sku = batches[b].file[i].sku
    <3>1. new[i] \in Variant /\ variants'[new[i]] = Written(e, home, i)
      BY CommitVariants
    <3>2. Written(e, home, i).sku = batches[b].file[i].sku
      BY WrittenShape DEF FileOf
    <3>3. i \in 1..Len(batches[b].file)
      BY <1>4, BatchShape DEF ImportsInv
    <3> QED
      BY <3>1, <3>2, <3>3, CatalogAssumption
  <2>2. Accepted(c)' = valid
    BY <1>4, <1>5, <1>8
  <2>3. ASSUME NEW i \in DOMAIN batches'[c].resolved, batches'[c].resolved[i] # None
        PROVE  i \in valid /\ batches'[c].resolved[i] = new[i]
    BY <1>5, <1>8, <2>3
  <2>4. \A i \in valid : batches'[c].resolved[i] # None
    BY <1>5, <1>8, <2>1
  <2> QED
    BY <1>5, <1>8, <2>1, <2>2, <2>3, <2>4 DEF BatchResolved
<1>9. /\ importing' \in [Editor -> Import] /\ importing'[e] = NoImport
      /\ \A d \in Editor \ {e} : importing'[d] = importing[d]
  BY <1>1 DEF ImportsInv, Go, Import
<1>10. UploadSound(e)' /\ CommitSound(e)'
  BY <1>9, NoBatchStatus DEF UploadSound, CommitSound
<1>11. ASSUME NEW d \in Editor \ {e}
       PROVE  UploadSound(d)' /\ CommitSound(d)'
  <2>1. \A c \in Batch : batches[c] # NoBatch =>
          batches'[c] # NoBatch /\ batches'[c].file = batches[c].file /\ Accepted(c)' = Accepted(c)
    BY <1>5
  <2>2. MetStay(d)
    BY CommitUnmet DEF MetStay, Stays, Listed
  <2> QED
    BY <1>2, <1>9, <2>1, <2>2, UploadKept, CommitKept
<1> QED
  BY <1>2, <1>5, <1>6, <1>7, <1>8, <1>9, <1>10, <1>11 DEF ImportsInv

\* Every step keeps the invariant of the imports.
LEMMA ImportsStep ==
  ImportsInv /\ [ImportsNext]_vars => ImportsInv'
<1> SUFFICES ASSUME ImportsInv, [ImportsNext]_vars
             PROVE  ImportsInv'
  OBVIOUS
<1>1. CASE CatalogStep
  BY <1>1, ImportsCatalogStep
<1>2. ASSUME NEW e \in Editor, ImportStep(e)
      PROVE  ImportsInv'
  <2>1. CASE (\E file \in File : UploadRead(e, file)) \/ (\E b \in Batch : CommitRead(e, b)) \/ ImportFail(e)
    BY <2>1, ImportsReadStep
  <2>2. ASSUME NEW k \in Category, UploadRules(e, k)
        PROVE  ImportsInv'
    BY <2>2, ImportsRulesStep
  <2>3. ASSUME NEW b \in Batch, UploadPreview(e, b)
        PROVE  ImportsInv'
    BY <2>3, ImportsPreviewStep
  <2>4. CASE CommitLookup(e)
    BY <2>4, ImportsLookupStep
  <2>5. ASSUME NEW home, NEW new, Committing(e, home, new)
        PROVE  ImportsInv'
    BY <2>5, ImportsCommitStep
  <2> QED
    BY <1>2, <2>1, <2>2, <2>3, <2>4, <2>5 DEF ImportStep, Committing, Doing
<1>3. CASE UNCHANGED vars
  <2>1. UNCHANGED <<catalogVars, batches, importing>>
    BY <1>3 DEF vars, importVars
  <2>2. RulesInv' /\ LinksKept /\ RowsStay /\ ReferencesHold'
    <3>1. RulesInv' /\ LinksKept
      BY <2>1, CatalogRests DEF ImportsInv
    <3> QED
      BY <2>1, <3>1 DEF ImportsInv, RowsStay, ReferencesHold, catalogVars, rowVars
  <2>3. \A b \in Batch : BatchRuled(b)' /\ BatchResolved(b)'
    BY <2>1, <2>2, BatchKept
  <2>4. \A b \in Batch : batches'[b] = batches[b] /\ Accepted(b)' = Accepted(b)
    BY <2>1 DEF Accepted
  <2>5. \A e \in Editor : importing'[e] = importing[e] /\ MetStay(e)
    BY <2>1 DEF MetStay, Stays, Listed, catalogVars, rowVars
  <2>6. \A e \in Editor : UploadSound(e)' /\ CommitSound(e)'
    BY <2>2, <2>4, <2>5, UploadKept, CommitKept
  <2> QED
    BY <2>1, <2>2, <2>3, <2>6 DEF ImportsInv
<1> QED
  BY <1>1, <1>2, <1>3 DEF ImportsNext

LEMMA ImportsInitially == ImportsInit => ImportsInv
<1> SUFFICES ASSUME ImportsInit
             PROVE  ImportsInv
  OBVIOUS
<1>1. RulesInv /\ ReferencesHold
  <2>1. CatalogInit
    BY DEF ImportsInit
  <2>2. ReferencesHold
    BY <2>1, EmptyType DEF CatalogInit, ReferencesHold, NoProduct, NoVariant, Given, NoValues
  <2> QED
    BY <2>1, <2>2, RulesInit
<1>2. \A b \in Batch : batches[b] = NoBatch
  BY DEF ImportsInit
<1>3. \A e \in Editor : importing[e] = NoImport
  BY DEF ImportsInit
<1>4. \A b \in Batch : BatchRuled(b) /\ BatchResolved(b)
  BY <1>2 DEF BatchRuled, BatchResolved
<1>5. \A e \in Editor : UploadSound(e) /\ CommitSound(e)
  BY <1>3, NoBatchStatus DEF CommitSound, UploadSound
<1> QED
  BY <1>1, <1>4, <1>5 DEF ImportsInit, ImportsInv, Import

\* Every reachable state of the catalogue with its imports is well formed, the references
\* among the rows included: a committed row has its variant, and no other row has one
\* (imports.service.ts:356-450).
THEOREM ImportsTypeCorrect == ImportsSpec => []ImportsTypeOK
<1>1. ImportsInv => ImportsTypeOK
  <2> SUFFICES ASSUME ImportsInv
               PROVE  ImportsTypeOK
    OBVIOUS
  <2>1. CatalogTypeOK
    BY DEF ImportsInv, RulesInv, RemovalsInv, CatalogTypeOK
  <2>2. ASSUME NEW b \in Batch, batches[b] # NoBatch
        PROVE  LET batch == batches[b]
                   n == Len(batch.file)
               IN  /\ batch.file \in File
                   /\ batch.rows \in [1..n -> RowStatus]
                   /\ batch.resolved \in [1..n -> Variant \cup {None}]
                   /\ \/ /\ batch.status = "PREVIEWED"
                         /\ \A i \in 1..n : batch.rows[i] \in {"VALID", "ERROR"} /\ batch.resolved[i] = None
                      \/ /\ batch.status = "COMMITTED"
                         /\ \A i \in 1..n : /\ batch.rows[i] \in {"COMMITTED", "SKIPPED"}
                                            /\ batch.rows[i] = "COMMITTED" <=> batch.resolved[i] # None
    <3> DEFINE file == batches[b].file
               n == Len(file)
               rows == batches[b].rows
               resolved == batches[b].resolved
    <3>1. /\ file \in File /\ batches[b] \in BatchOf(file)
          /\ DOMAIN rows = 1..n /\ DOMAIN resolved = 1..n
          /\ batches[b].status \in {"PREVIEWED", "COMMITTED"}
          /\ batches[b].status = "PREVIEWED" =>
               \A i \in 1..n : rows[i] \in {"VALID", "ERROR"} /\ resolved[i] = None
          /\ batches[b].status = "COMMITTED" => \A i \in 1..n : rows[i] \in {"COMMITTED", "SKIPPED"}
      BY <2>2, BatchShape DEF ImportsInv
    <3>2. \/ rows \in [1..n -> {"VALID", "ERROR"}] /\ resolved \in [1..n -> {None}]
          \/ rows \in [1..n -> {"COMMITTED", "SKIPPED"}] /\ resolved \in [1..n -> Variant \cup {None}]
      BY <3>1 DEF BatchOf
    <3>3. rows \in [1..n -> RowStatus] /\ resolved \in [1..n -> Variant \cup {None}]
      BY <3>2 DEF RowStatus
    <3>4. ASSUME batches[b].status = "COMMITTED", NEW i \in 1..n
          PROVE  rows[i] = "COMMITTED" <=> resolved[i] # None
      <4>1. i \in Accepted(b) <=> rows[i] = "COMMITTED"
        BY <3>1, <3>4 DEF Accepted
      <4>2. BatchResolved(b)
        BY DEF ImportsInv
      <4> QED
        BY <2>2, <3>1, <3>4, <4>1, <4>2 DEF BatchResolved
    <3> QED
      BY <3>1, <3>3, <3>4
  <2> QED
    BY <2>1, <2>2 DEF ImportsTypeOK
<1> QED
  BY <1>1, ImportsInitially, ImportsStep, PTL DEF ImportsSpec

\* The rows that a preview has found valid, whatever their products, never stand in each
\* other's way in the table of variants at the commit, however the catalogue has changed:
\* their SKUs differ, and while the links they were validated against stay, so do the
\* combinations of those for one product (imports.service.ts:411-431).
THEOREM ValidRowsAlwaysFit == ImportsSpec => []ValidRowsFit
<1>1. ImportsInv => ValidRowsFit
  <2> SUFFICES ASSUME ImportsInv, NEW b \in Batch, batches[b].status = "PREVIEWED",
                      NEW i \in ValidRows(b), NEW j \in ValidRows(b), i # j
               PROVE  LET file == batches[b].file
                          k == file[i].category
                      IN  /\ file[i].sku # file[j].sku
                          /\ Alike(file, i, j) /\ ruled[k] # "changed" =>
                               OfVariant(links[k], file[i].values) # OfVariant(links[k], file[j].values)
    BY DEF ValidRowsFit
  <2> DEFINE file == batches[b].file
             k == file[i].category
  <2>1. batches[b] # NoBatch
    BY NoBatchStatus
  <2>2. file \in File /\ i \in Accepted(b) /\ j \in Accepted(b) /\ Accepted(b) \subseteq DOMAIN file
    BY <2>1, BatchShape, FileShape DEF ImportsInv
  <2>3. RowRuled(links, ruled, file, i) /\ RowRuled(links, ruled, file, j)
    BY <2>1, <2>2 DEF ImportsInv, BatchRuled
  <2>4. ruled[k] # "changed" => ruled[k] = "used"
    BY <2>3 DEF ImportsInv, RulesInv, RemovalsInv, RowsTypeOK, RowRuled
  <2> HIDE DEF file
  <2>5. /\ file[i].sku # file[j].sku
        /\ Alike(file, i, j) /\ ruled[k] = "used" =>
             OfVariant(links[k], file[i].values) # OfVariant(links[k], file[j].values)
    BY <2>2, <2>3, RuledRowsDiffer
  <2> QED
    BY <2>4, <2>5 DEF file
<1> QED
  BY <1>1, ImportsInitially, ImportsStep, PTL DEF ImportsSpec

\* Imports, too, leave products and variants that obey the links of their category, as
\* long as these are the ones that were relied on, although a commit validates nothing and
\* adds to whatever product has the name (imports.service.ts:378-431).
THEOREM ImportsObeyTheRules == ImportsSpec => []RulesFollowed
<1>1. ImportsInv => RulesFollowed
  BY RulesImply DEF ImportsInv
<1> QED
  BY <1>1, ImportsInitially, ImportsStep, PTL DEF ImportsSpec

\* A batch changes only when it is previewed, or by a commit of it.
LEMMA BatchChanges ==
  ASSUME ImportsInv, [ImportsNext]_vars, NEW b \in Batch, batches'[b] # batches[b]
  PROVE  \/ batches[b] = NoBatch
         \/ \E e \in Editor : \E home, new : importing[e].batch = b /\ Committing(e, home, new)
<1>1. batches \in [Batch -> {NoBatch} \cup Batches]
  BY DEF ImportsInv
<1>2. PICK e \in Editor : ImportStep(e)
  BY DEF ImportsNext, CatalogStep, importVars, vars
<1>3. ASSUME NEW c \in Batch, UploadPreview(e, c)
      PROVE  batches[b] = NoBatch
  BY <1>1, <1>3 DEF UploadPreview
<1>4. ASSUME NEW home, NEW new, Committing(e, home, new)
      PROVE  importing[e].batch = b
  <2>1. \A c \in Batch \ {importing[e].batch} : batches'[c] = batches[c]
    BY <1>4, CommitBatch
  <2> QED
    BY <2>1
<1>5. ASSUME \/ \E file \in File : UploadRead(e, file)
             \/ \E k \in Category : UploadRules(e, k)
             \/ \E c \in Batch : CommitRead(e, c)
             \/ CommitLookup(e) \/ ImportFail(e)
      PROVE  FALSE
  BY <1>5 DEF UploadRead, UploadRules, CommitRead, CommitLookup, ImportFail
<1> QED
  BY <1>2, <1>3, <1>4, <1>5 DEF ImportStep, Committing, Doing

\* A second commit of a batch gets through only when the variants of the first are gone:
\* the SKUs of those that are left hold it back (imports.service.ts:341,420).
THEOREM RecommitsOnlyTheGone == ImportsSpec => RecommittedOnlyIfGone
<1> DEFINE Gone == \A b \in Batch : batches[b].status = "COMMITTED" /\ batches'[b] # batches[b]
                     => \A i \in DOMAIN batches[b].resolved :
                          batches[b].resolved[i] # None =>
                            variants[batches[b].resolved[i]] = NoVariant
<1>1. ImportsInv /\ [ImportsNext]_vars => Gone
  <2> SUFFICES ASSUME ImportsInv, [ImportsNext]_vars, NEW b \in Batch,
                      batches[b].status = "COMMITTED", batches'[b] # batches[b],
                      NEW i \in DOMAIN batches[b].resolved, batches[b].resolved[i] # None,
                      variants[batches[b].resolved[i]] # NoVariant
               PROVE  FALSE
    OBVIOUS
  <2> DEFINE x == batches[b].resolved[i]
             sku == batches[b].file[i].sku
  <2>1. batches[b] # NoBatch
    BY NoBatchStatus
  <2>2. x \in Variant
    BY <2>1, BatchShape DEF ImportsInv
  <2>3. i \in Accepted(b) /\ variants[x].sku = sku
    BY <2>1 DEF ImportsInv, BatchResolved
  <2>4. PICK e \in Editor : \E home, new : importing[e].batch = b /\ Committing(e, home, new)
    BY <2>1, BatchChanges
  <2>5. PICK home, new : importing[e].batch = b /\ Committing(e, home, new)
    BY <2>4
  <2>6. i \in importing[e].valid
    BY <2>3, <2>5, CommitAt DEF Committing, CommitWrite
  <2>7. ~SkuTaken(sku)
    BY <2>5, <2>6, CommitVariants DEF FileOf
  <2> QED
    BY <2>2, <2>3, <2>7 DEF SkuTaken
<1>2. ImportsInv /\ [ImportsNext]_vars => [Gone]_vars
  BY <1>1
<1> QED
  BY <1>2, ImportsInitially, ImportsStep, PTL DEF ImportsSpec, RecommittedOnlyIfGone

\* Imports take nothing away, and what they add to a brand that is being removed is noted.
LEMMA ImportsGuarded == ImportsInv /\ [ImportsNext]_vars => [Guarded]_catalogVars
<1> SUFFICES ASSUME ImportsInv, [ImportsNext]_vars, catalogVars' # catalogVars
             PROVE  Guarded
  OBVIOUS
<1>1. RemovalsInv
  BY DEF ImportsInv, RulesInv
<1>2. CASE CatalogStep
  <2>1. CatalogNext
    BY <1>2 DEF CatalogStep, CatalogNext
  <2> QED
    BY <1>1, <2>1, StepGuarded
<1>3. ASSUME NEW e \in Editor, ImportStep(e)
      PROVE  Guarded
  <2>1. CASE UNCHANGED rowVars
    <3>1. \A q \in Product : products[q].published => Listed(q)
      BY <1>1 DEF RemovalsInv, RowsListed
    <3>2. UNCHANGED <<attributes, brands, products, variants>>
      BY <2>1 DEF rowVars
    <3>3. \A q \in Product : Listed(q)' = Listed(q) /\ VariantsOf(q)' = VariantsOf(q)
      BY <3>2 DEF Listed, VariantsOf
    <3> QED
      BY <3>1, <3>2, <3>3 DEF Guarded
  <2>2. ASSUME NEW home, NEW new, Committing(e, home, new)
        PROVE  Guarded
    <3>1. /\ \A x \in Variant : variants[x] # NoVariant => variants'[x] = variants[x]
          /\ \A q \in Product : Listed(q) => products'[q] = products[q]
      BY <2>2, CommitUnmet
    <3>2. UNCHANGED <<attributes, brands>>
      BY <2>2 DEF Committing, CommitWrite
    <3>3. \A q \in Product : Listed(q) => Listed(q)'
      BY <3>1 DEF Listed
    <3>4. \A q \in Product : VariantsOf(q) # {} => VariantsOf(q)' # {}
      BY <3>1 DEF VariantsOf, NoVariant
    <3>5. \A q \in Product : products[q].published => Listed(q)
      BY <1>1 DEF RemovalsInv, RowsListed
    <3> QED
      BY <3>2, <3>3, <3>4, <3>5 DEF Guarded
  <2>3. \/ UNCHANGED rowVars
        \/ \E home, new : Committing(e, home, new)
    <3>1. ASSUME \/ \E file \in File : UploadRead(e, file)
                 \/ \E b \in Batch : UploadPreview(e, b) \/ CommitRead(e, b)
                 \/ ImportFail(e)
          PROVE  UNCHANGED rowVars
      BY <3>1 DEF UploadRead, UploadPreview, CommitRead, ImportFail, catalogVars
    <3>2. ASSUME (\E k \in Category : UploadRules(e, k)) \/ CommitLookup(e)
          PROVE  UNCHANGED rowVars
      BY <3>2 DEF UploadRules, CommitLookup
    <3> QED
      BY <1>3, <3>1, <3>2 DEF ImportStep, Committing, Doing
  <2> QED
    BY <2>1, <2>2, <2>3
<1> QED
  BY <1>2, <1>3 DEF ImportsNext, vars, importVars

\* The four remove methods keep their word among imports, too: the commit of a batch
\* (imports.service.ts:356) adds products and variants while they count and delete.
THEOREM ImportsGuardRemovals == ImportsSpec => RemovalsAreGuarded
<1> QED
  BY ImportsGuarded, ImportsInitially, ImportsStep, PTL DEF ImportsSpec, RemovalsAreGuarded, Guarded
=============================================================================
