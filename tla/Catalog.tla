------------------------------ MODULE Catalog -------------------------------
(* The catalogue: attributes and their links to categories, brands, products    *)
(* and variants (attributes.service.ts, brands.service.ts, products.service.ts, *)
(* variants.service.ts), cut where one of their calls relies on what it has     *)
(* read before.  Inserts whose conditions are all foreign keys or unique        *)
(* columns are one step: the database looks at them again.                      *)
EXTENDS FiniteSets

CONSTANTS Category,      \* the categories, which stay
          Attribute, Value,
          Select,        \* the attributes whose values are options
          Brand, Product, Variant, Name, Slug, Sku,
          Editor,        \* slots for staff calls in progress
          None           \* SQL NULL

ASSUME CatalogAssumption ==
  /\ Select \subseteq Attribute
  /\ None \notin Category \cup Attribute \cup Value \cup Brand \cup Product
                   \cup Variant \cup Name \cup Slug \cup Sku

VARIABLES attributes,    \* the attributes there are
          options,       \* per attribute: the options it has
          links,         \* per category and attribute: what the link makes of it
          brands,        \* the brands there are
          products,      \* the row of each product with its attribute values
          variants,      \* the row of each variant with its attribute values
          staff,         \* per slot: how far the call is and what it has read
          ruled,         \* per category: whether somebody has relied on its links,
                         \*   and whether they have changed since
          raced          \* what got a new dependant, or lost one, while a call
                         \*   that had counted them was about to delete

rowVars == <<attributes, options, links, brands, products, variants>>
catalogVars == <<rowVars, staff, ruled, raced>>

\* CategoryAttribute: createsVariant, isRequired or neither.
Role == {"none", "variant", "required", "optional"}

Values == [Attribute -> Value \cup {None}]
NoValues == [a \in Attribute |-> None]
Given(values) == {a \in Attribute : values[a] # None}

ProductRow == [category : Category \cup {None}, name : Name \cup {None},
               slug : Slug \cup {None}, brand : Brand \cup {None},
               type : {"SIMPLE", "VARIABLE"}, published : BOOLEAN, values : Values]

NoProduct == [category |-> None, name |-> None, slug |-> None, brand |-> None,
              type |-> "SIMPLE", published |-> FALSE, values |-> NoValues]

VariantRow == [product : Product \cup {None}, sku : Sku \cup {None},
               combination : Values]

NoVariant == [product |-> None, sku |-> None, combination |-> NoValues]

\* Of a call: what it is about to do, to what, with which values; for an update,
\* which of the rows it found it has deleted.
StaffCall == [at : {"idle", "insertProduct", "replaceValues", "deleteProduct",
                    "insertVariant", "deleteVariant", "deleteAttribute", "deleteBrand"},
              product : Product \cup {None}, variant : Variant \cup {None},
              attribute : Attribute \cup {None}, brand : Brand \cup {None},
              row : ProductRow, sku : Sku \cup {None}, values : Values,
              deleted : SUBSET Attribute]

Idle == [at |-> "idle", product |-> None, variant |-> None, attribute |-> None,
         brand |-> None, row |-> NoProduct, sku |-> None, values |-> NoValues,
         deleted |-> {}]

RowsTypeOK ==
  /\ attributes \subseteq Attribute
  /\ options \in [Attribute -> SUBSET Value]
  /\ links \in [Category -> [Attribute -> Role]]
  /\ brands \subseteq Brand
  /\ products \in [Product -> ProductRow]
  /\ variants \in [Variant -> VariantRow]
  /\ staff \in [Editor -> StaffCall]
  /\ ruled \in [Category -> {"open", "used", "changed"}]
  /\ raced \subseteq Product \cup Attribute \cup Brand \cup {None}

\* The foreign keys: a brand that is deleted leaves no product of it behind, an attribute
\* no value, no option and no link (schema.prisma, onDelete of each).
ReferencesHold ==
  /\ \A p \in Product : /\ products[p].brand \in brands \cup {None}
                        /\ Given(products[p].values) \subseteq attributes
  /\ \A x \in Variant : Given(variants[x].combination) \subseteq attributes
  /\ \A a \in Attribute \ attributes :
       options[a] = {} /\ \A k \in Category : links[k][a] = "none"

CatalogTypeOK == RowsTypeOK /\ ReferencesHold

CatalogInit ==
  /\ attributes = {}
  /\ options = [a \in Attribute |-> {}]
  /\ links = [k \in Category |-> [a \in Attribute |-> "none"]]
  /\ brands = {}
  /\ products = [p \in Product |-> NoProduct]
  /\ variants = [x \in Variant |-> NoVariant]
  /\ staff = [e \in Editor |-> Idle]
  /\ ruled = [k \in Category |-> "open"]
  /\ raced = {}

----------------------------------------------------------------------------
At(e, stage) == staff[e].at = stage

Start(e, call) == At(e, "idle") /\ staff' = [staff EXCEPT ![e] = call]
End(e) == staff' = [staff EXCEPT ![e] = Idle]

Listed(p) == products[p].category # None
VariantsOf(p) == {x \in Variant : variants[x].product = p}
SkuTaken(s) == \E x \in Variant : variants[x].sku = s
SlugTaken(s) == \E p \in Product : products[p].slug = s

\* getCategoryAttributeRules: the links of a category by what they make of an attribute.
VariantAttributes(rules) == {a \in Attribute : rules[a] = "variant"}
RequiredAttributes(rules) == {a \in Attribute : rules[a] = "required"}
InfoAttributes(rules) == {a \in Attribute : rules[a] \in {"required", "optional"}}

\* assertValidAttributeValue, of an attribute with options and of any other.
Accepts(a, v) == a \in Select => v \in options[a]

\* validateAttributeValues in its two modes.
ValidInfo(rules, values) ==
  /\ RequiredAttributes(rules) \subseteq Given(values)
  /\ Given(values) \subseteq InfoAttributes(rules)
  /\ \A a \in Given(values) : Accepts(a, values[a])

ValidVariant_Some(rules, values) ==
  /\ Given(values) \subseteq VariantAttributes(rules)
  /\ \A a \in Given(values) : Accepts(a, values[a])
ValidVariant(rules, values) ==
  /\ Given(values) = VariantAttributes(rules)
  /\ \A a \in Given(values) : Accepts(a, values[a])

\* A call relies on the links of category k; the links of k change.
Use(k) == ruled' = [ruled EXCEPT ![k] = IF @ = "open" THEN "used" ELSE @]
Relink(k, rules) ==
  /\ links' = [links EXCEPT ![k] = rules]
  /\ ruled' = [ruled EXCEPT ![k] = IF @ = "used" THEN "changed" ELSE @]

\* A call has counted what depends on the row x of a table, and is about to delete it.
About(stage, field, x) == \E d \in Editor : At(d, stage) /\ staff[d][field] = x

\* Ids are new: no row has one, and no call has met it.
Met(e) == {staff[e].product, staff[e].variant, staff[e].attribute, staff[e].brand,
           staff[e].row.brand} \cup staff[e].deleted
            \cup Given(staff[e].values) \cup Given(staff[e].row.values)
New(x) == \A e \in Editor : x \notin Met(e)

----------------------------------------------------------------------------
(* Attributes.                                                                *)

CreateAttribute(a) ==
  /\ a \notin attributes /\ New(a)
  /\ attributes' = attributes \cup {a}
  /\ UNCHANGED <<options, links, brands, products, variants, staff, ruled, raced>>

AddOption(a, v) ==
  /\ a \in attributes
  /\ v \notin options[a]
  /\ options' = [options EXCEPT ![a] = @ \cup {v}]
  /\ UNCHANGED <<attributes, links, brands, products, variants, staff, ruled, raced>>

\* Values in use are not looked at.
RemoveOption(a, v) ==
  /\ v \in options[a]
  /\ options' = [options EXCEPT ![a] = @ \ {v}]
  /\ UNCHANGED <<attributes, links, brands, products, variants, staff, ruled, raced>>

LinkToCategory(k, a, role) ==
  /\ a \in attributes
  /\ links[k][a] = "none" /\ role # "none"
  /\ Relink(k, [links[k] EXCEPT ![a] = role])
  /\ raced' = raced \cup {x \in {a} : About("deleteAttribute", "attribute", x)}
  /\ UNCHANGED <<attributes, options, brands, products, variants, staff>>

\* Nor are the products of the category.
UnlinkFromCategory(k, a) ==
  /\ links[k][a] # "none"
  /\ Relink(k, [links[k] EXCEPT ![a] = "none"])
  /\ UNCHANGED <<attributes, options, brands, products, variants, staff, raced>>

InValues(a) ==
  \/ \E p \in Product : a \in Given(products[p].values)
  \/ \E x \in Variant : a \in Given(variants[x].combination)

\* remove() counts the links and the values of an attribute ...
AttributeUnused(a) == ~InValues(a) /\ \A k \in Category : links[k][a] = "none"

RemoveAttributeRead(e, a) ==
  /\ a \in attributes
  /\ AttributeUnused(a)
  /\ Start(e, [Idle EXCEPT !.at = "deleteAttribute", !.attribute = a])
  /\ UNCHANGED <<rowVars, ruled, raced>>

\* ... and deletes it: the values of products and variants hold it back, its options
\* and links go with it.
RemoveAttributeWrite_Counted(e) ==
  LET a == staff[e].attribute IN
  /\ At(e, "deleteAttribute")
  /\ a \in attributes
  /\ attributes' = attributes \ {a}
  /\ options' = [options EXCEPT ![a] = {}]
  /\ links' = [k \in Category |-> [links[k] EXCEPT ![a] = "none"]]
  /\ UNCHANGED <<brands, products, variants, raced, ruled>>
  /\ End(e)
RemoveAttributeWrite(e) ==
  LET a == staff[e].attribute IN
  /\ At(e, "deleteAttribute")
  /\ a \in attributes
  /\ ~InValues(a)
  /\ attributes' = attributes \ {a}
  /\ options' = [options EXCEPT ![a] = {}]
  /\ links' = [k \in Category |-> [links[k] EXCEPT ![a] = "none"]]
  /\ ruled' = [k \in Category |->
                 IF links[k][a] # "none" /\ ruled[k] = "used" THEN "changed" ELSE ruled[k]]
  /\ End(e)
  /\ UNCHANGED <<brands, products, variants, raced>>

----------------------------------------------------------------------------
(* Brands.                                                                    *)

CreateBrand(b) ==
  /\ b \notin brands /\ New(b)
  /\ brands' = brands \cup {b}
  /\ UNCHANGED <<attributes, options, links, products, variants, staff, ruled, raced>>

BrandUnused(b) == \A p \in Product : products[p].brand # b

RemoveBrandRead(e, b) ==
  /\ b \in brands
  /\ BrandUnused(b)
  /\ Start(e, [Idle EXCEPT !.at = "deleteBrand", !.brand = b])
  /\ UNCHANGED <<rowVars, ruled, raced>>

\* A product that has got the brand meanwhile loses it (ON DELETE SET NULL).
RemoveBrandWrite(e) ==
  LET b == staff[e].brand IN
  /\ At(e, "deleteBrand")
  /\ b \in brands
  /\ brands' = brands \ {b}
  /\ products' = [p \in Product |->
       IF products[p].brand = b THEN [products[p] EXCEPT !.brand = None] ELSE products[p]]
  /\ End(e)
  /\ UNCHANGED <<attributes, options, links, variants, ruled, raced>>

----------------------------------------------------------------------------
(* Products.                                                                  *)

\* create() reads the rules of the category and validates; the brand and the category
\* it has read are foreign keys of the insert.
CreateProductRead(e, row, s) ==
  LET rules == links[row.category] IN
  /\ row.type = "SIMPLE" => VariantAttributes(rules) = {} /\ s # None
  /\ row.type = "VARIABLE" => s = None
  /\ ValidInfo(rules, row.values)
  /\ Use(row.category)
  /\ Start(e, [Idle EXCEPT !.at = "insertProduct", !.row = row, !.sku = s])
  /\ UNCHANGED <<rowVars, raced>>

\* One transaction: the product with its values and, if it is simple, its variant.
CreateProductWrite(e, p, x) ==
  LET row == staff[e].row IN
  /\ At(e, "insertProduct")
  /\ ~Listed(p) /\ New(p)
  /\ row.brand \in brands \cup {None}
  /\ Given(row.values) \subseteq attributes
  /\ ~SlugTaken(row.slug)
  /\ products' = [products EXCEPT ![p] = row]
  /\ \/ /\ row.type = "SIMPLE"
        /\ variants[x] = NoVariant /\ New(x)
        /\ ~SkuTaken(staff[e].sku)
        /\ variants' = [variants EXCEPT ![x] =
             [product |-> p, sku |-> staff[e].sku, combination |-> NoValues]]
     \/ row.type = "VARIABLE" /\ UNCHANGED variants
  /\ raced' = raced \cup {b \in {row.brand} : About("deleteBrand", "brand", b)}
  /\ End(e)
  /\ UNCHANGED <<attributes, options, links, brands, ruled>>

\* update() without attributeValues: the name, the slug, the brand and the status.
UpdateProduct(p, n, s, b, published) ==
  /\ Listed(p)
  /\ s # products[p].slug => ~SlugTaken(s)
  /\ b \in brands \cup {None}
  /\ products' = [products EXCEPT ![p].name = n, ![p].slug = s, ![p].brand = b,
                                 ![p].published = published]
  /\ raced' = raced \cup {x \in {b} \ {products[p].brand} : About("deleteBrand", "brand", x)}
                    \cup {x \in {p} : published /\ About("deleteProduct", "product", x)}
  /\ UNCHANGED <<attributes, options, links, brands, variants, staff, ruled>>

\* update() with attributeValues: its transaction validates them and deletes the rows
\* it finds ...
ReplaceValuesDelete(e, p, values) ==
  /\ Listed(p)
  /\ ValidInfo(links[products[p].category], values)
  /\ Use(products[p].category)
  /\ Start(e, [Idle EXCEPT !.at = "replaceValues", !.product = p, !.values = values,
                           !.deleted = Given(products[p].values)])
  /\ UNCHANGED <<rowVars, raced>>

\* ... and inserts the new ones.  Rows that another update has inserted since are not
\* among those deleted; one for the same attribute is in the way.
Replaced(old, call) ==
  [a \in Attribute |-> IF a \in Given(call.values) THEN call.values[a]
                       ELSE IF a \in call.deleted THEN None ELSE old[a]]

ReplaceValuesInsert(e) ==
  LET call == staff[e]
      p == call.product
      old == products[p].values
  IN
  /\ At(e, "replaceValues")
  /\ Listed(p)
  /\ Given(call.values) \subseteq attributes
  /\ Given(old) \cap Given(call.values) \subseteq call.deleted
  /\ products' = [products EXCEPT ![p].values = Replaced(old, call)]
  /\ staff' = [d \in Editor |->
       IF d = e THEN Idle
       ELSE IF At(d, "replaceValues") /\ staff[d].product = p
       THEN [staff[d] EXCEPT !.deleted = @ \ call.deleted] ELSE staff[d]]
  /\ UNCHANGED <<attributes, options, links, brands, variants, ruled, raced>>

RemoveProductRead(e, p) ==
  /\ Listed(p)
  /\ ~products[p].published
  /\ Start(e, [Idle EXCEPT !.at = "deleteProduct", !.product = p])
  /\ UNCHANGED <<rowVars, ruled, raced>>

\* Its values and variants go with it.
RemoveProductWrite(e) ==
  LET p == staff[e].product IN
  /\ At(e, "deleteProduct")
  /\ Listed(p)
  /\ products' = [products EXCEPT ![p] = NoProduct]
  /\ variants' = [x \in Variant |-> IF variants[x].product = p THEN NoVariant ELSE variants[x]]
  /\ End(e)
  /\ UNCHANGED <<attributes, options, links, brands, ruled, raced>>

----------------------------------------------------------------------------
(* Variants.                                                                  *)

CreateVariantRead(e, p, s, values) ==
  LET rules == links[products[p].category] IN
  /\ Listed(p)
  /\ products[p].type = "VARIABLE"
  /\ VariantAttributes(rules) # {}
  /\ ValidVariant(rules, values)
  /\ Use(products[p].category)
  /\ Start(e, [Idle EXCEPT !.at = "insertVariant", !.product = p, !.sku = s,
                           !.values = values])
  /\ UNCHANGED <<rowVars, raced>>

\* The combination is unique among the variants of the product, whatever its order.
CombinationTaken(p, values) == \E x \in VariantsOf(p) : variants[x].combination = values

CreateVariantWrite(e, x) ==
  LET call == staff[e] IN
  /\ At(e, "insertVariant")
  /\ Listed(call.product)
  /\ variants[x] = NoVariant /\ New(x)
  /\ Given(call.values) \subseteq attributes
  /\ ~SkuTaken(call.sku)
  /\ ~CombinationTaken(call.product, call.values)
  /\ variants' = [variants EXCEPT ![x] =
       [product |-> call.product, sku |-> call.sku, combination |-> call.values]]
  /\ End(e)
  /\ UNCHANGED <<attributes, options, links, brands, products, ruled, raced>>

\* remove() counts the variants of the product ...
HasAnother_Itself(x) == VariantsOf(variants[x].product) # {}
HasAnother(x) == VariantsOf(variants[x].product) \ {x} # {}

RemoveVariantRead(e, x) ==
  /\ variants[x] # NoVariant
  /\ HasAnother(x)
  /\ Start(e, [Idle EXCEPT !.at = "deleteVariant", !.variant = x,
                           !.product = variants[x].product])
  /\ UNCHANGED <<rowVars, ruled, raced>>

\* ... and deletes the one, unless it has been ordered (Fail).
RemoveVariantWrite(e) ==
  LET x == staff[e].variant
      p == staff[e].product
  IN
  /\ At(e, "deleteVariant")
  /\ variants[x] # NoVariant
  /\ variants' = [variants EXCEPT ![x] = NoVariant]
  /\ raced' = raced \cup {q \in {p} : \E d \in Editor \ {e} :
                                At(d, "deleteVariant") /\ staff[d].product = q}
  /\ End(e)
  /\ UNCHANGED <<attributes, options, links, brands, products, ruled>>

----------------------------------------------------------------------------
\* A call is refused by a unique column or a foreign key, or dies.
Fail(e) ==
  /\ ~At(e, "idle")
  /\ End(e)
  /\ UNCHANGED <<rowVars, ruled, raced>>

\* What create() makes of its request: the slug is that of the name, or one of its own.
NewProducts == {r \in ProductRow : /\ r.category # None /\ r.name # None /\ r.slug # None
                                   /\ r.brand \in brands \cup {None} /\ ~r.published}

AttributesNext ==
  \E a \in Attribute :
    \/ CreateAttribute(a)
    \/ \E v \in Value : AddOption(a, v) \/ RemoveOption(a, v)
    \/ \E k \in Category : \/ \E role \in Role : LinkToCategory(k, a, role)
                           \/ UnlinkFromCategory(k, a)

SingleStep ==
  \/ AttributesNext
  \/ \E b \in Brand : CreateBrand(b)
  \/ \E p \in Product, n \in Name, s \in Slug, b \in Brand \cup {None}, published \in BOOLEAN :
       UpdateProduct(p, n, s, b, published)

EditorStep(e) ==
  \/ \E a \in Attribute : RemoveAttributeRead(e, a)
  \/ RemoveAttributeWrite(e)
  \/ \E b \in Brand : RemoveBrandRead(e, b)
  \/ RemoveBrandWrite(e)
  \/ \E row \in NewProducts, s \in Sku \cup {None} : CreateProductRead(e, row, s)
  \/ \E p \in Product, x \in Variant : CreateProductWrite(e, p, x)
  \/ \E p \in Product, values \in Values : ReplaceValuesDelete(e, p, values)
  \/ ReplaceValuesInsert(e)
  \/ \E p \in Product : RemoveProductRead(e, p)
  \/ RemoveProductWrite(e)
  \/ \E p \in Product, s \in Sku, values \in Values : CreateVariantRead(e, p, s, values)
  \/ \E x \in Variant : CreateVariantWrite(e, x) \/ RemoveVariantRead(e, x)
  \/ RemoveVariantWrite(e)
  \/ Fail(e)

CatalogNext == SingleStep \/ \E e \in Editor : EditorStep(e)

CatalogSpec == CatalogInit /\ [][CatalogNext]_catalogVars

----------------------------------------------------------------------------

\* "SIMPLE" means no variant attributes, "exactly all" of which a variant has, and what
\* is required is there (API_CONTRACT.md:198,242-243,261): as long as the links of a
\* category are those its first product was validated against, each of its products and
\* variants obeys them, whichever call has made it and whatever calls overlapped.
RulesFollowed ==
  \A p \in Product :
    Listed(p) /\ ruled[products[p].category] # "changed" =>
      LET rules == links[products[p].category] IN
        /\ products[p].type = "SIMPLE" =>
             VariantAttributes(rules) = {} /\ \E x \in Variant : VariantsOf(p) = {x}
        /\ \A x \in VariantsOf(p) : Given(variants[x].combination) = VariantAttributes(rules)
        /\ RequiredAttributes(rules) \subseteq Given(products[p].values)
        /\ Given(products[p].values) \subseteq InfoAttributes(rules)

\* What staff may not delete by their own error, they do not: unless it happened between
\* the count and the deletion, no product loses its last variant
\* (variants.service.ts:149), no linked attribute is deleted (attributes.service.ts:90),
\* no brand that has products (brands.service.ts:93), no product that is published
\* (products.service.ts:399).
RemovalsAreGuarded ==
  [][/\ \A p \in Product \ raced' :
          /\ Listed(p) /\ Listed(p)' /\ VariantsOf(p) # {} => VariantsOf(p)' # {}
          /\ products[p].published => Listed(p)'
     /\ \A a \in attributes \ (attributes' \cup raced'), k \in Category : links[k][a] = "none"
     /\ \A b \in brands \ (brands' \cup raced'), p \in Product : products[p].brand # b
    ]_catalogVars
=============================================================================
