------------------------------ MODULE Imports -------------------------------
(* The import of a file of products (imports.service.ts) into the catalogue, by *)
(* the same staff that edits it.  upload() validates the rows and stores them    *)
(* with the result; commit(), any time later, makes products and variants of the *)
(* valid ones in one transaction.  Rows are for the same product if they have a  *)
(* category and, but for upper case, a name in common.                           *)
EXTENDS Catalog, Sequences, Functions, FiniteSetsExt

CONSTANTS Batch,         \* the batches that may come to exist
          File,          \* the files that may be uploaded
          Folded,        \* toLowerCase, of a product's name
          SlugOf         \* slugify, of a product's name

\* sound says of a row what else can be wrong with it alone: its name, price, unit and
\* weight are right, and its category, if it names one, is there.
FileRow == [category : Category \cup {None}, name : Name, brand : Brand \cup {None},
            sku : Sku \cup {None}, values : Values, sound : BOOLEAN]

ASSUME ImportsAssumption ==
  /\ File \subseteq Seq(FileRow)
  /\ Folded \in [Name -> Name]
  /\ SlugOf \in [Name -> Slug]

VARIABLES batches,       \* per batch: its file and the status of its rows
          importing      \* per slot: the import it is at, if any

importVars == <<batches, importing>>
vars == <<catalogVars, importVars>>

RowStatus == {"VALID", "ERROR", "COMMITTED", "SKIPPED"}

NoBatch == [status |-> "none"]

\* Of an upload: the file, which rows have a brand that exists and a SKU that is taken,
\* the categories left to do, and the rows found valid.  Of a commit: the batch, its valid
\* rows, and for each group of them, known by its first row, what was found for it, with
\* the groups left to do.
NoImport == [at |-> "idle"]

NoPlan == [rules |-> [a \in Attribute |-> "none"], product |-> None, brand |-> None]

ImportsInit ==
  /\ CatalogInit
  /\ batches = [b \in Batch |-> NoBatch]
  /\ importing = [e \in Editor |-> NoImport]

ImportsTypeOK ==
  /\ CatalogTypeOK
  /\ \A b \in Batch : batches[b] # NoBatch =>
       LET batch == batches[b]
           n == Len(batch.file)
       IN  /\ batch.file \in File
           /\ batch.rows \in [1..n -> RowStatus]
           /\ batch.resolved \in [1..n -> Variant \cup {None}]
           /\ \/ /\ batch.status = "PREVIEWED"
                 /\ \A i \in 1..n : batch.rows[i] \in {"VALID", "ERROR"} /\ batch.resolved[i] = None
              \/ /\ batch.status = "COMMITTED"
                 /\ \A i \in 1..n : /\ batch.rows[i] \in {"COMMITTED", "SKIPPED"}
                                    /\ batch.rows[i] = "COMMITTED" <=> batch.resolved[i] # None

----------------------------------------------------------------------------
Doing(e, stage) == importing[e].at = stage
Free(e) == At(e, "idle") /\ Doing(e, "idle")

Go(e, import) == importing' = [importing EXCEPT ![e] = import]

\* The rows i and j of a file are for the same product; the first of those in S that are
\* for the product of row i.
Alike(file, i, j) ==
  file[i].category = file[j].category /\ Folded[file[i].name] = Folded[file[j].name]
Leader(file, S, i) == Min({j \in S : Alike(file, i, j)})

\* Product by product, in the order of their first rows.
Before(file, j, i) ==
  \/ Leader(file, DOMAIN file, j) < Leader(file, DOMAIN file, i)
  \/ Alike(file, i, j) /\ j < i

\* validateRows reads the categories, the brands and the SKUs of the file that exist ...
UploadRead(e, file) ==
  /\ Free(e)
  /\ file # <<>>
  /\ Go(e, [at |-> "preview", file |-> file,
            branded |-> {i \in DOMAIN file : file[i].brand \in brands \cup {None}},
            taken |-> {i \in DOMAIN file : SkuTaken(file[i].sku)},
            todo |-> {file[i].category : i \in DOMAIN file} \ {None}, valid |-> {}])
  /\ UNCHANGED <<catalogVars, batches>>

\* The values that make the combination of a row: those it has for variant attributes.
OfVariant_All(rules, values) == values
OfVariant(rules, values) ==
  [a \in Attribute |-> IF a \in VariantAttributes(rules) THEN values[a] ELSE None]

\* ... then the rules of each category, which decide on its rows.  Values for attributes
\* that the category does not have are ignored, unlike those of a request.
RowAccepted(import, rules, i) ==
  LET row == import.file[i] IN
  /\ row.sound /\ row.sku # None
  /\ i \in import.branded \ import.taken
  /\ VariantAttributes(rules) \cup RequiredAttributes(rules) \subseteq Given(row.values)
  /\ \A a \in Given(row.values) : rules[a] # "none" => Accepts(a, row.values[a])

\* The rows before count, those in error, too: for the SKU all of them, for the
\* combination those of the product, which without variant attributes has one row only.
FirstOfSku(file, i) ==
  \A j \in DOMAIN file : Before(file, j, i) => file[j].sku # file[i].sku
FirstOfCombination(file, rules, i) ==
  \A j \in DOMAIN file \ {i} : Alike(file, i, j) =>
    /\ VariantAttributes(rules) # {}
    /\ j < i => OfVariant(rules, file[j].values) # OfVariant(rules, file[i].values)

RowValid_Alone(import, rules, i) == RowAccepted(import, rules, i)
RowValid(import, rules, i) ==
  /\ RowAccepted(import, rules, i)
  /\ FirstOfSku(import.file, i)
  /\ FirstOfCombination(import.file, rules, i)

UploadRules(e, k) ==
  LET import == importing[e]
      found == {i \in DOMAIN import.file : /\ import.file[i].category = k
                                           /\ RowValid(import, links[k], i)}
  IN
  /\ Doing(e, "preview")
  /\ k \in import.todo
  /\ Use(k)
  /\ Go(e, [import EXCEPT !.todo = @ \ {k}, !.valid = @ \cup found])
  /\ UNCHANGED <<rowVars, staff, raced, batches>>

\* The batch is stored with the result.
Previewed(file, valid) ==
  [status |-> "PREVIEWED", file |-> file,
   rows |-> [i \in DOMAIN file |-> IF i \in valid THEN "VALID" ELSE "ERROR"],
   resolved |-> [i \in DOMAIN file |-> None]]

UploadPreview(e, b) ==
  LET import == importing[e] IN
  /\ Doing(e, "preview")
  /\ import.todo = {}
  /\ batches[b] = NoBatch
  /\ batches' = [batches EXCEPT ![b] = Previewed(import.file, import.valid)]
  /\ Go(e, NoImport)
  /\ UNCHANGED catalogVars

ValidRows(b) == {i \in DOMAIN batches[b].rows : batches[b].rows[i] = "VALID"}

\* commit() reads the batch ...
CommitRead(e, b) ==
  LET valid == ValidRows(b)
      leaders == {Leader(batches[b].file, valid, i) : i \in valid}
  IN
  /\ Free(e)
  /\ batches[b].status = "PREVIEWED"
  /\ valid # {}
  /\ Go(e, [at |-> "commit", batch |-> b, valid |-> valid, todo |-> leaders,
            plan |-> [i \in leaders |-> NoPlan]])
  /\ UNCHANGED <<catalogVars, batches>>

\* ... and, product by product, the rules of the category once more, the brand, and the
\* product of that name in the category, but validates nothing again.
NamedAs(row) == {p \in Product : products[p].category = row.category /\ products[p].name = row.name}

CommitLookup(e) ==
  LET import == importing[e]
      i == Min(import.todo)
      row == batches[import.batch].file[i]
  IN
  /\ Doing(e, "commit")
  /\ import.todo # {}
  /\ Use(row.category)
  /\ \E p \in IF NamedAs(row) = {} THEN {None} ELSE NamedAs(row) :
       Go(e, [import EXCEPT !.todo = @ \ {i},
                !.plan[i] = [rules |-> links[row.category], product |-> p,
                             brand |-> IF row.brand \in brands THEN row.brand ELSE None]])
  /\ UNCHANGED <<rowVars, staff, raced, batches>>

\* What a commit under way has met: ids that are created later are others.
ImportMet(e) ==
  IF ~Doing(e, "commit") THEN {}
  ELSE LET plan == importing[e].plan IN
       UNION {{plan[i].product, plan[i].brand} \cup {a \in Attribute : plan[i].rules[a] # "none"} :
                i \in DOMAIN plan}
Unmet(x) == New(x) /\ \A e \in Editor : x \notin ImportMet(e)

\* A product of the type the rules ask for, with the values of the first row.
NewProduct(row, plan) ==
  [category |-> row.category, name |-> row.name, slug |-> SlugOf[row.name],
   brand |-> plan.brand,
   type |-> IF VariantAttributes(plan.rules) # {} THEN "VARIABLE" ELSE "SIMPLE",
   published |-> FALSE,
   values |-> [a \in Attribute |-> IF a \in InfoAttributes(plan.rules) THEN row.values[a] ELSE None]]

\* Variant ids that no row and no call has.
FreshVariants ==
  {x \in Variant : /\ variants[x] = NoVariant /\ New(x)
                   /\ \A b \in Batch : batches[b] # NoBatch => x \notin Range(batches[b].resolved)}

\* home gives each group of rows its product: the one that was found, if it is still there,
\* or one of its own.
Found(plan) == {i \in DOMAIN plan : plan[i].product # None}
Homes(plan, home) ==
  /\ \A i \in Found(plan) : home[i] = plan[i].product /\ Listed(home[i])
  /\ \A i \in DOMAIN plan \ Found(plan) :
       /\ ~Listed(home[i]) /\ Unmet(home[i])
       /\ \A j \in DOMAIN plan \ {i} : home[j] # home[i]

\* The foreign keys and the unique slug of the products to be made, row being theirs.
Creatable(made, row) ==
  \A i \in made :
    /\ row[i].brand \in brands \cup {None}
    /\ Given(row[i].values) \subseteq attributes
    /\ ~SlugTaken(row[i].slug)
    /\ \A j \in made \ {i} : row[j].slug # row[i].slug

\* Those of the variants, among each other and with the ones that are there.
Insertable_Again(row) ==
  /\ \A i, j \in DOMAIN row : i # j =>
       /\ row[i].sku # row[j].sku
       /\ row[i].product = row[j].product => row[i].combination # row[j].combination
  /\ \A i \in DOMAIN row : /\ ~CombinationTaken(row[i].product, row[i].combination)
                           /\ Given(row[i].combination) \subseteq attributes
Insertable(row) ==
  /\ \A i, j \in DOMAIN row : i # j =>
       /\ row[i].sku # row[j].sku
       /\ row[i].product = row[j].product => row[i].combination # row[j].combination
  /\ \A i \in DOMAIN row : /\ ~SkuTaken(row[i].sku)
                           /\ ~CombinationTaken(row[i].product, row[i].combination)
                           /\ Given(row[i].combination) \subseteq attributes

\* A table in which the row at id[i] is row[i].
Inserted(table, id, row) ==
  [x \in DOMAIN table |-> IF \E i \in DOMAIN row : id[i] = x
                          THEN row[CHOOSE i \in DOMAIN row : id[i] = x] ELSE table[x]]

\* The batch when its valid rows are written: each knows its variant, the others are left
\* out for good.
Committed_Errors(batch, valid, new) ==
  [batch EXCEPT !.status = "COMMITTED",
                !.rows = [i \in DOMAIN @ |-> IF i \in valid THEN "COMMITTED" ELSE @[i]],
                !.resolved = [i \in DOMAIN @ |-> IF i \in valid THEN new[i] ELSE @[i]]]
Committed(batch, valid, new) ==
  [batch EXCEPT !.status = "COMMITTED",
                !.rows = [i \in DOMAIN @ |-> IF i \in valid THEN "COMMITTED" ELSE "SKIPPED"],
                !.resolved = [i \in DOMAIN @ |-> IF i \in valid THEN new[i] ELSE @[i]]]

\* The rows that a commit writes: per group without a product one of that table, per row
\* of the file a variant.
MadeProducts(e) ==
  LET import == importing[e] IN
  [i \in DOMAIN import.plan \ Found(import.plan) |->
     NewProduct(batches[import.batch].file[i], import.plan[i])]
MadeVariants(e, home) ==
  LET import == importing[e]
      file == batches[import.batch].file
      first(i) == Leader(file, import.valid, i)
  IN [i \in import.valid |->
        [product |-> home[first(i)], sku |-> file[i].sku,
         combination |-> OfVariant(import.plan[first(i)].rules, file[i].values)]]

\* new gives each valid row its variant: all can be written, or nothing is.
CommitWrite(e, home, new) ==
  LET b == importing[e].batch
      made == MadeProducts(e)
      row == MadeVariants(e, home)
  IN
  /\ importing[e].todo = {}
  /\ Homes(importing[e].plan, home)
  /\ Creatable(DOMAIN made, made)
  /\ Insertable(row)
  /\ products' = Inserted(products, home, made)
  /\ variants' = Inserted(variants, new, row)
  /\ raced' = raced \cup {x \in {made[i].brand : i \in DOMAIN made} :
                            About("deleteBrand", "brand", x)}
  /\ batches' = [batches EXCEPT ![b] = Committed(@, importing[e].valid, new)]
  /\ Go(e, NoImport)
  /\ UNCHANGED <<attributes, options, links, brands, staff, ruled>>

\* A unique column or a foreign key is in the way, or the process dies: the batch stays
\* as it is.
ImportFail(e) ==
  /\ ~Doing(e, "idle")
  /\ Go(e, NoImport)
  /\ UNCHANGED <<catalogVars, batches>>

ImportStep(e) ==
  \/ \E file \in File : UploadRead(e, file)
  \/ \E k \in Category : UploadRules(e, k)
  \/ \E b \in Batch : UploadPreview(e, b) \/ CommitRead(e, b)
  \/ CommitLookup(e)
  \/ /\ Doing(e, "commit")
     /\ \E home \in [DOMAIN importing[e].plan -> Product],
           new \in Injection(importing[e].valid, FreshVariants) : CommitWrite(e, home, new)
  \/ ImportFail(e)

\* A call of the catalogue itself, in a slot that is at no import.  The ids it creates
\* are new to imports, too.
CatalogStep ==
  /\ \/ SingleStep
     \/ \E e \in Editor : Doing(e, "idle") /\ EditorStep(e)
  /\ \A x \in Variant : variants[x] = NoVariant /\ variants'[x] # NoVariant
                          => x \in FreshVariants
  /\ \A e \in Editor : \A x \in ImportMet(e) :
       /\ x \notin (attributes' \ attributes) \cup (brands' \ brands)
       /\ x \in Product /\ Listed(x)' => Listed(x)
  /\ UNCHANGED importVars

ImportsNext == CatalogStep \/ \E e \in Editor : ImportStep(e)

ImportsSpec == ImportsInit /\ [][ImportsNext]_vars

----------------------------------------------------------------------------

\* The valid rows of a previewed batch do not stand in each other's way in the table of
\* variants when they are committed, whatever became of the catalogue: their SKUs differ,
\* and those of one product have combinations that differ, as commit() computes them again
\* (imports.service.ts:411-431), as long as the links of the category are the ones they
\* were validated against.  (In the table of products they may: two names may slugify
\* alike, and then the commit fails as a whole, see Creatable.)
ValidRowsFit ==
  \A b \in Batch : batches[b].status = "PREVIEWED" =>
    \A i, j \in ValidRows(b) :
      LET file == batches[b].file
          k == file[i].category
      IN  i # j => /\ file[i].sku # file[j].sku
                   /\ Alike(file, i, j) /\ ruled[k] # "changed" =>
                        OfVariant(links[k], file[i].values) # OfVariant(links[k], file[j].values)

\* Two commits of one batch may both find it PREVIEWED (imports.service.ts:341), and the
\* transaction does not look again.  Still its rows do not end up in the catalogue twice:
\* a batch is committed again only if the variants of the first commit are gone.
RecommittedOnlyIfGone ==
  [][\A b \in Batch : batches[b].status = "COMMITTED" /\ batches'[b] # batches[b]
       => \A i \in DOMAIN batches[b].resolved :
            batches[b].resolved[i] # None => variants[batches[b].resolved[i]] = NoVariant]_vars
=============================================================================
