-------------------------- MODULE Categories_proofs --------------------------
(* The category tree, for any number of categories and of staff calls at once:  *)
(* what a rewrite of paths does to a path, then the paths and the tree.         *)
EXTENDS Categories, SequenceTheorems, WellFoundedInduction, TLAPS

EndsIn(path, c) == path # <<>> /\ path[Len(path)] = c

\* A concatenation ends as its second part does.
LEMMA ConcatEnds ==
  ASSUME NEW S, NEW p \in Seq(S), NEW q \in Seq(S), NEW c, EndsIn(q, c)
  PROVE  p \o q \in Seq(S) /\ EndsIn(p \o q, c)
<1>1. Len(q) \in Nat /\ Len(q) # 0 /\ Len(p) \in Nat
  BY EmptySeq DEF EndsIn
<1>2. /\ p \o q \in Seq(S)
      /\ Len(p \o q) = Len(p) + Len(q)
      /\ (p \o q)[Len(p) + Len(q)] = q[Len(q)]
  BY <1>1
<1> QED
  BY <1>1, <1>2 DEF EndsIn

LEMMA AppendEnds ==
  ASSUME NEW S, NEW p \in Seq(S), NEW c \in S
  PROVE  Append(p, c) \in Seq(S) /\ EndsIn(Append(p, c), c)
BY DEF EndsIn

\* A path that begins with another one, and ends in another category, goes on.
LEMMA BeginsOrGoesOn ==
  ASSUME NEW S, NEW path \in Seq(S), NEW before \in Seq(S), NEW c, NEW d, c # d,
         EndsIn(path, d), EndsIn(before, c), StartsWith(path, before)
  PROVE  Len(before) < Len(path)
<1>1. Len(before) <= Len(path) /\ SubSeq(path, 1, Len(before)) = before
  BY DEF StartsWith
<1>2. CASE Len(before) = Len(path)
  <2>1. SubSeq(path, 1, Len(path)) = path
    OBVIOUS
  <2> QED
    BY <1>1, <1>2, <2>1 DEF EndsIn
<1> QED
  BY <1>1, <1>2

\* What is left of a path behind its first n categories.
LEMMA RestOfPath ==
  ASSUME NEW S, NEW path \in Seq(S), NEW n \in Nat, n <= Len(path)
  PROVE  LET rest == SubSeq(path, n + 1, Len(path)) IN
           /\ rest \in Seq(S)
           /\ Len(rest) = Len(path) - n
           /\ \A i \in 1..(Len(path) - n) : rest[i] = path[n + i]
<1>1. Len(path) \in Nat /\ n + 1 \in Int /\ Len(path) \in Int
  OBVIOUS
<1>2. \A i \in (n + 1)..Len(path) : path[i] \in S
  BY <1>1
<1>3. /\ SubSeq(path, n + 1, Len(path)) \in Seq(S)
      /\ Len(SubSeq(path, n + 1, Len(path))) =
           IF n + 1 <= Len(path) THEN Len(path) - (n + 1) + 1 ELSE 0
      /\ \A i \in 1..(Len(path) - (n + 1) + 1) :
           SubSeq(path, n + 1, Len(path))[i] = path[n + 1 + i - 1]
  BY <1>1, <1>2, SubSeqProperties
<1> QED
  BY <1>1, <1>3

\* A rewritten path is a path, whatever was read.
LEMMA RewrittenType ==
  ASSUME NEW S, NEW path \in Seq(S), NEW edit,
         edit.before \in Seq(S), edit.path \in Seq(S), StartsWith(path, edit.before)
  PROVE  Rewritten(edit, path) \in Seq(S)
<1>1. Len(edit.before) \in Nat /\ Len(edit.before) <= Len(path)
  BY DEF StartsWith
<1>2. SubSeq(path, Len(edit.before) + 1, Len(path)) \in Seq(S)
  BY <1>1, RestOfPath
<1> QED
  BY <1>2 DEF Rewritten

\* The rewrite for one category leaves the end of another one's path alone.
LEMMA RewrittenEnds ==
  ASSUME NEW S, NEW path \in Seq(S), NEW edit, NEW c, NEW d, c # d,
         edit.before \in Seq(S), edit.path \in Seq(S),
         EndsIn(path, d), EndsIn(edit.before, c), StartsWith(path, edit.before)
  PROVE  EndsIn(Rewritten(edit, path), d)
<1> DEFINE n == Len(edit.before)
           rest == SubSeq(path, n + 1, Len(path))
<1>1. n \in Nat /\ Len(path) \in Nat /\ n < Len(path)
  BY BeginsOrGoesOn
<1> HIDE DEF n
<1>2. /\ rest \in Seq(S)
      /\ Len(rest) = Len(path) - n
      /\ rest[Len(path) - n] = path[n + (Len(path) - n)]
  <2>1. /\ rest \in Seq(S)
        /\ Len(rest) = Len(path) - n
        /\ \A i \in 1..(Len(path) - n) : rest[i] = path[n + i]
    BY <1>1, RestOfPath
  <2>2. Len(path) - n \in 1..(Len(path) - n)
    BY <1>1
  <2> HIDE DEF rest
  <2> QED
    BY <2>1, <2>2
<1> HIDE DEF rest
<1>3. n + (Len(path) - n) = Len(path) /\ Len(path) - n # 0
  BY <1>1
<1>4. rest # <<>>
  BY <1>2, <1>3, EmptySeq
<1>5. rest[Len(rest)] = d
  <2>1. path[Len(path)] = d
    BY DEF EndsIn
  <2> QED
    BY <1>2, <1>3, <2>1
<1>6. EndsIn(rest, d)
  BY <1>4, <1>5 DEF EndsIn
<1> QED
  BY <1>2, <1>6, ConcatEnds DEF Rewritten, rest, n

\* A path begins with one that ends in another category than itself if its parent's does.
LEMMA AppendStarts ==
  ASSUME NEW S, NEW p \in Seq(S), NEW before \in Seq(S), NEW c, NEW d \in S, c # d,
         EndsIn(before, c)
  PROVE  StartsWith(Append(p, d), before) <=> StartsWith(p, before)
<1>1. Len(before) \in Nat /\ Len(before) # 0 /\ Len(p) \in Nat
  BY EmptySeq DEF EndsIn
<1>2. Append(p, d) \in Seq(S) /\ Len(Append(p, d)) = Len(p) + 1 /\ EndsIn(Append(p, d), d)
  BY AppendEnds
<1>3. CASE Len(before) <= Len(p)
  <2>1. Append(p, d) = p \o <<d>> /\ <<d>> \in Seq(S)
    OBVIOUS
  <2>2. 1 \in 1..Len(p) /\ Len(before) \in 1..Len(p)
    BY <1>1, <1>3
  <2>3. SubSeq(p \o <<d>>, 1, Len(before)) = SubSeq(p, 1, Len(before))
    BY <2>1, <2>2, SubSeqOfConcat1
  <2> QED
    BY <1>1, <1>2, <1>3, <2>1, <2>3 DEF StartsWith
<1>4. CASE ~(Len(before) <= Len(p))
  <2>1. ~StartsWith(p, before)
    BY <1>4 DEF StartsWith
  <2>2. StartsWith(Append(p, d), before) => Len(before) < Len(Append(p, d))
    BY <1>2, BeginsOrGoesOn
  <2> QED
    BY <1>1, <1>2, <1>4, <2>1, <2>2
<1> QED
  BY <1>3, <1>4

LEMMA ConcatAppend ==
  ASSUME NEW S, NEW a \in Seq(S), NEW b \in Seq(S), NEW d \in S
  PROVE  a \o Append(b, d) = Append(a \o b, d)
<1>1. /\ <<d>> \in Seq(S) /\ a \o b \in Seq(S)
      /\ Append(b, d) = b \o <<d>>
  BY AppendIsConcat
<1>2. (a \o b) \o <<d>> = a \o (b \o <<d>>)
  BY <1>1, ConcatAssociative
<1>3. Append(a \o b, d) = (a \o b) \o <<d>>
  BY <1>1, AppendIsConcat
<1> QED
  BY <1>1, <1>2, <1>3

LEMMA LastOfSubSeq ==
  ASSUME NEW S, NEW path \in Seq(S), NEW k \in Nat, NEW m \in Nat,
         k < m + 1, Len(path) = m + 1
  PROVE  SubSeq(path, k + 1, m + 1) = Append(SubSeq(path, k + 1, m), path[m + 1])
<1>1. k + 1 \in 1..Len(path) /\ m + 1 \in (k + 1)..Len(path) /\ m + 1 - 1 = m
  OBVIOUS
<1> DEFINE j == m + 1
<1>2. j \in (k + 1)..Len(path) /\ j - 1 = m
  BY <1>1
<1> HIDE DEF j
<1>3. SubSeq(path, k + 1, j) = SubSeq(path, k + 1, j - 1) \o <<path[j]>>
  BY <1>1, <1>2, SubSeqRecursiveSecond
<1>4. SubSeq(path, k + 1, m) \in Seq(S) /\ path[j] \in S
  <2>1. k + 1 \in Int /\ m \in Int /\ \A i \in (k + 1)..m : path[i] \in S
    OBVIOUS
  <2>2. j \in 1..Len(path)
    BY <1>2
  <2> QED
    BY <2>1, <2>2, SubSeqProperties
<1>5. SubSeq(path, k + 1, m) \o <<path[j]>> = Append(SubSeq(path, k + 1, m), path[j])
  BY <1>4, AppendIsConcat
<1> QED
  BY <1>2, <1>3, <1>5 DEF j

\* A rewritten path is the parent's rewritten path with the own id.
LEMMA AppendRewritten ==
  ASSUME NEW S, NEW p \in Seq(S), NEW d \in S, NEW edit,
         edit.before \in Seq(S), edit.path \in Seq(S), StartsWith(p, edit.before)
  PROVE  Rewritten(edit, Append(p, d)) = Append(Rewritten(edit, p), d)
<1> DEFINE n == Len(edit.before)
           m == Len(p)
           path == Append(p, d)
<1>1. n \in Nat /\ m \in Nat /\ n <= m
  BY DEF StartsWith
<1>2. path \in Seq(S) /\ Len(path) = m + 1 /\ path[m + 1] = d
  OBVIOUS
<1>3. path = p \o <<d>> /\ <<d>> \in Seq(S)
  OBVIOUS
<1>4. SubSeq(p, n + 1, m) \in Seq(S)
  BY <1>1, RestOfPath
<1> HIDE DEF n, path
<1>5. SubSeq(path, n + 1, m) = SubSeq(p, n + 1, m)
  <2>1. CASE n = m
    <3>1. n + 1 \in Int /\ m \in Int /\ m < n + 1
      BY <1>1, <2>1
    <3>2. SubSeq(path, n + 1, m) = <<>> /\ SubSeq(p, n + 1, m) = <<>>
      BY <3>1, SubSeqEmpty
    <3> QED
      BY <3>2
  <2>2. CASE n # m
    <3>1. n + 1 \in 1..m /\ m \in 1..m
      BY <1>1, <2>2
    <3> QED
      BY <1>3, <3>1, SubSeqOfConcat1
  <2> QED
    BY <2>1, <2>2
<1>6. SubSeq(path, n + 1, m + 1) = Append(SubSeq(p, n + 1, m), d)
  <2> HIDE DEF m
  <2>1. n < m + 1
    BY <1>1
  <2>2. SubSeq(path, n + 1, m + 1) = Append(SubSeq(path, n + 1, m), path[m + 1])
    BY <1>1, <1>2, <2>1, LastOfSubSeq
  <2> QED
    BY <1>2, <1>5, <2>2
<1>7. edit.path \o Append(SubSeq(p, n + 1, m), d) = Append(edit.path \o SubSeq(p, n + 1, m), d)
  <2> DEFINE a == edit.path
             b == SubSeq(p, n + 1, m)
  <2>1. a \in Seq(S) /\ b \in Seq(S)
    BY <1>4
  <2> HIDE DEF a, b
  <2>2. a \o Append(b, d) = Append(a \o b, d)
    BY <2>1, ConcatAppend
  <2> QED
    BY <2>2 DEF a, b
<1> QED
  BY <1>2, <1>6, <1>7 DEF Rewritten, n, path

----------------------------------------------------------------------------
LEMMA TypeInit == CategoriesInit => CategoriesTypeOK
<1>1. NoCategory \in CategoryRow /\ Idle \in Edit
  BY DEF NoCategory, CategoryRow, Idle, Edit
<1> QED
  BY <1>1 DEF CategoriesInit, CategoriesTypeOK

\* Every step keeps the rows and the calls well formed.
LEMMA TypeStep == CategoriesTypeOK /\ [Next]_vars => CategoriesTypeOK'
<1> SUFFICES ASSUME CategoriesTypeOK, [Next]_vars PROVE CategoriesTypeOK'
  OBVIOUS
<1> USE DEF CategoriesTypeOK
<1>1. /\ \A e \in Editor : editing[e] \in Edit
      /\ \A c \in Category : categories[c] \in CategoryRow
  OBVIOUS
<1>2. Idle \in Edit
  BY DEF Idle, Edit
<1>3. ASSUME NEW e \in Editor, NEW edit \in Edit, Start(e, edit)
      PROVE  CategoriesTypeOK'
  BY <1>3 DEF Start
<1>4. ASSUME NEW e \in Editor, End(e), categories' \in [Category -> CategoryRow]
      PROVE  CategoriesTypeOK'
  BY <1>2, <1>4 DEF End
<1>5. ASSUME NEW p \in Category \cup {None}, p = None \/ Live(p)
      PROVE  PathOf(p) \in Seq(Category)
  BY <1>1, <1>5 DEF PathOf, CategoryRow
<1>6. ASSUME NEW e \in Editor, NEW p \in Category \cup {None}, CreateRead(e, p)
      PROVE  CategoriesTypeOK'
  <2>1. [Idle EXCEPT !.at = "insert", !.parent = p, !.path = PathOf(p)] \in Edit
    <3>1. PathOf(p) \in Seq(Category)
      BY <1>5, <1>6 DEF CreateRead
    <3> QED
      BY <1>2, <3>1 DEF Edit
  <2> QED
    BY <1>3, <1>6, <2>1 DEF CreateRead
<1>7. ASSUME NEW e \in Editor, NEW c \in Category, CreateInsert(e, c)
      PROVE  CategoriesTypeOK'
  <2>1. editing[e].parent \in Category \cup {None} /\ editing[e].path \in Seq(Category)
    BY <1>1 DEF Edit
  <2>2. [state |-> "live", parent |-> editing[e].parent,
         path |-> Append(editing[e].path, c)] \in CategoryRow
    BY <2>1 DEF CategoryRow
  <2>3. categories' \in [Category -> CategoryRow]
    BY <1>7, <2>2 DEF CreateInsert
  <2> QED
    BY <1>4, <1>7, <2>3 DEF CreateInsert
<1>8. ASSUME NEW e \in Editor, NEW c \in Category, NEW p \in Category \cup {None},
             MoveRead(e, c, p)
      PROVE  CategoriesTypeOK'
  <2>1. categories[c].path \in Seq(Category)
    BY <1>1 DEF CategoryRow
  <2>2. [at |-> IF p = None THEN "move" ELSE "parent", id |-> c, parent |-> p,
         before |-> categories[c].path, path |-> <<c>>] \in Edit
    BY <2>1 DEF Edit
  <2> QED
    BY <1>3, <1>8, <2>2 DEF MoveRead
<1>9. ASSUME NEW e \in Editor, MoveParent(e) PROVE CategoriesTypeOK'
  <2>1. PathOf(editing[e].parent) \in Seq(Category)
    BY <1>1, <1>9, <1>5 DEF MoveParent, Edit
  <2>2. PathOf(editing[e].parent) \o editing[e].path \in Seq(Category)
    BY <1>1, <2>1 DEF Edit
  <2>3. [editing[e] EXCEPT !.at = "move",
                           !.path = PathOf(editing[e].parent) \o @] \in Edit
    BY <1>1, <2>2 DEF Edit
  <2>4. editing' = [editing EXCEPT ![e] = [editing[e] EXCEPT !.at = "move",
                           !.path = PathOf(editing[e].parent) \o @]]
    BY <1>9 DEF MoveParent
  <2> QED
    BY <1>9, <2>3, <2>4 DEF MoveParent
<1>10. ASSUME NEW e \in Editor, MoveWrite(e) PROVE CategoriesTypeOK'
  <2> DEFINE edit == editing[e]
  <2>1. /\ edit.parent \in Category \cup {None}
        /\ edit.before \in Seq(Category) /\ edit.path \in Seq(Category)
    BY <1>1 DEF Edit
  <2>2. ASSUME NEW d \in Category PROVE categories'[d] \in CategoryRow
    <3>1. categories[d].path \in Seq(Category)
      BY <1>1 DEF CategoryRow
    <3>2. CASE d = edit.id
      <4>1. categories'[d] = [categories[d] EXCEPT !.parent = edit.parent, !.path = edit.path]
        BY <1>10, <3>2 DEF MoveWrite
      <4> QED
        BY <1>1, <2>1, <4>1 DEF CategoryRow
    <3>3. CASE d # edit.id /\ StartsWith(categories[d].path, edit.before)
      <4>1. Rewritten(edit, categories[d].path) \in Seq(Category)
        BY <2>1, <3>1, <3>3, RewrittenType
      <4>2. \/ categories'[d] = [categories[d] EXCEPT !.path = Rewritten(edit, @)]
            \/ categories'[d] = categories[d]
        BY <1>10, <3>3 DEF MoveWrite
      <4> QED
        BY <1>1, <4>1, <4>2 DEF CategoryRow
    <3>4. CASE d # edit.id /\ ~StartsWith(categories[d].path, edit.before)
      BY <1>1, <1>10, <3>4 DEF MoveWrite
    <3> QED
      BY <3>2, <3>3, <3>4
  <2>3. categories' = [d \in Category |-> categories'[d]]
    BY <1>10 DEF MoveWrite
  <2>4. categories' \in [Category -> CategoryRow]
    BY <2>2, <2>3
  <2> QED
    BY <1>4, <1>10, <2>4 DEF MoveWrite
<1>11. ASSUME NEW e \in Editor, NEW c \in Category, RemoveRead(e, c)
       PROVE  CategoriesTypeOK'
  <2>1. [Idle EXCEPT !.at = "delete", !.id = c] \in Edit
    BY <1>2 DEF Edit
  <2> QED
    BY <1>3, <1>11, <2>1 DEF RemoveRead
<1>12. ASSUME NEW e \in Editor, RemoveWrite(e) PROVE CategoriesTypeOK'
  <2>1. [NoCategory EXCEPT !.state = "deleted"] \in CategoryRow
    <3>1. NoCategory \in CategoryRow
      BY DEF NoCategory, CategoryRow
    <3> QED
      BY <3>1 DEF CategoryRow
  <2> QED
    BY <1>4, <1>12, <2>1 DEF RemoveWrite
<1>13. ASSUME NEW e \in Editor, Fail(e) PROVE CategoriesTypeOK'
  BY <1>4, <1>13 DEF Fail
<1>14. CASE UNCHANGED vars
  BY <1>14 DEF vars
<1> QED
  BY <1>6, <1>7, <1>8, <1>9, <1>10, <1>11, <1>12, <1>13, <1>14 DEF Next

\* What holds of a call that is at least past its first read: the path it has read and
\* the path it is to write are of the category it moves.
EndsInv ==
  /\ \A c \in Category : Live(c) => EndsIn(categories[c].path, c)
  /\ \A e \in Editor : editing[e].at \in {"parent", "move"} =>
       /\ editing[e].id \in Category
       /\ EndsIn(editing[e].before, editing[e].id)
       /\ EndsIn(editing[e].path, editing[e].id)

LEMMA EndsStep == CategoriesTypeOK /\ EndsInv /\ [Next]_vars => EndsInv'
<1> SUFFICES ASSUME CategoriesTypeOK, EndsInv, [Next]_vars PROVE EndsInv'
  OBVIOUS
<1>1. /\ \A e \in Editor : editing[e] \in Edit
      /\ \A c \in Category : categories[c] \in CategoryRow
  BY DEF CategoriesTypeOK
<1>2. ASSUME NEW e \in Editor, NEW edit, Start(e, edit),
             edit.at \in {"parent", "move"} =>
               /\ edit.id \in Category
               /\ EndsIn(edit.before, edit.id) /\ EndsIn(edit.path, edit.id)
      PROVE  EndsInv'
  <2>1. /\ categories' = categories
        /\ \A f \in Editor : editing'[f] = IF f = e THEN edit ELSE editing[f]
    BY <1>2 DEF Start, CategoriesTypeOK
  <2> QED
    BY <1>2, <2>1 DEF EndsInv, Live
<1>3. ASSUME NEW e \in Editor, End(e),
             \A c \in Category : Live(c)' => EndsIn(categories'[c].path, c)
      PROVE  EndsInv'
  <2>1. \A f \in Editor : editing'[f] = IF f = e THEN Idle ELSE editing[f]
    BY <1>3 DEF End, CategoriesTypeOK
  <2> QED
    BY <1>3, <2>1 DEF EndsInv, Idle
<1>4. ASSUME NEW e \in Editor, NEW p \in Category \cup {None}, CreateRead(e, p)
      PROVE  EndsInv'
  <2>1. [Idle EXCEPT !.at = "insert", !.parent = p, !.path = PathOf(p)].at = "insert"
    BY DEF Idle
  <2> QED
    BY <1>2, <1>4, <2>1 DEF CreateRead
<1>5. ASSUME NEW e \in Editor, NEW c \in Category, CreateInsert(e, c) PROVE EndsInv'
  <2>1. editing[e].path \in Seq(Category)
    BY <1>1 DEF Edit
  <2>2. EndsIn(Append(editing[e].path, c), c)
    BY <2>1, AppendEnds
  <2>3. \A d \in Category :
          categories'[d] = IF d = c THEN [state |-> "live", parent |-> editing[e].parent,
                                          path |-> Append(editing[e].path, c)]
                                    ELSE categories[d]
    BY <1>5 DEF CreateInsert, CategoriesTypeOK
  <2>4. ASSUME NEW d \in Category, Live(d)' PROVE EndsIn(categories'[d].path, d)
    <3>1. CASE d = c
      <4>1. categories'[d].path = Append(editing[e].path, c)
        BY <2>3, <3>1
      <4> QED
        BY <2>2, <3>1, <4>1
    <3>2. CASE d # c
      BY <2>3, <2>4, <3>2 DEF EndsInv, Live
    <3> QED
      BY <3>1, <3>2
  <2> QED
    BY <1>3, <1>5, <2>4 DEF CreateInsert
<1>6. ASSUME NEW e \in Editor, NEW c \in Category, NEW p \in Category \cup {None},
             MoveRead(e, c, p)
      PROVE  EndsInv'
  <2>1. EndsIn(categories[c].path, c)
    BY <1>6 DEF MoveRead, EndsInv
  <2>2. EndsIn(<<c>>, c)
    BY DEF EndsIn
  <2> QED
    BY <1>2, <1>6, <2>1, <2>2 DEF MoveRead
<1>7. ASSUME NEW e \in Editor, MoveParent(e) PROVE EndsInv'
  <2> DEFINE path == PathOf(editing[e].parent) \o editing[e].path
  <2>1. PathOf(editing[e].parent) \in Seq(Category) /\ editing[e].path \in Seq(Category)
    <3>1. editing[e].parent \in Category /\ editing[e].path \in Seq(Category)
      BY <1>1, <1>7 DEF MoveParent, Live, Edit
    <3>2. categories[editing[e].parent].path \in Seq(Category)
      BY <1>1, <3>1 DEF CategoryRow
    <3> QED
      BY <3>1, <3>2 DEF PathOf
  <2>2. EndsIn(path, editing[e].id)
    BY <1>7, <2>1, ConcatEnds DEF EndsInv, MoveParent, At
  <2>3. /\ categories' = categories
        /\ \A f \in Editor : f # e => editing'[f] = editing[f]
        /\ editing'[e].id = editing[e].id /\ editing'[e].before = editing[e].before
        /\ editing'[e].path = path
    <3>1. /\ editing' = [editing EXCEPT ![e] = [editing[e] EXCEPT !.at = "move",
                           !.path = PathOf(editing[e].parent) \o @]]
          /\ categories' = categories
      BY <1>7 DEF MoveParent
    <3>2. editing'[e] = [editing[e] EXCEPT !.at = "move",
                           !.path = PathOf(editing[e].parent) \o @]
      BY <3>1 DEF CategoriesTypeOK
    <3> QED
      BY <1>1, <3>1, <3>2 DEF CategoriesTypeOK, Edit
  <2>4. editing[e].id \in Category /\ EndsIn(editing[e].before, editing[e].id)
    BY <1>7 DEF EndsInv, MoveParent, At
  <2> HIDE DEF path
  <2> QED
    BY <2>2, <2>3, <2>4 DEF EndsInv, Live
<1>8. ASSUME NEW e \in Editor, MoveWrite(e) PROVE EndsInv'
  <2> DEFINE edit == editing[e]
  <2>1. /\ edit.before \in Seq(Category) /\ edit.path \in Seq(Category)
        /\ EndsIn(edit.before, edit.id) /\ EndsIn(edit.path, edit.id)
    BY <1>1, <1>8 DEF MoveWrite, EndsInv, At, Edit
  <2>2. ASSUME NEW d \in Category, Live(d)' PROVE EndsIn(categories'[d].path, d)
    <3>1. categories[d].path \in Seq(Category)
      BY <1>1 DEF CategoryRow
    <3>2. CASE d = edit.id
      <4>1. categories'[d] = [categories[d] EXCEPT !.parent = edit.parent, !.path = edit.path]
        BY <1>8, <3>2 DEF MoveWrite
      <4>2. categories'[d].path = edit.path
        BY <1>1, <4>1 DEF CategoryRow
      <4> QED
        BY <2>1, <3>2, <4>2
    <3>3. CASE d # edit.id /\ Live(d) /\ StartsWith(categories[d].path, edit.before)
      <4>1. categories'[d] = [categories[d] EXCEPT !.path = Rewritten(edit, @)]
        BY <1>8, <3>3 DEF MoveWrite
      <4>2. categories'[d].path = Rewritten(edit, categories[d].path)
        BY <1>1, <4>1 DEF CategoryRow
      <4>3. EndsIn(categories[d].path, d)
        BY <3>3 DEF EndsInv
      <4> HIDE DEF edit
      <4> QED
        BY <2>1, <3>1, <3>3, <4>2, <4>3, RewrittenEnds
    <3>4. CASE d # edit.id /\ ~(Live(d) /\ StartsWith(categories[d].path, edit.before))
      <4>1. categories'[d] = categories[d]
        BY <1>8, <3>4 DEF MoveWrite
      <4> QED
        BY <2>2, <4>1 DEF EndsInv, Live
    <3> QED
      BY <3>2, <3>3, <3>4
  <2> QED
    BY <1>3, <1>8, <2>2 DEF MoveWrite
<1>9. ASSUME NEW e \in Editor, NEW c \in Category, RemoveRead(e, c) PROVE EndsInv'
  <2>1. [Idle EXCEPT !.at = "delete", !.id = c].at = "delete"
    BY DEF Idle
  <2> QED
    BY <1>2, <1>9, <2>1 DEF RemoveRead
<1>10. ASSUME NEW e \in Editor, RemoveWrite(e) PROVE EndsInv'
  <2>1. \A d \in Category : \/ categories'[d] = categories[d]
                            \/ categories'[d].state = "deleted"
    BY <1>10 DEF RemoveWrite, CategoriesTypeOK, NoCategory
  <2>2. \A d \in Category : Live(d)' => EndsIn(categories'[d].path, d)
    BY <2>1 DEF EndsInv, Live
  <2> QED
    BY <1>3, <1>10, <2>2 DEF RemoveWrite
<1>11. ASSUME NEW e \in Editor, Fail(e) PROVE EndsInv'
  BY <1>3, <1>11 DEF Fail, EndsInv, Live
<1>12. CASE UNCHANGED vars
  BY <1>12 DEF vars, EndsInv, Live
<1> QED
  BY <1>4, <1>5, <1>6, <1>7, <1>8, <1>9, <1>10, <1>11, <1>12 DEF Next

\* Whatever staff calls overlap and fail, the path of a category ends with its own id
\* (categories.service.ts:177-181).
THEOREM PathsEndInTheirCategory == Spec => []PathEndsInSelf
<1>1. CategoriesInit => CategoriesTypeOK /\ EndsInv
  BY TypeInit DEF CategoriesInit, EndsInv, Live, NoCategory, Idle
<1>2. CategoriesTypeOK /\ EndsInv /\ [Next]_vars => (CategoriesTypeOK /\ EndsInv)'
  BY TypeStep, EndsStep
<1>3. EndsInv => PathEndsInSelf
  BY DEF EndsInv, EndsIn, PathEndsInSelf
<1> QED
  BY <1>1, <1>2, <1>3, PTL DEF Spec

----------------------------------------------------------------------------
\* The parent of a category is there: the foreign key.
ParentsLive ==
  \A c \in Category : Live(c) =>
    categories[c].parent = None \/ Live(categories[c].parent)

\* Every path is its parent's with the category's own id.
Tree ==
  \A c \in Category : Live(c) =>
    categories[c].path = Append(PathOf(categories[c].parent), c)

\* At most one call is in progress, ...
Alone == \A e, f \in Editor : ~At(e, "idle") /\ ~At(f, "idle") => e = f

\* ... and what it has read still holds.
Current ==
  \A e \in Editor : LET edit == editing[e] IN
    /\ At(e, "insert") => /\ edit.parent = None \/ Live(edit.parent)
                          /\ edit.path = PathOf(edit.parent)
    /\ At(e, "parent") \/ At(e, "move") =>
         Live(edit.id) /\ edit.before = categories[edit.id].path
    /\ At(e, "parent") => edit.path = <<edit.id>>
    /\ At(e, "move") =>
         /\ edit.path = Append(PathOf(edit.parent), edit.id)
         /\ \/ edit.parent = None
            \/ /\ Live(edit.parent)
               /\ ~StartsWith(categories[edit.parent].path, edit.before)

TreeInv == ParentsLive /\ (~overlapped => Alone /\ Tree /\ Current)

LEMMA ParentsLiveStep ==
  CategoriesTypeOK /\ ParentsLive /\ [Next]_vars => ParentsLive'
<1> SUFFICES ASSUME CategoriesTypeOK, ParentsLive, [Next]_vars PROVE ParentsLive'
  OBVIOUS
<1>1. /\ \A e \in Editor : editing[e] \in Edit
      /\ \A c \in Category : categories[c] \in CategoryRow
  BY DEF CategoriesTypeOK
<1>2. CASE UNCHANGED categories
  BY <1>2 DEF ParentsLive, Live
<1>3. ASSUME NEW e \in Editor, NEW c \in Category, CreateInsert(e, c) PROVE ParentsLive'
  <2>1. \A d \in Category :
          categories'[d] = IF d = c THEN [state |-> "live", parent |-> editing[e].parent,
                                          path |-> Append(editing[e].path, c)]
                                    ELSE categories[d]
    BY <1>3 DEF CreateInsert, CategoriesTypeOK
  <2>2. categories'[c].state = "live" /\ categories'[c].parent = editing[e].parent
    BY <2>1
  <2>3. \A d \in Category : Live(d) => Live(d)'
    BY <2>1, <2>2 DEF Live
  <2> QED
    BY <1>3, <2>1, <2>2, <2>3 DEF CreateInsert, ParentsLive, Live
<1>4. ASSUME NEW e \in Editor, MoveWrite(e) PROVE ParentsLive'
  <2> DEFINE edit == editing[e]
  <2>1. ASSUME NEW d \in Category
        PROVE  /\ Live(d)' <=> Live(d)
               /\ categories'[d].parent = IF d = edit.id THEN edit.parent
                                                         ELSE categories[d].parent
    <3>1. \/ d = edit.id /\ categories'[d] = [categories[d] EXCEPT !.parent = edit.parent,
                                                                   !.path = edit.path]
          \/ d # edit.id /\ categories'[d] = [categories[d] EXCEPT
                                                !.path = Rewritten(edit, @)]
          \/ d # edit.id /\ categories'[d] = categories[d]
      BY <1>4 DEF MoveWrite
    <3> QED
      BY <1>1, <3>1 DEF CategoryRow, Live
  <2>2. edit.parent = None \/ Live(edit.parent)
    BY <1>4 DEF MoveWrite
  <2> HIDE DEF edit
  <2> QED
    BY <2>1, <2>2 DEF ParentsLive, Live
<1>5. ASSUME NEW e \in Editor, RemoveWrite(e) PROVE ParentsLive'
  <2> DEFINE i == editing[e].id
  <2>1. \A d \in Category : IF d = i THEN categories'[d].state = "deleted"
                                     ELSE categories'[d] = categories[d]
    BY <1>5 DEF RemoveWrite, CategoriesTypeOK, NoCategory
  <2>2. \A d \in Category : Live(d) => categories[d].parent # i
    BY <1>5 DEF RemoveWrite, ChildrenOf
  <2> HIDE DEF i
  <2> QED
    BY <2>1, <2>2 DEF ParentsLive, Live
<1> QED
  BY <1>2, <1>3, <1>4, <1>5
  DEF Next, vars, Start, CreateRead, MoveRead, MoveParent, RemoveRead, Fail

\* Where a category below p has its path begin after the step.
NextPathOf(p) == IF p = None THEN <<>> ELSE categories'[p].path

\* The paths after the transaction of a move, if what the call has read still holds:
\* the row that moves, those below it and those elsewhere.
LEMMA MoveKeepsTree ==
  ASSUME CategoriesTypeOK, EndsInv, ParentsLive, Tree, Current,
         NEW e \in Editor, MoveWrite(e)
  PROVE  Tree'
<1> SUFFICES ASSUME NEW edit, edit = editing[e]
             PROVE  Tree'
  OBVIOUS
<1> DEFINE i == edit.id
           q == edit.parent
<1>1. /\ \A c \in Category : categories[c] \in CategoryRow
      /\ edit.before \in Seq(Category) /\ edit.path \in Seq(Category)
      /\ q \in Category \cup {None} /\ i \in Category
  BY DEF CategoriesTypeOK, Edit, MoveWrite, Live
<1>2. /\ edit.before = categories[i].path
      /\ edit.path = Append(PathOf(q), i)
      /\ q = None \/ (Live(q) /\ ~StartsWith(categories[q].path, edit.before))
      /\ EndsIn(edit.before, i)
  <2>1. At(e, "move") /\ editing[e].at \in {"parent", "move"}
    BY DEF MoveWrite, At
  <2>2. EndsIn(edit.before, i)
    BY <2>1 DEF EndsInv
  <2> QED
    BY <2>1, <2>2 DEF Current
<1>3. /\ categories'[i] = [categories[i] EXCEPT !.parent = q, !.path = edit.path]
      /\ \A d \in Category \ {i} :
           categories'[d] = IF Live(d) /\ StartsWith(categories[d].path, edit.before)
                            THEN [categories[d] EXCEPT !.path = Rewritten(edit, @)]
                            ELSE categories[d]
  BY <1>1 DEF MoveWrite
<1>4. ASSUME q # None PROVE q \in Category /\ categories'[q] = categories[q]
  <2>1. q \in Category /\ ~StartsWith(categories[q].path, edit.before)
    BY <1>1, <1>2, <1>4
  <2>2. StartsWith(categories[i].path, categories[i].path)
    <3>1. categories[i].path \in Seq(Category)
      BY <1>1 DEF CategoryRow
    <3> QED
      BY <3>1, SubSeqFull DEF StartsWith
  <2>3. q # i
    BY <1>2, <2>1, <2>2
  <2> QED
    BY <1>3, <2>1, <2>3
<1>5. NextPathOf(q) = PathOf(q)
  BY <1>4 DEF PathOf, NextPathOf
<1>6. /\ categories'[i].parent = q /\ categories'[i].path = edit.path
      /\ \A d \in Category : /\ Live(d)' <=> Live(d)
                             /\ d # i => categories'[d].parent = categories[d].parent
  <2>1. /\ categories'[i].parent = q /\ categories'[i].path = edit.path
        /\ categories'[i].state = categories[i].state
    BY <1>1, <1>3 DEF CategoryRow
  <2>2. ASSUME NEW d \in Category, d # i
        PROVE  /\ categories'[d].parent = categories[d].parent
               /\ categories'[d].state = categories[d].state
    <3>1. \/ categories'[d] = [categories[d] EXCEPT !.path = Rewritten(edit, @)]
          \/ categories'[d] = categories[d]
      BY <1>3, <2>2
    <3> QED
      BY <1>1, <3>1 DEF CategoryRow
  <2> QED
    BY <2>1, <2>2 DEF Live
<1>7. ASSUME NEW d \in Category, Live(d), d # i
      PROVE  categories'[d].path = Append(NextPathOf(categories[d].parent), d)
  <2> DEFINE p == categories[d].parent
             path == categories[d].path
  <2>1. path = Append(PathOf(p), d) /\ (p = None \/ Live(p))
    BY <1>7 DEF Tree, ParentsLive
  <2>2. PathOf(p) \in Seq(Category)
    BY <1>1, <2>1, EmptySeq DEF PathOf, Live, CategoryRow
  <2>3. StartsWith(path, edit.before) <=> StartsWith(PathOf(p), edit.before)
    BY <1>1, <1>2, <1>7, <2>1, <2>2, AppendStarts
  <2>4. CASE ~StartsWith(path, edit.before)
    <3>1. categories'[d] = categories[d]
      BY <1>3, <1>7, <2>4
    <3>2. NextPathOf(p) = PathOf(p)
      <4>1. ASSUME p # None PROVE categories'[p] = categories[p]
        <5>1. p \in Category /\ PathOf(p) = categories[p].path
          BY <2>1, <4>1 DEF Live, PathOf
        <5>2. ~StartsWith(categories[p].path, edit.before)
          BY <2>3, <2>4, <5>1
        <5>3. p # i
          <6>1. StartsWith(categories[i].path, categories[i].path)
            <7>1. categories[i].path \in Seq(Category)
              BY <1>1 DEF CategoryRow
            <7> QED
              BY <7>1, SubSeqFull DEF StartsWith
          <6> QED
            BY <1>2, <5>2, <6>1
        <5> QED
          BY <1>3, <5>1, <5>2, <5>3
      <4> QED
        BY <4>1 DEF NextPathOf, PathOf
    <3> QED
      BY <2>1, <3>1, <3>2
  <2>5. CASE StartsWith(path, edit.before)
    <3>1. categories'[d].path = Rewritten(edit, path)
      <4>1. categories'[d] = [categories[d] EXCEPT !.path = Rewritten(edit, @)]
        BY <1>3, <1>7, <2>5
      <4> QED
        BY <1>1, <4>1 DEF CategoryRow
    <3>2. Rewritten(edit, path) = Append(Rewritten(edit, PathOf(p)), d)
      BY <1>1, <2>1, <2>2, <2>3, <2>5, AppendRewritten
    <3>3. p # None
      <4>1. StartsWith(<<>>, edit.before) => Len(edit.before) <= 0
        BY EmptySeq DEF StartsWith
      <4>2. Len(edit.before) \in Nat \ {0}
        BY <1>1, <1>2, EmptySeq DEF EndsIn
      <4> QED
        BY <2>3, <2>5, <4>1, <4>2 DEF PathOf
    <3>4. p \in Category /\ Live(p) /\ PathOf(p) = categories[p].path
      BY <2>1, <3>3 DEF Live, PathOf
    <3>5. categories'[p].path = Rewritten(edit, PathOf(p))
      <4>1. CASE p = i
        <5>1. Rewritten(edit, edit.before) = edit.path
          <6>1. Len(edit.before) \in Nat
            BY <1>1
          <6>2. SubSeq(edit.before, Len(edit.before) + 1, Len(edit.before)) = <<>>
            BY <6>1, SubSeqEmpty
          <6> QED
            BY <1>1, <6>2, ConcatEmptySeq DEF Rewritten
        <5> QED
          BY <1>2, <1>6, <3>4, <4>1, <5>1
      <4>2. CASE p # i
        <5>1. categories'[p] = [categories[p] EXCEPT !.path = Rewritten(edit, @)]
          BY <1>3, <2>3, <2>5, <3>4, <4>2
        <5> QED
          BY <1>1, <3>4, <5>1 DEF CategoryRow
      <4> QED
        BY <4>1, <4>2
    <3> QED
      BY <3>1, <3>2, <3>3, <3>5 DEF NextPathOf
  <2> QED
    BY <2>4, <2>5
<1>8. \A d \in Category : Live(d)' =>
        categories'[d].path = Append(NextPathOf(categories'[d].parent), d)
  BY <1>2, <1>5, <1>6, <1>7
<1> QED
  BY <1>8 DEF Tree, PathOf, NextPathOf

\* As long as calls come one at a time, the tree and what the one call has read hold.
LEMMA TreeStep ==
  CategoriesTypeOK /\ EndsInv /\ TreeInv /\ [Next]_vars => TreeInv'
<1> SUFFICES ASSUME CategoriesTypeOK, EndsInv, TreeInv, [Next]_vars, ~overlapped'
             PROVE  Alone' /\ Tree' /\ Current'
  BY ParentsLiveStep DEF TreeInv
<1>1. /\ \A e \in Editor : editing[e] \in Edit
      /\ \A c \in Category : categories[c] \in CategoryRow
  BY DEF CategoriesTypeOK
<1>2. ~overlapped
  BY DEF Next, vars, Start, CreateRead, CreateInsert, MoveRead, MoveParent, MoveWrite,
         RemoveRead, RemoveWrite, Fail, End
<1>3. Alone /\ Tree /\ Current /\ ParentsLive
  BY <1>2 DEF TreeInv
<1>4. ASSUME NEW e \in Editor, NEW edit \in Edit, Start(e, edit),
             edit.at = "insert" => /\ edit.parent = None \/ Live(edit.parent)
                                   /\ edit.path = PathOf(edit.parent),
             edit.at \in {"parent", "move"} =>
               /\ Live(edit.id) /\ edit.before = categories[edit.id].path
               /\ edit.path = <<edit.id>>,
             edit.at = "move" => edit.parent = None
      PROVE  Alone' /\ Tree' /\ Current'
  <2>1. /\ categories' = categories
        /\ \A f \in Editor : editing'[f] = IF f = e THEN edit ELSE editing[f]
        /\ \A f \in Editor : f # e => At(f, "idle")
    BY <1>4 DEF Start, CategoriesTypeOK
  <2>2. Alone'
    BY <2>1 DEF Alone, At
  <2>3. Tree'
    BY <1>3, <2>1 DEF Tree, Live, PathOf
  <2>4. ASSUME NEW f \in Editor, f # e PROVE editing'[f].at = "idle"
    BY <2>1, <2>4 DEF At
  <2>5. editing'[e] = edit
    BY <2>1
  <2>6. edit.at = "move" => edit.path = Append(PathOf(edit.parent), edit.id)
    <3>1. Append(<<>>, edit.id) = <<edit.id>>
      OBVIOUS
    <3>2. PathOf(None) = <<>>
      BY DEF PathOf
    <3> QED
      BY <1>4, <3>1, <3>2
  <2>7. Current'
    BY <1>4, <2>1, <2>4, <2>5, <2>6 DEF Current, At, Live, PathOf
  <2> QED
    BY <2>2, <2>3, <2>7
<1>5. ASSUME NEW e \in Editor, ~At(e, "idle"), End(e), Tree'
      PROVE  Alone' /\ Tree' /\ Current'
  <2>1. \A f \in Editor : editing'[f] = Idle \/ editing'[f].at = "idle"
    BY <1>3, <1>5 DEF End, Alone, At, CategoriesTypeOK
  <2>2. \A f \in Editor : editing'[f].at = "idle"
    BY <2>1 DEF Idle
  <2> QED
    BY <1>5, <2>2 DEF Alone, Current, At
<1>6. ASSUME NEW e \in Editor, NEW p \in Category \cup {None}, CreateRead(e, p)
      PROVE  Alone' /\ Tree' /\ Current'
  <2> DEFINE edit == [Idle EXCEPT !.at = "insert", !.parent = p, !.path = PathOf(p)]
  <2>1. PathOf(p) \in Seq(Category)
    BY <1>1, <1>6, EmptySeq DEF CreateRead, PathOf, Live, CategoryRow
  <2>2. Idle \in Edit
    BY DEF Idle, Edit
  <2>3. edit \in Edit /\ edit.at = "insert" /\ edit.parent = p /\ edit.path = PathOf(p)
    BY <2>1, <2>2 DEF Edit
  <2>4. Start(e, edit) /\ (p = None \/ Live(p))
    BY <1>6 DEF CreateRead
  <2> HIDE DEF edit
  <2> QED
    BY <1>4, <2>3, <2>4
<1>7. ASSUME NEW e \in Editor, NEW c \in Category, CreateInsert(e, c)
      PROVE  Alone' /\ Tree' /\ Current'
  <2> DEFINE p == editing[e].parent
  <2>1. /\ editing[e].path = PathOf(p) /\ categories[c].state = "new"
        /\ p = None \/ Live(p)
    BY <1>3, <1>7 DEF CreateInsert, Current
  <2>2. /\ categories'[c].state = "live" /\ categories'[c].parent = p
        /\ categories'[c].path = Append(PathOf(p), c)
        /\ \A d \in Category : d # c => categories'[d] = categories[d]
    BY <1>7, <2>1 DEF CreateInsert, CategoriesTypeOK
  <2>3. \A d \in Category \cup {None} : d = None \/ Live(d) => NextPathOf(d) = PathOf(d)
    BY <2>1, <2>2 DEF NextPathOf, PathOf, Live
  <2>4. ASSUME NEW d \in Category, Live(d)'
        PROVE  categories'[d].path = Append(NextPathOf(categories'[d].parent), d)
    <3>1. CASE d = c
      <4>1. NextPathOf(p) = PathOf(p)
        BY <2>1, <2>3 DEF Live
      <4> QED
        BY <2>2, <3>1, <4>1
    <3>2. CASE d # c
      <4>1. Live(d) /\ categories'[d] = categories[d]
        BY <2>2, <2>4, <3>2 DEF Live
      <4>2. NextPathOf(categories[d].parent) = PathOf(categories[d].parent)
        BY <1>3, <2>3, <4>1 DEF ParentsLive, Live
      <4> QED
        BY <1>3, <4>1, <4>2 DEF Tree
    <3> QED
      BY <3>1, <3>2
  <2>5. Tree'
    BY <2>4 DEF Tree, PathOf, NextPathOf
  <2> QED
    BY <1>5, <1>7, <2>5 DEF CreateInsert, At
<1>8. ASSUME NEW e \in Editor, NEW c \in Category, NEW p \in Category \cup {None},
             MoveRead(e, c, p)
      PROVE  Alone' /\ Tree' /\ Current'
  <2> DEFINE edit == [at |-> IF p = None THEN "move" ELSE "parent", id |-> c, parent |-> p,
                      before |-> categories[c].path, path |-> <<c>>]
  <2>1. categories[c].path \in Seq(Category)
    BY <1>1 DEF CategoryRow
  <2>2. /\ edit \in Edit /\ edit.at \in {"move", "parent"}
        /\ edit.at = "move" => p = None
        /\ edit.id = c /\ edit.parent = p
        /\ edit.before = categories[c].path /\ edit.path = <<c>>
    BY <2>1 DEF Edit
  <2>3. Start(e, edit) /\ Live(c)
    BY <1>8 DEF MoveRead
  <2> HIDE DEF edit
  <2> QED
    BY <1>4, <2>2, <2>3
<1>9. ASSUME NEW e \in Editor, MoveParent(e) PROVE Alone' /\ Tree' /\ Current'
  <2> DEFINE edit == editing[e]
             q == edit.parent
  <2>1. /\ Live(q) /\ ~StartsWith(categories[q].path, edit.before)
        /\ q \in Category /\ q # None
    BY <1>9, CategoriesAssumption DEF MoveParent, MayGoUnder, Live
  <2>2. /\ Live(edit.id) /\ edit.before = categories[edit.id].path
        /\ edit.path = <<edit.id>>
    BY <1>3, <1>9 DEF MoveParent, Current
  <2>3. PathOf(q) \in Seq(Category) /\ edit.id \in Category
    BY <1>1, <2>1, <2>2 DEF PathOf, CategoryRow, Live
  <2>4. PathOf(q) \o edit.path = Append(PathOf(q), edit.id)
    BY <2>2, <2>3, AppendIsConcat
  <2>5. /\ categories' = categories
        /\ \A f \in Editor : f # e => editing'[f] = editing[f]
        /\ editing'[e] = [editing[e] EXCEPT !.at = "move",
                            !.path = PathOf(editing[e].parent) \o @]
    <3>1. /\ editing' = [editing EXCEPT ![e] = [editing[e] EXCEPT !.at = "move",
                           !.path = PathOf(editing[e].parent) \o @]]
          /\ categories' = categories
      BY <1>9 DEF MoveParent
    <3> QED
      BY <3>1 DEF CategoriesTypeOK
  <2>6. /\ editing'[e].at = "move" /\ editing'[e].id = edit.id /\ editing'[e].parent = q
        /\ editing'[e].before = edit.before
        /\ editing'[e].path = Append(PathOf(q), edit.id)
    BY <1>1, <2>4, <2>5 DEF Edit
  <2>7. \A f \in Editor : f # e => editing'[f].at = "idle"
    BY <1>3, <1>9, <2>5 DEF Alone, At, MoveParent
  <2>8. Alone'
    BY <2>7 DEF Alone, At
  <2>9. Tree'
    BY <1>3, <2>5 DEF Tree, Live, PathOf
  <2>10. Current'
    <3>1. ASSUME NEW f \in Editor, f # e PROVE editing'[f].at = "idle"
      BY <2>7, <3>1
    <3>2. /\ editing'[e].at = "move" /\ Live(editing'[e].id)
          /\ editing'[e].before = categories[editing'[e].id].path
      BY <2>2, <2>6
    <3>3. editing'[e].path = Append(PathOf(editing'[e].parent), editing'[e].id)
      BY <2>6
    <3>4. /\ Live(editing'[e].parent)
          /\ ~StartsWith(categories[editing'[e].parent].path, editing'[e].before)
      BY <2>1, <2>6
    <3> HIDE DEF edit, q
    <3> QED
      BY <2>5, <3>1, <3>2, <3>3, <3>4 DEF Current, At, Live, PathOf
  <2> QED
    BY <2>8, <2>9, <2>10
<1>10. ASSUME NEW e \in Editor, MoveWrite(e) PROVE Alone' /\ Tree' /\ Current'
  BY <1>3, <1>5, <1>10, MoveKeepsTree DEF MoveWrite, At
<1>11. ASSUME NEW e \in Editor, NEW c \in Category, RemoveRead(e, c)
       PROVE  Alone' /\ Tree' /\ Current'
  <2> DEFINE edit == [Idle EXCEPT !.at = "delete", !.id = c]
  <2>1. Idle \in Edit
    BY DEF Idle, Edit
  <2>2. edit \in Edit /\ edit.at = "delete"
    BY <2>1 DEF Edit
  <2>3. Start(e, edit)
    BY <1>11 DEF RemoveRead
  <2> HIDE DEF edit
  <2> QED
    BY <1>4, <2>2, <2>3
<1>12. ASSUME NEW e \in Editor, RemoveWrite(e) PROVE Alone' /\ Tree' /\ Current'
  <2> DEFINE i == editing[e].id
  <2>1. \A d \in Category : IF d = i THEN categories'[d].state = "deleted"
                                     ELSE categories'[d] = categories[d]
    BY <1>12 DEF RemoveWrite, CategoriesTypeOK, NoCategory
  <2>2. \A d \in Category : Live(d) => categories[d].parent # i
    BY <1>12 DEF RemoveWrite, ChildrenOf
  <2>3. ASSUME NEW d \in Category, Live(d)'
        PROVE  categories'[d].path = Append(NextPathOf(categories'[d].parent), d)
    <3>1. Live(d) /\ categories'[d] = categories[d]
      BY <2>1, <2>3 DEF Live
    <3>2. NextPathOf(categories[d].parent) = PathOf(categories[d].parent)
      BY <1>3, <2>1, <2>2, <3>1 DEF ParentsLive, Live, PathOf, NextPathOf
    <3> QED
      BY <1>3, <3>1, <3>2 DEF Tree
  <2>4. Tree'
    BY <2>3 DEF Tree, PathOf, NextPathOf
  <2> QED
    BY <1>5, <1>12, <2>4 DEF RemoveWrite, At
<1>13. ASSUME NEW e \in Editor, Fail(e) PROVE Alone' /\ Tree' /\ Current'
  <2>1. Tree'
    BY <1>3, <1>13 DEF Fail, Tree, Live, PathOf
  <2> QED
    BY <1>5, <1>13, <2>1 DEF Fail
<1>14. CASE UNCHANGED vars
  BY <1>3, <1>14 DEF vars, Alone, Tree, Current, At, Live, PathOf
<1> QED
  BY <1>6, <1>7, <1>8, <1>9, <1>10, <1>11, <1>12, <1>13, <1>14 DEF Next

LEMMA TreeInit == CategoriesInit => TreeInv
BY DEF CategoriesInit, TreeInv, ParentsLive, Tree, Alone, Current, Live, At, NoCategory, Idle

\* "the path is updated in full": as long as staff calls come one at a time, every path
\* is its parent's with the category's own id, for any tree.
THEOREM PathsAlwaysFollowTree == Spec => []PathsFollowTree
<1>1. CategoriesInit => CategoriesTypeOK /\ EndsInv /\ TreeInv
  BY TypeInit, TreeInit DEF CategoriesInit, EndsInv, Live, NoCategory, Idle
<1>2. /\ CategoriesTypeOK /\ EndsInv /\ TreeInv /\ [Next]_vars
      => (CategoriesTypeOK /\ EndsInv /\ TreeInv)'
  BY TypeStep, EndsStep, TreeStep
<1>3. TreeInv => PathsFollowTree
  BY DEF TreeInv, Tree, PathsFollowTree
<1> QED
  BY <1>1, <1>2, <1>3, PTL DEF Spec

\* In a tree whose paths follow it, of any set of categories one with a shortest path has
\* its parent outside the set.
LEMMA TreeHasNoCycle ==
  ASSUME CategoriesTypeOK, Tree,
         NEW S \in SUBSET {c \in Category : Live(c)}, S # {}
  PROVE  \E c \in S : categories[c].parent \notin S
<1> DEFINE length(c) == Len(categories[c].path)
           lengths == {length(c) : c \in S}
<1>1. \A c \in S : /\ c \in Category /\ Live(c)
                   /\ categories[c].path \in Seq(Category) /\ length(c) \in Nat
  BY DEF CategoriesTypeOK, CategoryRow
<1>2. PICK n \in lengths : \A m \in lengths : ~(<<m, n>> \in OpToRel(<, Nat))
  <2>1. lengths \subseteq Nat /\ lengths # {}
    BY <1>1
  <2> HIDE DEF lengths
  <2> QED
    BY <2>1, NatLessThanWellFounded, WFMin
<1>3. \A m \in lengths : m \in Nat /\ n \in Nat /\ ~(m < n)
  <2>1. \A m \in lengths : m \in Nat /\ n \in Nat
    BY <1>1
  <2> QED
    BY <1>2, <2>1 DEF OpToRel
<1>4. PICK c \in S : length(c) = n
  OBVIOUS
<1>5. ASSUME categories[c].parent \in S PROVE FALSE
  <2> DEFINE p == categories[c].parent
  <2>1. p \in Category /\ p # None /\ categories[p].path \in Seq(Category)
    BY <1>1, <1>5, CategoriesAssumption
  <2>2. categories[c].path = Append(categories[p].path, c)
    BY <1>1, <2>1 DEF Tree, PathOf
  <2>3. length(c) = length(p) + 1
    BY <1>1, <2>1, <2>2
  <2>4. length(p) \in lengths
    BY <1>5
  <2>5. length(p) \in Nat
    BY <1>1, <1>5
  <2> HIDE DEF lengths, length, p
  <2>6. length(p) \in Nat /\ n \in Nat /\ ~(length(p) < n)
    BY <1>3, <2>4
  <2> QED
    BY <1>4, <2>3, <2>5, <2>6
<1> QED
  BY <1>5

\* "cycles are prevented", as long as staff calls come one at a time.
THEOREM TreeStaysATree == Spec => []NoCycle
<1>1. CategoriesInit => CategoriesTypeOK /\ EndsInv /\ TreeInv
  BY TypeInit, TreeInit DEF CategoriesInit, EndsInv, Live, NoCategory, Idle
<1>2. /\ CategoriesTypeOK /\ EndsInv /\ TreeInv /\ [Next]_vars
      => (CategoriesTypeOK /\ EndsInv /\ TreeInv)'
  BY TypeStep, EndsStep, TreeStep
<1>3. CategoriesTypeOK /\ TreeInv => NoCycle
  BY TreeHasNoCycle DEF TreeInv, NoCycle
<1> QED
  BY <1>1, <1>2, <1>3, PTL DEF Spec
=============================================================================
