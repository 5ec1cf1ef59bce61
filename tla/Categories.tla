----------------------------- MODULE Categories -----------------------------
(* The category tree: categories.service.ts, cut at its database accesses.     *)
(* Each row names its parent and repeats its way from the root as its path,    *)
(* "/<id>/<id>/", here a sequence of ids.  Names, slugs and the like are left  *)
(* out, and with them the updates that do not move a category.                 *)
EXTENDS Integers, Sequences

CONSTANTS Category,      \* the categories that may come to exist
          Editor,        \* slots for staff calls in progress
          MaxDepth,      \* bound on the length of a path
          None           \* no parent

ASSUME CategoriesAssumption ==
  /\ MaxDepth \in Nat
  /\ None \notin Category

VARIABLES categories,    \* the row of each category, or NoCategory
          editing,       \* per slot: how far the call is and what it has read
          overlapped     \* whether two calls were ever in progress at once

vars == <<categories, editing, overlapped>>

\* An id is random: a category that was deleted does not come back.
CategoryRow == [state : {"new", "live", "deleted"}, parent : Category \cup {None},
                path : Seq(Category)]

NoCategory == [state |-> "new", parent |-> None, path |-> <<>>]

\* Of a call: the category (not for a creation, whose id is made up later), the
\* parent asked for, the path read (of the category that moves) and the path to set
\* (for a creation, the parent's).
Edit == [at : {"idle", "insert", "parent", "move", "delete"}, id : Category \cup {None},
         parent : Category \cup {None}, before : Seq(Category), path : Seq(Category)]

Idle == [at |-> "idle", id |-> None, parent |-> None, before |-> <<>>, path |-> <<>>]

CategoriesTypeOK ==
  /\ categories \in [Category -> CategoryRow]
  /\ editing \in [Editor -> Edit]
  /\ overlapped \in BOOLEAN

CategoriesInit ==
  /\ categories = [c \in Category |-> NoCategory]
  /\ editing = [e \in Editor |-> Idle]
  /\ overlapped = FALSE

At(e, stage) == editing[e].at = stage

Live(c) == c \in Category /\ categories[c].state = "live"

ChildrenOf(c) == {d \in Category : Live(d) /\ categories[d].parent = c}

\* Where a category below p has its path begin; / for the root.
PathOf(p) == IF p = None THEN <<>> ELSE categories[p].path

Start(e, edit) ==
  /\ At(e, "idle")
  /\ editing' = [editing EXCEPT ![e] = edit]
  /\ overlapped' = (overlapped \/ \E f \in Editor \ {e} : ~At(f, "idle"))
  /\ UNCHANGED categories

End(e) ==
  /\ editing' = [editing EXCEPT ![e] = Idle]
  /\ UNCHANGED overlapped

\* create() reads the parent, if one is given, for its path.
CreateRead(e, p) ==
  /\ p = None \/ Live(p)
  /\ Start(e, [Idle EXCEPT !.at = "insert", !.parent = p, !.path = PathOf(p)])

\* The new row; the foreign key wants the parent to be there still.
CreateInsert(e, c) ==
  LET edit == editing[e] IN
  /\ At(e, "insert")
  /\ categories[c].state = "new"
  /\ edit.parent = None \/ Live(edit.parent)
  /\ Len(edit.path) < MaxDepth
  /\ categories' = [categories EXCEPT ![c] =
       [state |-> "live", parent |-> edit.parent, path |-> Append(edit.path, c)]]
  /\ End(e)

\* update() reads the category; one that gets another parent is to move.
MoveRead(e, c, p) ==
  /\ Live(c)
  /\ p \notin {categories[c].parent, c}
  /\ Start(e, [at |-> IF p = None THEN "move" ELSE "parent", id |-> c, parent |-> p,
               before |-> categories[c].path, path |-> <<c>>])

\* path.startsWith, and the LIKE of the UPDATE.
StartsWith(path, before) ==
  /\ Len(before) <= Len(path)
  /\ SubSeq(path, 1, Len(before)) = before

\* It reads the new parent, which may not be below the category (409).
MayGoUnder_Any(e) == TRUE
MayGoUnder(e) == ~StartsWith(categories[editing[e].parent].path, editing[e].before)

MoveParent(e) ==
  /\ At(e, "parent")
  /\ Live(editing[e].parent)
  /\ MayGoUnder(e)
  /\ editing' = [editing EXCEPT ![e].at = "move",
                                ![e].path = PathOf(editing[e].parent) \o @]
  /\ UNCHANGED <<categories, overlapped>>

\* The path of a row below the one that moves, from the path that was read.
Rewritten_NotAtAll(edit, path) == path
Rewritten_OneLess(edit, path) == edit.path \o SubSeq(path, Len(edit.before) + 2, Len(path))
Rewritten(edit, path) == edit.path \o SubSeq(path, Len(edit.before) + 1, Len(path))

\* The transaction: the row, and the paths of all the rows that begin with the path
\* it had when it was read.
MoveWrite(e) ==
  LET edit == editing[e] IN
  /\ At(e, "move")
  /\ Live(edit.id)
  /\ edit.parent = None \/ Live(edit.parent)
  /\ categories' = [d \in Category |->
       IF d = edit.id
       THEN [categories[d] EXCEPT !.parent = edit.parent, !.path = edit.path]
       ELSE IF Live(d) /\ StartsWith(categories[d].path, edit.before)
       THEN [categories[d] EXCEPT !.path = Rewritten(edit, @)]
       ELSE categories[d]]
  /\ \A d \in Category : Len(categories'[d].path) <= MaxDepth
  /\ End(e)

\* remove() counts the children, then deletes; the foreign key refuses a row that
\* has got children meanwhile.
RemoveRead(e, c) ==
  /\ Live(c)
  /\ ChildrenOf(c) = {}
  /\ Start(e, [Idle EXCEPT !.at = "delete", !.id = c])

RemoveWrite(e) ==
  /\ At(e, "delete")
  /\ Live(editing[e].id)
  /\ ChildrenOf(editing[e].id) = {}
  /\ categories' = [categories EXCEPT ![editing[e].id] =
                      [NoCategory EXCEPT !.state = "deleted"]]
  /\ End(e)

\* A call is refused (a missing row, a descendant, a slug that is taken, products of
\* a category that is to be deleted) or dies.
Fail(e) ==
  /\ ~At(e, "idle")
  /\ End(e)
  /\ UNCHANGED categories

Next ==
  \E e \in Editor :
    \/ \E p \in Category \cup {None} :
         \/ CreateRead(e, p)
         \/ \E c \in Category : MoveRead(e, c, p)
    \/ \E c \in Category : CreateInsert(e, c) \/ RemoveRead(e, c)
    \/ MoveParent(e)
    \/ MoveWrite(e)
    \/ RemoveWrite(e)
    \/ Fail(e)

Spec == CategoriesInit /\ [][Next]_vars

----------------------------------------------------------------------------

\* "the path is updated in full" (API_CONTRACT.md:129): as long as staff calls come
\* one at a time, every path is its parent's with the category's own id, however
\* subtrees are moved about and whatever calls fail.
PathsFollowTree ==
  ~overlapped =>
    \A c \in Category : Live(c) =>
      categories[c].path = Append(PathOf(categories[c].parent), c)

\* "cycles are prevented" (PLAN.md:69), again as long as calls come one at a time:
\* in any set of categories one has its parent outside the set.  (Two moves at once
\* may each put the other's category below their own.)
NoCycle ==
  ~overlapped =>
    \A S \in SUBSET {c \in Category : Live(c)} :
      S # {} => \E c \in S : categories[c].parent \notin S

\* Whatever calls overlap, a path still ends with the category's own id: the rewrite
\* for one category never cuts into another (categories.service.ts:177-181), although
\* the rows it finds may have moved since it read the path.
PathEndsInSelf ==
  \A c \in Category : Live(c) =>
    LET path == categories[c].path IN path # <<>> /\ path[Len(path)] = c
=============================================================================
