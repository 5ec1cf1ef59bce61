------------------------------- MODULE Media --------------------------------
(* The images of products, variants, categories and brands (media.service.ts,   *)
(* minio.service.ts): the server signs the URL of an upload, the client writes   *)
(* the object itself, and the row that shows it is created or deleted apart      *)
(* from the object.  Each call is cut between its accesses to the storage and    *)
(* to the database.                                                              *)
EXTENDS FiniteSets

CONSTANTS Entity,        \* the things that have images
          Key,           \* object keys: random, so that a new one is unused
          Medium,        \* rows of media
          Editor,        \* slots for calls in progress
          None           \* SQL NULL

ASSUME MediaAssumption == None \notin Entity \cup Key \cup Medium

VARIABLES entities,      \* those that exist
          uploads,       \* per key: what it was signed for, and its URL
          objects,       \* per key: the object in the storage
          media,         \* the rows
          calls,         \* per slot: how far the call is
          contested,     \* keys written, confirmed or given up behind the back of
                         \*   a row or a call that relied on their object
          refused        \* keys whose object the storage has failed to remove

mediaVars == <<entities, uploads, objects, media, calls, contested, refused>>

\* What matters of a file: MAX_MEDIA_SIZE_BYTES.
Size == {"fits", "tooBig"}

NoUpload == [entity |-> None, url |-> "none"]
NoMedium == [key |-> None, entity |-> None, size |-> "fits"]

Idle == [at |-> "idle", key |-> None, entity |-> None, size |-> "fits", medium |-> None]

\* Only sizes that fit reach a row.
MediaTypeOK ==
  /\ entities \subseteq Entity
  /\ uploads \in [Key -> [entity : Entity \cup {None}, url : {"none", "live", "expired"}]]
  /\ objects \in [Key -> Size \cup {None}]
  /\ media \in [Medium -> [key : Key \cup {None}, entity : Entity \cup {None}, size : {"fits"}]]
  /\ calls \in [Editor -> [at : {"idle", "insert", "discard", "removeObject", "removeRow"},
                           key : Key \cup {None}, entity : Entity \cup {None},
                           size : Size, medium : Medium \cup {None}]]
  /\ contested \subseteq Key
  /\ refused \subseteq Key

MediaInit ==
  /\ entities = Entity
  /\ uploads = [k \in Key |-> NoUpload]
  /\ objects = [k \in Key |-> None]
  /\ media = [m \in Medium |-> NoMedium]
  /\ calls = [e \in Editor |-> Idle]
  /\ contested = {}
  /\ refused = {}

----------------------------------------------------------------------------
At(e, stage) == calls[e].at = stage
Start(e, call) == At(e, "idle") /\ calls' = [calls EXCEPT ![e] = call]
End(e) == calls' = [calls EXCEPT ![e] = Idle]

\* Somebody relies on the object of k as it is.
Relied(k) == \/ \E m \in Medium : media[m].key = k
             \/ \E e \in Editor : calls[e].key = k
Contest(k) == contested' = contested \cup {x \in {k} : Relied(x)}

----------------------------------------------------------------------------
\* presign: the entity exists, the declared size and type are fine.
Presign(k, n) ==
  /\ n \in entities
  /\ uploads[k] = NoUpload
  /\ uploads' = [uploads EXCEPT ![k] = [entity |-> n, url |-> "live"]]
  /\ UNCHANGED <<entities, objects, media, calls, contested, refused>>

\* The client writes to the URL as long as it lives, as often as it likes and
\* whatever it has declared: the storage looks at neither.
Put(k, size) ==
  /\ uploads[k].url = "live"
  /\ objects' = [objects EXCEPT ![k] = size]
  /\ Contest(k)
  /\ UNCHANGED <<entities, uploads, media, calls, refused>>

Expire(k) ==
  /\ uploads[k].url = "live"
  /\ uploads' = [uploads EXCEPT ![k].url = "expired"]
  /\ UNCHANGED <<entities, objects, media, calls, contested, refused>>

\* A key begins with the type and the id of the entity it was signed for.
StartsWith_Any(k, n) == TRUE
StartsWith(k, n) == uploads[k].entity = n

SizeAllowed_Any(size) == TRUE
SizeAllowed(size) == size = "fits"

\* confirm asks the storage for the object; whether the entity is still there, or the
\* key confirmed already, it does not ask.
ConfirmStat(e, k, n) ==
  /\ StartsWith(k, n)
  /\ objects[k] # None
  /\ Start(e, [at |-> IF SizeAllowed(objects[k]) THEN "insert" ELSE "discard",
               key |-> k, entity |-> n, size |-> objects[k], medium |-> None])
  /\ Contest(k)
  /\ UNCHANGED <<entities, uploads, objects, media, refused>>

ConfirmInsert(e, m) ==
  /\ At(e, "insert")
  /\ media[m] = NoMedium /\ \A d \in Editor : calls[d].medium # m
  /\ media' = [media EXCEPT ![m] =
       [key |-> calls[e].key, entity |-> calls[e].entity, size |-> calls[e].size]]
  /\ End(e)
  /\ UNCHANGED <<entities, uploads, objects, contested, refused>>

\* An object that is too big goes.
ConfirmDiscard(e) ==
  /\ At(e, "discard")
  /\ objects' = [objects EXCEPT ![calls[e].key] = None]
  /\ End(e)
  /\ UNCHANGED <<entities, uploads, media, contested, refused>>

----------------------------------------------------------------------------
\* remove: the row is found, the object removed, then the row.
RemoveFind(e, m) ==
  /\ media[m] # NoMedium
  /\ Start(e, [Idle EXCEPT !.at = "removeObject", !.key = media[m].key, !.medium = m])
  /\ UNCHANGED <<entities, uploads, objects, media, contested, refused>>

Remaining_Prefix(objs, k) ==
  [x \in Key |-> IF uploads[x].entity = uploads[k].entity THEN None ELSE objs[x]]
Remaining_Kept(objs, k) == objs
Remaining(objs, k) == [objs EXCEPT ![k] = None]

\* Other rows of the key are not looked at, an error of the storage is swallowed.
RemoveObject(e) ==
  LET k == calls[e].key IN
  /\ At(e, "removeObject")
  /\ \/ objects' = Remaining(objects, k) /\ UNCHANGED refused
     \/ UNCHANGED objects /\ refused' = refused \cup {k}
  /\ calls' = [calls EXCEPT ![e].at = "removeRow"]
  /\ UNCHANGED <<entities, uploads, media, contested>>

RemoveRow(e) ==
  LET m == calls[e].medium IN
  /\ At(e, "removeRow")
  /\ media[m] # NoMedium
  /\ media' = [media EXCEPT ![m] = NoMedium]
  /\ End(e)
  /\ UNCHANGED <<entities, uploads, objects, contested, refused>>

----------------------------------------------------------------------------
\* Its images stay behind when a product, a variant, a category or a brand is deleted.
RemoveEntity(n) ==
  /\ n \in entities
  /\ entities' = entities \ {n}
  /\ UNCHANGED <<uploads, objects, media, calls, contested, refused>>

\* The storage or the database refuses, or the process dies.
Fail(e) ==
  /\ ~At(e, "idle")
  /\ contested' = contested \cup {k \in {calls[e].key} : At(e, "removeRow")}
  /\ End(e)
  /\ UNCHANGED <<entities, uploads, objects, media, refused>>

CallStep(e) ==
  \/ \E k \in Key, n \in Entity : ConfirmStat(e, k, n)
  \/ \E m \in Medium : ConfirmInsert(e, m) \/ RemoveFind(e, m)
  \/ ConfirmDiscard(e)
  \/ RemoveObject(e)
  \/ RemoveRow(e)
  \/ Fail(e)

MediaNext ==
  \/ \E k \in Key, n \in Entity : Presign(k, n)
  \/ \E k \in Key, size \in Size : Put(k, size)
  \/ \E k \in Key : Expire(k)
  \/ \E n \in Entity : RemoveEntity(n)
  \/ \E e \in Editor : CallStep(e)

MediaSpec == MediaInit /\ [][MediaNext]_mediaVars

----------------------------------------------------------------------------

\* An image that is shown is in the storage, and not too big: unless its key was written
\* or confirmed again behind the row (media.service.ts:80,92) or its removal stopped half
\* way (media.service.ts:142), the object of a row is there until the call that deletes
\* the row has removed it.
ShownIsStored ==
  \A m \in Medium : media[m] # NoMedium /\ media[m].key \notin contested =>
    \/ objects[media[m].key] = media[m].size
    \/ \E e \in Editor : At(e, "removeRow") /\ calls[e].medium = m

\* An image is of the entity its URL was signed for, which presign has seen, although
\* confirm is told the entity again (media.service.ts:86).
ShownForItsEntity ==
  \A m \in Medium : media[m] # NoMedium => media[m].entity = uploads[media[m].key].entity

\* "Deletes the file from the storage and the row from the database together"
\* (API_CONTRACT.md:316): when a row is deleted its object is gone, unless the storage has
\* failed or the key was written or confirmed again meanwhile.
DeletedTogether ==
  [][\A m \in Medium : LET k == media[m].key IN
       media[m] # NoMedium /\ media'[m] = NoMedium /\ k \notin contested \cup refused
         => objects'[k] = None]_mediaVars
=============================================================================
