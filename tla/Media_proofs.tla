---------------------------- MODULE Media_proofs ----------------------------
(* That images are shown, stored and deleted as Media promises, for any        *)
(* number of entities, keys, rows and calls.                                   *)
EXTENDS Media, TLAPS

Upload == [entity : Entity \cup {None}, url : {"none", "live", "expired"}]
Row == [key : Key \cup {None}, entity : Entity \cup {None}, size : {"fits"}]
CallRecord == [at : {"idle", "insert", "discard", "removeObject", "removeRow"},
               key : Key \cup {None}, entity : Entity \cup {None},
               size : Size, medium : Medium \cup {None}]

Confirming(e) == At(e, "insert") \/ At(e, "discard")
Removing(e) == At(e, "removeObject") \/ At(e, "removeRow")

\* What a row and a call are about.
RowSound(m) ==
  media[m] # NoMedium =>
    media[m].key \in Key /\ media[m].entity \in Entity
      /\ media[m].entity = uploads[media[m].key].entity
CallSound(e) ==
  /\ Confirming(e) => calls[e].key \in Key /\ calls[e].entity \in Entity
                        /\ calls[e].entity = uploads[calls[e].key].entity
  /\ At(e, "insert") => calls[e].size = "fits"
  /\ Removing(e) => calls[e].key \in Key /\ calls[e].medium \in Medium
                      /\ (media[calls[e].medium] # NoMedium =>
                            media[calls[e].medium].key = calls[e].key)

\* An uncontested key has one user: a single row, whose removals are of that row, or a
\* single confirmation, which has seen the object as it is.
SingleRow ==
  \A m, n \in Medium :
    media[m].key \in Key \ contested /\ media[m].key = media[n].key => m = n
ConfirmationAlone ==
  \A e \in Editor : Confirming(e) /\ calls[e].key \notin contested =>
    /\ \A m \in Medium : media[m].key # calls[e].key
    /\ \A d \in Editor \ {e} : calls[d].key # calls[e].key
    /\ objects[calls[e].key] = calls[e].size
RemovalOfTheRow ==
  \A e \in Editor, m \in Medium :
    Removing(e) /\ calls[e].key \notin contested /\ media[m].key = calls[e].key
      => calls[e].medium = m
RemovedObject ==
  \A e \in Editor :
    At(e, "removeRow") /\ calls[e].key \notin contested \cup refused
      => objects[calls[e].key] = None

MediaInv ==
  /\ MediaTypeOK
  /\ \A m \in Medium : RowSound(m)
  /\ \A e \in Editor : CallSound(e)
  /\ SingleRow
  /\ ConfirmationAlone
  /\ RemovalOfTheRow
  /\ RemovedObject
  /\ ShownIsStored

----------------------------------------------------------------------------
LEMMA MediaTypes ==
  ASSUME MediaTypeOK
  PROVE  /\ uploads \in [Key -> Upload]
         /\ media \in [Medium -> Row]
         /\ calls \in [Editor -> CallRecord]
         /\ objects \in [Key -> Size \cup {None}]
BY DEF MediaTypeOK, Upload, Row, CallRecord

LEMMA InitMedia == MediaInit => MediaInv
<1> USE MediaAssumption
<1>1. MediaInit => MediaTypeOK
  BY DEF MediaInit, MediaTypeOK, NoUpload, NoMedium, Idle, Size
<1>2. MediaInit => /\ \A m \in Medium : media[m] = NoMedium
                   /\ \A e \in Editor : calls[e] = Idle
  BY DEF MediaInit
<1>3. NoMedium.key \notin Key /\ Idle.at = "idle"
  BY DEF NoMedium, Idle
<1> QED
  BY <1>1, <1>2, <1>3 DEF MediaInv, RowSound, CallSound, SingleRow, ConfirmationAlone,
     RemovalOfTheRow, RemovedObject, ShownIsStored, Confirming, Removing, At
----------------------------------------------------------------------------
LEMMA MediaStep ==
  MediaInv /\ [MediaNext]_mediaVars => MediaInv'
<1> USE MediaAssumption DEF Confirming, Removing, At
<1> SUFFICES ASSUME MediaInv, [MediaNext]_mediaVars
             PROVE  MediaInv'
  OBVIOUS
<1>T. /\ uploads \in [Key -> Upload]
      /\ media \in [Medium -> Row]
      /\ calls \in [Editor -> CallRecord]
      /\ objects \in [Key -> Size \cup {None}]
      /\ entities \subseteq Entity /\ contested \subseteq Key /\ refused \subseteq Key
  BY MediaTypes DEF MediaInv, MediaTypeOK
<1>H. /\ \A m \in Medium : RowSound(m)
      /\ \A e \in Editor : CallSound(e)
      /\ SingleRow /\ ConfirmationAlone /\ RemovalOfTheRow /\ RemovedObject /\ ShownIsStored
  BY DEF MediaInv
<1> DEFINE Types == /\ uploads \in [Key -> Upload]
                    /\ media \in [Medium -> Row]
                    /\ calls \in [Editor -> CallRecord]
                    /\ objects \in [Key -> Size \cup {None}]
                    /\ entities \subseteq Entity /\ contested \subseteq Key /\ refused \subseteq Key
           Sound == (\A m \in Medium : RowSound(m)) /\ \A e \in Editor : CallSound(e)
           Single == SingleRow /\ ConfirmationAlone /\ RemovalOfTheRow
           Stored == RemovedObject /\ ShownIsStored
<1> SUFFICES Types' /\ Sound' /\ Single' /\ Stored'
  BY DEF MediaInv, MediaTypeOK, Upload, Row, CallRecord
<1> HIDE DEF Types, Sound, Single, Stored
<1>I. /\ Idle \in CallRecord /\ Idle.at = "idle" /\ Idle.key = None /\ Idle.medium = None
      /\ NoMedium \in Row /\ NoMedium.key = None
  BY DEF Idle, CallRecord, Size, NoMedium, Row
<1>1. ASSUME NEW k \in Key, NEW n \in Entity, Presign(k, n)
      PROVE  Types' /\ Sound' /\ Single' /\ Stored'
  <2>1. /\ UNCHANGED <<media, calls, objects, contested, refused, entities>>
        /\ uploads'[k] = [entity |-> n, url |-> "live"] /\ uploads[k].entity = None
        /\ \A x \in Key \ {k} : uploads'[x] = uploads[x]
        /\ uploads' \in [Key -> Upload]
    BY <1>T, <1>I, <1>H, <1>1 DEF Presign, NoUpload, Upload
  <2>2. Types'
    BY <1>T, <1>I, <2>1 DEF Types
  <2>3. Sound'
    BY <1>T, <1>I, <1>H, <2>1 DEF Sound, RowSound, CallSound, Row, CallRecord
  <2>4. Single'
    BY <1>T, <1>I, <1>H, <2>1
       DEF Single, SingleRow, ConfirmationAlone, RemovalOfTheRow, Relied, CallSound,
           RowSound, Row, CallRecord
  <2>5. Stored'
    BY <1>T, <1>I, <1>H, <2>1
       DEF Stored, RemovedObject, ShownIsStored, Relied, SingleRow, ConfirmationAlone,
           RemovalOfTheRow, CallSound, RowSound, Row, CallRecord
  <2> QED
    BY <2>2, <2>3, <2>4, <2>5
<1>2. ASSUME NEW k \in Key, NEW size \in Size, Put(k, size)
      PROVE  Types' /\ Sound' /\ Single' /\ Stored'
  <2>1. /\ UNCHANGED <<entities, uploads, media, calls, refused>>
        /\ objects'[k] = size /\ \A x \in Key \ {k} : objects'[x] = objects[x]
        /\ contested \subseteq contested' /\ contested' \subseteq contested \cup {k}
        /\ Relied(k) => k \in contested'
        /\ objects' \in [Key -> Size \cup {None}]
    BY <1>T, <1>I, <1>H, <1>2 DEF Put, Contest
  <2>2. Types'
    BY <1>T, <1>I, <2>1 DEF Types
  <2>3. Sound'
    BY <1>T, <1>I, <1>H, <2>1 DEF Sound, RowSound, CallSound, Row, CallRecord
  <2>4. Single'
    BY <1>T, <1>I, <1>H, <2>1
       DEF Single, SingleRow, ConfirmationAlone, RemovalOfTheRow, Relied, CallSound,
           RowSound, Row, CallRecord
  <2>5. Stored'
    BY <1>T, <1>I, <1>H, <2>1
       DEF Stored, RemovedObject, ShownIsStored, Relied, SingleRow, ConfirmationAlone,
           RemovalOfTheRow, CallSound, RowSound, Row, CallRecord
  <2> QED
    BY <2>2, <2>3, <2>4, <2>5
<1>3. ASSUME NEW k \in Key, Expire(k)
      PROVE  Types' /\ Sound' /\ Single' /\ Stored'
  <2>1. /\ UNCHANGED <<entities, objects, media, calls, contested, refused>>
        /\ \A x \in Key : uploads'[x].entity = uploads[x].entity
        /\ uploads' \in [Key -> Upload]
    BY <1>T, <1>I, <1>H, <1>3 DEF Expire, Upload
  <2>2. Types'
    BY <1>T, <1>I, <2>1 DEF Types
  <2>3. Sound'
    BY <1>T, <1>I, <1>H, <2>1 DEF Sound, RowSound, CallSound, Row, CallRecord
  <2>4. Single'
    BY <1>T, <1>I, <1>H, <2>1
       DEF Single, SingleRow, ConfirmationAlone, RemovalOfTheRow, Relied, CallSound,
           RowSound, Row, CallRecord
  <2>5. Stored'
    BY <1>T, <1>I, <1>H, <2>1
       DEF Stored, RemovedObject, ShownIsStored, Relied, SingleRow, ConfirmationAlone,
           RemovalOfTheRow, CallSound, RowSound, Row, CallRecord
  <2> QED
    BY <2>2, <2>3, <2>4, <2>5
<1>4. ASSUME NEW n \in Entity, RemoveEntity(n)
      PROVE  Types' /\ Sound' /\ Single' /\ Stored'
  <2>1. /\ UNCHANGED <<uploads, objects, media, calls, contested, refused>>
        /\ entities' \subseteq Entity
    BY <1>T, <1>I, <1>H, <1>4 DEF RemoveEntity
  <2>2. Types'
    BY <1>T, <1>I, <2>1 DEF Types
  <2>3. Sound'
    BY <1>T, <1>I, <1>H, <2>1 DEF Sound, RowSound, CallSound, Row, CallRecord
  <2>4. Single'
    BY <1>T, <1>I, <1>H, <2>1
       DEF Single, SingleRow, ConfirmationAlone, RemovalOfTheRow, Relied, CallSound,
           RowSound, Row, CallRecord
  <2>5. Stored'
    BY <1>T, <1>I, <1>H, <2>1
       DEF Stored, RemovedObject, ShownIsStored, Relied, SingleRow, ConfirmationAlone,
           RemovalOfTheRow, CallSound, RowSound, Row, CallRecord
  <2> QED
    BY <2>2, <2>3, <2>4, <2>5
<1>5. ASSUME NEW e \in Editor, NEW k \in Key, NEW n \in Entity, ConfirmStat(e, k, n)
      PROVE  Types' /\ Sound' /\ Single' /\ Stored'
  <2>1. /\ UNCHANGED <<entities, uploads, objects, media, refused>>
        /\ \A d \in Editor \ {e} : calls'[d] = calls[d]
        /\ calls[e].at = "idle" /\ calls'[e].at \in {"insert", "discard"}
        /\ calls'[e].key = k /\ calls'[e].entity = n /\ uploads[k].entity = n
        /\ calls'[e].size = objects[k] /\ calls'[e].medium = None
        /\ calls'[e].at = "insert" => objects[k] = "fits"
        /\ contested \subseteq contested' /\ contested' \subseteq contested \cup {k}
        /\ Relied(k) => k \in contested'
        /\ calls' \in [Editor -> CallRecord]
    BY <1>T, <1>I, <1>H, <1>5
       DEF ConfirmStat, StartsWith, SizeAllowed, Start, Contest, CallRecord
  <2>2. Types'
    BY <1>T, <1>I, <2>1 DEF Types
  <2>3. Sound'
    BY <1>T, <1>I, <1>H, <2>1 DEF Sound, RowSound, CallSound, Row, CallRecord
  <2>4. Single'
    <3>1. SingleRow'
      BY <1>T, <1>I, <1>H, <2>1 DEF SingleRow, ConfirmationAlone, Relied, RowSound, Row
    <3>2. ConfirmationAlone'
      BY <1>T, <1>I, <1>H, <2>1 DEF ConfirmationAlone, Relied, CallSound, Row, CallRecord
    <3>3. RemovalOfTheRow'
      BY <1>T, <1>I, <1>H, <2>1
         DEF RemovalOfTheRow, ConfirmationAlone, SingleRow, Relied, CallSound, RowSound,
             Row, CallRecord
    <3> QED
      BY <3>1, <3>2, <3>3 DEF Single
  <2>5. Stored'
    <3>1. RemovedObject'
      BY <1>T, <1>I, <1>H, <2>1 DEF RemovedObject, Relied, CallSound, Row, CallRecord
    <3>2. ASSUME NEW x \in Medium, media'[x] # NoMedium, media'[x].key \notin contested'
          PROVE  \/ objects'[media'[x].key] = media'[x].size
                 \/ \E d \in Editor : At(d, "removeRow")' /\ calls'[d].medium = x
      <4>1. media[x] # NoMedium /\ media[x].key \notin contested
        BY <2>1, <3>2
      <4>2. ASSUME NEW d \in Editor, At(d, "removeRow"), calls[d].medium = x
            PROVE  At(d, "removeRow")' /\ calls'[d].medium = x
        BY <2>1, <4>2
      <4> QED
        BY <1>H, <2>1, <4>1, <4>2 DEF ShownIsStored
    <3> QED
      BY <3>1, <3>2 DEF Stored, ShownIsStored
  <2> QED
    BY <2>2, <2>3, <2>4, <2>5
<1>6. ASSUME NEW e \in Editor, NEW m \in Medium, ConfirmInsert(e, m)
      PROVE  Types' /\ Sound' /\ Single' /\ Stored'
  <2>1. /\ UNCHANGED <<entities, uploads, objects, contested, refused>>
        /\ calls[e].at = "insert" /\ calls' = [calls EXCEPT ![e] = Idle]
        /\ media[m] = NoMedium /\ \A d \in Editor : calls[d].medium # m
        /\ media'[m].key = calls[e].key /\ media'[m].entity = calls[e].entity
        /\ media'[m].size = calls[e].size /\ calls[e].size = "fits"
        /\ \A x \in Medium \ {m} : media'[x] = media[x]
        /\ media' \in [Medium -> Row]
    BY <1>T, <1>I, <1>H, <1>6 DEF ConfirmInsert, End, CallSound, Row
  <2>2. Types'
    BY <1>T, <1>I, <2>1 DEF Types
  <2>3. Sound'
    BY <1>T, <1>I, <1>H, <2>1 DEF Sound, RowSound, CallSound, Row, CallRecord
  <2>4. Single'
    <3>1. SingleRow'
      BY <1>T, <1>I, <1>H, <2>1 DEF SingleRow, ConfirmationAlone, Relied, RowSound, Row
    <3>2. ConfirmationAlone'
      <4>1. ASSUME NEW d \in Editor, Confirming(d)', calls'[d].key \notin contested
            PROVE  /\ d # e /\ calls'[d] = calls[d]
                   /\ \A x \in Medium : media[x].key # calls[d].key
                   /\ \A c \in Editor \ {d} : calls[c].key # calls[d].key
                   /\ calls[d].key \in Key
                   /\ objects[calls[d].key] = calls[d].size
        <5>1. d # e /\ calls'[d] = calls[d]
          BY <1>T, <1>I, <2>1, <4>1
        <5> QED
          BY <1>H, <4>1, <5>1 DEF ConfirmationAlone, CallSound
      <4>2. ASSUME NEW d \in Editor, Confirming(d)', calls'[d].key \notin contested'
            PROVE  /\ \A x \in Medium : media'[x].key # calls'[d].key
                   /\ \A c \in Editor \ {d} : calls'[c].key # calls'[d].key
                   /\ objects'[calls'[d].key] = calls'[d].size
        BY <1>T, <1>I, <2>1, <4>1, <4>2
      <4> QED
        BY <4>2 DEF ConfirmationAlone
    <3>3. RemovalOfTheRow'
      BY <1>T, <1>I, <1>H, <2>1
         DEF RemovalOfTheRow, ConfirmationAlone, SingleRow, Relied, CallSound, RowSound,
             Row, CallRecord
    <3> QED
      BY <3>1, <3>2, <3>3 DEF Single
  <2>5. Stored'
    <3>1. RemovedObject'
      BY <1>T, <1>I, <1>H, <2>1 DEF RemovedObject, Relied, CallSound, Row, CallRecord
    <3>2. ShownIsStored'
      BY <1>T, <1>I, <1>H, <2>1
         DEF ShownIsStored, Relied, ConfirmationAlone, RemovalOfTheRow, CallSound, RowSound,
             Row, CallRecord
    <3> QED
      BY <3>1, <3>2 DEF Stored
  <2> QED
    BY <2>2, <2>3, <2>4, <2>5
<1>7. ASSUME NEW e \in Editor, ConfirmDiscard(e)
      PROVE  Types' /\ Sound' /\ Single' /\ Stored'
  <2>1. /\ UNCHANGED <<entities, uploads, media, contested, refused>>
        /\ calls[e].at = "discard" /\ calls' = [calls EXCEPT ![e] = Idle]
        /\ calls[e].key \in Key /\ objects'[calls[e].key] = None
        /\ \A x \in Key \ {calls[e].key} : objects'[x] = objects[x]
        /\ objects' \in [Key -> Size \cup {None}]
    BY <1>T, <1>I, <1>H, <1>7 DEF ConfirmDiscard, End, CallSound
  <2>2. Types'
    BY <1>T, <1>I, <2>1 DEF Types
  <2>3. Sound'
    BY <1>T, <1>I, <1>H, <2>1 DEF Sound, RowSound, CallSound, Row, CallRecord
  <2>4. Single'
    BY <1>T, <1>I, <1>H, <2>1
       DEF Single, SingleRow, ConfirmationAlone, RemovalOfTheRow, Relied, CallSound,
           RowSound, Row, CallRecord
  <2>5. Stored'
    BY <1>T, <1>I, <1>H, <2>1
       DEF Stored, RemovedObject, ShownIsStored, Relied, SingleRow, ConfirmationAlone,
           RemovalOfTheRow, CallSound, RowSound, Row, CallRecord
  <2> QED
    BY <2>2, <2>3, <2>4, <2>5
<1>8. ASSUME NEW e \in Editor, NEW m \in Medium, RemoveFind(e, m)
      PROVE  Types' /\ Sound' /\ Single' /\ Stored'
  <2>1. /\ UNCHANGED <<entities, uploads, objects, media, contested, refused>>
        /\ \A d \in Editor \ {e} : calls'[d] = calls[d]
        /\ calls[e].at = "idle" /\ calls'[e].at = "removeObject"
        /\ calls'[e].key = media[m].key /\ calls'[e].medium = m /\ media[m] # NoMedium
        /\ calls' \in [Editor -> CallRecord]
    <3>1. /\ UNCHANGED <<entities, uploads, objects, media, contested, refused>>
          /\ calls[e].at = "idle" /\ media[m] # NoMedium
          /\ calls' = [calls EXCEPT ![e] = [Idle EXCEPT !.at = "removeObject",
                                            !.key = media[m].key, !.medium = m]]
      BY <1>8 DEF RemoveFind, Start
    <3>2. media[m].key \in Key
      BY <1>H, <3>1 DEF RowSound
    <3>3. [Idle EXCEPT !.at = "removeObject", !.key = media[m].key, !.medium = m] \in CallRecord
      BY <3>2 DEF Idle, CallRecord, Size
    <3> QED
      BY <1>T, <3>1, <3>3 DEF Idle
  <2>2. Types'
    BY <1>T, <1>I, <2>1 DEF Types
  <2>3. Sound'
    BY <1>T, <1>I, <1>H, <2>1 DEF Sound, RowSound, CallSound, Row, CallRecord
  <2>4. Single'
    <3>1. SingleRow'
      BY <1>T, <1>I, <1>H, <2>1 DEF SingleRow, ConfirmationAlone, Relied, RowSound, Row
    <3>2. ConfirmationAlone'
      BY <1>T, <1>I, <1>H, <2>1 DEF ConfirmationAlone, Relied, CallSound, Row, CallRecord
    <3>3. RemovalOfTheRow'
      BY <1>T, <1>I, <1>H, <2>1
         DEF RemovalOfTheRow, ConfirmationAlone, SingleRow, Relied, CallSound, RowSound,
             Row, CallRecord
    <3> QED
      BY <3>1, <3>2, <3>3 DEF Single
  <2>5. Stored'
    BY <1>T, <1>I, <1>H, <2>1
       DEF Stored, RemovedObject, ShownIsStored, Relied, SingleRow, ConfirmationAlone,
           RemovalOfTheRow, CallSound, RowSound, Row, CallRecord
  <2> QED
    BY <2>2, <2>3, <2>4, <2>5
<1>9. ASSUME NEW e \in Editor, RemoveObject(e)
      PROVE  Types' /\ Sound' /\ Single' /\ Stored'
  <2>1. /\ UNCHANGED <<entities, uploads, media, contested>>
        /\ \A d \in Editor \ {e} : calls'[d] = calls[d]
        /\ calls[e].at = "removeObject" /\ calls'[e].at = "removeRow"
        /\ calls'[e].key = calls[e].key /\ calls'[e].medium = calls[e].medium
        /\ calls[e].key \in Key
        /\ \/ objects' = [objects EXCEPT ![calls[e].key] = None] /\ refused' = refused
           \/ objects' = objects /\ refused' = refused \cup {calls[e].key}
        /\ calls' \in [Editor -> CallRecord]
        /\ objects' \in [Key -> Size \cup {None}]
    BY <1>T, <1>I, <1>H, <1>9 DEF RemoveObject, Remaining, CallSound, CallRecord
  <2>2. Types'
    BY <1>T, <1>I, <2>1 DEF Types
  <2>3. Sound'
    BY <1>T, <1>I, <1>H, <2>1 DEF Sound, RowSound, CallSound, Row, CallRecord
  <2>4. Single'
    <3>1. SingleRow'
      BY <1>T, <1>I, <1>H, <2>1 DEF SingleRow, ConfirmationAlone, Relied, RowSound, Row
    <3>2. ConfirmationAlone'
      BY <1>T, <1>I, <1>H, <2>1 DEF ConfirmationAlone, Relied, CallSound, Row, CallRecord
    <3>3. RemovalOfTheRow'
      BY <1>T, <1>I, <1>H, <2>1
         DEF RemovalOfTheRow, ConfirmationAlone, SingleRow, Relied, CallSound, RowSound,
             Row, CallRecord
    <3> QED
      BY <3>1, <3>2, <3>3 DEF Single
  <2>5. Stored'
    <3>1. RemovedObject'
      BY <1>T, <1>I, <1>H, <2>1 DEF RemovedObject, Relied, CallSound, Row, CallRecord
    <3>2. ASSUME NEW x \in Medium, media'[x] # NoMedium, media'[x].key \notin contested'
          PROVE  \/ objects'[media'[x].key] = media'[x].size
                 \/ \E d \in Editor : At(d, "removeRow")' /\ calls'[d].medium = x
      <4>1. media[x] # NoMedium /\ media[x].key \notin contested
        BY <2>1, <3>2
      <4>2. ASSUME NEW d \in Editor, At(d, "removeRow"), calls[d].medium = x
            PROVE  At(d, "removeRow")' /\ calls'[d].medium = x
        BY <2>1, <4>2
      <4>3. CASE media[x].key = calls[e].key
        BY <1>H, <2>1, <4>1, <4>3 DEF RemovalOfTheRow
      <4>4. CASE media[x].key # calls[e].key
        <5>1. media[x].key \in Key
          BY <1>H, <4>1 DEF RowSound
        <5>2. objects'[media[x].key] = objects[media[x].key]
          BY <1>T, <2>1, <4>4, <5>1
        <5> QED
          BY <1>H, <2>1, <4>1, <4>2, <5>2 DEF ShownIsStored
      <4> QED
        BY <4>3, <4>4
    <3> QED
      BY <3>1, <3>2 DEF Stored, ShownIsStored
  <2> QED
    BY <2>2, <2>3, <2>4, <2>5
<1>10. ASSUME NEW e \in Editor, RemoveRow(e)
      PROVE  Types' /\ Sound' /\ Single' /\ Stored'
  <2>1. /\ UNCHANGED <<entities, uploads, objects, contested, refused>>
        /\ calls[e].at = "removeRow" /\ calls' = [calls EXCEPT ![e] = Idle]
        /\ calls[e].medium \in Medium /\ media'[calls[e].medium] = NoMedium
        /\ \A x \in Medium \ {calls[e].medium} : media'[x] = media[x]
        /\ media' \in [Medium -> Row]
    BY <1>T, <1>I, <1>H, <1>10 DEF RemoveRow, End, CallSound, NoMedium, Row
  <2>2. Types'
    BY <1>T, <1>I, <2>1 DEF Types
  <2>3. Sound'
    BY <1>T, <1>I, <1>H, <2>1 DEF Sound, RowSound, CallSound, Row, CallRecord
  <2>4. Single'
    <3>1. SingleRow'
      BY <1>T, <1>I, <1>H, <2>1 DEF SingleRow, ConfirmationAlone, Relied, RowSound, Row
    <3>2. ConfirmationAlone'
      BY <1>T, <1>I, <1>H, <2>1 DEF ConfirmationAlone, Relied, CallSound, Row, CallRecord
    <3>3. RemovalOfTheRow'
      BY <1>T, <1>I, <1>H, <2>1
         DEF RemovalOfTheRow, ConfirmationAlone, SingleRow, Relied, CallSound, RowSound,
             Row, CallRecord
    <3> QED
      BY <3>1, <3>2, <3>3 DEF Single
  <2>5. Stored'
    <3>1. RemovedObject'
      BY <1>T, <1>I, <1>H, <2>1 DEF RemovedObject, Relied, CallSound, Row, CallRecord
    <3>2. ShownIsStored'
      BY <1>T, <1>I, <1>H, <2>1
         DEF ShownIsStored, Relied, ConfirmationAlone, RemovalOfTheRow, CallSound, RowSound,
             Row, CallRecord
    <3> QED
      BY <3>1, <3>2 DEF Stored
  <2> QED
    BY <2>2, <2>3, <2>4, <2>5
<1>11. ASSUME NEW e \in Editor, Fail(e)
      PROVE  Types' /\ Sound' /\ Single' /\ Stored'
  <2>1. /\ UNCHANGED <<entities, uploads, objects, media, refused>>
        /\ calls' = [calls EXCEPT ![e] = Idle]
        /\ contested \subseteq contested'
        /\ calls[e].at = "removeRow" => calls[e].key \in contested'
        /\ contested' \subseteq Key
    BY <1>T, <1>I, <1>H, <1>11 DEF Fail, End, CallSound
  <2>2. Types'
    BY <1>T, <1>I, <2>1 DEF Types
  <2>3. Sound'
    BY <1>T, <1>I, <1>H, <2>1 DEF Sound, RowSound, CallSound, Row, CallRecord
  <2>4. Single'
    BY <1>T, <1>I, <1>H, <2>1
       DEF Single, SingleRow, ConfirmationAlone, RemovalOfTheRow, Relied, CallSound,
           RowSound, Row, CallRecord
  <2>5. Stored'
    BY <1>T, <1>I, <1>H, <2>1
       DEF Stored, RemovedObject, ShownIsStored, Relied, SingleRow, ConfirmationAlone,
           RemovalOfTheRow, CallSound, RowSound, Row, CallRecord
  <2> QED
    BY <2>2, <2>3, <2>4, <2>5
<1>12. CASE UNCHANGED mediaVars
  BY <1>T, <1>H, <1>12
     DEF mediaVars, Types, Sound, Single, Stored, RowSound, CallSound, SingleRow,
     ConfirmationAlone, RemovalOfTheRow, RemovedObject, ShownIsStored
<1> QED
  BY <1>1, <1>2, <1>3, <1>4, <1>5, <1>6, <1>7, <1>8, <1>9, <1>10, <1>11, <1>12
     DEF MediaNext, CallStep

----------------------------------------------------------------------------
LEMMA MediaInvariant == MediaSpec => []MediaInv
BY InitMedia, MediaStep, PTL DEF MediaSpec

\* Only sizes that fit reach a row (media.service.ts:97).
THEOREM MediaTypeCorrect == MediaSpec => []MediaTypeOK
BY MediaInvariant, PTL DEF MediaInv

\* The object behind an image is there, and not too big, until the call that deletes the
\* image has removed it (media.service.ts:92, media.service.ts:142).
THEOREM ImagesAreStored == MediaSpec => []ShownIsStored
BY MediaInvariant, PTL DEF MediaInv

\* An image is of the entity its URL was signed for (media.service.ts:86).
THEOREM ImagesOfTheirEntity == MediaSpec => []ShownForItsEntity
<1>1. MediaInv => ShownForItsEntity
  BY DEF MediaInv, RowSound, ShownForItsEntity
<1> QED
  BY <1>1, MediaInvariant, PTL

\* A row is deleted after its object (media.service.ts:137).
THEOREM RowsGoWithObjects == MediaSpec => DeletedTogether
<1>1. ASSUME MediaInv, [MediaNext]_mediaVars, NEW m \in Medium, media[m] # NoMedium,
             media'[m] = NoMedium, media[m].key \notin contested \cup refused
      PROVE  objects'[media[m].key] = None
  <2>1. CASE \E e \in Editor : RemoveRow(e)
    <3>1. PICK e \in Editor : RemoveRow(e)
      BY <2>1
    <3>2. /\ At(e, "removeRow") /\ UNCHANGED objects
          /\ media' = [media EXCEPT ![calls[e].medium] = NoMedium]
      BY <3>1 DEF RemoveRow
    <3>3. calls[e].medium = m
      BY <1>1, <3>2, MediaTypes DEF MediaInv
    <3>4. calls[e].key = media[m].key
      BY <1>1, <3>2, <3>3 DEF MediaInv, CallSound, Removing
    <3> QED
      BY <1>1, <3>2, <3>4 DEF MediaInv, RemovedObject
  <2>2. CASE \E e \in Editor, n \in Medium : ConfirmInsert(e, n)
    BY <1>1, <2>2, MediaTypes DEF MediaInv, ConfirmInsert
  <2>3. CASE UNCHANGED media
    BY <1>1, <2>3
  <2> QED
    BY <1>1, <2>1, <2>2, <2>3 DEF MediaNext, CallStep, mediaVars, Presign, Put, Expire, RemoveEntity,
       ConfirmStat, ConfirmDiscard, RemoveFind, RemoveObject, Fail
<1>2. MediaInv /\ [MediaNext]_mediaVars =>
        [\A m \in Medium : LET k == media[m].key IN
           media[m] # NoMedium /\ media'[m] = NoMedium /\ k \notin contested \cup refused
             => objects'[k] = None]_mediaVars
  BY <1>1
<1> QED
  BY <1>2, MediaInvariant, PTL DEF MediaSpec, DeletedTogether
=============================================================================
