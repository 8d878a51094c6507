------------------------ MODULE PicturesHistoryProofs -----------------------
(***************************************************************************)
(* Proofs about Pictures: whose each picture is, and what an object        *)
(* without a document waits for, or comes of.                              *)
(***************************************************************************)
EXTENDS PicturesProofs

-----------------------------------------------------------------------------
\* Whose each picture is

\* Someone with the email e saved a picture with the date k.
Owned(k, e) == \E u \in uploads : u.date = k /\ u.email = e

SavesOnce == \A u, v \in uploads : u.save = v.save => u = v

\* Every document, write and row of a picture has the email of one who saved it.
DocumentsOwned == \A k \in Dates : documents[k] # NoUser => Owned(k, documents[k])
WritesOwned == \A w \in Write : Queued(w) => Owned(w.date, w.email)
RowsOwned == \A d \in Devices : \A r \in rows[d] : Owned(r.date, r.email)

Owners ==
  /\ SavesOnce
  /\ DocumentsOwned
  /\ WritesOwned
  /\ RowsOwned

OwnedGrows == \A k, e : Owned(k, e) => Owned(k, e)'

\* A save changes its pc and nothing else.
LEMMA TurnOwners ==
  ASSUME TypeOK, SavesOnce, NEW u \in uploads, NEW pc, Turn(u, pc)
  PROVE  SavesOnce' /\ OwnedGrows
<1> DEFINE v == [u EXCEPT !.pc = pc]
<1>1. v.save = u.save /\ v.date = u.date /\ v.email = u.email
  BY UploadFacts DEF Upload
<1>2. uploads' = (uploads \ {u}) \cup {v}
  BY DEF Turn
<1> HIDE DEF v
<1>3. SavesOnce'
  BY <1>1, <1>2 DEF SavesOnce
<1>4. OwnedGrows
  BY <1>1, <1>2 DEF OwnedGrows, Owned
<1> QED
  BY <1>3, <1>4

LEMMA KillOwners ==
  ASSUME TypeOK, SavesOnce, NEW d \in Devices, Kill(d)
  PROVE  SavesOnce' /\ OwnedGrows
<1> DEFINE F(u) == IF u.device = d THEN [u EXCEPT !.pc = "ended"] ELSE u
<1>1. \A u \in uploads : F(u).save = u.save /\ F(u).date = u.date /\ F(u).email = u.email
  BY UploadFacts DEF Upload
<1>2. uploads' = {F(u) : u \in uploads}
  BY DEF Kill
<1> HIDE DEF F
<1>3. SavesOnce'
  BY <1>1, <1>2 DEF SavesOnce
<1>4. OwnedGrows
  BY <1>1, <1>2 DEF OwnedGrows, Owned
<1> QED
  BY <1>3, <1>4

LEMMA NextSaves ==
  ASSUME TypeOK, SavesOnce, [Next]_vars
  PROVE  SavesOnce' /\ OwnedGrows
<1>1. CASE \E s \in Saves, d \in Devices, k \in Dates : TapSave(s, d, k)
  <2>1. PICK s \in Saves, d \in Devices, k \in Dates : TapSave(s, d, k)
    BY <1>1
  <2> DEFINE v == [save |-> s, pc |-> "putting", device |-> d, date |-> k, email |-> user[d]]
  <2>2. uploads' = uploads \cup {v} /\ v.save = s /\ \A u \in uploads : u.save # s
    BY <2>1 DEF TapSave, Taken
  <2> HIDE DEF v
  <2> QED
    BY <2>2 DEF SavesOnce, OwnedGrows, Owned
<1>2. CASE \E u \in uploads : StoreObject(u) \/ PutSucceeds(u) \/ PutFails(u)
  BY <1>2, TurnOwners DEF StoreObject, PutSucceeds, PutFails
<1>3. CASE \E d \in Devices : Kill(d)
  BY <1>3, KillOwners
<1>4. CASE uploads' = uploads
  BY <1>4 DEF SavesOnce, OwnedGrows, Owned
<1>5. \/ \E s \in Saves, d \in Devices, k \in Dates : TapSave(s, d, k)
      \/ \E u \in uploads : StoreObject(u) \/ PutSucceeds(u) \/ PutFails(u)
      \/ \E d \in Devices : Kill(d)
      \/ uploads' = uploads
  BY DEF Next, vars, Reload, Look, TapEdit, TapDelete, Apply, Ack, Refuse, StreamBreaks,
     EraseDone, EraseFails, SwitchUser
<1> QED
  BY <1>1, <1>2, <1>3, <1>4, <1>5

LEMMA NextDocumentsOwned ==
  ASSUME TypeOK, DocumentsOwned, WritesOwned, OwnedGrows, [Next]_vars
  PROVE  DocumentsOwned'
<1>1. CASE \E d \in Devices : Apply(d)
  <2>1. PICK d \in Devices : Apply(d)
    BY <1>1
  <2>2. PICK w \in Write : w = Mine(d)[sent[d] + 1]
    BY <2>1, NextWrite
  <2>3. Queued(w) /\ documents' = [documents EXCEPT ![w.date] = Result(w)]
    BY <2>1, <2>2, NextWrite DEF Apply
  <2>4. Owned(w.date, w.email)
    BY <2>3 DEF WritesOwned
  <2>5. Result(w) = NoUser \/ Result(w) = w.email
    BY DEF Result
  <2> SUFFICES ASSUME NEW k \in Dates, NEW e, e = documents'[k], e # NoUser
               PROVE  Owned(k, e)'
    BY DEF DocumentsOwned, Owned
  <2>6. CASE k = w.date
    BY <2>3, <2>4, <2>5, <2>6 DEF TypeOK, OwnedGrows
  <2>7. CASE k # w.date
    BY <2>3, <2>7 DEF TypeOK, DocumentsOwned, OwnedGrows
  <2> QED
    BY <2>6, <2>7
<1>2. CASE documents' = documents
  BY <1>2 DEF DocumentsOwned, OwnedGrows
<1>3. documents' = documents \/ \E d \in Devices : Apply(d)
  BY DEF Next, vars, cloudVars, deviceVars, history, TapSave, StoreObject, PutSucceeds, PutFails, Reload,
     Look, TapEdit, TapDelete, Ack, Refuse, StreamBreaks, EraseDone, EraseFails, SwitchUser, Kill
<1> QED
  BY <1>1, <1>2, <1>3

\* A write that is queued has the email of its upload or of its row.
LEMMA EnqueueOwned ==
  ASSUME TypeOK, WritesOwned, OwnedGrows, NEW d \in Devices, NEW w \in Write, Enqueue(d, w),
         Owned(w.date, w.email)
  PROVE  WritesOwned'
<1>1. \A x : Queued(x)' => Queued(x) \/ x = w
  BY EnqueueQueued
<1> QED
  BY <1>1 DEF WritesOwned, OwnedGrows

LEMMA NextWritesOwned ==
  ASSUME TypeOK, WritesOwned, RowsOwned, OwnedGrows, [Next]_vars
  PROVE  WritesOwned'
<1>1. CASE \E u \in uploads : PutSucceeds(u)
  <2>1. PICK u \in uploads : PutSucceeds(u)
    BY <1>1
  <2>2. PICK w \in Write : w = [by |-> "save", date |-> u.date, email |-> u.email, live |-> TRUE]
    BY UploadFacts, WriteFacts
  <2>3. Enqueue(u.device, w) /\ u.device \in Devices
    BY <2>1, <2>2, UploadFacts DEF PutSucceeds
  <2>4. Owned(w.date, w.email)
    BY <2>2 DEF Owned
  <2> QED
    BY <2>3, <2>4, EnqueueOwned
<1>2. ASSUME NEW d \in Devices, NEW r \in rows[d], TapEdit(d, r) \/ TapDelete(d, r)
      PROVE  WritesOwned'
  <2>1. PICK by \in {"edit", "delete"} :
          Enqueue(d, [by |-> by, date |-> r.date, email |-> r.email, live |-> TRUE])
    BY <1>2 DEF TapEdit, TapDelete
  <2>2. PICK w \in Write : w = [by |-> by, date |-> r.date, email |-> r.email, live |-> TRUE]
    BY RowFacts, WriteFacts
  <2>3. Owned(w.date, w.email)
    BY <2>2 DEF RowsOwned
  <2> QED
    BY <2>1, <2>2, <2>3, EnqueueOwned
<1>3. CASE \E d \in Devices : Ack(d) \/ Refuse(d)
  <2>1. PICK d \in Devices : Ack(d) \/ Refuse(d)
    BY <1>3
  <2>2. Dequeue(d) /\ Mine(d) # <<>>
    BY <2>1, SentNotEmpty DEF Ack, Refuse
  <2>3. \A x : Queued(x)' => Queued(x)
    BY <2>2, DequeueQueued
  <2> QED
    BY <2>3 DEF WritesOwned, OwnedGrows
<1>4. CASE \E d \in Devices : Kill(d)
  <2>1. \A x : Queued(x)' => \E y : Queued(y) /\ x.date = y.date /\ x.email = y.email
    BY <1>4, KillQueued
  <2>2. \A y : Queued(y) => y \in Write
    BY QueuedIsWrite
  <2> QED
    BY <2>1, <2>2 DEF WritesOwned, OwnedGrows
<1>5. CASE queue' = queue
  BY <1>5 DEF WritesOwned, OwnedGrows, Queued
<1>6. \/ \E u \in uploads : PutSucceeds(u)
      \/ \E d \in Devices : \E r \in rows[d] : TapEdit(d, r) \/ TapDelete(d, r)
      \/ \E d \in Devices : Ack(d) \/ Refuse(d)
      \/ \E d \in Devices : Kill(d)
      \/ queue' = queue
  BY DEF Next, vars, deviceVars, TapSave, StoreObject, PutFails, Reload, Look, Apply, StreamBreaks,
     EraseDone, EraseFails, SwitchUser
<1> QED
  BY <1>1, <1>2, <1>3, <1>4, <1>5, <1>6

\* What a query finds is the server's document or a write of the device.
LEMMA FoundOwned ==
  ASSUME TypeOK, DocumentsOwned, WritesOwned, NEW d \in Devices, NEW k \in Dates, Found(d, k, user[d])
  PROVE  Owned(k, user[d])
<1>1. user[d] # NoUser
  BY QueueFacts, NoUserAssumption
<1>2. CASE documents[k] = user[d]
  BY <1>1, <1>2 DEF DocumentsOwned
<1>3. CASE \E q \in DOMAIN Mine(d) : Mine(d)[q].date = k /\ Result(Mine(d)[q]) = user[d]
  <2>1. PICK q \in DOMAIN Mine(d) : Mine(d)[q].date = k /\ Result(Mine(d)[q]) = user[d]
    BY <1>3
  <2>2. q \in 1..Len(Mine(d))
    BY QueueFacts
  <2>3. Mine(d)[q] \in Write /\ Queued(Mine(d)[q])
    BY <2>2, MineQueued
  <2>4. Mine(d)[q].email = user[d]
    BY <1>1, <2>1 DEF Result
  <2> QED
    BY <2>1, <2>3, <2>4 DEF WritesOwned
<1> QED
  BY <1>2, <1>3 DEF Found

LEMMA NextRowsOwned ==
  ASSUME TypeOK, DocumentsOwned, WritesOwned, RowsOwned, OwnedGrows, [Next]_vars
  PROVE  RowsOwned'
<1>1. ASSUME NEW d \in Devices, NEW k \in Dates, Look(d, k)
      PROVE  RowsOwned'
  <2>1. Owned(k, user[d])
    BY <1>1, FoundOwned DEF Look
  <2>2. \A e \in Devices : \A r \in rows'[e] : r \in rows[e] \/ (r.date = k /\ r.email = user[d])
    BY <1>1 DEF Look, TypeOK
  <2> QED
    BY <2>1, <2>2 DEF RowsOwned, OwnedGrows
<1>2. CASE \A d \in Devices : rows'[d] \subseteq rows[d]
  BY <1>2 DEF RowsOwned, OwnedGrows
<1>3. CASE \E d \in Devices : Reload(d) \/ Kill(d)
  <2>1. \A d \in Devices : rows'[d] \subseteq rows[d]
    BY <1>3 DEF Reload, Kill, TypeOK
  <2> QED
    BY <1>2, <2>1
<1>4. CASE rows' = rows
  BY <1>2, <1>4
<1>5. \/ \E d \in Devices, k \in Dates : Look(d, k)
      \/ \E d \in Devices : Reload(d) \/ Kill(d)
      \/ rows' = rows
  BY DEF Next, vars, deviceVars, TapSave, StoreObject, PutSucceeds, PutFails, TapEdit, TapDelete, Apply, Ack,
     Refuse, StreamBreaks, EraseDone, EraseFails, SwitchUser
<1> QED
  BY <1>1, <1>3, <1>4, <1>5

LEMMA InitOwners == Init => Owners
<1> SUFFICES ASSUME Init
             PROVE  Owners
  OBVIOUS
<1>1. \A w : ~Queued(w)
  <2>1. \A d \in Devices, u \in Users : Len(queue[d][u]) = 0
    BY DEF Init
  <2> QED
    BY <2>1 DEF Queued
<1> QED
  BY <1>1 DEF Init, Owners, SavesOnce, DocumentsOwned, WritesOwned, RowsOwned

LEMMA NextOwners == TypeOK /\ Owners /\ [Next]_vars => Owners'
<1> SUFFICES ASSUME TypeOK, Owners, [Next]_vars
             PROVE  Owners'
  OBVIOUS
<1>1. SavesOnce' /\ OwnedGrows
  BY NextSaves DEF Owners
<1> QED
  BY <1>1, NextDocumentsOwned, NextWritesOwned, NextRowsOwned DEF Owners

\* The document of a picture, unless two were saved in the same second, has the
\* email of the user who saved it, however devices change hands with writes
\* waiting and rows on the screen.
THEOREM PictureIsOwners == Spec => []PictureStaysOwners
<1>1. Init => Owners
  BY InitOwners
<1>2. TypeOK /\ Owners /\ [Next]_vars => Owners'
  BY NextOwners
<1>3. Owners => PictureStaysOwners
  BY DEF Owners, SavesOnce, DocumentsOwned, Owned, PictureStaysOwners, Collided
<1> QED
  BY <1>1, <1>2, <1>3, TypeCorrect, PTL DEF Spec

-----------------------------------------------------------------------------
\* What an object without a document waits for, or comes of

\* A write whose callback is lost waits from before the process ended.
KilledBlamed == \A w \in Write : Queued(w) /\ ~w.live => "killed" \in blame[w.date]

\* The write at q will give k a document, if it is a save that the server has
\* not applied on this stream, or delete its object, by its callback.
Settles(d, u, q, k) ==
  /\ queue[d][u][q].date = k
  /\ \/ queue[d][u][q].by = "save" /\ (u = user[d] => q > sent[d])
     \/ queue[d][u][q].by = "delete" /\ queue[d][u][q].live

\* Something on its way will give k a document or delete its object.
Coming(k) ==
  \/ \E u \in uploads : u.date = k /\ u.pc = "stored"
  \/ \E d \in Devices, u \in Users : \E q \in 1..Len(queue[d][u]) : Settles(d, u, q, k)
  \/ \E d \in Devices : k \in erasing[d]

Faulted(k) == blame[k] \cap {"killed", "putFailed", "refusedSave", "eraseFailed"} # {}

OrphansSettle ==
  \A k \in Dates : documents[k] = NoUser /\ objects[k] # NoSave => Coming(k) \/ Faulted(k)

OInv == KilledBlamed /\ OrphansSettle

-----------------------------------------------------------------------------
\* Positions in the queues

LEMMA EnqueueKeeps ==
  ASSUME TypeOK, NEW d \in Devices, NEW w \in Write, Enqueue(d, w),
         NEW e \in Devices, NEW u \in Users, NEW q \in 1..Len(queue[e][u])
  PROVE  q \in 1..Len(queue'[e][u]) /\ queue'[e][u][q] = queue[e][u][q]
<1>1. queue[e][u] \in Seq(Write)
  BY DEF TypeOK
<1>2. queue'[e][u] = queue[e][u] \/ queue'[e][u] = Append(queue[e][u], w)
  BY EnqueueEffect DEF Mine
<1> QED
  BY <1>1, <1>2

LEMMA EnqueueLast ==
  ASSUME TypeOK, NEW d \in Devices, NEW w \in Write, Enqueue(d, w)
  PROVE  LET q == Len(Mine(d)) + 1 IN
         q \in 1..Len(queue'[d][user[d]]) /\ queue'[d][user[d]][q] = w /\ q > sent[d]
<1>1. Mine(d) \in Seq(Write) /\ queue'[d][user[d]] = Append(Mine(d), w) /\ sent[d] \in 0..Len(Mine(d))
  BY QueueFacts, EnqueueEffect
<1> QED
  BY <1>1

\* Every write stays, one place ahead on the queue that is dequeued, but its head.
LEMMA DequeueKeeps ==
  ASSUME TypeOK, NEW d \in Devices, Mine(d) # <<>>, Dequeue(d),
         NEW e \in Devices, NEW u \in Users, NEW q \in 1..Len(queue[e][u])
  PROVE  \/ /\ e # d \/ u # user[d]
            /\ q \in 1..Len(queue'[e][u])
            /\ queue'[e][u][q] = queue[e][u][q]
         \/ e = d /\ u = user[d] /\ q = 1 /\ queue[e][u][q] = Head(Mine(d))
         \/ /\ e = d /\ u = user[d] /\ q > 1
            /\ q - 1 \in 1..Len(queue'[e][u])
            /\ queue'[e][u][q - 1] = queue[e][u][q]
<1>1. CASE e = d /\ u = user[d]
  <2>1. queue[e][u] = Mine(d) /\ Mine(d) \in Seq(Write) /\ queue'[e][u] = Tail(Mine(d))
    BY <1>1, QueueFacts, DequeueEffect
  <2> QED
    BY <1>1, <2>1
<1>2. CASE e # d \/ u # user[d]
  BY <1>2, DequeueEffect
<1> QED
  BY <1>1, <1>2

-----------------------------------------------------------------------------
\* A lost callback is blamed

LEMMA NextKilledBlamed ==
  ASSUME TypeOK, KilledBlamed, [Next]_vars
  PROVE  KilledBlamed'
<1>1. ASSUME \A x : Queued(x)' => Queued(x) \/ (x \in Write /\ x.live), \A k \in Dates : blame[k] \subseteq blame'[k]
      PROVE  KilledBlamed'
  <2> SUFFICES ASSUME NEW w \in Write, Queued(w)', ~w.live
               PROVE  "killed" \in blame'[w.date]
    BY DEF KilledBlamed
  <2> QED
    BY <1>1, WriteFields DEF KilledBlamed
<1>2. ASSUME NEW d \in Devices, NEW by, NEW k \in Dates, NEW e \in Users, by \in {"save", "edit", "delete"},
             Enqueue(d, [by |-> by, date |-> k, email |-> e, live |-> TRUE]), blame' = blame
      PROVE  KilledBlamed'
  <2>1. PICK w \in Write : w = [by |-> by, date |-> k, email |-> e, live |-> TRUE]
    BY <1>2, WriteFacts
  <2>2. w.live
    BY <2>1
  <2>3. \A x : Queued(x)' => Queued(x) \/ x = w
    BY <1>2, <2>1, EnqueueQueued
  <2> QED
    BY <1>1, <1>2, <2>2, <2>3
<1>3. CASE \E u \in uploads : PutSucceeds(u)
  <2>1. PICK u \in uploads : PutSucceeds(u)
    BY <1>3
  <2> QED
    BY <2>1, <1>2, UploadFacts DEF PutSucceeds, history
<1>4. ASSUME NEW d \in Devices, NEW r \in rows[d], TapEdit(d, r) \/ TapDelete(d, r)
      PROVE  KilledBlamed'
  BY <1>2, <1>4, RowFacts DEF TapEdit, TapDelete, history
<1>5. ASSUME NEW d \in Devices, Ack(d) \/ Refuse(d)
      PROVE  KilledBlamed'
  <2>1. Dequeue(d) /\ Mine(d) # <<>>
    BY <1>5, SentNotEmpty DEF Ack, Refuse
  <2>2. \A k \in Dates : blame[k] \subseteq blame'[k]
    <3>1. CASE Ack(d)
      BY <3>1 DEF Ack, history
    <3>2. CASE Refuse(d)
      BY <3>2, HeadFacts, WriteFields, RefuseBlame, BlameEffect DEF Refuse
    <3> QED
      BY <1>5, <3>1, <3>2
  <2> QED
    BY <1>1, <2>1, <2>2, DequeueQueued
<1>6. ASSUME NEW d \in Devices, Kill(d)
      PROVE  KilledBlamed'
  <2> SUFFICES ASSUME NEW w \in Write, Queued(w)', ~w.live
               PROVE  "killed" \in blame'[w.date]
    BY DEF KilledBlamed
  <2>1. PICK e \in Devices, u \in Users : \E q \in 1..Len(queue'[e][u]) : queue'[e][u][q] = w
    BY DEF Queued
  <2>2. PICK q \in 1..Len(queue[e][u]) : queue'[e][u][q] = w
    BY <1>6, <2>1, KillEffect
  <2>3. w.date \in Dates /\ queue[e][u][q].date = w.date
    BY <1>6, <2>2, KillEffect, WriteFields
  <2>4. \A k \in Dates : blame[k] \subseteq blame'[k]
    BY <1>6 DEF Kill
  <2>5. CASE e = d
    <3>1. DOMAIN queue[e][u] = 1..Len(queue[e][u])
      BY DEF TypeOK
    <3>2. Waits(d, w.date)
      BY <2>3, <2>5, <3>1 DEF Waits
    <3> QED
      BY <1>6, <2>3, <3>2 DEF Kill
  <2>6. CASE e # d
    <3>1. queue'[e][u] = queue[e][u]
      BY <1>6, <2>6 DEF Kill, TypeOK
    <3>2. Queued(w)
      BY <2>2, <3>1 DEF Queued
    <3> QED
      BY <2>3, <2>4, <3>2 DEF KilledBlamed
  <2> QED
    BY <2>5, <2>6
<1>7. CASE queue' = queue /\ \A k \in Dates : blame[k] \subseteq blame'[k]
  BY <1>1, <1>7 DEF Queued
<1>8. \/ \E u \in uploads : PutSucceeds(u)
      \/ \E d \in Devices : \E r \in rows[d] : TapEdit(d, r) \/ TapDelete(d, r)
      \/ \E d \in Devices : Ack(d) \/ Refuse(d)
      \/ \E d \in Devices : Kill(d)
      \/ queue' = queue /\ \A k \in Dates : blame[k] \subseteq blame'[k]
  <2>1. ASSUME NEW k \in Dates, NEW cause, Blame(k, cause)
        PROVE  \A j \in Dates : blame[j] \subseteq blame'[j]
    BY <2>1 DEF Blame, TypeOK
  <2>2. ASSUME NEW u \in uploads, PutFails(u)
        PROVE  queue' = queue /\ \A k \in Dates : blame[k] \subseteq blame'[k]
    BY <2>1, <2>2, UploadFacts DEF PutFails, deviceVars
  <2>3. ASSUME NEW d \in Devices, Apply(d)
        PROVE  queue' = queue /\ \A k \in Dates : blame[k] \subseteq blame'[k]
    BY <2>1, <2>3, NextWrite, WriteFields DEF Apply
  <2>4. ASSUME NEW d \in Devices, NEW k \in Dates, EraseFails(d, k)
        PROVE  queue' = queue /\ \A j \in Dates : blame[j] \subseteq blame'[j]
    BY <2>1, <2>4 DEF EraseFails
  <2> QED
    BY <2>2, <2>3, <2>4 DEF Next, vars, deviceVars, history, TapSave, StoreObject, Reload, Look, StreamBreaks,
       EraseDone, SwitchUser
<1> QED
  BY <1>3, <1>4, <1>5, <1>6, <1>7, <1>8

-----------------------------------------------------------------------------
\* What an orphan waits for comes, or is blamed for not coming

BlameGrows == \A k \in Dates : blame[k] \subseteq blame'[k]

\* A step that leaves the cloud as it is leaves an orphan what it waits for, or
\* blames something.
LEMMA KeepSettling ==
  ASSUME OrphansSettle, UNCHANGED <<documents, objects>>, BlameGrows,
         \A k \in Dates : Coming(k) => Coming(k)' \/ Faulted(k)'
  PROVE  OrphansSettle'
<1>1. \A k \in Dates : Faulted(k) => Faulted(k)'
  BY DEF BlameGrows, Faulted
<1> QED
  BY <1>1 DEF OrphansSettle

LEMMA CauseBlamed ==
  ASSUME TypeOK, NEW k \in Dates, NEW cause \in Causes, Blame(k, cause)
  PROVE  /\ BlameGrows
         /\ cause \in {"killed", "putFailed", "refusedSave", "eraseFailed"} => Faulted(k)'
BY BlameEffect DEF BlameGrows, Faulted

\* The queues, the uploads and the deletes of objects as they were, or more of
\* them: nothing that was coming is lost.
LEMMA NothingLost ==
  ASSUME NEW k \in Dates, Coming(k), UNCHANGED user,
         \A u \in uploads : u.pc = "stored" => u \in uploads',
         \A d \in Devices : erasing[d] \subseteq erasing'[d],
         \A d \in Devices, u \in Users : \A q \in 1..Len(queue[d][u]) :
           Settles(d, u, q, k) => q \in 1..Len(queue'[d][u]) /\ queue'[d][u][q] = queue[d][u][q],
         sent' = sent
  PROVE  Coming(k)'
<1>1. CASE \E u \in uploads : u.date = k /\ u.pc = "stored"
  BY <1>1 DEF Coming
<1>2. CASE \E d \in Devices, u \in Users : \E q \in 1..Len(queue[d][u]) : Settles(d, u, q, k)
  <2>1. PICK d \in Devices, u \in Users : \E q \in 1..Len(queue[d][u]) : Settles(d, u, q, k)
    BY <1>2
  <2>2. PICK q \in 1..Len(queue[d][u]) : Settles(d, u, q, k)
    BY <2>1
  <2>3. q \in 1..Len(queue'[d][u]) /\ Settles(d, u, q, k)'
    BY <2>2 DEF Settles
  <2> QED
    BY <2>3 DEF Coming
<1>3. CASE \E d \in Devices : k \in erasing[d]
  BY <1>3 DEF Coming
<1> QED
  BY <1>1, <1>2, <1>3 DEF Coming

LEMMA SettleTapSave ==
  ASSUME TypeOK, OInv, NEW s \in Saves, NEW d \in Devices, NEW k \in Dates, TapSave(s, d, k)
  PROVE  OrphansSettle'
<1>1. UNCHANGED <<documents, objects, user, queue, sent, erasing, blame>> /\ uploads \subseteq uploads'
  BY DEF TapSave, cloudVars, deviceVars, history
<1>2. \A j \in Dates : Coming(j) => Coming(j)'
  BY <1>1, NothingLost
<1> QED
  BY <1>1, <1>2, KeepSettling DEF OInv, BlameGrows

\* A new object waits for its success handler.
LEMMA SettleStoreObject ==
  ASSUME TypeOK, OInv, NEW u \in uploads, StoreObject(u)
  PROVE  OrphansSettle'
<1> DEFINE v == [u EXCEPT !.pc = "stored"]
<1>1. v.date = u.date /\ v.pc = "stored" /\ u.pc = "putting" /\ u.date \in Dates
  BY UploadFacts DEF Upload, StoreObject
<1>2. /\ UNCHANGED <<documents, user, queue, sent, erasing, blame>>
      /\ uploads' = (uploads \ {u}) \cup {v}
      /\ \A k \in Dates : k # u.date => objects'[k] = objects[k]
  BY DEF StoreObject, Turn, deviceVars, history, TypeOK
<1> HIDE DEF v
<1> SUFFICES ASSUME NEW k \in Dates, documents'[k] = NoUser, objects'[k] # NoSave
             PROVE  Coming(k)' \/ Faulted(k)'
  BY DEF OrphansSettle
<1>3. CASE k = u.date
  BY <1>1, <1>2, <1>3 DEF Coming
<1>4. CASE k # u.date
  <2>1. Coming(k) \/ Faulted(k)
    BY <1>2, <1>4 DEF OInv, OrphansSettle
  <2>2. Coming(k) => Coming(k)'
    BY <1>1, <1>2, NothingLost
  <2> QED
    BY <1>2, <2>1, <2>2 DEF Faulted
<1> QED
  BY <1>3, <1>4

\* The document is queued.
LEMMA SettlePutSucceeds ==
  ASSUME TypeOK, OInv, NEW u \in uploads, PutSucceeds(u)
  PROVE  OrphansSettle'
<1>1. PICK w \in Write : w = [by |-> "save", date |-> u.date, email |-> u.email, live |-> TRUE]
  BY UploadFacts, WriteFacts
<1>2. /\ UNCHANGED <<documents, objects, user, sent, erasing, blame>>
      /\ Enqueue(u.device, w)
      /\ uploads \ {u} \subseteq uploads'
  BY <1>1 DEF PutSucceeds, Turn, cloudVars, history
<1>3. u.device \in Devices
  BY UploadFacts
<1> SUFFICES ASSUME NEW k \in Dates, Coming(k)
             PROVE  Coming(k)'
  BY <1>2, KeepSettling DEF OInv, BlameGrows
<1>4. CASE k = u.date
  <2>1. PICK q \in 1..Len(queue'[u.device][user[u.device]]) :
          queue'[u.device][user[u.device]][q] = w /\ q > sent[u.device]
    BY <1>2, <1>3, EnqueueLast
  <2>2. Settles(u.device, user[u.device], q, k)'
    <3>1. w.by = "save" /\ w.date = k
      BY <1>1, <1>4
    <3> QED
      BY <1>2, <2>1, <3>1 DEF Settles
  <2>3. user[u.device] \in Users
    BY <1>3, QueueFacts
  <2> QED
    BY <1>2, <1>3, <2>2, <2>3 DEF Coming
<1>5. CASE k # u.date
  <2>1. CASE \E x \in uploads : x.date = k /\ x.pc = "stored"
    BY <1>2, <1>5, <2>1 DEF Coming
  <2>2. CASE \E d \in Devices, x \in Users : \E q \in 1..Len(queue[d][x]) : Settles(d, x, q, k)
    <3>1. PICK d \in Devices, x \in Users : \E q \in 1..Len(queue[d][x]) : Settles(d, x, q, k)
      BY <2>2
    <3>2. PICK q \in 1..Len(queue[d][x]) : Settles(d, x, q, k)
      BY <3>1
    <3>3. q \in 1..Len(queue'[d][x]) /\ queue'[d][x][q] = queue[d][x][q]
      BY <1>2, <1>3, EnqueueKeeps
    <3>4. Settles(d, x, q, k)'
      BY <1>2, <3>2, <3>3 DEF Settles
    <3> QED
      BY <3>3, <3>4 DEF Coming
  <2>3. CASE \E d \in Devices : k \in erasing[d]
    BY <1>2, <2>3 DEF Coming
  <2> QED
    BY <2>1, <2>2, <2>3 DEF Coming
<1> QED
  BY <1>4, <1>5

LEMMA SettlePutFails ==
  ASSUME TypeOK, OInv, NEW u \in uploads, PutFails(u)
  PROVE  OrphansSettle'
<1>1. /\ UNCHANGED <<documents, objects, user, queue, sent, erasing>>
      /\ uploads \ {u} \subseteq uploads'
  BY DEF PutFails, Turn, cloudVars, deviceVars
<1>2. BlameGrows /\ Faulted(u.date)'
  BY UploadFacts, CauseBlamed DEF PutFails, Causes
<1>3. ASSUME NEW k \in Dates, Coming(k)
      PROVE  Coming(k)' \/ Faulted(k)'
  BY <1>1, <1>2, <1>3 DEF Coming, Settles
<1> QED
  BY <1>1, <1>2, <1>3, KeepSettling DEF OInv

\* Queueing a write of a row.
LEMMA SettleTap ==
  ASSUME TypeOK, OInv, NEW d \in Devices, NEW r \in rows[d], TapEdit(d, r) \/ TapDelete(d, r)
  PROVE  OrphansSettle'
<1>1. PICK by \in {"edit", "delete"} :
        Enqueue(d, [by |-> by, date |-> r.date, email |-> r.email, live |-> TRUE])
  BY DEF TapEdit, TapDelete
<1>2. PICK w \in Write : w = [by |-> by, date |-> r.date, email |-> r.email, live |-> TRUE]
  BY RowFacts, WriteFacts
<1>3. UNCHANGED <<documents, objects, user, sent, erasing, uploads, blame>>
  BY DEF TapEdit, TapDelete, cloudVars, history
<1>4. \A e \in Devices, u \in Users : \A q \in 1..Len(queue[e][u]) :
        q \in 1..Len(queue'[e][u]) /\ queue'[e][u][q] = queue[e][u][q]
  BY <1>1, <1>2, EnqueueKeeps
<1>5. \A k \in Dates : Coming(k) => Coming(k)'
  BY <1>3, <1>4, NothingLost
<1> QED
  BY <1>3, <1>5, KeepSettling DEF OInv, BlameGrows

LEMMA SettleLook ==
  ASSUME TypeOK, OInv, NEW d \in Devices, Reload(d) \/ \E k \in Dates : Look(d, k)
  PROVE  OrphansSettle'
<1>1. UNCHANGED <<documents, objects, user, queue, sent, erasing, uploads, blame>>
  BY DEF Reload, Look, cloudVars, history
<1>2. \A j \in Dates : Coming(j) => Coming(j)'
  BY <1>1, NothingLost
<1> QED
  BY <1>1, <1>2, KeepSettling DEF OInv, BlameGrows

\* A save that is applied leaves a document; a delete leaves an orphan, and its
\* own callback.
LEMMA SettleApply ==
  ASSUME TypeOK, OInv, NEW d \in Devices, Apply(d)
  PROVE  OrphansSettle'
<1> DEFINE p == sent[d] + 1
<1>1. PICK w \in Write : w = Mine(d)[p]
  BY NextWrite
<1>2. p \in 1..Len(Mine(d)) /\ Queued(w)
  BY <1>1, NextWrite
<1>3. /\ UNCHANGED <<objects, user, queue, erasing, uploads>>
      /\ documents' = [documents EXCEPT ![w.date] = Result(w)]
      /\ sent' = [sent EXCEPT ![d] = p]
      /\ Blame(w.date, "revived") \/ UNCHANGED blame
  BY <1>1 DEF Apply
<1>4. w.date \in Dates /\ (Result(w) # NoUser <=> w.by # "delete")
  BY WriteFields
<1>5. BlameGrows
  BY <1>3, <1>4, CauseBlamed DEF BlameGrows, Causes
<1>6. Mine(d) = queue[d][user[d]] /\ user[d] \in Users /\ sent[d] \in Nat
  BY QueueFacts
<1>7. \A e \in Devices : sent'[e] = IF e = d THEN p ELSE sent[e]
  BY <1>3 DEF TypeOK
<1> SUFFICES ASSUME NEW k \in Dates, documents'[k] = NoUser, objects'[k] # NoSave
             PROVE  Coming(k)' \/ Faulted(k)'
  BY DEF OrphansSettle
<1>8. CASE k = w.date
  <2>1. w.by = "delete"
    BY <1>3, <1>4, <1>8 DEF TypeOK
  <2>2. CASE w.live
    <3>1. Settles(d, user[d], p, k)
      BY <1>1, <1>6, <1>8, <2>1, <2>2 DEF Settles
    <3>2. PICK u \in Users : u = user[d]
      BY <1>6
    <3>3. PICK q \in 1..Len(queue[d][u]) : q = p
      BY <1>2, <1>6, <3>2
    <3>4. Settles(d, u, q, k)'
      BY <1>1, <1>3, <1>6, <1>8, <2>1, <2>2, <3>2, <3>3 DEF Settles
    <3> QED
      BY <1>3, <3>4 DEF Coming
  <2>3. CASE ~w.live
    <3>1. "killed" \in blame[k]
      BY <1>2, <1>8, <2>3 DEF OInv, KilledBlamed
    <3> QED
      BY <1>5, <3>1 DEF BlameGrows, Faulted
  <2> QED
    BY <2>2, <2>3
<1>9. CASE k # w.date
  <2>1. documents[k] = NoUser /\ objects[k] # NoSave
    BY <1>3, <1>9 DEF TypeOK
  <2>2. Faulted(k) => Faulted(k)'
    BY <1>5 DEF BlameGrows, Faulted
  <2>3. ASSUME NEW e \in Devices, NEW u \in Users, NEW q \in 1..Len(queue[e][u]), Settles(e, u, q, k)
        PROVE  Settles(e, u, q, k)'
    <3>1. ~(e = d /\ u = user[d] /\ q = p)
      BY <1>1, <1>6, <1>9, <2>3 DEF Settles
    <3>2. queue[e][u][q].by = "save" /\ u = user[e] => q > sent'[e]
      <4>1. Len(queue[e][u]) \in Nat
        BY DEF TypeOK
      <4> QED
        BY <1>6, <1>7, <2>3, <3>1, <4>1 DEF Settles
    <3> QED
      BY <1>3, <2>3, <3>2 DEF Settles
  <2>4. Coming(k) => Coming(k)'
    BY <1>3, <2>3 DEF Coming
  <2> QED
    BY <2>1, <2>2, <2>4 DEF OInv, OrphansSettle
<1> QED
  BY <1>8, <1>9

\* The write that an answer takes off the queue either left its document when it
\* was sent, or is refused, or its callback deletes the object.
LEMMA SettleAnswer ==
  ASSUME TypeOK, OInv, NEW d \in Devices, NEW w \in Write, w = Head(Mine(d)), Mine(d) # <<>>,
         Dequeue(d), Answered(d, w), BlameGrows,
         UNCHANGED <<documents, objects, user, uploads>>,
         \/ sent[d] > 0 /\ sent' = [sent EXCEPT ![d] = @ - 1]
         \/ sent' = sent /\ sent[d] = 0 /\ (w.by = "save" => Faulted(w.date)')
  PROVE  OrphansSettle'
<1>1. sent[d] \in Nat /\ \A e \in Devices : e # d => sent'[e] = sent[e]
  BY DEF TypeOK
<1>2. \A e \in Devices : erasing[e] \subseteq erasing'[e]
  BY DEF Answered, TypeOK
<1>3. w.by = "delete" /\ w.live => w.date \in erasing'[d]
  BY DEF Answered, TypeOK
<1> SUFFICES ASSUME NEW k \in Dates, Coming(k)
             PROVE  Coming(k)' \/ Faulted(k)'
  BY KeepSettling DEF OInv
<1>4. CASE \E e \in Devices, u \in Users : \E q \in 1..Len(queue[e][u]) : Settles(e, u, q, k)
  <2>1. PICK e \in Devices, u \in Users : \E q \in 1..Len(queue[e][u]) : Settles(e, u, q, k)
    BY <1>4
  <2>2. PICK q \in 1..Len(queue[e][u]) : Settles(e, u, q, k)
    BY <2>1
  <2>3. CASE e # d \/ u # user[d]
    <3>1. q \in 1..Len(queue'[e][u]) /\ queue'[e][u][q] = queue[e][u][q]
      BY <2>3, DequeueKeeps
    <3>2. Settles(e, u, q, k)'
      BY <1>1, <2>2, <2>3, <3>1 DEF Settles
    <3> QED
      BY <3>1, <3>2 DEF Coming
  <2>4. CASE e = d /\ u = user[d] /\ q = 1
    <3>1. queue[e][u][q] = w
      BY <2>4, DequeueKeeps
    <3>2. CASE w.by = "save"
      BY <1>1, <2>2, <2>4, <3>1, <3>2 DEF Settles
    <3>3. CASE w.by = "delete" /\ w.live
      BY <1>3, <2>2, <3>1, <3>3 DEF Settles, Coming
    <3> QED
      BY <2>2, <3>1, <3>2, <3>3 DEF Settles
  <2>5. CASE e = d /\ u = user[d] /\ q # 1
    <3>1. PICK p \in 1..Len(queue'[e][u]) : p = q - 1 /\ queue'[e][u][p] = queue[e][u][q]
      BY <2>5, DequeueKeeps
    <3>2. q \in Nat /\ q > 1
      <4>1. Len(queue[e][u]) \in Nat
        BY DEF TypeOK
      <4> QED
        BY <2>5, <4>1
    <3>3. q > sent[d] => p > sent'[d]
      BY <1>1, <3>1, <3>2 DEF TypeOK
    <3>4. Settles(e, u, p, k)'
      BY <2>2, <2>5, <3>1, <3>3 DEF Settles
    <3> QED
      BY <3>4 DEF Coming
  <2> QED
    BY <2>3, <2>4, <2>5
<1>5. CASE \E u \in uploads : u.date = k /\ u.pc = "stored"
  BY <1>5 DEF Coming
<1>6. CASE \E e \in Devices : k \in erasing[e]
  BY <1>2, <1>6 DEF Coming
<1> QED
  BY <1>4, <1>5, <1>6 DEF Coming

LEMMA SettleAck ==
  ASSUME TypeOK, OInv, NEW d \in Devices, Ack(d)
  PROVE  OrphansSettle'
<1>1. Mine(d) # <<>>
  BY SentNotEmpty DEF Ack
<1>2. PICK w \in Write : w = Head(Mine(d))
  BY <1>1, HeadFacts
<1>3. BlameGrows
  BY DEF Ack, history, BlameGrows
<1> QED
  BY <1>1, <1>2, <1>3, SettleAnswer DEF Ack, cloudVars

LEMMA SettleRefuse ==
  ASSUME TypeOK, OInv, NEW d \in Devices, Refuse(d)
  PROVE  OrphansSettle'
<1>1. Mine(d) # <<>>
  BY DEF Refuse
<1>2. PICK w \in Write : w = Head(Mine(d))
  BY <1>1, HeadFacts
<1>3. PICK cause \in Causes : Blame(w.date, cause) /\ (w.by = "save" => cause = "refusedSave")
  BY <1>2, WriteFields DEF Refuse, Causes
<1>4. BlameGrows /\ (w.by = "save" => Faulted(w.date)')
  BY <1>3, WriteFields, CauseBlamed
<1> QED
  BY <1>1, <1>2, <1>4, SettleAnswer DEF Refuse, cloudVars

\* With nothing sent, all that waits is still to be applied.
LEMMA SettleUnsent ==
  ASSUME TypeOK, OInv, NEW d \in Devices, StreamBreaks(d) \/ \E u \in Users : SwitchUser(d, u)
  PROVE  OrphansSettle'
<1>1. /\ UNCHANGED <<documents, objects, queue, erasing, uploads, blame>>
      /\ sent' = [sent EXCEPT ![d] = 0]
      /\ \A e \in Devices : e # d => user'[e] = user[e]
  BY DEF StreamBreaks, SwitchUser, cloudVars, history, TypeOK
<1>2. sent'[d] = 0 /\ \A e \in Devices : e # d => sent'[e] = sent[e]
  BY <1>1 DEF TypeOK
<1>3. ASSUME NEW k \in Dates, NEW e \in Devices, NEW u \in Users, NEW q \in 1..Len(queue[e][u]), Settles(e, u, q, k)
      PROVE  Settles(e, u, q, k)'
  <2>1. q > 0
    BY DEF TypeOK
  <2> QED
    BY <1>1, <1>2, <1>3, <2>1 DEF Settles
<1>4. \A k \in Dates : Coming(k) => Coming(k)'
  BY <1>1, <1>3 DEF Coming
<1> QED
  BY <1>1, <1>4, KeepSettling DEF OInv, BlameGrows

LEMMA SettleEraseDone ==
  ASSUME TypeOK, OInv, NEW d \in Devices, NEW k \in Dates, EraseDone(d, k)
  PROVE  OrphansSettle'
<1>1. /\ UNCHANGED <<documents, user, queue, sent, uploads, blame>>
      /\ objects'[k] = NoSave
      /\ \A j \in Dates : j # k => objects'[j] = objects[j]
      /\ \A e \in Devices : erasing[e] \ {k} \subseteq erasing'[e]
  BY DEF EraseDone, history, TypeOK
<1> SUFFICES ASSUME NEW j \in Dates, j # k, documents[j] = NoUser, objects[j] # NoSave
             PROVE  Coming(j)' \/ Faulted(j)'
  BY <1>1 DEF OrphansSettle
<1>2. Coming(j) => Coming(j)'
  BY <1>1 DEF Coming, Settles
<1>3. Faulted(j) => Faulted(j)'
  BY <1>1 DEF Faulted
<1> QED
  BY <1>2, <1>3 DEF OInv, OrphansSettle

LEMMA SettleEraseFails ==
  ASSUME TypeOK, OInv, NEW d \in Devices, NEW k \in Dates, EraseFails(d, k)
  PROVE  OrphansSettle'
<1>1. /\ UNCHANGED <<documents, objects, user, queue, sent, uploads>>
      /\ \A e \in Devices : erasing[e] \ {k} \subseteq erasing'[e]
  BY DEF EraseFails, cloudVars, TypeOK
<1>2. BlameGrows /\ Faulted(k)'
  BY CauseBlamed DEF EraseFails, Causes
<1>3. ASSUME NEW j \in Dates, Coming(j)
      PROVE  Coming(j)' \/ Faulted(j)'
  <2>1. CASE j = k
    BY <1>2, <2>1
  <2>2. CASE j # k
    BY <1>1, <1>3, <2>2 DEF Coming, Settles
  <2> QED
    BY <2>1, <2>2
<1> QED
  BY <1>1, <1>2, <1>3, KeepSettling DEF OInv

\* Whatever was on its way on the device is blamed.
LEMMA SettleKill ==
  ASSUME TypeOK, OInv, NEW d \in Devices, Kill(d)
  PROVE  OrphansSettle'
<1>1. /\ UNCHANGED <<documents, objects, user>>
      /\ \A e \in Devices : e # d => /\ queue'[e] = queue[e]
                                     /\ sent'[e] = sent[e]
                                     /\ erasing'[e] = erasing[e]
      /\ \A u \in uploads : u.device # d => u \in uploads'
  BY DEF Kill, cloudVars, TypeOK
<1>2. BlameGrows
  BY DEF Kill, BlameGrows
<1>3. \A k \in Dates : Waits(d, k) \/ Uploads(d, k) \/ k \in erasing[d] => Faulted(k)'
  BY DEF Kill, Faulted
<1> SUFFICES ASSUME NEW k \in Dates, Coming(k)
             PROVE  Coming(k)' \/ Faulted(k)'
  BY <1>1, <1>2, KeepSettling DEF OInv
<1>4. CASE \E u \in uploads : u.date = k /\ u.pc = "stored"
  <2>1. PICK u \in uploads : u.date = k /\ u.pc = "stored"
    BY <1>4
  <2>2. CASE u.device = d
    BY <1>3, <2>1, <2>2 DEF Uploads
  <2>3. CASE u.device # d
    BY <1>1, <2>1, <2>3 DEF Coming
  <2> QED
    BY <2>2, <2>3
<1>5. CASE \E e \in Devices, u \in Users : \E q \in 1..Len(queue[e][u]) : Settles(e, u, q, k)
  <2>1. PICK e \in Devices, u \in Users : \E q \in 1..Len(queue[e][u]) : Settles(e, u, q, k)
    BY <1>5
  <2>2. PICK q \in 1..Len(queue[e][u]) : Settles(e, u, q, k)
    BY <2>1
  <2>3. CASE e = d
    <3>1. q \in DOMAIN queue[e][u]
      BY DEF TypeOK
    <3>2. Waits(d, k)
      BY <2>2, <2>3, <3>1 DEF Waits, Settles
    <3> QED
      BY <1>3, <3>2
  <2>4. CASE e # d
    <3>1. q \in 1..Len(queue'[e][u]) /\ Settles(e, u, q, k)'
      BY <1>1, <2>2, <2>4 DEF Settles
    <3> QED
      BY <3>1 DEF Coming
  <2> QED
    BY <2>3, <2>4
<1>6. CASE \E e \in Devices : k \in erasing[e]
  BY <1>1, <1>3, <1>6 DEF Coming
<1> QED
  BY <1>4, <1>5, <1>6 DEF Coming

-----------------------------------------------------------------------------
\* Theorem

LEMMA InitOInv == Init => OInv
<1> SUFFICES ASSUME Init
             PROVE  OInv
  OBVIOUS
<1>1. \A w : ~Queued(w)
  <2>1. \A d \in Devices, u \in Users : Len(queue[d][u]) = 0
    BY DEF Init
  <2> QED
    BY <2>1 DEF Queued
<1> QED
  BY <1>1 DEF Init, OInv, KilledBlamed, OrphansSettle

LEMMA NextOInv == TypeOK /\ OInv /\ [Next]_vars => OInv'
<1> SUFFICES ASSUME TypeOK, OInv, [Next]_vars
             PROVE  OrphansSettle'
  BY NextKilledBlamed DEF OInv
<1>1. CASE \E s \in Saves, d \in Devices, k \in Dates : TapSave(s, d, k)
  BY <1>1, SettleTapSave
<1>2. CASE \E u \in uploads : StoreObject(u) \/ PutSucceeds(u) \/ PutFails(u)
  BY <1>2, SettleStoreObject, SettlePutSucceeds, SettlePutFails
<1>3. CASE \E d \in Devices : Reload(d) \/ Apply(d) \/ Ack(d) \/ Refuse(d) \/ StreamBreaks(d) \/ Kill(d)
  BY <1>3, SettleLook, SettleApply, SettleAck, SettleRefuse, SettleUnsent, SettleKill
<1>4. CASE \E d \in Devices, k \in Dates : Look(d, k) \/ EraseDone(d, k) \/ EraseFails(d, k)
  BY <1>4, SettleLook, SettleEraseDone, SettleEraseFails
<1>5. CASE \E d \in Devices : \E r \in rows[d] : TapEdit(d, r) \/ TapDelete(d, r)
  BY <1>5, SettleTap
<1>6. CASE \E d \in Devices, u \in Users : SwitchUser(d, u)
  BY <1>6, SettleUnsent
<1>7. CASE UNCHANGED vars
  BY <1>7 DEF vars, cloudVars, deviceVars, history, OInv, OrphansSettle, Coming, Settles, Faulted
<1> QED
  BY <1>1, <1>2, <1>3, <1>4, <1>5, <1>6, <1>7 DEF Next

\* An object without a document, once nothing about it is on its way, comes of a
\* process that ended, an upload or a delete that failed, or a refused save:
\* never of the order in which devices, streams and users did their work.
THEOREM OrphanIsExplained == Spec => []OrphanExplained
<1>1. Init => OInv
  BY InitOInv
<1>2. TypeOK /\ OInv /\ [Next]_vars => OInv'
  BY NextOInv
<1>3. TypeOK /\ OInv => OrphanExplained
  <2> SUFFICES ASSUME TypeOK, OInv, NEW k \in Dates, Quiet(k), documents[k] = NoUser, objects[k] # NoSave
               PROVE  Faulted(k)
    BY DEF OrphanExplained, Faulted
  <2>1. ~ \E u \in uploads : u.date = k /\ u.pc = "stored"
    BY UploadFacts DEF Quiet, Uploads
  <2>2. ~ \E d \in Devices, u \in Users : \E q \in 1..Len(queue[d][u]) : Settles(d, u, q, k)
    <3>1. \A d \in Devices, u \in Users : DOMAIN queue[d][u] = 1..Len(queue[d][u])
      BY DEF TypeOK
    <3> QED
      BY <3>1 DEF Quiet, Waits, Settles
  <2>3. ~ \E d \in Devices : k \in erasing[d]
    BY DEF Quiet
  <2> QED
    BY <2>1, <2>2, <2>3 DEF OInv, OrphansSettle, Coming
<1> QED
  BY <1>1, <1>2, <1>3, TypeCorrect, PTL DEF Spec

=============================================================================
