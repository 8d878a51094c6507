---------------------------- MODULE PicturesProofs ----------------------------
(***************************************************************************)
(* Proofs about Pictures, for any devices, users, pictures, saves and      *)
(* bound: types, what a document without an object comes of, and that the  *)
(* life of each picture is the one of PictureLifecycle.                    *)
(***************************************************************************)
EXTENDS Pictures, SequenceTheorems, TLAPS

-----------------------------------------------------------------------------
\* The inductive invariant

Queued(w) ==
  \E d \in Devices, u \in Users : \E q \in 1..Len(queue[d][u]) : queue[d][u][q] = w

\* The object of k may be gone: the server deleted the document once, or
\* refused to.
Gone(k) == k \in dropped \/ "refusedDelete" \in blame[k]

Present(k) == objects[k] # NoSave \/ Gone(k)

\* Whatever lists a picture, or is about to, finds its object.
DocumentsPresent == \A k \in Dates : documents[k] # NoUser => Present(k)
WritesPresent == \A w \in Write : Queued(w) /\ w.by # "delete" => Present(w.date)
UploadsPresent == \A u \in uploads : u.pc = "stored" => Present(u.date)
RowsPresent == \A d \in Devices : \A r \in rows[d] : Present(r.date)

\* An object is deleted only after an answer to the delete of the document, ...
ErasingGone == \A d \in Devices : \A k \in erasing[d] : Gone(k)

\* ... which the server applied if it was sent.
SentDropped ==
  \A d \in Devices : \A q \in 1..sent[d] : Mine(d)[q].by = "delete" => Mine(d)[q].date \in dropped

\* All of it was asked for.
DeletesAsked ==
  /\ \A w \in Write : Queued(w) /\ w.by = "delete" => w.date \in asked
  /\ \A k \in Dates : Gone(k) => k \in asked

\* A document that is there after its delete was written again.
DroppedRevived ==
  \A k \in Dates : k \in dropped /\ documents[k] # NoUser => "revived" \in blame[k]

IInv ==
  /\ TypeOK
  /\ DocumentsPresent
  /\ WritesPresent
  /\ UploadsPresent
  /\ RowsPresent
  /\ ErasingGone
  /\ SentDropped
  /\ DeletesAsked
  /\ DroppedRevived

-----------------------------------------------------------------------------
\* The queues

LEMMA QueueFacts ==
  ASSUME TypeOK, NEW d \in Devices
  PROVE  /\ user[d] \in Users
         /\ Mine(d) = queue[d][user[d]]
         /\ Mine(d) \in Seq(Write)
         /\ Len(Mine(d)) \in Nat
         /\ sent[d] \in 0..Len(Mine(d))
BY DEF TypeOK, Mine

LEMMA EnqueueEffect ==
  ASSUME TypeOK, NEW d \in Devices, NEW w \in Write, Enqueue(d, w)
  PROVE  /\ queue' \in [Devices -> [Users -> Seq(Write)]]
         /\ queue'[d][user[d]] = Append(Mine(d), w)
         /\ \A e \in Devices, u \in Users :
              e # d \/ u # user[d] => queue'[e][u] = queue[e][u]
BY DEF TypeOK, Enqueue, Mine

LEMMA DequeueEffect ==
  ASSUME TypeOK, NEW d \in Devices, Mine(d) # <<>>, Dequeue(d)
  PROVE  /\ queue' \in [Devices -> [Users -> Seq(Write)]]
         /\ queue'[d][user[d]] = Tail(Mine(d))
         /\ \A e \in Devices, u \in Users :
              e # d \/ u # user[d] => queue'[e][u] = queue[e][u]
BY DEF TypeOK, Dequeue, Mine

LEMMA KillEffect ==
  ASSUME TypeOK, NEW d \in Devices, Kill(d)
  PROVE  /\ queue' \in [Devices -> [Users -> Seq(Write)]]
         /\ \A e \in Devices, u \in Users :
              /\ Len(queue'[e][u]) = Len(queue[e][u])
              /\ \A q \in 1..Len(queue[e][u]) :
                   /\ queue'[e][u][q].by = queue[e][u][q].by
                   /\ queue'[e][u][q].date = queue[e][u][q].date
                   /\ queue'[e][u][q].email = queue[e][u][q].email
<1> DEFINE Killed(s) == [q \in DOMAIN s |-> [s[q] EXCEPT !.live = FALSE]]
<1>1. ASSUME NEW s \in Seq(Write)
      PROVE  /\ Killed(s) \in Seq(Write)
             /\ Len(Killed(s)) = Len(s)
             /\ \A q \in 1..Len(s) : /\ Killed(s)[q].by = s[q].by
                                    /\ Killed(s)[q].date = s[q].date
                                    /\ Killed(s)[q].email = s[q].email
  <2>1. \A q \in 1..Len(s) : s[q] \in Write
    OBVIOUS
  <2>2. Killed(s) \in [1..Len(s) -> Write]
    <3>1. \A q \in 1..Len(s) : [s[q] EXCEPT !.live = FALSE] \in Write
      BY <2>1 DEF Write
    <3>2. DOMAIN s = 1..Len(s)
      OBVIOUS
    <3> QED
      BY <3>1, <3>2
  <2>3. Killed(s) \in Seq(Write) /\ Len(Killed(s)) = Len(s)
    BY <2>2
  <2>4. \A q \in 1..Len(s) : /\ Killed(s)[q].by = s[q].by
                             /\ Killed(s)[q].date = s[q].date
                             /\ Killed(s)[q].email = s[q].email
    BY <2>1 DEF Write
  <2> QED
    BY <2>3, <2>4
<1> HIDE DEF Killed
<1>2. queue' = [queue EXCEPT ![d] = [u \in Users |-> Killed(queue[d][u])]]
  BY DEF Kill, Killed
<1>3. \A u \in Users : queue'[d][u] = Killed(queue[d][u])
  BY <1>2 DEF TypeOK
<1>4. \A e \in Devices, u \in Users : e # d => queue'[e][u] = queue[e][u]
  BY <1>2 DEF TypeOK
<1>5. queue' \in [Devices -> [Users -> Seq(Write)]]
  BY <1>1, <1>2 DEF TypeOK
<1>6. \A u \in Users : queue[d][u] \in Seq(Write)
  BY DEF TypeOK
<1> SUFFICES ASSUME NEW e \in Devices, NEW u \in Users
             PROVE  /\ Len(queue'[e][u]) = Len(queue[e][u])
                    /\ \A q \in 1..Len(queue[e][u]) :
                         /\ queue'[e][u][q].by = queue[e][u][q].by
                         /\ queue'[e][u][q].date = queue[e][u][q].date
                         /\ queue'[e][u][q].email = queue[e][u][q].email
  BY <1>5
<1>7. CASE e = d
  BY <1>1, <1>3, <1>6, <1>7
<1>8. CASE e # d
  BY <1>4, <1>8
<1> QED
  BY <1>7, <1>8

\* What waits after a step waited before it, or is what the step queued.

LEMMA EnqueueQueued ==
  ASSUME TypeOK, NEW d \in Devices, NEW w \in Write, Enqueue(d, w)
  PROVE  \A x : Queued(x)' => Queued(x) \/ x = w
<1> SUFFICES ASSUME NEW e \in Devices, NEW u \in Users, NEW q \in 1..Len(queue'[e][u])
             PROVE  \/ queue'[e][u][q] = w
                    \/ q \in 1..Len(queue[e][u]) /\ queue'[e][u][q] = queue[e][u][q]
  BY DEF Queued
<1>1. CASE e = d /\ u = user[d]
  <2>1. queue'[e][u] = Append(queue[e][u], w)
    BY <1>1, EnqueueEffect DEF Mine
  <2>2. queue[e][u] \in Seq(Write)
    BY DEF TypeOK
  <2> QED
    BY <2>1, <2>2
<1>2. CASE ~(e = d /\ u = user[d])
  BY <1>2, EnqueueEffect
<1> QED
  BY <1>1, <1>2

LEMMA DequeueQueued ==
  ASSUME TypeOK, NEW d \in Devices, Mine(d) # <<>>, Dequeue(d)
  PROVE  \A x : Queued(x)' => Queued(x)
<1> SUFFICES ASSUME NEW e \in Devices, NEW u \in Users, NEW q \in 1..Len(queue'[e][u])
             PROVE  \E p \in 1..Len(queue[e][u]) : queue'[e][u][q] = queue[e][u][p]
  BY DEF Queued
<1>1. CASE e = d /\ u = user[d]
  <2>1. queue'[e][u] = Tail(queue[e][u])
    BY <1>1, DequeueEffect DEF Mine
  <2>2. queue[e][u] \in Seq(Write) /\ queue[e][u] # <<>>
    BY <1>1 DEF TypeOK, Mine
  <2>3. q + 1 \in 1..Len(queue[e][u]) /\ queue'[e][u][q] = queue[e][u][q + 1]
    BY <2>1, <2>2
  <2> QED
    BY <2>3
<1>2. CASE ~(e = d /\ u = user[d])
  BY <1>2, DequeueEffect
<1> QED
  BY <1>1, <1>2

LEMMA KillQueued ==
  ASSUME TypeOK, NEW d \in Devices, Kill(d)
  PROVE  \A x : Queued(x)' =>
           \E y : Queued(y) /\ x.by = y.by /\ x.date = y.date /\ x.email = y.email
<1> SUFFICES ASSUME NEW x, Queued(x)'
             PROVE  \E y : Queued(y) /\ x.by = y.by /\ x.date = y.date /\ x.email = y.email
  OBVIOUS
<1>1. PICK e \in Devices, u \in Users : \E q \in 1..Len(queue'[e][u]) : queue'[e][u][q] = x
  BY DEF Queued
<1>2. PICK q \in 1..Len(queue[e][u]) : queue'[e][u][q] = x
  BY <1>1, KillEffect
<1>3. Queued(queue[e][u][q])
  BY DEF Queued
<1>4. /\ x.by = queue[e][u][q].by
      /\ x.date = queue[e][u][q].date
      /\ x.email = queue[e][u][q].email
  BY <1>2, KillEffect
<1> QED
  BY <1>3, <1>4

LEMMA QueuedIsWrite ==
  ASSUME TypeOK, NEW w, Queued(w)
  PROVE  w \in Write
<1>1. PICK d \in Devices, u \in Users : \E q \in 1..Len(queue[d][u]) : queue[d][u][q] = w
  BY DEF Queued
<1>2. queue[d][u] \in Seq(Write)
  BY DEF TypeOK
<1> QED
  BY <1>1, <1>2

\* The head of a queue, and each write sent, waits.
LEMMA MineQueued ==
  ASSUME TypeOK, NEW d \in Devices, NEW q \in 1..Len(Mine(d))
  PROVE  Queued(Mine(d)[q]) /\ Mine(d)[q] \in Write
BY QueueFacts DEF Queued

-----------------------------------------------------------------------------
\* Types

LEMMA UploadFacts ==
  ASSUME TypeOK, NEW u \in uploads
  PROVE  /\ u \in Upload
         /\ u.save \in Saves /\ u.device \in Devices /\ u.date \in Dates /\ u.email \in Users
BY DEF TypeOK, Upload

LEMMA TurnType ==
  ASSUME TypeOK, NEW u \in uploads, NEW pc \in {"putting", "stored", "ended"}, Turn(u, pc)
  PROVE  uploads' \subseteq Upload
<1>1. [u EXCEPT !.pc = pc] \in Upload
  BY UploadFacts DEF Upload
<1> QED
  BY <1>1 DEF TypeOK, Turn

LEMMA BlameEffect ==
  ASSUME TypeOK, NEW k \in Dates, NEW cause \in Causes, Blame(k, cause)
  PROVE  /\ blame' \in [Dates -> SUBSET Causes]
         /\ \A j \in Dates : blame[j] \subseteq blame'[j] /\ blame'[j] \subseteq blame[j] \cup {cause}
         /\ \A j \in Dates : j # k => blame'[j] = blame[j]
         /\ cause \in blame'[k]
BY DEF TypeOK, Blame

LEMMA RowFacts ==
  ASSUME TypeOK, NEW d \in Devices, NEW r \in rows[d]
  PROVE  r \in Row /\ r.date \in Dates /\ r.email \in Users
BY DEF TypeOK, Row

\* The writes that the actions queue.
LEMMA WriteFacts ==
  ASSUME NEW by \in {"save", "edit", "delete"}, NEW k \in Dates, NEW e \in Users
  PROVE  [by |-> by, date |-> k, email |-> e, live |-> TRUE] \in Write
BY DEF Write

LEMMA WriteFields ==
  ASSUME NEW w \in Write
  PROVE  /\ w.by \in {"save", "edit", "delete"} /\ w.date \in Dates /\ w.email \in Users
         /\ Result(w) \in Users \cup {NoUser}
         /\ Result(w) # NoUser <=> w.by # "delete"
BY NoUserAssumption DEF Write, Result

LEMMA EnqueueSent ==
  ASSUME TypeOK, NEW d \in Devices, NEW w \in Write, Enqueue(d, w)
  PROVE  \A e \in Devices :
           /\ sent[e] <= Len(queue'[e][user[e]])
           /\ \A q \in 1..sent[e] : queue'[e][user[e]][q] = Mine(e)[q]
<1> SUFFICES ASSUME NEW e \in Devices
             PROVE  /\ sent[e] <= Len(queue'[e][user[e]])
                    /\ \A q \in 1..sent[e] : queue'[e][user[e]][q] = Mine(e)[q]
  OBVIOUS
<1>1. /\ user[e] \in Users /\ Mine(e) = queue[e][user[e]] /\ Mine(e) \in Seq(Write)
      /\ sent[e] \in 0..Len(Mine(e))
  BY QueueFacts
<1>2. CASE e = d
  <2>1. queue'[e][user[e]] = Append(Mine(e), w)
    BY <1>2, EnqueueEffect
  <2> QED
    BY <2>1, <1>1
<1>3. CASE e # d
  <2>1. queue'[e][user[e]] = Mine(e)
    BY <1>1, <1>3, EnqueueEffect
  <2> QED
    BY <2>1, <1>1
<1> QED
  BY <1>2, <1>3

LEMMA DequeueSent ==
  ASSUME TypeOK, NEW d \in Devices, Mine(d) # <<>>, Dequeue(d)
  PROVE  /\ Len(queue'[d][user[d]]) = Len(Mine(d)) - 1
         /\ \A q \in 1..(Len(Mine(d)) - 1) : queue'[d][user[d]][q] = Mine(d)[q + 1]
         /\ \A e \in Devices : e # d => queue'[e][user[e]] = Mine(e)
<1>1. Mine(d) \in Seq(Write)
  BY QueueFacts
<1>2. queue'[d][user[d]] = Tail(Mine(d))
  BY DequeueEffect
<1>3. \A e \in Devices : e # d => queue'[e][user[e]] = Mine(e)
  BY DequeueEffect, QueueFacts
<1> QED
  BY <1>1, <1>2, <1>3

LEMMA InitType == Init => TypeOK
<1> SUFFICES ASSUME Init
             PROVE  TypeOK
  OBVIOUS
<1>1. <<>> \in Seq(Write) /\ Len(<<>>) = 0
  BY EmptySeq
<1>2. queue \in [Devices -> [Users -> Seq(Write)]]
  BY <1>1 DEF Init
<1>3. \A d \in Devices : sent[d] <= Len(queue[d][user[d]])
  BY <1>1 DEF Init
<1> QED
  BY <1>2, <1>3 DEF Init, TypeOK

LEMMA TypeTapSave ==
  ASSUME TypeOK, NEW s \in Saves, NEW d \in Devices, NEW k \in Dates, TapSave(s, d, k)
  PROVE  TypeOK'
<1>1. user[d] \in Users
  BY QueueFacts
<1>2. [save |-> s, pc |-> "putting", device |-> d, date |-> k, email |-> user[d]] \in Upload
  BY <1>1 DEF Upload
<1> QED
  BY <1>2 DEF TypeOK, TapSave, cloudVars, deviceVars, history

LEMMA TypeStoreObject ==
  ASSUME TypeOK, NEW u \in uploads, StoreObject(u)
  PROVE  TypeOK'
<1>1. uploads' \subseteq Upload
  BY TurnType DEF StoreObject
<1> QED
  BY <1>1, UploadFacts DEF TypeOK, StoreObject, deviceVars, history

LEMMA TypePutSucceeds ==
  ASSUME TypeOK, NEW u \in uploads, PutSucceeds(u)
  PROVE  TypeOK'
<1> DEFINE w == [by |-> "save", date |-> u.date, email |-> u.email, live |-> TRUE]
<1>1. uploads' \subseteq Upload
  BY TurnType DEF PutSucceeds
<1>2. w \in Write /\ u.device \in Devices
  BY UploadFacts, WriteFacts
<1>3. Enqueue(u.device, w)
  BY DEF PutSucceeds
<1> HIDE DEF w
<1> QED
  BY <1>1, <1>2, <1>3, EnqueueEffect, EnqueueSent DEF TypeOK, PutSucceeds, cloudVars, history

LEMMA TypePutFails ==
  ASSUME TypeOK, NEW u \in uploads, PutFails(u)
  PROVE  TypeOK'
<1>1. uploads' \subseteq Upload
  BY TurnType DEF PutFails
<1>2. blame' \in [Dates -> SUBSET Causes]
  BY UploadFacts, BlameEffect DEF PutFails, Causes
<1> QED
  BY <1>1, <1>2 DEF TypeOK, PutFails, cloudVars, deviceVars

LEMMA TypeReload ==
  ASSUME TypeOK, NEW d \in Devices, Reload(d)
  PROVE  TypeOK'
BY DEF TypeOK, Reload, cloudVars, history

LEMMA TypeLook ==
  ASSUME TypeOK, NEW d \in Devices, NEW k \in Dates, Look(d, k)
  PROVE  TypeOK'
<1>1. [date |-> k, email |-> user[d]] \in Row
  BY QueueFacts DEF Row
<1> QED
  BY <1>1 DEF TypeOK, Look, cloudVars, history

LEMMA TypeTapEdit ==
  ASSUME TypeOK, NEW d \in Devices, NEW r \in rows[d], TapEdit(d, r)
  PROVE  TypeOK'
<1> DEFINE w == [by |-> "edit", date |-> r.date, email |-> r.email, live |-> TRUE]
<1>1. w \in Write
  BY RowFacts, WriteFacts
<1>2. Enqueue(d, w)
  BY DEF TapEdit
<1> HIDE DEF w
<1> QED
  BY <1>1, <1>2, EnqueueEffect, EnqueueSent DEF TypeOK, TapEdit, cloudVars, history

LEMMA TypeTapDelete ==
  ASSUME TypeOK, NEW d \in Devices, NEW r \in rows[d], TapDelete(d, r)
  PROVE  TypeOK'
<1> DEFINE w == [by |-> "delete", date |-> r.date, email |-> r.email, live |-> TRUE]
<1>1. w \in Write /\ r.date \in Dates
  BY RowFacts, WriteFacts
<1>2. Enqueue(d, w)
  BY DEF TapDelete
<1> HIDE DEF w
<1> QED
  BY <1>1, <1>2, EnqueueEffect, EnqueueSent DEF TypeOK, TapDelete, cloudVars

\* The write that Apply applies.
LEMMA NextWrite ==
  ASSUME TypeOK, NEW d \in Devices, Apply(d)
  PROVE  /\ sent[d] + 1 \in 1..Len(Mine(d))
         /\ Queued(Mine(d)[sent[d] + 1])
         /\ Mine(d)[sent[d] + 1] \in Write
<1>1. sent[d] + 1 \in 1..Len(Mine(d))
  BY QueueFacts DEF Apply
<1> QED
  BY <1>1, MineQueued

LEMMA TypeApply ==
  ASSUME TypeOK, NEW d \in Devices, Apply(d)
  PROVE  TypeOK'
<1> DEFINE w == Mine(d)[sent[d] + 1]
<1>1. w \in Write /\ sent[d] + 1 \in 1..Len(Mine(d))
  BY NextWrite
<1>2. w.date \in Dates /\ Result(w) \in Users \cup {NoUser}
  BY <1>1, WriteFields
<1>3. /\ documents' = [documents EXCEPT ![w.date] = Result(w)]
      /\ sent' = [sent EXCEPT ![d] = @ + 1]
      /\ dropped' = IF w.by = "delete" THEN dropped \cup {w.date} ELSE dropped
      /\ Blame(w.date, "revived") \/ UNCHANGED blame
      /\ UNCHANGED <<objects, user, queue, rows, erasing, uploads, asked>>
  BY DEF Apply
<1> HIDE DEF w
<1>4. blame' \in [Dates -> SUBSET Causes]
  BY <1>2, <1>3, BlameEffect DEF Causes, TypeOK
<1>5. documents' \in [Dates -> Users \cup {NoUser}] /\ dropped' \subseteq Dates
  BY <1>2, <1>3 DEF TypeOK
<1>6. sent' \in [Devices -> Nat] /\ \A e \in Devices : sent'[e] <= Len(queue[e][user[e]])
  BY <1>1, <1>3 DEF TypeOK, Mine
<1> QED
  BY <1>3, <1>4, <1>5, <1>6 DEF TypeOK

\* What an answer may add to the deletes of objects.
LEMMA AnsweredEffect ==
  ASSUME TypeOK, NEW d \in Devices, NEW w \in Write, Answered(d, w)
  PROVE  /\ erasing' \in [Devices -> SUBSET Dates]
         /\ \A e \in Devices : \A k \in erasing'[e] : k \in erasing[e] \/ (w.by = "delete" /\ k = w.date)
BY WriteFields DEF TypeOK, Answered

LEMMA HeadFacts ==
  ASSUME TypeOK, NEW d \in Devices, Mine(d) # <<>>
  PROVE  /\ Len(Mine(d)) >= 1
         /\ Head(Mine(d)) = Mine(d)[1]
         /\ Queued(Head(Mine(d)))
         /\ Head(Mine(d)) \in Write
<1>1. Mine(d) \in Seq(Write)
  BY QueueFacts
<1>2. Len(Mine(d)) >= 1 /\ Head(Mine(d)) = Mine(d)[1]
  BY <1>1
<1>3. 1 \in 1..Len(Mine(d))
  BY <1>1, <1>2
<1> QED
  BY <1>2, <1>3, MineQueued

LEMMA SentNotEmpty ==
  ASSUME TypeOK, NEW d \in Devices, sent[d] > 0
  PROVE  Mine(d) # <<>>
BY QueueFacts

LEMMA TypeAck ==
  ASSUME TypeOK, NEW d \in Devices, Ack(d)
  PROVE  TypeOK'
<1>1. Mine(d) # <<>> /\ Dequeue(d)
  BY SentNotEmpty DEF Ack
<1>2. queue' \in [Devices -> [Users -> Seq(Write)]]
  BY <1>1, DequeueEffect
<1>3. sent' \in [Devices -> Nat] /\ \A e \in Devices : sent'[e] <= Len(queue'[e][user[e]])
  BY <1>1, DequeueSent, QueueFacts DEF Ack, TypeOK
<1>4. erasing' \in [Devices -> SUBSET Dates]
  BY <1>1, HeadFacts, AnsweredEffect DEF Ack
<1> QED
  BY <1>2, <1>3, <1>4 DEF TypeOK, Ack, cloudVars, history

\* Why the server refused a write.
LEMMA RefuseBlame ==
  ASSUME TypeOK, NEW d \in Devices, Refuse(d)
  PROVE  \E cause \in Causes : 
           /\ Blame(Head(Mine(d)).date, cause)
           /\ cause = "refusedDelete" <=> Head(Mine(d)).by = "delete"
<1>1. Head(Mine(d)) \in Write
  BY HeadFacts DEF Refuse
<1>2. Head(Mine(d)).by \in {"save", "edit", "delete"}
  BY <1>1, WriteFields
<1> QED
  BY <1>2 DEF Refuse, Causes

LEMMA TypeRefuse ==
  ASSUME TypeOK, NEW d \in Devices, Refuse(d)
  PROVE  TypeOK'
<1>1. Mine(d) # <<>> /\ Dequeue(d) /\ Answered(d, Head(Mine(d))) /\ sent[d] = 0
  BY DEF Refuse
<1>2. queue' \in [Devices -> [Users -> Seq(Write)]]
  BY <1>1, DequeueEffect
<1>3. \A e \in Devices : sent[e] <= Len(queue'[e][user[e]])
  BY <1>1, DequeueSent, QueueFacts
<1>4. erasing' \in [Devices -> SUBSET Dates]
  BY <1>1, HeadFacts, AnsweredEffect
<1>5. blame' \in [Dates -> SUBSET Causes]
  BY <1>1, HeadFacts, WriteFields, RefuseBlame, BlameEffect
<1> QED
  BY <1>2, <1>3, <1>4, <1>5 DEF TypeOK, Refuse, cloudVars

LEMMA TypeStreamBreaks ==
  ASSUME TypeOK, NEW d \in Devices, StreamBreaks(d)
  PROVE  TypeOK'
BY QueueFacts DEF TypeOK, StreamBreaks, cloudVars, history

LEMMA TypeEraseDone ==
  ASSUME TypeOK, NEW d \in Devices, NEW k \in Dates, EraseDone(d, k)
  PROVE  TypeOK'
BY DEF TypeOK, EraseDone, history

LEMMA TypeEraseFails ==
  ASSUME TypeOK, NEW d \in Devices, NEW k \in Dates, EraseFails(d, k)
  PROVE  TypeOK'
<1>1. blame' \in [Dates -> SUBSET Causes]
  BY BlameEffect DEF EraseFails, Causes
<1> QED
  BY <1>1 DEF TypeOK, EraseFails, cloudVars

LEMMA TypeSwitchUser ==
  ASSUME TypeOK, NEW d \in Devices, NEW u \in Users, SwitchUser(d, u)
  PROVE  TypeOK'
<1>1. \A e \in Devices : Len(queue[e][u]) \in Nat
  BY DEF TypeOK
<1> QED
  BY <1>1 DEF TypeOK, SwitchUser, cloudVars, history

LEMMA TypeKill ==
  ASSUME TypeOK, NEW d \in Devices, Kill(d)
  PROVE  TypeOK'
<1>1. \A u \in Upload : [u EXCEPT !.pc = "ended"] \in Upload
  BY DEF Upload
<1>2. uploads' \subseteq Upload
  BY <1>1 DEF TypeOK, Kill
<1>3. queue' \in [Devices -> [Users -> Seq(Write)]]
  BY KillEffect
<1>4. sent' \in [Devices -> Nat] /\ \A e \in Devices : sent'[e] <= Len(queue'[e][user[e]])
  BY KillEffect, QueueFacts DEF TypeOK, Kill
<1>5. blame' \in [Dates -> SUBSET Causes]
  <2>1. "killed" \in Causes
    BY DEF Causes
  <2> QED
    BY <2>1 DEF TypeOK, Kill
<1> QED
  BY <1>2, <1>3, <1>4, <1>5 DEF TypeOK, Kill, cloudVars

LEMMA TypeNext == TypeOK /\ [Next]_vars => TypeOK'
<1> SUFFICES ASSUME TypeOK, [Next]_vars
             PROVE  TypeOK'
  OBVIOUS
<1>1. CASE \E s \in Saves, d \in Devices, k \in Dates : TapSave(s, d, k)
  BY <1>1, TypeTapSave
<1>2. CASE \E u \in uploads : StoreObject(u) \/ PutSucceeds(u) \/ PutFails(u)
  BY <1>2, TypeStoreObject, TypePutSucceeds, TypePutFails
<1>3. CASE \E d \in Devices : Reload(d) \/ Apply(d) \/ Ack(d) \/ Refuse(d) \/ StreamBreaks(d) \/ Kill(d)
  BY <1>3, TypeReload, TypeApply, TypeAck, TypeRefuse, TypeStreamBreaks, TypeKill
<1>4. CASE \E d \in Devices, k \in Dates : Look(d, k) \/ EraseDone(d, k) \/ EraseFails(d, k)
  BY <1>4, TypeLook, TypeEraseDone, TypeEraseFails
<1>5. CASE \E d \in Devices : \E r \in rows[d] : TapEdit(d, r) \/ TapDelete(d, r)
  BY <1>5, TypeTapEdit, TypeTapDelete
<1>6. CASE \E d \in Devices, u \in Users : SwitchUser(d, u)
  BY <1>6, TypeSwitchUser
<1>7. CASE UNCHANGED vars
  BY <1>7 DEF TypeOK, vars, cloudVars, deviceVars, history
<1> QED
  BY <1>1, <1>2, <1>3, <1>4, <1>5, <1>6, <1>7 DEF Next

\* The state always has its types: in particular no more writes are sent on a
\* stream than wait for its user, whatever users come and go.
THEOREM TypeCorrect == Spec => []TypeOK
<1>1. Init => TypeOK
  BY InitType
<1>2. TypeOK /\ [Next]_vars => TypeOK'
  BY TypeNext
<1> QED
  BY <1>1, <1>2, PTL DEF Spec

-----------------------------------------------------------------------------
\* What a step leaves as it was

\* The history of a picture is kept, ...
Grows ==
  /\ asked \subseteq asked'
  /\ dropped \subseteq dropped'
  /\ \A k \in Dates : blame[k] \subseteq blame'[k]

\* ... and a picture that is there stays, or is Gone.
Steady == Grows /\ \A k \in Dates : Present(k) => Present(k)'

\* Every write waiting afterwards waited before, but for its callback.
NothingQueued == \A x : Queued(x)' => \E y : Queued(y) /\ x.by = y.by /\ x.date = y.date

\* No more is sent afterwards than before.
NothingSent ==
  \A d \in Devices : \A q \in 1..sent'[d] :
    /\ q \in 1..sent[d]
    /\ queue'[d][user'[d]][q].by = Mine(d)[q].by
    /\ queue'[d][user'[d]][q].date = Mine(d)[q].date

NothingGone ==
  /\ dropped' = dropped
  /\ \A k \in Dates : "refusedDelete" \in blame'[k] => "refusedDelete" \in blame[k]

LEMMA GrowsGone ==
  ASSUME Grows, NEW k \in Dates, Gone(k)
  PROVE  Gone(k)'
BY DEF Grows, Gone

LEMMA GrowsSteady ==
  ASSUME Grows, objects' = objects
  PROVE  Steady
BY GrowsGone DEF Steady, Present

LEMMA KeepDocuments ==
  ASSUME DocumentsPresent, Steady, documents' = documents
  PROVE  DocumentsPresent'
BY DEF DocumentsPresent, Steady

LEMMA KeepWrites ==
  ASSUME TypeOK, WritesPresent, Steady, NothingQueued
  PROVE  WritesPresent'
<1> SUFFICES ASSUME NEW w \in Write, Queued(w)', w.by # "delete"
             PROVE  Present(w.date)'
  BY DEF WritesPresent
<1>1. PICK y : Queued(y) /\ w.by = y.by /\ w.date = y.date
  BY DEF NothingQueued
<1>2. y \in Write
  BY <1>1, QueuedIsWrite
<1>3. Present(y.date) /\ y.date \in Dates
  BY <1>1, <1>2, WriteFields DEF WritesPresent
<1>4. \A k \in Dates : Present(k) => Present(k)'
  BY DEF Steady
<1> QED
  BY <1>1, <1>3, <1>4

LEMMA KeepUploads ==
  ASSUME TypeOK, UploadsPresent, Steady, uploads' = uploads
  PROVE  UploadsPresent'
<1>1. \A k \in Dates : Present(k) => Present(k)'
  BY DEF Steady
<1>2. \A u \in uploads : u.date \in Dates
  BY UploadFacts
<1> QED
  BY <1>1, <1>2 DEF UploadsPresent

LEMMA KeepRows ==
  ASSUME TypeOK, RowsPresent, Steady, \A d \in Devices : rows'[d] \subseteq rows[d]
  PROVE  RowsPresent'
<1>1. \A k \in Dates : Present(k) => Present(k)'
  BY DEF Steady
<1>2. \A d \in Devices : \A r \in rows[d] : r.date \in Dates
  BY RowFacts
<1> QED
  BY <1>1, <1>2 DEF RowsPresent

LEMMA KeepErasing ==
  ASSUME TypeOK, ErasingGone, Grows, \A d \in Devices : erasing'[d] \subseteq erasing[d]
  PROVE  ErasingGone'
<1>1. \A k \in Dates : Gone(k) => Gone(k)'
  BY GrowsGone
<1>2. \A d \in Devices : erasing[d] \subseteq Dates
  BY DEF TypeOK
<1> QED
  BY <1>1, <1>2 DEF ErasingGone

LEMMA KeepSent ==
  ASSUME SentDropped, NothingSent, Grows
  PROVE  SentDropped'
<1> SUFFICES ASSUME NEW d \in Devices, NEW q \in 1..sent'[d], queue'[d][user'[d]][q].by = "delete"
             PROVE  queue'[d][user'[d]][q].date \in dropped'
  BY DEF SentDropped, Mine
<1>1. /\ q \in 1..sent[d]
      /\ queue'[d][user'[d]][q].by = Mine(d)[q].by
      /\ queue'[d][user'[d]][q].date = Mine(d)[q].date
  BY DEF NothingSent
<1>2. Mine(d)[q].date \in dropped
  BY <1>1 DEF SentDropped
<1> QED
  BY <1>1, <1>2 DEF Grows

LEMMA KeepDeletes ==
  ASSUME TypeOK, DeletesAsked, Grows, NothingQueued, NothingGone
  PROVE  DeletesAsked'
<1>1. ASSUME NEW w \in Write, Queued(w)', w.by = "delete"
      PROVE  w.date \in asked'
  <2>1. PICK y : Queued(y) /\ w.by = y.by /\ w.date = y.date
    BY <1>1 DEF NothingQueued
  <2>2. y \in Write
    BY <2>1, QueuedIsWrite
  <2> QED
    BY <1>1, <2>1, <2>2 DEF DeletesAsked, Grows
<1>2. ASSUME NEW k \in Dates, Gone(k)'
      PROVE  k \in asked'
  BY <1>2 DEF Gone, NothingGone, DeletesAsked, Grows
<1> QED
  BY <1>1, <1>2 DEF DeletesAsked

LEMMA KeepRevived ==
  ASSUME DroppedRevived, Grows, documents' = documents, dropped' = dropped
  PROVE  DroppedRevived'
BY DEF DroppedRevived, Grows

LEMMA SameQueues ==
  ASSUME queue' = queue
  PROVE  NothingQueued
BY DEF NothingQueued, Queued

LEMMA SameSent ==
  ASSUME queue' = queue, user' = user, sent' = sent
  PROVE  NothingSent
BY DEF NothingSent, Mine

-----------------------------------------------------------------------------
\* Each step preserves the invariant

LEMMA StepTapSave ==
  ASSUME IInv, NEW s \in Saves, NEW d \in Devices, NEW k \in Dates, TapSave(s, d, k)
  PROVE  IInv'
<1>1. TypeOK /\ TypeOK'
  BY TypeTapSave DEF IInv
<1>2. /\ UNCHANGED <<documents, objects, user, queue, sent, rows, erasing, asked, dropped, blame>>
      /\ \A u \in uploads' : u.pc = "stored" => u \in uploads
  BY DEF TapSave, cloudVars, deviceVars, history
<1>3. Grows /\ NothingGone
  BY <1>2 DEF Grows, NothingGone
<1>4. Steady
  BY <1>2, <1>3, GrowsSteady
<1>5. UploadsPresent'
  BY <1>1, <1>2, UploadFacts DEF IInv, UploadsPresent, Present, Gone
<1> QED
  BY <1>1, <1>2, <1>3, <1>4, <1>5, SameQueues, SameSent, KeepDocuments, KeepWrites, KeepRows,
     KeepErasing, KeepSent, KeepDeletes, KeepRevived DEF IInv

\* The object is there from now on.
LEMMA StepStoreObject ==
  ASSUME IInv, NEW u \in uploads, StoreObject(u)
  PROVE  IInv'
<1>1. TypeOK /\ TypeOK'
  BY TypeStoreObject DEF IInv
<1>2. /\ UNCHANGED <<documents, user, queue, sent, rows, erasing, asked, dropped, blame>>
      /\ objects' = [objects EXCEPT ![u.date] = u.save]
      /\ uploads' = (uploads \ {u}) \cup {[u EXCEPT !.pc = "stored"]}
  BY DEF StoreObject, Turn, deviceVars, history
<1>3. Grows /\ NothingGone
  BY <1>2 DEF Grows, NothingGone
<1>4. u.date \in Dates /\ u.save # NoSave
  BY <1>1, UploadFacts, NoSaveAssumption
<1>5. objects'[u.date] # NoSave /\ \A k \in Dates : objects[k] # NoSave => objects'[k] # NoSave
  BY <1>1, <1>2, <1>4 DEF TypeOK
<1>6. Steady
  BY <1>2, <1>3, <1>5 DEF Steady, Present, Gone
<1>7. [u EXCEPT !.pc = "stored"].date = u.date
  BY <1>1, UploadFacts DEF Upload
<1>8. UploadsPresent'
  <2> SUFFICES ASSUME NEW v \in uploads', v.pc = "stored"
               PROVE  Present(v.date)'
    BY DEF UploadsPresent
  <2>1. CASE v = [u EXCEPT !.pc = "stored"]
    BY <2>1, <1>5, <1>7 DEF Present
  <2>2. CASE v \in uploads
    <3>1. Present(v.date) /\ v.date \in Dates
      BY <2>2, <1>1, UploadFacts DEF IInv, UploadsPresent
    <3> QED
      BY <3>1, <1>6 DEF Steady
  <2> QED
    BY <1>2, <2>1, <2>2
<1> QED
  BY <1>1, <1>2, <1>3, <1>6, <1>8, SameQueues, SameSent, KeepDocuments, KeepWrites, KeepRows,
     KeepErasing, KeepSent, KeepDeletes, KeepRevived DEF IInv

\* Queueing a write disturbs what is said of the writes, and nothing that was sent.
LEMMA StepEnqueue ==
  ASSUME IInv, NEW d \in Devices, NEW w \in Write, Enqueue(d, w), Steady,
         w.by # "delete" => Present(w.date)',
         w.by = "delete" => w.date \in asked',
         UNCHANGED <<user, sent, dropped, blame>>
  PROVE  WritesPresent' /\ SentDropped' /\ DeletesAsked'
<1>1. TypeOK /\ Grows
  BY DEF IInv, Steady
<1>2. \A x : Queued(x)' => Queued(x) \/ x = w
  BY <1>1, EnqueueQueued
<1>3. WritesPresent'
  <2> SUFFICES ASSUME NEW x \in Write, Queued(x)', x.by # "delete"
               PROVE  Present(x.date)'
    BY DEF WritesPresent
  <2>1. CASE x = w
    BY <2>1
  <2>2. CASE Queued(x)
    <3>1. Present(x.date) /\ x.date \in Dates
      BY <2>2, WriteFields DEF IInv, WritesPresent
    <3> QED
      BY <3>1 DEF Steady
  <2> QED
    BY <1>2, <2>1, <2>2
<1>4. SentDropped'
  <2>1. NothingSent
    <3> SUFFICES ASSUME NEW e \in Devices, NEW q \in 1..sent[e]
                 PROVE  queue'[e][user[e]][q] = Mine(e)[q]
      BY DEF NothingSent
    <3> QED
      BY <1>1, EnqueueSent
  <2> QED
    BY <1>1, <2>1, KeepSent DEF IInv
<1>5. DeletesAsked'
  <2>1. ASSUME NEW x \in Write, Queued(x)', x.by = "delete"
        PROVE  x.date \in asked'
    BY <1>1, <1>2, <2>1 DEF IInv, DeletesAsked, Grows
  <2>2. \A k \in Dates : Gone(k)' => k \in asked'
    BY <1>1 DEF IInv, DeletesAsked, Gone, Grows
  <2> QED
    BY <2>1, <2>2 DEF DeletesAsked
<1> QED
  BY <1>3, <1>4, <1>5

LEMMA StepPutSucceeds ==
  ASSUME IInv, NEW u \in uploads, PutSucceeds(u)
  PROVE  IInv'
<1> DEFINE w == [by |-> "save", date |-> u.date, email |-> u.email, live |-> TRUE]
<1>1. TypeOK /\ TypeOK'
  BY TypePutSucceeds DEF IInv
<1>2. /\ UNCHANGED <<documents, objects, user, sent, rows, erasing, asked, dropped, blame>>
      /\ Enqueue(u.device, w)
      /\ uploads' = (uploads \ {u}) \cup {[u EXCEPT !.pc = "ended"]}
      /\ u.pc = "stored"
  BY DEF PutSucceeds, Turn, cloudVars, history
<1>3. w \in Write /\ u.device \in Devices /\ w.date = u.date /\ w.by = "save" /\ u.date \in Dates
  BY <1>1, UploadFacts, WriteFacts
<1> HIDE DEF w
<1>4. Grows
  BY <1>2 DEF Grows
<1>5. Steady
  BY <1>2, <1>4, GrowsSteady
<1>6. Present(u.date)'
  BY <1>2, <1>3, <1>5 DEF IInv, UploadsPresent, Steady
<1>7. WritesPresent' /\ SentDropped' /\ DeletesAsked'
  BY <1>2, <1>3, <1>5, <1>6, StepEnqueue
<1>8. UploadsPresent'
  <2>1. [u EXCEPT !.pc = "ended"].pc # "stored"
    BY <1>1, UploadFacts DEF Upload
  <2>2. \A v \in uploads' : v.pc = "stored" => v \in uploads
    BY <1>2, <2>1
  <2>3. \A v \in uploads : v.pc = "stored" => Present(v.date) /\ v.date \in Dates
    BY <1>1, UploadFacts DEF IInv, UploadsPresent
  <2> QED
    BY <2>2, <2>3, <1>5 DEF Steady, UploadsPresent
<1> QED
  BY <1>1, <1>2, <1>4, <1>5, <1>7, <1>8, KeepDocuments, KeepRows, KeepErasing, KeepRevived DEF IInv

LEMMA StepPutFails ==
  ASSUME IInv, NEW u \in uploads, PutFails(u)
  PROVE  IInv'
<1>1. TypeOK /\ TypeOK'
  BY TypePutFails DEF IInv
<1>2. /\ UNCHANGED <<documents, objects, user, queue, sent, rows, erasing, asked, dropped>>
      /\ Blame(u.date, "putFailed")
      /\ uploads' = (uploads \ {u}) \cup {[u EXCEPT !.pc = "ended"]}
  BY DEF PutFails, Turn, cloudVars, deviceVars
<1>3. \A k \in Dates : blame[k] \subseteq blame'[k] /\ blame'[k] \subseteq blame[k] \cup {"putFailed"}
  BY <1>1, <1>2, UploadFacts, BlameEffect DEF Causes
<1>4. Grows /\ NothingGone
  BY <1>2, <1>3 DEF Grows, NothingGone
<1>5. Steady
  BY <1>2, <1>4, GrowsSteady
<1>6. UploadsPresent'
  <2>1. [u EXCEPT !.pc = "ended"].pc # "stored"
    BY <1>1, UploadFacts DEF Upload
  <2>2. \A v \in uploads' : v.pc = "stored" => v \in uploads
    BY <1>2, <2>1
  <2>3. \A v \in uploads : v.pc = "stored" => Present(v.date) /\ v.date \in Dates
    BY <1>1, UploadFacts DEF IInv, UploadsPresent
  <2> QED
    BY <2>2, <2>3, <1>5 DEF Steady, UploadsPresent
<1> QED
  BY <1>1, <1>2, <1>4, <1>5, <1>6, SameQueues, SameSent, KeepDocuments, KeepWrites, KeepRows,
     KeepErasing, KeepSent, KeepDeletes, KeepRevived DEF IInv

LEMMA StepReload ==
  ASSUME IInv, NEW d \in Devices, Reload(d)
  PROVE  IInv'
<1>1. TypeOK /\ TypeOK'
  BY TypeReload DEF IInv
<1>2. /\ UNCHANGED <<documents, objects, user, queue, sent, erasing, uploads, asked, dropped, blame>>
      /\ \A e \in Devices : rows'[e] \subseteq rows[e]
  BY <1>1 DEF Reload, TypeOK, cloudVars, history
<1>3. Grows /\ NothingGone
  BY <1>2 DEF Grows, NothingGone
<1>4. Steady
  BY <1>2, <1>3, GrowsSteady
<1> QED
  BY <1>1, <1>2, <1>3, <1>4, SameQueues, SameSent, KeepDocuments, KeepWrites, KeepUploads, KeepRows,
     KeepErasing, KeepSent, KeepDeletes, KeepRevived DEF IInv

\* A row comes of an object that was fetched.
LEMMA StepLook ==
  ASSUME IInv, NEW d \in Devices, NEW k \in Dates, Look(d, k)
  PROVE  IInv'
<1>1. TypeOK /\ TypeOK'
  BY TypeLook DEF IInv
<1>2. /\ UNCHANGED <<documents, objects, user, queue, sent, erasing, uploads, asked, dropped, blame>>
      /\ objects[k] # NoSave
      /\ \A e \in Devices : \A r \in rows'[e] : r \in rows[e] \/ r.date = k
  BY <1>1 DEF Look, TypeOK, cloudVars, history
<1>3. Grows /\ NothingGone
  BY <1>2 DEF Grows, NothingGone
<1>4. Steady
  BY <1>2, <1>3, GrowsSteady
<1>5. RowsPresent'
  <2>1. Present(k)'
    BY <1>2 DEF Present
  <2>2. \A e \in Devices : \A r \in rows[e] : Present(r.date) /\ r.date \in Dates
    BY <1>1, RowFacts DEF IInv, RowsPresent
  <2> QED
    BY <1>2, <1>4, <2>1, <2>2 DEF Steady, RowsPresent
<1> QED
  BY <1>1, <1>2, <1>3, <1>4, <1>5, SameQueues, SameSent, KeepDocuments, KeepWrites, KeepUploads,
     KeepErasing, KeepSent, KeepDeletes, KeepRevived DEF IInv

LEMMA StepTapEdit ==
  ASSUME IInv, NEW d \in Devices, NEW r \in rows[d], TapEdit(d, r)
  PROVE  IInv'
<1> DEFINE w == [by |-> "edit", date |-> r.date, email |-> r.email, live |-> TRUE]
<1>1. TypeOK /\ TypeOK'
  BY TypeTapEdit DEF IInv
<1>2. /\ UNCHANGED <<documents, objects, user, sent, rows, erasing, uploads, asked, dropped, blame>>
      /\ Enqueue(d, w)
  BY DEF TapEdit, cloudVars, history
<1>3. w \in Write /\ w.date = r.date /\ w.by = "edit" /\ r.date \in Dates
  BY <1>1, RowFacts, WriteFacts
<1> HIDE DEF w
<1>4. Grows
  BY <1>2 DEF Grows
<1>5. Steady
  BY <1>2, <1>4, GrowsSteady
<1>6. Present(r.date)'
  BY <1>3, <1>5 DEF IInv, RowsPresent, Steady
<1>7. WritesPresent' /\ SentDropped' /\ DeletesAsked'
  BY <1>2, <1>3, <1>5, <1>6, StepEnqueue
<1> QED
  BY <1>1, <1>2, <1>4, <1>5, <1>7, KeepDocuments, KeepUploads, KeepRows, KeepErasing, KeepRevived DEF IInv

LEMMA StepTapDelete ==
  ASSUME IInv, NEW d \in Devices, NEW r \in rows[d], TapDelete(d, r)
  PROVE  IInv'
<1> DEFINE w == [by |-> "delete", date |-> r.date, email |-> r.email, live |-> TRUE]
<1>1. TypeOK /\ TypeOK'
  BY TypeTapDelete DEF IInv
<1>2. /\ UNCHANGED <<documents, objects, user, sent, rows, erasing, uploads, dropped, blame>>
      /\ asked' = asked \cup {r.date}
      /\ Enqueue(d, w)
  BY DEF TapDelete, cloudVars
<1>3. w \in Write /\ w.date = r.date /\ w.by = "delete"
  BY <1>1, RowFacts, WriteFacts
<1> HIDE DEF w
<1>4. Grows
  BY <1>2 DEF Grows
<1>5. Steady
  BY <1>2, <1>4, GrowsSteady
<1>6. w.date \in asked'
  BY <1>2, <1>3
<1>7. WritesPresent' /\ SentDropped' /\ DeletesAsked'
  BY <1>2, <1>3, <1>5, <1>6, StepEnqueue
<1> QED
  BY <1>1, <1>2, <1>4, <1>5, <1>7, KeepDocuments, KeepUploads, KeepRows, KeepErasing, KeepRevived DEF IInv

\* The server applies a write that waits: its object is there, or, if it is a
\* delete, someone asked; and it notes a document that comes back.
LEMMA StepApply ==
  ASSUME IInv, NEW d \in Devices, Apply(d)
  PROVE  IInv'
<1> DEFINE w == Mine(d)[sent[d] + 1]
<1>1. TypeOK /\ TypeOK'
  BY TypeApply DEF IInv
<1>2. w \in Write /\ Queued(w) /\ sent[d] + 1 \in 1..Len(Mine(d))
  BY <1>1, NextWrite
<1>3. /\ UNCHANGED <<objects, user, queue, rows, erasing, uploads, asked>>
      /\ documents' = [documents EXCEPT ![w.date] = Result(w)]
      /\ sent' = [sent EXCEPT ![d] = @ + 1]
      /\ dropped' = IF w.by = "delete" THEN dropped \cup {w.date} ELSE dropped
      /\ IF w.by # "delete" /\ documents[w.date] = NoUser /\ w.date \in dropped
           THEN Blame(w.date, "revived") ELSE UNCHANGED blame
  BY DEF Apply
<1>4. \A e \in Devices : Mine(e)' = Mine(e)
  BY <1>3 DEF Mine
<1>5. Mine(d)[sent[d] + 1] = w
  OBVIOUS
<1> HIDE DEF w
<1>6. w.date \in Dates /\ (Result(w) # NoUser <=> w.by # "delete")
  BY <1>2, WriteFields
<1>7. /\ \A k \in Dates : blame[k] \subseteq blame'[k] /\ blame'[k] \subseteq blame[k] \cup {"revived"}
      /\ w.by # "delete" /\ documents[w.date] = NoUser /\ w.date \in dropped => "revived" \in blame'[w.date]
  BY <1>1, <1>3, <1>6, BlameEffect DEF Causes
<1>8. Grows
  BY <1>3, <1>7 DEF Grows
<1>9. Steady
  BY <1>3, <1>8, GrowsSteady
<1>10. /\ documents'[w.date] = Result(w)
       /\ \A k \in Dates : k # w.date => documents'[k] = documents[k]
  BY <1>1, <1>3, <1>6 DEF TypeOK
<1>11. DocumentsPresent'
  <2> SUFFICES ASSUME NEW k \in Dates, documents'[k] # NoUser
               PROVE  Present(k)
    BY <1>9 DEF DocumentsPresent, Steady
  <2>1. CASE k = w.date
    BY <2>1, <1>2, <1>6, <1>10 DEF IInv, WritesPresent
  <2>2. CASE k # w.date
    BY <2>2, <1>10 DEF IInv, DocumentsPresent
  <2> QED
    BY <2>1, <2>2
<1>12. SentDropped'
  <2> SUFFICES ASSUME NEW e \in Devices, NEW q \in 1..sent'[e], Mine(e)[q].by = "delete"
               PROVE  Mine(e)[q].date \in dropped'
    BY <1>4 DEF SentDropped
  <2>1. CASE q \in 1..sent[e]
    BY <2>1, <1>3 DEF IInv, SentDropped
  <2>2. CASE q \notin 1..sent[e]
    <3>1. e = d /\ q = sent[d] + 1
      BY <2>2, <1>1, <1>3 DEF TypeOK
    <3> QED
      BY <3>1, <1>3, <1>5
  <2> QED
    BY <2>1, <2>2
<1>13. DeletesAsked'
  <2>1. \A x : Queued(x)' => Queued(x)
    BY <1>3 DEF Queued
  <2>2. w.by = "delete" => w.date \in asked
    BY <1>2 DEF IInv, DeletesAsked
  <2>3. \A k \in Dates : Gone(k)' => k \in asked
    BY <1>3, <1>7, <2>2 DEF IInv, DeletesAsked, Gone
  <2> QED
    BY <1>3, <2>1, <2>3 DEF IInv, DeletesAsked
<1>14. DroppedRevived'
  <2> SUFFICES ASSUME NEW k \in Dates, k \in dropped', documents'[k] # NoUser
               PROVE  "revived" \in blame'[k]
    BY DEF DroppedRevived
  <2>1. CASE k = w.date
    <3>1. w.by # "delete" /\ k \in dropped
      BY <2>1, <1>3, <1>6, <1>10
    <3>2. CASE documents[k] = NoUser
      BY <2>1, <3>1, <3>2, <1>7
    <3>3. CASE documents[k] # NoUser
      BY <3>1, <3>3, <1>7 DEF IInv, DroppedRevived
    <3> QED
      BY <3>2, <3>3
  <2>2. CASE k # w.date
    BY <2>2, <1>3, <1>7, <1>10 DEF IInv, DroppedRevived
  <2> QED
    BY <2>1, <2>2
<1> QED
  BY <1>1, <1>3, <1>8, <1>9, <1>11, <1>12, <1>13, <1>14, SameQueues, KeepWrites, KeepUploads, KeepRows,
     KeepErasing DEF IInv

\* The first write sent was applied: if it is a delete, the document was there
\* to be dropped.
LEMMA StepAck ==
  ASSUME IInv, NEW d \in Devices, Ack(d)
  PROVE  IInv'
<1> DEFINE w == Head(Mine(d))
<1>1. TypeOK /\ TypeOK'
  BY TypeAck DEF IInv
<1>2. /\ UNCHANGED <<documents, objects, user, rows, uploads, asked, dropped, blame>>
      /\ sent' = [sent EXCEPT ![d] = @ - 1]
      /\ Dequeue(d)
      /\ Answered(d, w)
      /\ sent[d] > 0
  BY DEF Ack, cloudVars, history
<1>3. Mine(d) # <<>>
  BY <1>1, <1>2, SentNotEmpty
<1>4. w \in Write /\ w = Mine(d)[1]
  BY <1>1, <1>3, HeadFacts
<1> HIDE DEF w
<1>5. Grows /\ NothingGone
  BY <1>2 DEF Grows, NothingGone
<1>6. Steady
  BY <1>2, <1>5, GrowsSteady
<1>7. NothingQueued
  BY <1>1, <1>2, <1>3, DequeueQueued DEF NothingQueued
<1>8. SentDropped'
  <2> SUFFICES ASSUME NEW e \in Devices, NEW q \in 1..sent'[e], queue'[e][user[e]][q].by = "delete"
               PROVE  queue'[e][user[e]][q].date \in dropped
    BY <1>2 DEF SentDropped, Mine
  <2>1. CASE e = d
    <3>1. q + 1 \in 1..sent[d] /\ q \in 1..(Len(Mine(d)) - 1)
      BY <2>1, <1>1, <1>2, QueueFacts DEF TypeOK
    <3>2. queue'[d][user[d]][q] = Mine(d)[q + 1]
      BY <3>1, <1>1, <1>2, <1>3, DequeueSent
    <3> QED
      BY <2>1, <3>1, <3>2 DEF IInv, SentDropped
  <2>2. CASE e # d
    <3>1. queue'[e][user[e]] = Mine(e) /\ sent'[e] = sent[e]
      BY <2>2, <1>1, <1>2, <1>3, DequeueSent DEF TypeOK
    <3> QED
      BY <3>1 DEF IInv, SentDropped
  <2> QED
    BY <2>1, <2>2
<1>9. ErasingGone'
  <2>1. w.by = "delete" => w.date \in dropped
    BY <1>1, <1>2, <1>4, QueueFacts DEF IInv, SentDropped
  <2>2. \A e \in Devices : \A k \in erasing'[e] : k \in erasing[e] \/ (w.by = "delete" /\ k = w.date)
    BY <1>1, <1>2, <1>4, AnsweredEffect
  <2> QED
    BY <1>2, <2>1, <2>2 DEF IInv, ErasingGone, Gone
<1> QED
  BY <1>1, <1>2, <1>5, <1>6, <1>7, <1>8, <1>9, KeepDocuments, KeepWrites, KeepUploads, KeepRows,
     KeepDeletes, KeepRevived DEF IInv

\* A refused delete is the other way to be Gone.
LEMMA StepRefuse ==
  ASSUME IInv, NEW d \in Devices, Refuse(d)
  PROVE  IInv'
<1> DEFINE w == Head(Mine(d))
<1>1. TypeOK /\ TypeOK'
  BY TypeRefuse DEF IInv
<1>2. /\ UNCHANGED <<documents, objects, user, sent, rows, uploads, asked, dropped>>
      /\ Dequeue(d)
      /\ Answered(d, w)
      /\ sent[d] = 0
      /\ Mine(d) # <<>>
  BY DEF Refuse, cloudVars
<1>3. w \in Write /\ Queued(w)
  BY <1>1, <1>2, HeadFacts
<1>4. PICK cause \in Causes : Blame(w.date, cause) /\ (cause = "refusedDelete" <=> w.by = "delete")
  BY <1>1, RefuseBlame
<1> HIDE DEF w
<1>5. w.date \in Dates
  BY <1>3, WriteFields
<1>6. /\ \A k \in Dates : blame[k] \subseteq blame'[k]
      /\ \A k \in Dates : "refusedDelete" \in blame'[k] =>
           "refusedDelete" \in blame[k] \/ (k = w.date /\ w.by = "delete")
      /\ w.by = "delete" => "refusedDelete" \in blame'[w.date]
  BY <1>1, <1>4, <1>5, BlameEffect
<1>7. Grows
  BY <1>2, <1>6 DEF Grows
<1>8. Steady
  BY <1>2, <1>7, GrowsSteady
<1>9. \A x : Queued(x)' => Queued(x)
  BY <1>1, <1>2, DequeueQueued
<1>10. NothingQueued
  BY <1>9 DEF NothingQueued
<1>11. NothingSent
  <2> SUFFICES ASSUME NEW e \in Devices, NEW q \in 1..sent[e]
               PROVE  queue'[e][user[e]][q] = Mine(e)[q]
    BY <1>2 DEF NothingSent
  <2> QED
    BY <1>1, <1>2, DequeueSent
<1>12. ErasingGone'
  <2>1. \A e \in Devices : \A k \in erasing'[e] : k \in erasing[e] \/ (w.by = "delete" /\ k = w.date)
    BY <1>1, <1>2, <1>3, AnsweredEffect
  <2>2. \A e \in Devices : \A k \in erasing[e] : Gone(k) /\ k \in Dates
    BY <1>1 DEF IInv, ErasingGone, TypeOK
  <2>3. \A k \in Dates : Gone(k) => Gone(k)'
    BY <1>7, GrowsGone
  <2>4. \A k \in Dates : k = w.date /\ w.by = "delete" => Gone(k)'
    BY <1>6 DEF Gone
  <2> QED
    BY <1>5, <2>1, <2>2, <2>3, <2>4 DEF ErasingGone
<1>13. DeletesAsked'
  <2>1. w.by = "delete" => w.date \in asked
    BY <1>3 DEF IInv, DeletesAsked
  <2>2. \A k \in Dates : Gone(k)' => k \in asked
    BY <1>2, <1>6, <2>1 DEF IInv, DeletesAsked, Gone
  <2> QED
    BY <1>2, <1>9, <2>2 DEF IInv, DeletesAsked
<1> QED
  BY <1>1, <1>2, <1>7, <1>8, <1>10, <1>11, <1>12, <1>13, KeepDocuments, KeepWrites, KeepUploads, KeepRows,
     KeepSent, KeepRevived DEF IInv

LEMMA StepStreamBreaks ==
  ASSUME IInv, NEW d \in Devices, StreamBreaks(d)
  PROVE  IInv'
<1>1. TypeOK /\ TypeOK'
  BY TypeStreamBreaks DEF IInv
<1>2. /\ UNCHANGED <<documents, objects, user, queue, rows, erasing, uploads, asked, dropped, blame>>
      /\ sent' = [sent EXCEPT ![d] = 0]
  BY DEF StreamBreaks, cloudVars, history
<1>3. Grows /\ NothingGone
  BY <1>2 DEF Grows, NothingGone
<1>4. Steady
  BY <1>2, <1>3, GrowsSteady
<1>5. NothingSent
  BY <1>1, <1>2 DEF NothingSent, Mine, TypeOK
<1> QED
  BY <1>1, <1>2, <1>3, <1>4, <1>5, SameQueues, KeepDocuments, KeepWrites, KeepUploads, KeepRows,
     KeepErasing, KeepSent, KeepDeletes, KeepRevived DEF IInv

\* An object goes only when it is Gone.
LEMMA StepEraseDone ==
  ASSUME IInv, NEW d \in Devices, NEW k \in Dates, EraseDone(d, k)
  PROVE  IInv'
<1>1. TypeOK /\ TypeOK'
  BY TypeEraseDone DEF IInv
<1>2. /\ UNCHANGED <<documents, user, queue, sent, rows, uploads, asked, dropped, blame>>
      /\ objects' = [objects EXCEPT ![k] = NoSave]
      /\ k \in erasing[d]
      /\ \A e \in Devices : erasing'[e] \subseteq erasing[e]
  BY <1>1 DEF EraseDone, TypeOK, history
<1>3. Grows /\ NothingGone
  BY <1>2 DEF Grows, NothingGone
<1>4. Steady
  <2>1. Gone(k)
    BY <1>2 DEF IInv, ErasingGone
  <2>2. \A j \in Dates : j # k => objects'[j] = objects[j]
    BY <1>1, <1>2 DEF TypeOK
  <2>3. \A j \in Dates : Gone(j) => Gone(j)'
    BY <1>3, GrowsGone
  <2> QED
    BY <1>3, <2>1, <2>2, <2>3 DEF Steady, Present
<1> QED
  BY <1>1, <1>2, <1>3, <1>4, SameQueues, SameSent, KeepDocuments, KeepWrites, KeepUploads, KeepRows,
     KeepErasing, KeepSent, KeepDeletes, KeepRevived DEF IInv

LEMMA StepEraseFails ==
  ASSUME IInv, NEW d \in Devices, NEW k \in Dates, EraseFails(d, k)
  PROVE  IInv'
<1>1. TypeOK /\ TypeOK'
  BY TypeEraseFails DEF IInv
<1>2. /\ UNCHANGED <<documents, objects, user, queue, sent, rows, uploads, asked, dropped>>
      /\ Blame(k, "eraseFailed")
      /\ \A e \in Devices : erasing'[e] \subseteq erasing[e]
  BY <1>1 DEF EraseFails, TypeOK, cloudVars
<1>3. \A j \in Dates : blame[j] \subseteq blame'[j] /\ blame'[j] \subseteq blame[j] \cup {"eraseFailed"}
  BY <1>1, <1>2, BlameEffect DEF Causes
<1>4. Grows /\ NothingGone
  BY <1>2, <1>3 DEF Grows, NothingGone
<1>5. Steady
  BY <1>2, <1>4, GrowsSteady
<1> QED
  BY <1>1, <1>2, <1>4, <1>5, SameQueues, SameSent, KeepDocuments, KeepWrites, KeepUploads, KeepRows,
     KeepErasing, KeepSent, KeepDeletes, KeepRevived DEF IInv

\* The queue of the new user has nothing on the stream.
LEMMA StepSwitchUser ==
  ASSUME IInv, NEW d \in Devices, NEW u \in Users, SwitchUser(d, u)
  PROVE  IInv'
<1>1. TypeOK /\ TypeOK'
  BY TypeSwitchUser DEF IInv
<1>2. /\ UNCHANGED <<documents, objects, queue, rows, erasing, uploads, asked, dropped, blame>>
      /\ sent' = [sent EXCEPT ![d] = 0]
      /\ user' = [user EXCEPT ![d] = u]
  BY DEF SwitchUser, cloudVars, history
<1>3. Grows /\ NothingGone
  BY <1>2 DEF Grows, NothingGone
<1>4. Steady
  BY <1>2, <1>3, GrowsSteady
<1>5. NothingSent
  BY <1>1, <1>2 DEF NothingSent, Mine, TypeOK
<1> QED
  BY <1>1, <1>2, <1>3, <1>4, <1>5, SameQueues, KeepDocuments, KeepWrites, KeepUploads, KeepRows,
     KeepErasing, KeepSent, KeepDeletes, KeepRevived DEF IInv

LEMMA StepKill ==
  ASSUME IInv, NEW d \in Devices, Kill(d)
  PROVE  IInv'
<1>1. TypeOK /\ TypeOK'
  BY TypeKill DEF IInv
<1>2. /\ UNCHANGED <<documents, objects, user, asked, dropped>>
      /\ sent' = [sent EXCEPT ![d] = 0]
      /\ uploads' = {IF u.device = d THEN [u EXCEPT !.pc = "ended"] ELSE u : u \in uploads}
      /\ \A e \in Devices : rows'[e] \subseteq rows[e] /\ erasing'[e] \subseteq erasing[e]
  BY <1>1 DEF Kill, TypeOK, cloudVars
<1>3. \A k \in Dates : blame[k] \subseteq blame'[k] /\ blame'[k] \subseteq blame[k] \cup {"killed"}
  BY DEF Kill
<1>4. Grows /\ NothingGone
  BY <1>2, <1>3 DEF Grows, NothingGone
<1>5. Steady
  BY <1>2, <1>4, GrowsSteady
<1>6. NothingQueued
  BY <1>1, KillQueued DEF NothingQueued
<1>7. NothingSent
  <2> SUFFICES ASSUME NEW e \in Devices, NEW q \in 1..sent'[e]
               PROVE  /\ q \in 1..sent[e]
                      /\ queue'[e][user[e]][q].by = Mine(e)[q].by
                      /\ queue'[e][user[e]][q].date = Mine(e)[q].date
    BY <1>2 DEF NothingSent
  <2>1. q \in 1..sent[e]
    BY <1>1, <1>2 DEF TypeOK
  <2>2. user[e] \in Users /\ Mine(e) = queue[e][user[e]] /\ q \in 1..Len(queue[e][user[e]])
    BY <1>1, <2>1, QueueFacts
  <2> QED
    BY <1>1, <2>1, <2>2, KillEffect
<1>8. UploadsPresent'
  <2>1. \A u \in uploads : [u EXCEPT !.pc = "ended"].pc # "stored"
    BY <1>1, UploadFacts DEF Upload
  <2>2. \A u \in uploads' : u.pc = "stored" => u \in uploads
    BY <1>2, <2>1
  <2>3. \A u \in uploads : u.pc = "stored" => Present(u.date) /\ u.date \in Dates
    BY <1>1, UploadFacts DEF IInv, UploadsPresent
  <2> QED
    BY <2>2, <2>3, <1>5 DEF Steady, UploadsPresent
<1> QED
  BY <1>1, <1>2, <1>4, <1>5, <1>6, <1>7, <1>8, KeepDocuments, KeepWrites, KeepRows,
     KeepErasing, KeepSent, KeepDeletes, KeepRevived DEF IInv

-----------------------------------------------------------------------------
\* Theorems

LEMMA InitIInv == Init => IInv
<1> SUFFICES ASSUME Init
             PROVE  IInv
  OBVIOUS
<1>1. TypeOK
  BY InitType
<1>2. \A w : ~Queued(w)
  <2>1. \A d \in Devices, u \in Users : Len(queue[d][u]) = 0
    BY DEF Init
  <2> QED
    BY <2>1 DEF Queued
<1>3. DocumentsPresent /\ UploadsPresent /\ RowsPresent /\ ErasingGone /\ DroppedRevived
  BY DEF Init, DocumentsPresent, UploadsPresent, RowsPresent, ErasingGone, DroppedRevived
<1>4. WritesPresent /\ DeletesAsked
  BY <1>2 DEF WritesPresent, DeletesAsked, Init, Gone
<1>5. SentDropped
  BY DEF SentDropped, Init
<1> QED
  BY <1>1, <1>3, <1>4, <1>5 DEF IInv

LEMMA StutterIInv ==
  ASSUME IInv, UNCHANGED vars
  PROVE  IInv'
<1>1. UNCHANGED <<documents, objects, user, queue, sent, rows, erasing, uploads, asked, dropped, blame>>
  BY DEF vars, cloudVars, deviceVars, history
<1>2. TypeOK /\ TypeOK'
  BY <1>1 DEF IInv, TypeOK
<1>3. Grows /\ NothingGone
  BY <1>1 DEF Grows, NothingGone
<1>4. Steady
  BY <1>1, <1>3, GrowsSteady
<1> QED
  BY <1>1, <1>2, <1>3, <1>4, SameQueues, SameSent, KeepDocuments, KeepWrites, KeepUploads, KeepRows,
     KeepErasing, KeepSent, KeepDeletes, KeepRevived DEF IInv

LEMMA NextIInv == IInv /\ [Next]_vars => IInv'
<1> SUFFICES ASSUME IInv, [Next]_vars
             PROVE  IInv'
  OBVIOUS
<1>1. CASE \E s \in Saves, d \in Devices, k \in Dates : TapSave(s, d, k)
  BY <1>1, StepTapSave
<1>2. CASE \E u \in uploads : StoreObject(u) \/ PutSucceeds(u) \/ PutFails(u)
  BY <1>2, StepStoreObject, StepPutSucceeds, StepPutFails
<1>3. CASE \E d \in Devices : Reload(d) \/ Apply(d) \/ Ack(d) \/ Refuse(d) \/ StreamBreaks(d) \/ Kill(d)
  BY <1>3, StepReload, StepApply, StepAck, StepRefuse, StepStreamBreaks, StepKill
<1>4. CASE \E d \in Devices, k \in Dates : Look(d, k) \/ EraseDone(d, k) \/ EraseFails(d, k)
  BY <1>4, StepLook, StepEraseDone, StepEraseFails
<1>5. CASE \E d \in Devices : \E r \in rows[d] : TapEdit(d, r) \/ TapDelete(d, r)
  BY <1>5, StepTapEdit, StepTapDelete
<1>6. CASE \E d \in Devices, u \in Users : SwitchUser(d, u)
  BY <1>6, StepSwitchUser
<1>7. CASE UNCHANGED vars
  BY <1>7, StutterIInv
<1> QED
  BY <1>1, <1>2, <1>3, <1>4, <1>5, <1>6, <1>7 DEF Next

THEOREM Invariance == Spec => []IInv
<1> QED
  BY InitIInv, NextIInv, PTL DEF Spec

\* However many devices save, edit and delete a picture, and whatever is killed,
\* refused or sent twice, a document has its object unless the server refused
\* the delete of the document or the document was written after its delete.
THEOREM DocumentKeepsObject == Spec => []DocumentHasObject
<1>1. IInv => DocumentHasObject
  BY DEF IInv, DocumentsPresent, DroppedRevived, Present, Gone, DocumentHasObject
<1> QED
  BY <1>1, Invariance, PTL

-----------------------------------------------------------------------------
\* Pictures implements PictureLifecycle

Listed == [k \in Dates |-> documents[k] # NoUser]
Kept == [k \in Dates |-> objects[k] # NoSave]

LEMMA PresentMeans ==
  ASSUME IInv, NEW k \in Dates, Present(k)
  PROVE  Kept[k] \/ k \in asked
BY DEF IInv, DeletesAsked, Present, Kept

LEMMA LivesStoreObject ==
  ASSUME IInv, NEW u \in uploads, StoreObject(u)
  PROVE  Lifecycle!Keep(u.date)
<1>1. TypeOK /\ u.date \in Dates /\ u.save # NoSave
  BY UploadFacts, NoSaveAssumption DEF IInv
<1>2. /\ objects' = [objects EXCEPT ![u.date] = u.save]
      /\ UNCHANGED <<documents, asked>>
  BY DEF StoreObject, deviceVars, history
<1>3. \A k \in Dates : objects'[k] # NoSave <=> k = u.date \/ objects[k] # NoSave
  BY <1>1, <1>2 DEF TypeOK
<1> QED
  BY <1>1, <1>2, <1>3 DEF Lifecycle!Keep

LEMMA LivesTapDelete ==
  ASSUME IInv, NEW d \in Devices, NEW r \in rows[d], TapDelete(d, r)
  PROVE  Lifecycle!Ask(r.date)
<1>1. r.date \in Dates
  BY RowFacts DEF IInv
<1>2. Present(r.date)
  BY DEF IInv, RowsPresent
<1>3. Kept[r.date] \/ r.date \in asked
  BY <1>1, <1>2, PresentMeans
<1> QED
  BY <1>3 DEF TapDelete, cloudVars, Lifecycle!Ask, Kept

LEMMA LivesApply ==
  ASSUME IInv, NEW d \in Devices, Apply(d)
  PROVE  \E k \in Dates : Lifecycle!List(k) \/ Lifecycle!Unlist(k)
<1> DEFINE w == Mine(d)[sent[d] + 1]
<1>1. TypeOK /\ w \in Write /\ Queued(w)
  BY NextWrite DEF IInv
<1>2. /\ documents' = [documents EXCEPT ![w.date] = Result(w)]
      /\ UNCHANGED <<objects, asked>>
  BY DEF Apply
<1> HIDE DEF w
<1>3. w.date \in Dates /\ (Result(w) # NoUser <=> w.by # "delete")
  BY <1>1, WriteFields
<1>4. \A k \in Dates : documents'[k] # NoUser <=> IF k = w.date THEN w.by # "delete" ELSE documents[k] # NoUser
  BY <1>1, <1>2, <1>3 DEF TypeOK
<1>5. CASE w.by = "delete"
  <2>1. w.date \in asked
    BY <1>1, <1>5 DEF IInv, DeletesAsked
  <2>2. Listed' = [Listed EXCEPT ![w.date] = FALSE]
    BY <1>4, <1>5 DEF Listed
  <2>3. PICK k \in Dates : k = w.date
    BY <1>3
  <2>4. Lifecycle!Unlist(k)
    BY <1>2, <2>1, <2>2, <2>3 DEF Lifecycle!Unlist, Listed
  <2> QED
    BY <2>4
<1>6. CASE w.by # "delete"
  <2>1. Kept[w.date] \/ w.date \in asked
    BY <1>1, <1>3, <1>6, PresentMeans DEF IInv, WritesPresent
  <2>2. Listed' = [Listed EXCEPT ![w.date] = TRUE]
    BY <1>4, <1>6 DEF Listed
  <2>3. PICK k \in Dates : k = w.date
    BY <1>3
  <2>4. Lifecycle!List(k)
    BY <1>2, <2>1, <2>2, <2>3 DEF Lifecycle!List, Listed, Kept
  <2> QED
    BY <2>4
<1> QED
  BY <1>5, <1>6

LEMMA LivesEraseDone ==
  ASSUME IInv, NEW d \in Devices, NEW k \in Dates, EraseDone(d, k)
  PROVE  Lifecycle!Erase(k)
<1>1. k \in asked
  BY DEF IInv, ErasingGone, DeletesAsked, EraseDone
<1>2. /\ objects' = [objects EXCEPT ![k] = NoSave]
      /\ UNCHANGED <<documents, asked>>
  BY DEF EraseDone, history
<1>3. Kept' = [Kept EXCEPT ![k] = FALSE]
  BY <1>2 DEF Kept, IInv, TypeOK
<1> QED
  BY <1>1, <1>2, <1>3 DEF Lifecycle!Erase, Kept

\* No other step lists, keeps or asks for anything.
LEMMA LivesOtherwise ==
  ASSUME [Next]_vars
  PROVE  \/ \E u \in uploads : StoreObject(u)
         \/ \E d \in Devices : Apply(d) \/ \E r \in rows[d] : TapDelete(d, r)
         \/ \E d \in Devices, k \in Dates : EraseDone(d, k)
         \/ UNCHANGED <<documents, objects, asked>>
BY DEF Next, vars, cloudVars, deviceVars, history, TapSave, PutSucceeds, PutFails, Reload, Look,
   TapEdit, Ack, Refuse, StreamBreaks, EraseFails, SwitchUser, Kill

LEMMA LivesNext ==
  ASSUME IInv, [Next]_vars
  PROVE  [Lifecycle!Next]_(Lifecycle!lifecycle)
<1>1. CASE \E u \in uploads : StoreObject(u)
  <2>1. PICK u \in uploads : StoreObject(u)
    BY <1>1
  <2>2. u.date \in Dates
    BY UploadFacts DEF IInv
  <2> QED
    BY <2>1, <2>2, LivesStoreObject DEF Lifecycle!Next
<1>2. CASE \E d \in Devices : Apply(d)
  BY <1>2, LivesApply DEF Lifecycle!Next
<1>3. CASE \E d \in Devices : \E r \in rows[d] : TapDelete(d, r)
  <2>1. PICK d \in Devices : \E r \in rows[d] : TapDelete(d, r)
    BY <1>3
  <2>2. PICK r \in rows[d] : TapDelete(d, r)
    BY <2>1
  <2>3. r.date \in Dates
    BY RowFacts DEF IInv
  <2> QED
    BY <2>2, <2>3, LivesTapDelete DEF Lifecycle!Next
<1>4. CASE \E d \in Devices, k \in Dates : EraseDone(d, k)
  BY <1>4, LivesEraseDone DEF Lifecycle!Next
<1>5. CASE UNCHANGED <<documents, objects, asked>>
  BY <1>5 DEF Lifecycle!lifecycle
<1> QED
  BY <1>1, <1>2, <1>3, <1>4, <1>5, LivesOtherwise

LEMMA LivesInit == Init => Lifecycle!Init
BY DEF Init, Lifecycle!Init

\* The life of each picture, across devices, is the one PictureLifecycle
\* promises: listed once it is kept, and gone only after someone asked.
THEOREM Implements == Spec => ImplementsLifecycle
<1>1. Init => Lifecycle!Init
  BY LivesInit
<1>2. IInv /\ [Next]_vars => [Lifecycle!Next]_(Lifecycle!lifecycle)
  BY LivesNext
<1> QED
  BY <1>1, <1>2, Invariance, PTL DEF Spec, ImplementsLifecycle, Lifecycle!Spec

\* A picture that is listed can be looked at, unless someone asked to delete it.
THEOREM ListedPictureIsKept == Spec => []Lifecycle!ListedIsKept
<1>1. IInv => Lifecycle!ListedIsKept
  BY DEF IInv, DocumentsPresent, DeletesAsked, Present, Lifecycle!ListedIsKept
<1> QED
  BY <1>1, Invariance, PTL

=============================================================================
