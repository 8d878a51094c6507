------------------------------- MODULE Pictures -------------------------------
(***************************************************************************)
(* Where a picture is, over its life: an object in Storage, a document in  *)
(* Firestore, and the writes, uploads and rows of several devices about    *)
(* it.  FirebaseController saves in two steps, object then document, and   *)
(* deletes in two, document then object, with no transaction over the two. *)
(*                                                                         *)
(* Firestore keeps the writes of a device in a queue on disk, one for each *)
(* user, and sends that of the user signed in.  It sends them again when   *)
(* the stream breaks, so that the server may apply a write twice; the      *)
(* callbacks are in memory only.  Storage calls are in memory only too.    *)
(***************************************************************************)
EXTENDS Naturals, Sequences, FiniteSets

CONSTANTS
  Devices,
  Users,     \* emails
  NoUser,    \* in place of an email: no document
  Dates,     \* fecha, to the second: the id of the document and of the object
  Saves,     \* taps on Save: bounds how many
  NoSave,    \* in place of a save: no object
  MaxQueue   \* bounds the writes waiting for one user on one device

ASSUME NoUserAssumption == NoUser \notin Users
ASSUME NoSaveAssumption == NoSave \notin Saves
ASSUME QueueAssumption == MaxQueue \in Nat

VARIABLES
  documents,  \* the collection "Files" on the server: the email of each document
  objects,    \* images/: the save whose bytes each object has
  user,       \* who is signed in on each device
  uploads,    \* the saves so far
  queue,      \* the writes each user has waiting on each device
  sent,       \* how many of the user's the server applied, still without an answer
  rows,       \* the rows MainView shows
  erasing,    \* deletes of objects on their way
  \* History, read by no guard:
  asked,      \* dates that someone asked to delete
  dropped,    \* dates whose document the server deleted at least once
  blame       \* what went wrong with each date

cloudVars == <<documents, objects>>
deviceVars == <<user, queue, sent, rows, erasing>>
history == <<asked, dropped, blame>>
vars == <<cloudVars, deviceVars, uploads, history>>

-----------------------------------------------------------------------------
\* Types

Causes == {"killed", "putFailed", "refusedSave", "refusedEdit", "refusedDelete", "revived", "eraseFailed"}

\* putting: not on the server yet; stored: there, not answered; ended: answered.
Upload == [save: Saves, pc: {"putting", "stored", "ended"}, device: Devices, date: Dates, email: Users]

\* live: the process that queued it still runs, and with it the callback.
Write == [by: {"save", "edit", "delete"}, date: Dates, email: Users, live: BOOLEAN]

Row == [date: Dates, email: Users]

TypeOK ==
  /\ documents \in [Dates -> Users \cup {NoUser}]
  /\ objects \in [Dates -> Saves \cup {NoSave}]
  /\ user \in [Devices -> Users]
  /\ uploads \subseteq Upload
  /\ queue \in [Devices -> [Users -> Seq(Write)]]
  /\ sent \in [Devices -> Nat]
  /\ \A d \in Devices : sent[d] <= Len(queue[d][user[d]])
  /\ rows \in [Devices -> SUBSET Row]
  /\ erasing \in [Devices -> SUBSET Dates]
  /\ asked \subseteq Dates
  /\ dropped \subseteq Dates
  /\ blame \in [Dates -> SUBSET Causes]

-----------------------------------------------------------------------------
\* Helpers

Mine(d) == queue[d][user[d]]

Enqueue(d, w) ==
  /\ Len(Mine(d)) < MaxQueue
  /\ queue' = [queue EXCEPT ![d] = [queue[d] EXCEPT ![user[d]] = Append(Mine(d), w)]]

Dequeue(d) == queue' = [queue EXCEPT ![d] = [queue[d] EXCEPT ![user[d]] = Tail(Mine(d))]]

\* The document that a write leaves.
Result(w) == IF w.by = "delete" THEN NoUser ELSE w.email

\* A query on d finds k with the email e: in the last write waiting, or else on
\* the server.
Found(d, k, e) ==
  LET waiting == {q \in DOMAIN Mine(d) : Mine(d)[q].date = k} IN
  \/ waiting = {} /\ documents[k] = e
  \/ \E q \in waiting : Result(Mine(d)[q]) = e /\ \A p \in waiting : p <= q

Blame(k, cause) == blame' = [blame EXCEPT ![k] = @ \cup {cause}]

-----------------------------------------------------------------------------
\* Saving

Taken(s) == \E u \in uploads : u.save = s

\* uploadStorage.  The email is the session's at the tap.
TapSave(s, d, k) ==
  /\ ~Taken(s)
  /\ uploads' = uploads \cup {[save |-> s, pc |-> "putting", device |-> d, date |-> k, email |-> user[d]]}
  /\ UNCHANGED <<cloudVars, deviceVars, history>>

Turn(u, pc) == uploads' = (uploads \ {u}) \cup {[u EXCEPT !.pc = pc]}

\* The object arrives, over another of the same second if there is one.
StoreObject(u) ==
  /\ u.pc = "putting"
  /\ Turn(u, "stored")
  /\ objects' = [objects EXCEPT ![u.date] = u.save]
  /\ UNCHANGED <<documents, deviceVars, history>>

\* Mutant: the success handler was registered for another status.
PutSucceedsUnheard(u) ==
  /\ u.pc = "stored"
  /\ Turn(u, "ended")
  /\ UNCHANGED <<cloudVars, deviceVars, history>>

\* The success handler: uploadData queues the document, whoever is signed in.
PutSucceeds(u) ==
  /\ u.pc = "stored"
  /\ Turn(u, "ended")
  /\ Enqueue(u.device, [by |-> "save", date |-> u.date, email |-> u.email, live |-> TRUE])
  /\ UNCHANGED <<cloudVars, user, sent, rows, erasing, history>>

\* No handler for a failure, which may also be a lost answer.
PutFails(u) ==
  /\ u.pc \in {"putting", "stored"}
  /\ Turn(u, "ended")
  /\ Blame(u.date, "putFailed")
  /\ UNCHANGED <<cloudVars, deviceVars, asked, dropped>>

-----------------------------------------------------------------------------
\* Looking, editing and deleting

\* getUserData empties the list, ...
Reload(d) ==
  /\ rows' = [rows EXCEPT ![d] = {}]
  /\ UNCHANGED <<cloudVars, user, queue, sent, erasing, uploads, history>>

\* ... and a picture of the user that is found and fetched is a row.
Look(d, k) ==
  /\ Found(d, k, user[d])
  /\ objects[k] # NoSave
  /\ rows' = [rows EXCEPT ![d] = @ \cup {[date |-> k, email |-> user[d]]}]
  /\ UNCHANGED <<cloudVars, user, queue, sent, erasing, uploads, history>>

\* Mutant: the document is written with the session's email, not the row's.
TapEditAsMe(d, r) ==
  /\ r \in rows[d]
  /\ Enqueue(d, [by |-> "edit", date |-> r.date, email |-> user[d], live |-> TRUE])
  /\ UNCHANGED <<cloudVars, user, sent, rows, erasing, uploads, history>>

\* updateData writes the whole document, there or not.
TapEdit(d, r) ==
  /\ r \in rows[d]
  /\ Enqueue(d, [by |-> "edit", date |-> r.date, email |-> r.email, live |-> TRUE])
  /\ UNCHANGED <<cloudVars, user, sent, rows, erasing, uploads, history>>

\* Mutant: only the object is deleted.
TapDeleteObject(d, r) ==
  /\ r \in rows[d]
  /\ erasing' = [erasing EXCEPT ![d] = @ \cup {r.date}]
  /\ asked' = asked \cup {r.date}
  /\ UNCHANGED <<cloudVars, user, queue, sent, rows, uploads, dropped, blame>>

\* deleteData; the reload it is followed by is Reload and Look.
TapDelete(d, r) ==
  /\ r \in rows[d]
  /\ Enqueue(d, [by |-> "delete", date |-> r.date, email |-> r.email, live |-> TRUE])
  /\ asked' = asked \cup {r.date}
  /\ UNCHANGED <<cloudVars, user, sent, rows, erasing, uploads, dropped, blame>>

-----------------------------------------------------------------------------
\* Firestore's write stream

\* The server applies the next write; the answer is on its way.
Apply(d) ==
  LET w == Mine(d)[sent[d] + 1] IN
  /\ sent[d] < Len(Mine(d))
  /\ documents' = [documents EXCEPT ![w.date] = Result(w)]
  /\ sent' = [sent EXCEPT ![d] = @ + 1]
  /\ dropped' = IF w.by = "delete" THEN dropped \cup {w.date} ELSE dropped
  /\ IF w.by # "delete" /\ documents[w.date] = NoUser /\ w.date \in dropped
       THEN Blame(w.date, "revived") ELSE UNCHANGED blame
  /\ UNCHANGED <<objects, user, queue, rows, erasing, uploads, asked>>

\* Mutant: the callback of any write deletes the object.
AnsweredAll(d, w) ==
  erasing' = IF w.live THEN [erasing EXCEPT ![d] = @ \cup {w.date}] ELSE erasing

\* The callback of delete, if it is still there, deletes the object.
Answered(d, w) ==
  erasing' = IF w.by = "delete" /\ w.live THEN [erasing EXCEPT ![d] = @ \cup {w.date}] ELSE erasing

\* Mutant: delete without a callback.
AckUnheard(d) ==
  /\ sent[d] > 0
  /\ Dequeue(d)
  /\ sent' = [sent EXCEPT ![d] = @ - 1]
  /\ UNCHANGED <<cloudVars, user, rows, erasing, uploads, history>>

Ack(d) ==
  /\ sent[d] > 0
  /\ Dequeue(d)
  /\ sent' = [sent EXCEPT ![d] = @ - 1]
  /\ Answered(d, Head(Mine(d)))
  /\ UNCHANGED <<cloudVars, user, rows, uploads, history>>

\* The server refuses the next write for good; the same callback runs.
Refuse(d) ==
  LET w == Head(Mine(d)) IN
  /\ sent[d] = 0
  /\ Mine(d) # <<>>
  /\ Dequeue(d)
  /\ Answered(d, w)
  /\ Blame(w.date, CASE w.by = "save" -> "refusedSave"
                     [] w.by = "edit" -> "refusedEdit"
                     [] w.by = "delete" -> "refusedDelete")
  /\ UNCHANGED <<cloudVars, user, sent, rows, uploads, asked, dropped>>

\* What was sent and not answered will be sent again.
StreamBreaks(d) ==
  /\ sent[d] > 0
  /\ sent' = [sent EXCEPT ![d] = 0]
  /\ UNCHANGED <<cloudVars, user, queue, rows, erasing, uploads, history>>

-----------------------------------------------------------------------------
\* Deletes of objects

EraseDone(d, k) ==
  /\ k \in erasing[d]
  /\ erasing' = [erasing EXCEPT ![d] = @ \ {k}]
  /\ objects' = [objects EXCEPT ![k] = NoSave]
  /\ UNCHANGED <<documents, user, queue, sent, rows, uploads, history>>

\* The callback of the delete only prints.
EraseFails(d, k) ==
  /\ k \in erasing[d]
  /\ erasing' = [erasing EXCEPT ![d] = @ \ {k}]
  /\ Blame(k, "eraseFailed")
  /\ UNCHANGED <<cloudVars, user, queue, sent, rows, uploads, asked, dropped>>

-----------------------------------------------------------------------------
\* Devices

\* Firestore swaps the queues and restarts the stream; the rows stay.
SwitchUser(d, u) ==
  /\ u # user[d]
  /\ user' = [user EXCEPT ![d] = u]
  /\ sent' = [sent EXCEPT ![d] = 0]
  /\ UNCHANGED <<cloudVars, queue, rows, erasing, uploads, history>>

Waits(d, k) == \E u \in Users : \E q \in DOMAIN queue[d][u] : queue[d][u][q].date = k

Uploads(d, k) == \E u \in uploads : u.device = d /\ u.date = k /\ u.pc # "ended"

\* The process ends, and another starts: the queues are what it finds.
Kill(d) ==
  /\ uploads' = {IF u.device = d THEN [u EXCEPT !.pc = "ended"] ELSE u : u \in uploads}
  /\ queue' = [queue EXCEPT ![d] = [u \in Users |->
                [q \in DOMAIN queue[d][u] |-> [queue[d][u][q] EXCEPT !.live = FALSE]]]]
  /\ sent' = [sent EXCEPT ![d] = 0]
  /\ rows' = [rows EXCEPT ![d] = {}]
  /\ erasing' = [erasing EXCEPT ![d] = {}]
  /\ blame' = [k \in Dates |-> IF Waits(d, k) \/ Uploads(d, k) \/ k \in erasing[d]
                                 THEN blame[k] \cup {"killed"} ELSE blame[k]]
  /\ UNCHANGED <<cloudVars, user, asked, dropped>>

-----------------------------------------------------------------------------
Init ==
  /\ documents = [k \in Dates |-> NoUser]
  /\ objects = [k \in Dates |-> NoSave]
  /\ user \in [Devices -> Users]
  /\ uploads = {}
  /\ queue = [d \in Devices |-> [u \in Users |-> <<>>]]
  /\ sent = [d \in Devices |-> 0]
  /\ rows = [d \in Devices |-> {}]
  /\ erasing = [d \in Devices |-> {}]
  /\ asked = {}
  /\ dropped = {}
  /\ blame = [k \in Dates |-> {}]

Next ==
  \/ \E s \in Saves, d \in Devices, k \in Dates : TapSave(s, d, k)
  \/ \E u \in uploads : StoreObject(u) \/ PutSucceeds(u) \/ PutFails(u)
  \/ \E d \in Devices :
       \/ Reload(d)
       \/ Apply(d) \/ Ack(d) \/ Refuse(d) \/ StreamBreaks(d)
       \/ Kill(d)
       \/ \E k \in Dates : Look(d, k) \/ EraseDone(d, k) \/ EraseFails(d, k)
       \/ \E r \in rows[d] : TapEdit(d, r) \/ TapDelete(d, r)
       \/ \E u \in Users : SwitchUser(d, u)

Spec == Init /\ [][Next]_vars

\* Storage answers; the stream, however often it breaks, answers now and then.
Fairness ==
  /\ \A s \in Saves : WF_vars(\E u \in uploads : u.save = s /\ (StoreObject(u) \/ PutSucceeds(u) \/ PutFails(u)))
  /\ \A d \in Devices :
       /\ WF_vars(Apply(d))
       /\ SF_vars(Ack(d))
       /\ \A k \in Dates : WF_vars(EraseDone(d, k) \/ EraseFails(d, k))

FairSpec == Spec /\ Fairness

-----------------------------------------------------------------------------
\* Properties

\* Two saves of the same second.
Collided(k) == \E u, v \in uploads : u.save # v.save /\ u.date = k /\ v.date = k

\* Nothing about k is on its way.
Quiet(k) ==
  \A d \in Devices : ~Waits(d, k) /\ ~Uploads(d, k) /\ k \notin erasing[d]

\* A document has its object from the moment it is on the server, and always:
\* without one (it makes empty false and no row, so no one can delete it) the
\* server refused a delete, and the callback deleted the object all the same, or
\* the document was written again after its delete.
DocumentHasObject ==
  \A k \in Dates :
    documents[k] # NoUser /\ objects[k] = NoSave =>
      blame[k] \cap {"refusedDelete", "revived"} # {}

\* With nothing about it on its way, an object without a document (nothing
\* refers to it, so it stays for good) comes of a process that ended, an upload
\* or a delete of an object that failed, or a refused write.
OrphanExplained ==
  \A k \in Dates :
    Quiet(k) /\ documents[k] = NoUser /\ objects[k] # NoSave =>
      blame[k] \cap {"killed", "putFailed", "refusedSave", "eraseFailed"} # {}

\* A document carries the email of the user who saved the picture, whoever is
\* signed in when it is written, edited or sent again.
PictureStaysOwners ==
  \A k \in Dates, u \in uploads :
    u.date = k /\ documents[k] # NoUser /\ ~Collided(k) => documents[k] = u.email

\* The alert at MainView.swift:135, "Your image has been edited successfully":
\* an edit, announced as soon as it is queued, is not refused.
EditedSuccessfully == \A k \in Dates : "refusedEdit" \notin blame[k]

\* An object that arrived gets a document, unless something went wrong.
StoredIsListed ==
  \A k \in Dates :
    (\E u \in uploads : u.date = k /\ u.pc = "stored") ~>
      (documents[k] # NoUser \/ k \in asked \/ blame[k] # {})

\* An asked delete, its callback alive, ends with the object gone, unless
\* something went wrong.
DeletedIsErased ==
  \A d \in Devices, k \in Dates :
    (\E q \in DOMAIN Mine(d) : Mine(d)[q].by = "delete" /\ Mine(d)[q].date = k) ~>
      (objects[k] = NoSave \/ blame[k] # {})

\* What is promised of a picture (module PictureLifecycle).
Lifecycle == INSTANCE PictureLifecycle WITH
  listed <- [k \in Dates |-> documents[k] # NoUser],
  kept <- [k \in Dates |-> objects[k] # NoSave],
  asked <- asked

ImplementsLifecycle == Lifecycle!Spec

=============================================================================
