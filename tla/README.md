# A TLA+ model of appLPS

appLPS (`src/appLPS/appLPS`) is an iOS photo gallery: a SwiftUI front end over
Firebase Auth (accounts), Firestore (one document per picture, in the collection
"Files") and Firebase Storage (one object per picture, `images/<fecha>`). The
application is about eight hundred lines of Swift, and the test targets are
Xcode's empty templates. What makes it hard is not in any one function: it is
the order in which callbacks, taps, background tasks, other devices and the
death of the process meet. That order is what is modelled here.
`src/appLPS/Pods` is the vendored Firebase SDK (some 4400 files); the parts of
it on whose behaviour the application rests are modelled from their source, the
rest is left out.

Paths below are relative to `src/appLPS/appLPS`, or to `src/appLPS/Pods` when
they start with `Firebase...`.

## Inventory

| Part | Code | State | Operations | Module |
|---|---|---|---|---|
| Gallery | `Firebase/FirebaseController.swift` 22-132, `MainView.swift` 21-65 | `refImagenesUsuario`, `loading`, `empty`; calls in flight; what is drawn | `getUserData`, callbacks of its query and fetches, `uploadStorage`, `uploadData`, `deleteData`, drawing | `Gallery` |
| Session | `FirebaseController.swift` 142-191, `LoginView.swift`, `RegistroView.swift`, `MainView.swift`, `FirebaseAuth/.../FIRAuth.m` | `session`, `signInDone`, the listeners, Auth's `currentUser` and its keychain copy, the main queue | `signIn`, `signUp`, `signOut`, `listen`, automatic sign-out, token refresh, restart | `Session` |
| One running application | the two above, where they meet: `MainView.swift` 58-76, 102-126, 195 | the two states, and the list that outlives a change of user | taps, reload, swipe, save, sign-out, restart | `AppLPS` |
| Pictures | `FirebaseController.swift` 66-140, `MainView.swift` 43-52 and 102-146, `FirebaseFirestore/.../sync_engine.cc`, `remote_store.cc`, `local_store.cc`, `FirebaseStorage/.../FIRStorageUploadTask.m`, `FIRStorageDeleteTask.m` | documents, objects, each device's queues of writes, uploads, deletes of objects, rows | save, edit, delete, their callbacks; send, answer, refuse, resend; change of user; kill | `Pictures`, `PictureLifecycle` |
| Storage calls | `FirebaseStorage/.../FIRStorageReference.m`, `FIRStorageDownloadTask.m`, `FIRStorageUploadTask.m`, `FIRStorageObservableTask.m`, `GTMSessionFetcher.m` 2558-2572 | handlers registered, blocks on the main and on Storage's queue, the fetch, what was told | call, begin, receive, end, progress, handlers, cancellation | `StorageTask` |
| getDocuments | `FirebaseFirestore/.../query_core.cc`, `event_manager.cc`, `query_listener.cc`, `sync_engine.cc`, `remote_store.cc`, `remote_event.cc`, `online_state_tracker.cc`, `stream.cc`, `grpc_stream.cc` | listeners, view, online state and its timeout, watch stream, target | listen, raise, mute, remove, timeouts, responses, failures, restarts | `GetDocuments` |
| Write pipeline of a device | `sync_engine.cc`, `local_store.cc`, `leveldb_mutation_queue.cc`, `remote_store.cc`, `stream.cc`, `write_stream.cc`, `grpc_stream.cc` | mutation queues on disk, batch ids, callbacks, pipeline, write stream | write, fill, handshake, answer, refuse, break, idle, change of credentials or user, restart | `WritePipeline`, `WriteQueue` |
| Fields, sheets, alerts, image picker, password reset, header, unused `ContentView` and `Prueba.swift` | the other Swift files | view state that nothing else reads | | not modelled |
| Realtime Database, Installations, Core, gRPC, BoringSSL, leveldb, abseil, nanopb, ... | `Pods` | | not called by the application, or below the level modelled | not modelled |

### How the parts interact

One `FirebaseController` is shared by all views. Taps and drawing run on the main
thread, and so do the callbacks of Firestore and Storage and the blocks by which
Auth announces a change of user. The first three assignments of `getUserData` do
not: it is an `async` method of a class isolated to no actor, started in a `Task`,
so that the build decides whether they stay on the caller's thread or run on a
thread of the Swift pool. The model takes the pool, which allows every order the
main thread allows and more.

`MainView` starts a reload when it appears, `deleteData` is followed by one, and
`uploadData` starts one when the write is acknowledged: nothing keeps reloads
apart, and they share the array, `loading` and `empty`. A save reads the session's
email when its button is tapped, and the reload that follows it uses that; the tasks
of an appearance and of a swipe read it when they run. Devices meet in the cloud
only: an object and a document of the same date are two separate records with no transaction over them.

### What is hard, and what would be correct

*Gallery.* Reloads overlap; the pool thread races the main thread's append; a
swipe carries the index of a row of the last drawing. Correct: no fetched picture
lost, no row without a fetch or twice from one fetch, a spinner only while
something will turn it off, the message "No pictures found" only if none were
found, a swipe deletes what it was aimed at.

*Session.* Four copies of "the user" (Auth, keychain, `session`, `signInDone`) are
updated on two threads and by queued blocks; listeners accumulate, since `unbind`
has no caller; several log-in requests can be in flight. Correct: once everything
queued was delivered `session` is Auth's user, and the keychain what a restart
should bring back; no reload without a session.

*One application.* Nothing empties the list at a sign-out, fetches are not
cancelled, a save keeps the email of its tap, and an automatic sign-out leaves
`MainView` on the screen. Correct: the rows are the session's once its reload is
over; a picture is saved for "none" only while there really is no user.

*Pictures.* Save and delete are two calls each. Writes outlive the process, their
callbacks do not; a write is resent when the stream breaks; several devices edit
and delete; the id is a second. Correct: a document has its object, an object its
document, each picture stays its owner's, and nothing goes before someone asked.

*Below the calls.* The application trusts each callback of the SDK to come once
and to tell the truth, and the SDK earns that across threads: a cancellation on
Storage's queue crosses the end of the fetch on the main thread; a listener of
`getDocuments` is muted on one thread while another raises it, over a stream
whose responses name a target and not a request; answers to writes carry no id
at all. Correct: every call is answered, once, with what is so; what is shown as
the server's is no older than the question; writes are applied in the order of
the calls and none is dropped.

Every hazard found in the code, with the property that covers it, is in
`PROJECT.json`.

## Modules

* `Gallery` — one device's list. `load[l]` is one call of `getUserData`: the
  program counter walks its lines 25, 26 and 27-30 (one action each, as they run
  off the main thread), then the callbacks at 35-37 and 38-60, and one fetch per
  document found. `save[s]` is one `uploadStorage` and its `uploadData`.
  `FetchRacesClear` is the unsynchronised `append` at line 54 against the clear at
  line 28: the append reads the array before the clear and stores after it.
  `Redraw` copies what `body` shows; `DeleteRow` takes the index of a drawn row,
  reads the array as it is and queues a task (`swiped`), in which `SwipeReload`
  reads the email and reloads. A user may swipe more often than there are `Loads`:
  the reloads of the swipes after that are not followed. The
  cloud is open: a query may fail or answer any
  set of documents.
* `Session` — one device's user. `mainQueue` holds the blocks that Auth and the
  views queue; `RunNotify` delivers a notification to one listener per step,
  because Auth's work queue can change the user between two of them. `Call` is
  FIRAuth's comparison with the user a listener heard last, and the closure of
  `listen()`. `AuthAccepts`, `AutoSignOut`, `LoadKeychain` and `TokenRefreshed` run
  on Auth's work queue; `TapRequest`, `TapLogOut`, `Render` on the main thread;
  `Restart` leaves the keychain only.
* `Pictures` — the cloud and several devices. An upload is `putting`, `stored`
  (bytes on the server, answer on its way) or `ended`. `queue[d][u]` is Firestore's
  queue on disk of user `u` on device `d`, `sent[d]` how many of them the server
  applied on the current stream with no answer delivered. `Apply`, `Ack`, `Refuse`
  and `StreamBreaks` are the stream; `Answered` is `deleteData`'s callback, which
  deletes the object whatever the error. `Kill` keeps the queues and drops
  callbacks, uploads, rows and pending deletes. `blame` notes what went wrong with
  a picture; it guards nothing.
* `PictureLifecycle` — what is promised of a picture: kept before it is listed, and
  unlisted or erased only after someone asked. `Pictures` is shown to implement it,
  with `listed` as "has a document" and `kept` as "has an object".
* `AppLPS` — `Session` and `Gallery` instantiated side by side in one state. Each
  action is one of theirs with the other's variables unchanged, but where they
  meet: `Reload` is `MainView`'s task, which unwraps the email and starts a
  `getUserData`; `SwipeReload` is the task of a swipe, which reads the email when
  it runs, while `SaveTap` passes the one of its tap, or "none"; `Render` draws the
  list as `MainView` appears; `LogOut` touches nothing of the list; `Restart` ends
  both. No callback runs inside another's notification (`MainThread`). `reloaded` is
  history: whether `MainView` reloaded since the session changed, and whether it did
  so once with no other call under way.
* `StorageTask` — `getData`, `putData` and `delete` as the application calls them.
  `mainQueue` and `storageQueue` are the two serial queues. `RunReceived` and
  `BeginFinish`/`FireEnd`/`EndFinish` are the fetcher's blocks on the main thread,
  skipped once it was stopped; the completion is three actions, because a
  cancellation (`StopFetching`, `FireCancelled`) runs on the other queue in
  between. `RunProgress` is the handler that looks at the size, `RunCompletion`
  the closure with the flag `completed`.
* `GetDocuments` — one query asked by several calls. `Call` and `RunEvent` are the
  main thread (`ListenOnce` mutes the listener at its first snapshot), the next
  three the worker queue, then the timers, the watch stream, its messages
  (`Hear...`) and the server as `remote_store.cc` takes it to be. `target` is
  `WatchChangeAggregator`'s count of outstanding responses and what it gathered.
* `WritePipeline` — the calls of `setData` and `delete` of one device, numbered in
  the order in which they are made. `queue` is on disk, by user; `pipeline` is
  filled from the queue of the user signed in; `HearResult` and `StreamRefused`
  take an answer, or a permanent error, for the first write of the pipeline.
  `HandleSuccessfulWrite` notifies the caller and then removes the batch from disk,
  `HandleRejectedWrite` does the two the other way round (`sync_engine.cc` 346-382).
  Both are run by one block of the worker queue, so that only the end of the process
  comes between them: `CrashTold` leaves a write that was told and is still queued,
  `CrashUntold` takes one out that nobody is told of.
* `WriteQueue` — what that promises: the writes of a user settle in order while
  the user is signed in, a callback is told once and of what was applied; an end of
  the process may fall between the two halves of settling (`RestartTold`,
  `RestartUntold`). It is the queue that `Pictures` keeps per device and user.
* `MCPictures`, `MCAppLPS`, `MCStorageTask`, `MCWritePipeline` — symmetry sets,
  constraints, a view and values of constants for TLC; the other modules are run as
  they are.
* `GalleryProofs`, `SessionProofs`, `PicturesProofs`, `PicturesHistoryProofs`,
  `AppLPSProofs`, `StorageTaskProofs`, `GetDocumentsProofs`,
  `WritePipelineProofs` — theorems.

Definitions marked `Mutant` are faulty variants of the definition that follows
them, one per property: with the variant in place the property fails. They are
used by nothing else.

## Runs

| Run | Instance | Properties | Shows |
|---|---|---|---|
| `gallery` | 2 reloads, 1 save, 2 pictures, 2 emails | `ListComplete`, `RowsAccountedFor`, `SoloReloadExact`, `EmptyFlagHonest`, `LoadingHasACause`, `SwipeHitsShown`, `ReloadsEnd`, `SpinnerEnds` | reloads in every interleaving, with the race: nothing fetched is lost, every row is accounted for, a reload that none overlaps is exact and its `empty` true; a swipe hits another picture, or traps, only if a reload emptied the array after the drawing, and both happen; reloads end and the spinner goes, unless a write is never acknowledged |
| `gallery_message` | 1 reload, 1 picture | `NoPicturesMeansNone`: violated | the message appears after a query that failed |
| `session` | 2 users, 2 requests in flight, 2 listeners, 4 blocks | `NeverAnotherUser`, `SessionFollowsUser`, `RestartRestoresUser`, `SessionCatchesUp` | the session, once everything queued ran, is Auth's user; the keychain is what a restart should find; a user who stays becomes the session |
| `session_model` | 2 users, 2 requests, 2 listeners | `UserHasModel`: violated | a sign-out overtaken by a sign-in of the same user leaves a user without a session |
| `session_reload` | the same, the first call of the listener queued ahead of the reload | `SessionAtReload`: violated | a queued reload unwraps the email after a sign-out |
| `app` | 2 users, 1 request, 2 listeners, 2 blocks, 3 reloads, 1 save, 1 picture; at most 3 things under way | `RowsAreSessions`, `NoneIsNobodys` | whose rows the user sees when users follow each other, with a fetch, a save or a swipe's reload of one under way when the next signs in; when a save goes to nobody |
| `pictures` | 2 devices, 1 user, 1 save, 1 picture, queues of 1 | `DocumentHasObject`, `OrphanExplained`, `StoredIsListed`, `DeletedIsErased` | a document loses its object, or an object its document, only for the causes named; a stored object gets its document, a deleted picture loses its object, unless something is to blame |
| `pictures_users` | 1 device, 2 users, 2 saves that may share a second, queues of 1 | `PictureStaysOwners`, `ImplementsLifecycle` | a device that changes hands with writes and rows left over: each picture stays its owner's and lives as promised |
| `pictures_alert` | 1 device, 1 picture | `EditedSuccessfully`: violated | an edit announced as done is refused afterwards |
| `storage` | a download that fits, one too large, an upload and a delete, two at once | `AnsweredOnce`, `DataIsWhole`, `ErrorHasCause`, `CallsAnswered` | cancellations cross ends of transfers at every line: each caller hears once, of data that is whole or of an error with a cause; only a failed upload is never heard of |
| `get` | 2 calls, 1 each of commits, failures, restarts and refusals | `AnsweredOnce`, `ServerViewIsNew`, `OutstandingIsAwaited`, `TrackerAgrees`, `StreamAsNeeded`, `GetAnswered` | calls that follow or join each other are answered, once; late messages of an earlier listen do not pass for the answer; the assertions of `remote_store.cc` and `online_state_tracker.cc` hold |
| `write` | 2 users, 5 writes, 2 of them refused, 3 in the pipeline, 1 break, 2 restarts or changes of user; the process may also end between the halves of settling | `PipelineIsPrefix`, `SentIsPipeline`, `StreamAsNeeded`, `NoOvertaking`, `NoneDropped`, `ImplementsQueue`, `ToldOnce`, `WritesSettle` | what is sent and not answered is the pipeline, so answers without an id find their write; writes are applied in order, none leaves its queue before the server applied it or refused it, all settle, no callback is told twice although ids are used again, and the whole is the queue that it promises |

The types of every module are proved, and not checked again.

### Bounds, and why they are enough

Each bound limits how often something happens, never in which order.

*Gallery*: an overlap is a matter of two reloads, one emptying under the other's
fetches; the second is also what a swipe of a row that the first brought is late
for, so that the run has swipes that hit another picture and swipes that trap. Two
pictures make order and duplicates visible; the second email is the
one used without a session, which a delete or save can pass while `MainView`
passes a user's. *Session*: the comparison in a listener needs two users,
overtaking needs two requests, piled-up listeners and a change between two of them
need two listeners; four blocks hold a notification, a log-in and the two blocks
of an appearance, and a longer queue only delays. *AppLPS*: the parts are checked
alone with larger bounds, and what is of interest here is who is signed in when
something of an earlier user comes back. `MaxBusy` bounds the blocks, requests,
reloads and uploads under way at once to any three: a fetch, or a swipe's task, of
one user beside the two blocks that a sign-in of the next one queues. With three
reloads both exceptions that `RowsAreSessions` makes are reached: a row of an
overlapped call, and a row that another user's save brought after a reload that was
alone. `KeychainWorks` and `NobodySignsUp` leave out what only `Session` tells apart
(a keychain that fails, a sign-up for a sign-in). `Taps` says which taps of
`MainView` are made. The users are interchangeable, and `Seen` is the view: it names
all of `Session`, and of `Gallery` what a guard of `AppLPS` or one of the two
properties reads. What it leaves out (which documents a finished call found, the
order of the rows, the history of `Gallery`'s own properties, the contents of the
drawing but for its length) decides no step's effect on what it names; the flag
`empty` and the kind of drawing only decide whether a redraw changes anything.
The theorem `RowsAreOwn` rests on neither bound nor view.
*Pictures*: pictures do not interact, since every guard and effect is about one
date, so one is enough for properties stated per picture; two saves are needed for
two owners of a second; two devices, or two users of one device, for writes that
cross. A delete and an edit that wait in one queue take two places: that case is
covered by the proofs. *StorageTask*: calls meet only in the two queues, so two at
once (`MaxBusy`); `Limit` is one chunk, the download that fits is of exactly that
size and the other of one more. *GetDocuments*: the second call joins the first,
or comes between the removal of the first and the answer to it; one commit tells
an old answer from a new one; `MaxBreaks`, `MaxRestarts` and `MaxRejects` allow one
failure, one restart and one refusal at any point, also in one behaviour.
*WritePipeline*: with three in the pipeline (`MaxPending`, ten in the code) and
five writes (`MaxWrites`, called in the order of their numbers) it overflows and is
refilled; writes 2 and 5 are the refused ones, behind one and in front of others;
two restarts bring a user back to a queue left over from before, or end the process
once in the middle of settling and once after.

What is proved below is free of these bounds, and of the symmetry used.

### Fairness

* *Gallery*: a queued task runs; Firestore answers a query, from its cache when
  offline; Storage ends each transfer by its retry time, if only with an error.
  Nothing is assumed of the acknowledgement of `setData`, which does not come while
  there is no connection, nor of the user, nor of drawing: `SpinnerEnds` names the
  unacknowledged write as an exception.
* *Session*: the main thread runs its queue. Nothing is assumed of Auth's server.
* *AppLPS*: none; its properties are safety properties.
* *Pictures*: Storage answers each upload and delete (weak fairness of success or
  failure together); the server applies what it is sent; and the write stream,
  which `remote_store.cc` restarts with backoff as long as writes wait, answers now
  and then. Since it can break for ever in between, the answer needs strong
  fairness. A parked queue may wait for ever, so that run has one user.
* *StorageTask*: the two queues run their blocks, and a transfer goes on or ends, if
  only with the error at the end of its retry time. Nobody has to cancel.
* *GetDocuments*: the main and the worker queue run their blocks, the online timeout
  and the backoff elapse, an attempt to open the stream opens or fails, requests are
  served and messages arrive. Failures are bounded (`MaxBreaks`), so that the run
  shows an answer once what is tried on the network ends; the idleness timer,
  restarts and commits need not happen.
* *WritePipeline*: the backoff elapses, and while something can happen on the network
  something does; which of its steps it is, the bound on failures decides.

## Proofs

All theorems are for any sets of devices, users, pictures, calls and saves, any
bounds, from the assumptions named in the modules: the nil values are not elements
of the sets they stand beside, the bounds are naturals, "none" is an email.

`GalleryProofs` proves every safety property of `gallery`. They are not inductive:
`SoloReloadExact` needs that, while the call that emptied the array was alone, no
other has fetches outstanding (`SoloIsAlone`) and every row is its own
(`SoloRows`), and that a row of such a call is there only while the array is its work
(`SoloOwns`); `SwipeHitsShown` needs that the drawing is a prefix of the array until
a reload empties it (`DrawnIsPrefix`); `RowsAccountedFor` needs that a picture is
not both fetched and awaited (`FetchesSound`). `IInv` joins them; each conjunct has
a lemma that every step preserves it.

`SessionProofs` proves the safety properties of `session`. The invariant says for
each listener who will still tell it: a listener not called yet has its first call
queued (`UncalledWait`), one that was called knows Auth's user or a notification
that has not reached it is queued (`CalledKnow`), the session, if any, is the user
some listener was last called for (`SessionHeard`), and without a session, while
nothing was overtaken, no listener takes Auth's user for the one it already
knows (`NoneMistaken`).

`AppLPSProofs` is about the two parts as they meet. The actions of `AppLPS` are
written with those of `Session` and `Gallery`, so that what is proved of a part
carries over (`UserImplemented`, `ListImplemented`): its invariant is cited through
an instance of its proof module. `NoneIsForNobody` follows from the invariant of
`Session` at the tap. `RowsAreOwn` is about the whole, and holds of neither part:
a lone call made neither for this session nor for a save of the row's user is over
once `MainView` reloaded for the session, and another call emptied the array after it
or is about to (`OthersArePast`); and once `MainView` reloaded with no
other call under way, the calls under way are the session's or a save's, and so are
the rows, or the array is about to be emptied (`AloneIsOwn`). With
`SoloReloadExact` and `SoloOwns` of `Gallery`, every row is then the session's or
among the two exceptions.

`PicturesProofs` proves the types, `DocumentHasObject` and the refinement of
`PictureLifecycle`. The invariant follows whatever lists a picture or is about to:
documents, waiting writes, stored uploads and rows each have the object or a
picture that is `Gone`, that is whose document was deleted on the server or whose
delete was refused. An object is deleted only for a `Gone` picture (`ErasingGone`),
because a delete that was sent has been applied (`SentDropped`), and all of it was
asked for (`DeletesAsked`). Each step has a lemma; frame lemmas (`Keep...`) carry
the conjuncts it does not touch. `ListedPictureIsKept` is the promise read off the
abstract specification.

`PicturesHistoryProofs` proves `PictureStaysOwners`, since documents, writes and rows
all carry the email of an upload of their date, and a save is made once; and
`OrphanExplained`: while an object has no document,
either something is already to blame, or a stored upload, a save not applied on
this stream, a delete whose callback is alive or a delete of the object is on its
way (`Coming`), and each step that takes one of these away puts the next in its
place or blames something.

`StorageTaskProofs` proves the safety properties of `storage`, for any number of
calls, sizes and limit. `AnsweredOnce` is not inductive. An upload or a delete has
no flag like `completed`: it is told once because the end of a fetch is queued once
(`QueueOnce`), handed on once, and until then nothing was told and no success is
queued (`EndOnce`). A cancellation is only ever queued for a download that is too
large (`StorageSound`), and what a block stands for is still so when it runs
(`QueueSound`, `FetchSound`, `AnswerSound`), since a fetch that ended does not
change again.

`GetDocumentsProofs` proves the safety properties of `get`, in two layers.
`TrackerAgrees` and `StreamAsNeeded` are inductive with the types. `AnsweredOnce`
rests on `EventInv`: the listener of a call is queued once and not while it listens;
after an error, the last of its events, nothing more is raised for a call
(`ErrorIsLast`, `Deaf`), and a call that was answered is muted or was answered by
that error (`AnsweredIsDeaf`).

The second layer, `AgeInv`, is about what lies on the stream. `OutstandingIsAwaited`
is inductive with a little more (`Closed`: a stream that is not open has nothing on
its way), as long as nothing was refused. `ServerViewIsNew` then follows from
`OldIsFollowed`: documents from before the listen are followed by an answer, so that
when they are heard the count is not zero and they are ignored. A refusal breaks the
count, and `CountInv` says how far: it is one too high for the rest of the stream
(nobody was there to hear it), or requests that were on their way are forgotten
(`Miscounted`). In the second case the target becomes active one answer too early;
nothing is shown even so, because watches and unwatches take turns (`Turns`), the
two answers that come next are those of an unwatch and a watch, and between them the
server sends no documents (`Behind`), while the listener of the second listen, told
nothing yet, is not removed (`Untold`, `Told`).

`WritePipelineProofs` proves the safety properties of `write` and the refinement of
`WriteQueue`. The invariant has three parts. `StoreInv` is about what is kept: ids
increase along each queue and are below the next one (`Ids`), a write is in one
place of one queue (`Distinct`), a callback is that of a batch in a queue
(`CallbackQueued`). `StreamInv` is about what is sent: the pipeline is as much of the
beginning of the queue as there is room for (`Filled`), and answers and requests on
their way, in that order, are the writes of the pipeline (`Sent`, in `Wire`).
`LogInv` is about what the server did: an answer is of a write that was applied
(`Answered`), `NoOvertaking` and `NoneDropped` by places (`Ordered`, `Kept`), and who
was told has no callback left (`Heard`), so that an id that is used again finds no
callback of an earlier batch. That `FirstId` is above all ids needs the largest of a
finite set to exist. Lemmas say what `Fill`, `NextAfter` and `Settle` do to a queue by
places (`NextAfterIs`, `SettleQueue`). `Kept` speaks of queues and
log only, so that it covers a write whose callback ended with an earlier process: a
batch leaves its queue as the head of it, when the answer that is heard is its own or
the refusal is (`GoneKept`). Under the refinement a call is `Issue`, `ServeWrite` is
`Apply`, `HearResult` and `StreamRefused` are `Settle`, `ChangeCredentials` is
`ChangeUser`, `Crash` is `Restart`, `CrashTold` is `RestartTold`, or `Restart`
where the callback was gone already, `CrashUntold` is `RestartUntold`, and every other
step changes nothing that `WriteQueue` sees. `CallbacksToldOnce` and `OkIsTrue` are what
the application may rely on of that queue.

Model-checked only: the liveness properties (`ReloadsEnd`, `SpinnerEnds`,
`SessionCatchesUp`, `StoredIsListed`, `DeletedIsErased`, `CallsAnswered`,
`GetAnswered`, `WritesSettle`), which rest on fairness and are out of the prover's
reach, and the violations. Every safety property of the passing runs is proved.

## Findings

The four violations are at `PROJECT.json` "findings": the message after a failed
query (`MainView.swift:32`), the session lost when a sign-in overtakes a sign-out
(`FirebaseController.swift:146`, `183`), the unwrapped email (`MainView.swift:63`)
and the premature alert (`MainView.swift:135`).

Other behaviour the properties had to make room for, and name:

* Two overlapping reloads show a picture twice (`RowsAccountedFor` says by which
  calls); a swipe after a reload can hit another picture or trap (`x.reset`).
* A refused delete of a document still deletes its object, an edit can bring a
  deleted document back (`DocumentHasObject`); saves of the same second share a
  picture (`Collided`).
* Rows of one user reach the next user's list in two ways that `RowsAreSessions`
  names: a save acknowledged after a sign-out starts a reload with the email of its
  tap; and a reload that was under way when `MainView` reloaded for the next user
  goes on, or gives its place to one that overlaps it. Without either the rows are
  the session's.
* The process may end after `setData`'s callback ran and before the batch left the
  disk: the write is then sent again, although it was said to be done
  (`RestartTold`).
* A download that is too large can be delivered as data: the cancellation of
  `FIRStorageReference.m:311` is queued on Storage's queue and may find the fetch
  over, although `FIRStorageReference.h` 176-181 promises an error (`DataIsWhole` says
  what is delivered, not that it is within the limit).
* A get that begins while the stream starts and the state is Unknown may find no
  timeout running, as the one that removed the last listener cancelled it
  (`remote_store.cc:187`): it waits until the stream opens or fails (`GetAnswered`
  assumes that one of these happens).
* A refused listen can put the count of outstanding responses wrong: it is not
  counted down if the listener is gone, and forgets the requests sent since if
  another took its place (`remote_store.cc:267`, `ProcessTargetError`). Then the
  target is not active on that stream, and a get waits for the next stream
  (`OutstandingIsAwaited`, `GetAnswered`). After a second refusal on the stream the
  forgotten requests can make the count zero while documents of an earlier listen
  are still to come, and these are shown as the server's: with four calls, two
  refusals and one commit TLC finds this after 25 steps, with nothing failing or
  restarted. `ServerViewIsNew` is therefore about at most one refusal, for any number
  of calls.
* A write may be reported refused although it was applied: `HandleWriteError` takes
  the first of the pipeline for the refused one (`remote_store.cc:515`), and when
  the server ends the stream the answers that were not read are lost
  (`grpc_stream.cc` 231-252). `NoneDropped` says that nothing is lost on the server:
  it is about the queues and what was applied, not about what was told.

## What is left out, and the abstractions made

* Names, bytes, metadata, formatting, messages, passwords and fields. A picture that
  cannot be encoded or decoded is left out.
* *Gallery*: what the cloud holds (open), and the user's changes: the email of each
  call is arbitrary. That `session` is nil at a reload is `Session`'s matter.
* *Session*: `AuthAccepts` queues the notification and the handler of `login()` in
  one step, though another block may fall between: that block commutes with the
  handler. `signOut` waits for the work queue, and what that does before commutes
  with the tap.
* *AppLPS*: the task of a swipe may run before or after any block of the main queue:
  it is not one of them, and the order in which the main actor's jobs and these
  blocks are served is not assumed.
* *Pictures*: a query and the fetch of its images are one step, as rows may be stale
  in any case; a cached query answer that is older is such a stale row. The success
  handler of an upload runs once, which `StorageTask` shows. The email "none" is left
  out, and is `AppLPS`'s matter. A server that recognises a resent write behaves as
  one whose stream did not break. A refusal comes after the answers to the writes
  before it were heard: that it may be reported of another write is `WritePipeline`'s
  matter. A save's reload has no
  effect here. `Ack` tells the callback and removes the write in one step; that the
  process can end between the two is `WritePipeline`'s matter.
* *StorageTask*: pausing, resuming and removing handlers, which the application does
  not do. A fetch is what its callbacks and `stopFetching` make of it; the chunks of a
  transfer are units, and a retry is one more delay before the end.
* *GetDocuments*: documents are a number that counts commits, so that a view that is
  older is recognised and nothing else is. One query and one target. Limbo documents,
  existence filters, resume tokens and disabling the network are left out. Of the
  server it is assumed that it ends its work on a stream with the stream, answers each
  request in order, and sends a snapshot only after what it stands for.
* *WritePipeline*: the contents of writes, stream tokens, transactions,
  `waitForPendingWrites` and disabling the network. The server applies the writes of
  a stream in order and, at one that it refuses, ends the stream.

### Not modelled

* The password reset is one request whose answer is printed; the image picker sets two
  bindings of one view; fields, sheets, header and the unused files are drawing.
* Realtime Database, Installations, Analytics and the rest of the SDK are not called
  by the application. gRPC, BoringSSL, leveldb, abseil, nanopb are libraries under the
  level of these models, each a project of its own; they are what most of the
  repository's lines are.

## Plan

What a next step would take, in this order:

1. `Pictures` over the queue of `WriteQueue`, with the refusal that is reported of
   another write and what `deleteData`'s callback then does with the object.
2. `GetDocuments` with two targets, as a change of user asks a second query while the
   first is being removed, and with existence filters and limbo documents.
