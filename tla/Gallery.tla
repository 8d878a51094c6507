------------------------------ MODULE Gallery ------------------------------
(***************************************************************************)
(* The gallery of one device: the three published variables of             *)
(* FirebaseController (refImagenesUsuario, loading, empty), the calls of   *)
(* getUserData that rebuild them, the saves that reload them, and the rows *)
(* that MainView draws from them and lets the user swipe away.             *)
(*                                                                         *)
(* Two kinds of code touch the variables.  Callbacks of Firestore and      *)
(* Storage, taps and drawing run on the main thread, one whole handler at  *)
(* a time: each is one action.  The first lines of getUserData, an async   *)
(* method of a class bound to no actor, run on a thread of the Swift pool: *)
(* each of its assignments is an action, and its clearing of the array can *)
(* fall inside an append that the main thread is making (FetchRacesClear). *)
(* The cloud is open: a query may fail or return any set of documents.     *)
(***************************************************************************)
EXTENDS Naturals, Sequences, FiniteSets, SequencesExt

CONSTANTS
  Dates,    \* fechas: the id of a document of "Files" and of its image
  Emails,   \* values of correoUsuario
  None,     \* the one used when there is no session: "none"
  Loads,    \* calls of getUserData: bounds how many are ever made
  Saves,    \* calls of uploadStorage: bounds how many are ever made
  NoLoad,   \* no call of getUserData yet
  NoDate    \* no picture

ASSUME NoneAssumption == None \in Emails
ASSUME NoLoadAssumption == NoLoad \notin Loads
ASSUME NoDateAssumption == NoDate \notin Dates

VARIABLES
  loading,             \* the spinner replaces the list
  empty,               \* no document of the user was found
  refImagenesUsuario,  \* the rows
  load,                \* where each call of getUserData is
  save,                \* where each call of uploadStorage is
  screen,              \* what MainView last drew
  crashed,             \* the array was indexed out of range: the process ends
  \* History, read by no guard:
  owner,               \* the call of getUserData that emptied the array last
  reset,               \* the array was emptied since MainView last drew
  deletes              \* what each swipe was aimed at and what it deleted

appVars == <<loading, empty, refImagenesUsuario>>
vars == <<loading, empty, refImagenesUsuario, load, save, screen, crashed,
          owner, reset, deletes>>

-----------------------------------------------------------------------------
\* Types

LoadPc == {"unused", "swiped", "ready", "spinning", "marked", "asking", "failed", "answered"}

\* fetching, got: images whose getData is outstanding, and those appended.
\* found, solo are history: the documents of the user the query returned, and
\* that no other call was under way at any time between its start and its end.
LoadRecord == [pc: LoadPc, email: Emails, fetching: SUBSET Dates,
               found: SUBSET Dates, got: SUBSET Dates, solo: BOOLEAN]

SaveRecord == [pc: {"unused", "putting", "writing", "failed", "done"}, email: Emails]

\* The name and the bytes of a UserImage are left out; from is history.
UserImage == [date: Dates, email: Emails, from: Loads]

Screen == [kind: {"spinner", "none", "list"}, rows: Seq(UserImage)]

TypeOK ==
  /\ loading \in BOOLEAN
  /\ empty \in BOOLEAN
  /\ refImagenesUsuario \in Seq(UserImage)
  /\ load \in [Loads -> LoadRecord]
  /\ save \in [Saves -> SaveRecord]
  /\ screen \in Screen
  /\ crashed \in BOOLEAN
  /\ owner \in Loads \cup {NoLoad}
  /\ reset \in BOOLEAN
  /\ deletes \subseteq [shown: Dates, hit: Dates \cup {NoDate}, reset: BOOLEAN]

-----------------------------------------------------------------------------
\* getUserData

Running(l) == load[l].pc \in {"ready", "spinning", "marked", "asking"}
                \/ load[l].fetching # {}

\* getUserData(e) is called: it waits for a thread of the pool.
Called(l, e) ==
  [k \in Loads |->
     IF k = l
       THEN [pc |-> "ready", email |-> e, fetching |-> {}, found |-> {},
             got |-> {}, solo |-> \A j \in Loads : ~Running(j)]
       ELSE [load[k] EXCEPT !.solo = @ /\ ~Running(k)]]

\* Task { await getUserData(e) }, with an email that the task does not read.
Spawn(l, e) ==
  /\ load[l].pc = "unused"
  /\ load' = Called(l, e)

At(l, pc) == ~crashed /\ load[l].pc = pc
Goto(l, pc) == load' = [load EXCEPT ![l].pc = pc]

\* MainView appears, or appears again.  The email is that of the session,
\* unwrapped: without a session the process ends before the call.
Appear(l, e) ==
  /\ ~crashed
  /\ e # None
  /\ Spawn(l, e)
  /\ UNCHANGED <<appVars, save, screen, crashed, owner, reset, deletes>>

SetLoading(l) ==
  /\ At(l, "ready")
  /\ loading' = TRUE
  /\ Goto(l, "spinning")
  /\ UNCHANGED <<empty, refImagenesUsuario, save, screen, crashed, owner, reset, deletes>>

\* Mutant: the flag keeps the answer to the previous query.
SetEmptyForgotten(l) ==
  /\ At(l, "spinning")
  /\ Goto(l, "marked")
  /\ UNCHANGED <<appVars, save, screen, crashed, owner, reset, deletes>>

SetEmpty(l) ==
  /\ At(l, "spinning")
  /\ empty' = TRUE
  /\ Goto(l, "marked")
  /\ UNCHANGED <<loading, refImagenesUsuario, save, screen, crashed, owner, reset, deletes>>

\* Mutant: the query is sent, the old rows stay.
AskWithoutClear(l) ==
  /\ At(l, "marked")
  /\ Goto(l, "asking")
  /\ owner' = l
  /\ UNCHANGED <<appVars, save, screen, crashed, reset, deletes>>

ClearAndAsk(l) ==
  /\ At(l, "marked")
  /\ refImagenesUsuario' = <<>>
  /\ Goto(l, "asking")
  /\ owner' = l
  /\ reset' = TRUE
  /\ UNCHANGED <<loading, empty, save, screen, crashed, deletes>>

\* Mutant: the error branch returns before the spinner is turned off.
QueryFailsEarly(l) ==
  /\ At(l, "asking")
  /\ Goto(l, "failed")
  /\ UNCHANGED <<appVars, save, screen, crashed, owner, reset, deletes>>

\* Mutant: the error branch asks again.
QueryRetries(l) ==
  /\ At(l, "asking")
  /\ Goto(l, "marked")
  /\ UNCHANGED <<appVars, save, screen, crashed, owner, reset, deletes>>

\* getDocuments calls back with an error.
QueryFails(l) ==
  /\ At(l, "asking")
  /\ Goto(l, "failed")
  /\ loading' = FALSE
  /\ UNCHANGED <<empty, refImagenesUsuario, save, screen, crashed, owner, reset, deletes>>

\* getDocuments calls back with all of "Files", here the email of each
\* document; the images of the documents of the user are requested.
QueryAnswers(l, files) ==
  LET found == {d \in DOMAIN files : files[d] = load[l].email} IN
  /\ At(l, "asking")
  /\ load' = [load EXCEPT ![l].pc = "answered", ![l].found = found, ![l].fetching = found]
  /\ empty' = (empty /\ found = {})
  /\ loading' = FALSE
  /\ UNCHANGED <<refImagenesUsuario, save, screen, crashed, owner, reset, deletes>>

\* getData calls back with an error: the handler returns at once.
FetchFails(l, d) ==
  /\ ~crashed
  /\ d \in load[l].fetching
  /\ load' = [load EXCEPT ![l].fetching = @ \ {d}]
  /\ UNCHANGED <<appVars, save, screen, crashed, owner, reset, deletes>>

Row(l, d) == [date |-> d, email |-> load[l].email, from |-> l]

\* Mutant: the callback can come again.
FetchedAgain(l, d) == [load EXCEPT ![l].got = @ \cup {d}]

Fetched(l, d) == [load EXCEPT ![l].fetching = @ \ {d}, ![l].got = @ \cup {d}]

\* Mutant: the array is assigned what the callback has at hand.
FetchReplaces(l, d) ==
  /\ ~crashed
  /\ d \in load[l].fetching
  /\ load' = Fetched(l, d)
  /\ refImagenesUsuario' = <<Row(l, d)>>
  /\ loading' = FALSE
  /\ UNCHANGED <<empty, save, screen, crashed, owner, reset, deletes>>

\* Mutant: the newest row goes first.
FetchPrepends(l, d) ==
  /\ ~crashed
  /\ d \in load[l].fetching
  /\ load' = Fetched(l, d)
  /\ refImagenesUsuario' = <<Row(l, d)>> \o refImagenesUsuario
  /\ loading' = FALSE
  /\ UNCHANGED <<empty, save, screen, crashed, owner, reset, deletes>>

FetchSucceeds(l, d) ==
  /\ ~crashed
  /\ d \in load[l].fetching
  /\ load' = Fetched(l, d)
  /\ refImagenesUsuario' = Append(refImagenesUsuario, Row(l, d))
  /\ loading' = FALSE
  /\ UNCHANGED <<empty, save, screen, crashed, owner, reset, deletes>>

\* The append reads the array, k empties it on its own thread, the append
\* stores what it read with one row more: the clearing of k is lost.
FetchRacesClear(l, d, k) ==
  /\ ~crashed
  /\ d \in load[l].fetching
  /\ load[k].pc = "marked"
  /\ load' = [Fetched(l, d) EXCEPT ![k].pc = "asking"]
  /\ refImagenesUsuario' = Append(refImagenesUsuario, Row(l, d))
  /\ loading' = FALSE
  /\ owner' = k
  /\ UNCHANGED <<empty, save, screen, crashed, reset, deletes>>

-----------------------------------------------------------------------------
\* uploadStorage and uploadData

\* A picture that cannot be encoded as jpeg starts nothing and is left out.
UploadStorage(s, e) ==
  /\ ~crashed
  /\ save[s].pc = "unused"
  /\ save' = [save EXCEPT ![s] = [pc |-> "putting", email |-> e]]
  /\ UNCHANGED <<appVars, load, screen, crashed, owner, reset, deletes>>

\* putData fails: only .success is observed, so nobody hears of it.
PutFails(s) ==
  /\ ~crashed
  /\ save[s].pc = "putting"
  /\ save' = [save EXCEPT ![s].pc = "failed"]
  /\ UNCHANGED <<appVars, load, screen, crashed, owner, reset, deletes>>

UploadData(s) ==
  /\ ~crashed
  /\ save[s].pc = "putting"
  /\ save' = [save EXCEPT ![s].pc = "writing"]
  /\ loading' = TRUE
  /\ UNCHANGED <<empty, refImagenesUsuario, load, screen, crashed, owner, reset, deletes>>

\* setData calls back; without a connection it never does.
WriteFails(s) ==
  /\ ~crashed
  /\ save[s].pc = "writing"
  /\ save' = [save EXCEPT ![s].pc = "failed"]
  /\ loading' = FALSE
  /\ UNCHANGED <<empty, refImagenesUsuario, load, screen, crashed, owner, reset, deletes>>

WriteSucceeds(s, l) ==
  /\ ~crashed
  /\ save[s].pc = "writing"
  /\ save' = [save EXCEPT ![s].pc = "done"]
  /\ loading' = FALSE
  /\ Spawn(l, save[s].email)
  /\ UNCHANGED <<empty, refImagenesUsuario, screen, crashed, owner, reset, deletes>>

-----------------------------------------------------------------------------
\* MainView

Drawing ==
  [kind |-> CASE loading -> "spinner"
              [] ~loading /\ empty /\ refImagenesUsuario = <<>> -> "none"
              [] OTHER -> "list",
   rows |-> IF loading THEN <<>> ELSE refImagenesUsuario]

Redraw ==
  /\ ~crashed
  /\ screen # Drawing \/ reset
  /\ screen' = Drawing
  /\ reset' = FALSE
  /\ UNCHANGED <<appVars, load, save, crashed, owner, deletes>>

\* The user swipes row i of the drawing; deleteData reads index i of the
\* array as it is now, and traps when there is none.  A task is queued that
\* reloads; when all of Loads are used it is not followed any further.
DeleteRow(i, l) ==
  /\ ~crashed
  /\ i \in DOMAIN screen.rows
  /\ (\E k \in Loads : load[k].pc = "unused") => load[l].pc = "unused"
  /\ LET inRange == i \in DOMAIN refImagenesUsuario
         hit == IF inRange THEN refImagenesUsuario[i].date ELSE NoDate
     IN /\ deletes' = deletes \cup
              {[shown |-> screen.rows[i].date, hit |-> hit, reset |-> reset]}
        /\ crashed' = ~inRange
        /\ IF inRange /\ load[l].pc = "unused" THEN Goto(l, "swiped") ELSE UNCHANGED load
  /\ UNCHANGED <<appVars, save, screen, owner, reset>>

\* The task reads the email of the session and reloads.
SwipeReload(l, e) ==
  /\ At(l, "swiped")
  /\ load' = Called(l, e)
  /\ UNCHANGED <<appVars, save, screen, crashed, owner, reset, deletes>>

-----------------------------------------------------------------------------
\* The cloud's answers: some documents of "Files", each with its email.
FilesSnapshots == UNION {[D -> Emails] : D \in SUBSET Dates}

NoCall == [pc |-> "unused", email |-> None, fetching |-> {}, found |-> {}, got |-> {}, solo |-> FALSE]

NoUpload == [pc |-> "unused", email |-> None]

Init ==
  /\ loading = FALSE
  /\ empty = TRUE
  /\ refImagenesUsuario = <<>>
  /\ load = [l \in Loads |-> NoCall]
  /\ save = [s \in Saves |-> NoUpload]
  /\ screen = Drawing
  /\ crashed = FALSE
  /\ owner = NoLoad
  /\ reset = FALSE
  /\ deletes = {}

LoadNext(l) ==
  \/ \E e \in Emails : Appear(l, e) \/ SwipeReload(l, e)
  \/ SetLoading(l)
  \/ SetEmpty(l)
  \/ ClearAndAsk(l)
  \/ QueryFails(l)
  \/ \E files \in FilesSnapshots : QueryAnswers(l, files)
  \/ \E d \in Dates :
       \/ FetchFails(l, d)
       \/ FetchSucceeds(l, d)
       \/ \E k \in Loads : FetchRacesClear(l, d, k)

SaveNext(s) ==
  \/ \E e \in Emails : UploadStorage(s, e)
  \/ PutFails(s)
  \/ UploadData(s)
  \/ WriteFails(s)
  \/ \E l \in Loads : WriteSucceeds(s, l)

\* The process ends, or had ended, and a new one starts with a new controller.
Restart ==
  /\ loading' = FALSE
  /\ empty' = TRUE
  /\ refImagenesUsuario' = <<>>
  /\ load' = [l \in Loads |-> NoCall]
  /\ save' = [s \in Saves |-> NoUpload]
  /\ screen' = [kind |-> "none", rows |-> <<>>]
  /\ crashed' = FALSE
  /\ owner' = NoLoad
  /\ reset' = FALSE
  /\ deletes' = {}

Step ==
  \/ \E l \in Loads : LoadNext(l)
  \/ \E s \in Saves : SaveNext(s)
  \/ Redraw
  \/ \E l \in Loads : \E i \in DOMAIN screen.rows : DeleteRow(i, l)

Next == Step \/ Restart

Spec == Init /\ [][Next]_vars

-----------------------------------------------------------------------------
\* Fairness: a queued task runs; Firestore answers a query, from its cache
\* when there is no connection; Storage ends each transfer, with an error when
\* its retry time is over.  Nothing is assumed of setData, which is silent
\* for as long as there is no connection, nor of the user, nor of drawing.
LoadFairness(l) ==
  /\ WF_vars(\E e \in Emails : SwipeReload(l, e))
  /\ WF_vars(SetLoading(l))
  /\ WF_vars(SetEmpty(l))
  /\ WF_vars(ClearAndAsk(l))
  /\ WF_vars(QueryFails(l) \/ \E files \in FilesSnapshots : QueryAnswers(l, files))
  /\ \A d \in Dates : WF_vars(FetchFails(l, d) \/ FetchSucceeds(l, d))

FairSpec == Spec /\ \A l \in Loads : LoadFairness(l)

-----------------------------------------------------------------------------
\* Properties

\* The spinner is never on without a call that will turn it off: a
\* getUserData whose query is not answered yet, or an uploadData whose
\* setData is not acknowledged yet.  (loading is set in two methods and
\* reset in four callbacks, of any number of overlapping calls.)
LoadingHasACause ==
  loading => \/ \E l \in Loads : load[l].pc \in {"spinning", "marked", "asking"}
             \/ \E s \in Saves : save[s].pc = "writing"

\* Every picture that the call which emptied the array last has fetched since
\* is in the array, whatever other calls, appends and races went between.
ListComplete ==
  \A l \in Loads : owner = l =>
    \A d \in load[l].got : \E i \in DOMAIN refImagenesUsuario :
      refImagenesUsuario[i] = Row(l, d)

\* Each row is a picture some call fetched, for the email that call was made
\* for, and no call puts a picture there twice.  (Two overlapping calls do:
\* the rows then differ in the call they come from only.)
RowsAccountedFor ==
  \A i \in DOMAIN refImagenesUsuario :
    LET row == refImagenesUsuario[i] IN
    /\ row.date \in load[row.from].got
    /\ row.email = load[row.from].email
    /\ \A j \in DOMAIN refImagenesUsuario \ {i} : refImagenesUsuario[j] # row

\* A reload that no other overlaps leaves exactly the pictures it fetched:
\* nothing of the previous list, or of the previous user, stays.
SoloReloadExact ==
  \A l \in Loads : owner = l /\ load[l].solo =>
    ToSet(refImagenesUsuario) = {Row(l, d) : d \in load[l].got}

\* After such a reload the flag empty, on which "No pictures found" rests,
\* says whether the query found a picture, even when none could be fetched.
EmptyFlagHonest ==
  \A l \in Loads :
    owner = l /\ load[l].solo /\ (\A k \in Loads \ {l} : ~Running(k)) =>
      (empty <=> load[l].found = {})

\* A swipe deletes the picture it was aimed at, and finds a picture at all,
\* unless a reload emptied the array after MainView drew the row.
SwipeHitsShown ==
  \A x \in deletes : x.hit = x.shown \/ x.reset

\* What MainView tells the user (MainView.swift:32, "No pictures found"): when
\* it says so and no reload is under way, the query found none.
NoPicturesMeansNone ==
  \A l \in Loads :
    /\ owner = l
    /\ \A k \in Loads : ~Running(k)
    /\ screen.kind = "none"
    /\ screen = Drawing
    => load[l].pc = "answered" /\ load[l].found = {}

\* Every reload comes to an end, that of a swipe included, unless the process
\* does.
ReloadsEnd ==
  \A l \in Loads :
    LET awaited == load[l].pc = "swiped" \/ Running(l)
    IN  awaited ~> (~awaited \/ crashed)

\* The spinner goes away, unless the process ends or a setData stays
\* unacknowledged.
SpinnerEnds ==
  loading ~> (~loading \/ crashed \/ \E s \in Saves : save[s].pc = "writing")

=============================================================================
