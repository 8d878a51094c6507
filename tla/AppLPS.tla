------------------------------- MODULE AppLPS -------------------------------
(***************************************************************************)
(* One running application: Session (who is signed in) and Gallery (what   *)
(* the list holds) share the main thread and one FirebaseController.  They *)
(* meet where a view passes the session's email to it.  The reload of      *)
(* MainView and that of a swipe read it when their task runs, the Save     *)
(* button when it is tapped: a save carries that email to the reload that  *)
(* follows it, whoever is signed in by then.  Nothing empties the list     *)
(* when the session ends, and no call of getUserData is cancelled.         *)
(***************************************************************************)
EXTENDS Naturals, Sequences

CONSTANTS
  Users, NoUser, Requests, AppearOrders, MaxListeners, MaxQueue,  \* of Session
  None, Dates, Loads, Saves, NoLoad, NoDate,                      \* of Gallery
  Taps          \* what the user does in MainView: "save", "swipe"

ASSUME NoUserAssumption == NoUser \notin Users
ASSUME OrdersAssumption == AppearOrders \subseteq {"listenFirst", "reloadFirst"}
ASSUME BoundsAssumption == MaxListeners \in Nat /\ MaxQueue \in Nat
ASSUME NoneAssumption == None \notin Users
ASSUME NoLoadAssumption == NoLoad \notin Loads
ASSUME NoDateAssumption == NoDate \notin Dates

VARIABLES
  \* Session, with unwrapped for its crashed
  currentUser, keychain, loaded, mainQueue, listeners, session, signInDone,
  shown, requests, unwrapped, overtaken,
  \* Gallery, with trapped for its crashed
  loading, empty, refImagenesUsuario, load, save, screen, trapped, owner, reset, deletes,
  \* History, read by no guard:
  reloaded      \* MainView reloaded for the session: not yet ("no"), always with another
                \* call of getUserData under way ("crowded"), or once without ("alone")

userVars == <<currentUser, keychain, loaded, mainQueue, listeners, session, signInDone,
              shown, requests, unwrapped, overtaken>>
listVars == <<loading, empty, refImagenesUsuario, load, save, screen, trapped,
              owner, reset, deletes>>
vars == <<userVars, listVars, reloaded>>

S == INSTANCE Session WITH crashed <- unwrapped
G == INSTANCE Gallery WITH crashed <- trapped, Emails <- Users \cup {None}

\* session.session?.email ?? "none"
EmailOrNone == IF session = NoUser THEN None ELSE session

Init == S!Init /\ G!Init /\ reloaded = "no"

-----------------------------------------------------------------------------
\* What only one of the two takes part in

\* The main thread runs one callback at a time, and none inside a notification.
MainThread == ~S!Delivering

\* A tap needs the screen it is on.
OnMain == S!MainIsFree /\ shown = "main"

\* The session moves when a listener is told, or the user signs out.
Track == reloaded' = IF session' = session THEN reloaded ELSE "no"

\* signOut() touches the session and nothing of the list.
LogOut == S!TapLogOut /\ Track /\ UNCHANGED listVars

UserStep ==
  /\ \/ S!RunNotify \/ S!RunFirst \/ S!RunSignedIn
     \/ S!LoadKeychain \/ S!TokenRefreshed \/ S!AutoSignOut
     \/ \E r \in Requests : S!AuthAccepts(r) \/ S!AuthRefuses(r)
     \/ \E r \in Requests, kind \in {"signIn", "signUp"}, u \in Users : S!TapRequest(r, kind, u)
     \/ S!ReturnToList
  /\ Track
  /\ UNCHANGED listVars

PoolStep == \E l \in Loads : G!SetLoading(l) \/ G!SetEmpty(l) \/ G!ClearAndAsk(l)

CallbackStep ==
  /\ MainThread
  /\ \/ \E l \in Loads :
          \/ G!QueryFails(l)
          \/ \E files \in G!FilesSnapshots : G!QueryAnswers(l, files)
          \/ \E d \in Dates :
               \/ G!FetchFails(l, d)
               \/ G!FetchSucceeds(l, d)
               \/ \E k \in Loads : G!FetchRacesClear(l, d, k)
     \/ \E s \in Saves :
          \/ G!PutFails(s) \/ G!UploadData(s) \/ G!WriteFails(s)
          \/ \E l \in Loads : G!WriteSucceeds(s, l)

\* The list is drawn inside MainView only, and read by a swipe only.
Redraw == "swipe" \in Taps /\ OnMain /\ G!Redraw

ListStep == (PoolStep \/ CallbackStep \/ Redraw) /\ UNCHANGED <<userVars, reloaded>>

-----------------------------------------------------------------------------
\* Where they meet

\* MainView is drawn as it appears, with the rows there are.
Render ==
  /\ S!Render
  /\ Track
  /\ IF "swipe" \in Taps /\ shown' = "main" /\ (screen # G!Drawing \/ reset)
       THEN G!Redraw ELSE UNCHANGED listVars

\* The task of onAppear unwraps the email: without a session the process ends.
Reload ==
  /\ S!RunReload
  /\ reloaded' = IF reloaded # "alone" /\ \E l \in Loads : G!Running(l)
                   THEN "crowded" ELSE "alone"
  /\ \/ session = NoUser /\ UNCHANGED listVars
     \/ session # NoUser /\ \E l \in Loads : G!Appear(l, session)

Swipe ==
  /\ "swipe" \in Taps
  /\ OnMain
  /\ \E l \in Loads : \E i \in DOMAIN screen.rows : G!DeleteRow(i, l)
  /\ UNCHANGED <<userVars, reloaded>>

\* The task of a swipe reads the email when the main thread comes to it, here
\* before or after any block of the main queue.
SwipeReload ==
  /\ MainThread
  /\ \E l \in Loads : G!SwipeReload(l, EmailOrNone)
  /\ UNCHANGED <<userVars, reloaded>>

\* The Save button of AddImagenView.
SaveTap ==
  /\ "save" \in Taps
  /\ OnMain
  /\ \E s \in Saves : G!UploadStorage(s, EmailOrNone)
  /\ UNCHANGED <<userVars, reloaded>>

Alive == ~unwrapped /\ ~trapped

\* Nothing of either survives the process but the keychain.
Restart == S!Restart /\ G!Restart /\ reloaded' = "no"

Next ==
  \/ Alive /\ (UserStep \/ LogOut \/ ListStep \/ Render \/ Reload \/ Swipe \/ SwipeReload \/ SaveTap)
  \/ Restart

Spec == Init /\ [][Next]_vars

-----------------------------------------------------------------------------
\* Properties

TypeOK == S!TypeOK /\ G!TypeOK /\ reloaded \in {"no", "alone", "crowded"}

\* Whose rows the user sees.  When no call is under way and MainView reloaded
\* since the session changed, a row of another user is there for one of two
\* reasons: the reload of a save that user had begun brought it, or a call that
\* overlapped another did, and then MainView never reloaded alone.
RowsAreSessions ==
  session # NoUser /\ reloaded # "no" /\ (\A l \in Loads : ~G!Running(l)) =>
    \A i \in DOMAIN refImagenesUsuario :
      LET row == refImagenesUsuario[i] IN
      \/ row.email = session
      \/ \E s \in Saves : save[s].pc = "done" /\ save[s].email = row.email
      \/ reloaded = "crowded" /\ ~load[row.from].solo

\* A picture is saved for "none", where no user finds it again, only while Auth
\* has no user, or has one the listeners have yet to be told of or took for the
\* one they knew.
NoneIsNobodys ==
  [][\A s \in Saves :
       save[s].pc = "unused" /\ save'[s].pc = "putting" /\ save'[s].email = None =>
         currentUser = NoUser \/ ~S!Settled \/ overtaken]_vars

=============================================================================
