------------------------------ MODULE Session ------------------------------
(***************************************************************************)
(* Who is signed in, as four parties see it on one device: Firebase Auth   *)
(* (currentUser, and its copy in the keychain), FirebaseController         *)
(* (session, kept by listeners of Auth), MainView (signInDone, and the     *)
(* screen drawn from it) and the reloads that unwrap the session's email.  *)
(*                                                                         *)
(* Auth changes its user on a work queue of its own and tells the main     *)
(* thread through blocks on the main queue, run in order.  The main thread *)
(* runs one block, tap or drawing at a time, with one exception: Auth can  *)
(* change its user between two listeners of one notification.              *)
(***************************************************************************)
EXTENDS Naturals, Sequences, FiniteSets

CONSTANTS
  Users,         \* accounts, a uid and its email in one
  NoUser,        \* nil
  Requests,      \* sign-ins and sign-ups in flight: bounds how many at once
  AppearOrders,  \* which of the two onAppear closures of MainView runs first
  MaxListeners,  \* bounds how often MainView appears in one process
  MaxQueue       \* bounds the blocks waiting on the main queue

ASSUME NoUserAssumption == NoUser \notin Users
ASSUME OrdersAssumption == AppearOrders \subseteq {"listenFirst", "reloadFirst"}
ASSUME BoundsAssumption == MaxListeners \in Nat /\ MaxQueue \in Nat

VARIABLES
  currentUser,  \* FIRAuth: the user signed in
  keychain,     \* FIRAuth: the user saved, which survives the process
  loaded,       \* FIRAuth: the saved user was read at start
  mainQueue,    \* blocks waiting for the main thread
  listeners,    \* what each call of listen() registered; none is ever removed
  session,      \* FirebaseController.session
  signInDone,   \* MainView.signInDone
  shown,        \* what was last drawn
  requests,     \* sign-ins and sign-ups not answered yet
  crashed,      \* a nil email was unwrapped: the process ended
  \* History, read by no guard:
  overtaken     \* a user signed in again before the listeners heard of the sign-out

authVars == <<currentUser, keychain, loaded>>
viewVars == <<signInDone, shown>>
vars == <<authVars, mainQueue, listeners, session, viewVars, requests, crashed, overtaken>>

-----------------------------------------------------------------------------
\* Types

MaybeUser == Users \cup {NoUser}

\* at is the listener whose turn it is, or the one a first call is for.
Block == [kind: {"notify", "first", "signedIn", "reload"}, at: Nat]

\* called: firstInvocation is over; uid: previousUserID.
Listener == [called: BOOLEAN, uid: MaybeUser]

Request == [kind: {"none", "signIn", "signUp"}, user: MaybeUser]

TypeOK ==
  /\ currentUser \in MaybeUser
  /\ keychain \in MaybeUser
  /\ loaded \in BOOLEAN
  /\ mainQueue \in Seq(Block)
  /\ listeners \in Seq(Listener)
  /\ session \in MaybeUser
  /\ signInDone \in BOOLEAN
  /\ shown \in {"login", "main"}
  /\ requests \in [Requests -> Request]
  /\ crashed \in BOOLEAN
  /\ overtaken \in BOOLEAN

-----------------------------------------------------------------------------
\* The main queue

Notify(i) == [kind |-> "notify", at |-> i]
First(i) == [kind |-> "first", at |-> i]
SignedIn == [kind |-> "signedIn", at |-> 0]
Reload == [kind |-> "reload", at |-> 0]

Enqueue(blocks) ==
  /\ Len(mainQueue) + Len(blocks) <= MaxQueue
  /\ mainQueue' = mainQueue \o blocks

\* The main thread is inside a notification, between two listeners.
Delivering == mainQueue # <<>> /\ Head(mainQueue).kind = "notify" /\ Head(mainQueue).at > 1

MainIsFree == ~crashed /\ ~Delivering

\* Mutant: the closure of listen() has no else branch.
CallKeepsOld(i) ==
  /\ listeners' = [listeners EXCEPT ![i] = [called |-> TRUE, uid |-> currentUser]]
  /\ session' = IF currentUser = NoUser \/ (listeners[i].called /\ listeners[i].uid = currentUser)
                  THEN session ELSE currentUser

\* Mutant: the listener passes on its first call only.
CallOnlyFirst(i) ==
  /\ listeners' = [listeners EXCEPT ![i] = [called |-> TRUE, uid |-> currentUser]]
  /\ session' = IF listeners[i].called THEN session ELSE currentUser

\* The listener compares the user with the last one it was called for, and
\* listen()'s closure makes a session of it, or none.
Call(i) ==
  /\ listeners' = [listeners EXCEPT ![i] = [called |-> TRUE, uid |-> currentUser]]
  /\ session' = IF listeners[i].called /\ listeners[i].uid = currentUser
                  THEN session ELSE currentUser

RunNotify ==
  LET i == Head(mainQueue).at IN
  /\ ~crashed
  /\ mainQueue # <<>>
  /\ Head(mainQueue).kind = "notify"
  /\ IF i \in DOMAIN listeners THEN Call(i) ELSE UNCHANGED <<listeners, session>>
  /\ mainQueue' = IF i < Len(listeners) THEN [mainQueue EXCEPT ![1] = Notify(i + 1)]
                                        ELSE Tail(mainQueue)
  /\ UNCHANGED <<authVars, viewVars, requests, crashed, overtaken>>

Run(kind) ==
  /\ ~crashed
  /\ mainQueue # <<>>
  /\ Head(mainQueue).kind = kind
  /\ mainQueue' = Tail(mainQueue)

RunFirst ==
  /\ Run("first")
  /\ Call(Head(mainQueue).at)
  /\ UNCHANGED <<authVars, viewVars, requests, crashed, overtaken>>

\* login(): the callback of a sign-in that succeeded.
RunSignedIn ==
  /\ Run("signedIn")
  /\ signInDone' = TRUE
  /\ UNCHANGED <<authVars, listeners, session, shown, requests, crashed, overtaken>>

\* The task unwraps the email of the session before it calls getUserData.
RunReload ==
  /\ Run("reload")
  /\ crashed' = (session = NoUser)
  /\ UNCHANGED <<authVars, listeners, session, viewVars, requests, overtaken>>

-----------------------------------------------------------------------------
\* Firebase Auth, on its work queue

\* The user changes: Auth saves it, then tells the main thread.
SetCurrentUser(u, more) ==
  /\ currentUser' = u
  /\ Enqueue(<<Notify(1)>> \o more)

\* At start the user saved is read back; the read may fail.
LoadKeychain ==
  /\ ~crashed
  /\ ~loaded
  /\ loaded' = TRUE
  /\ \/ keychain # NoUser /\ SetCurrentUser(keychain, <<>>)
     \/ UNCHANGED <<currentUser, mainQueue>>
  /\ UNCHANGED <<keychain, listeners, session, viewVars, requests, crashed, overtaken>>

Notifying == \E q \in DOMAIN mainQueue : mainQueue[q].kind = "notify"

Overtakes(u) ==
  Notifying /\ session = NoUser /\ \E i \in DOMAIN listeners : listeners[i].uid = u

\* Mutant: the user is signed in before it is saved, and the save is lost.
AuthAcceptsUnsaved(r) ==
  LET req == requests[r] IN
  /\ ~crashed
  /\ loaded
  /\ req.kind # "none"
  /\ SetCurrentUser(req.user, IF req.kind = "signIn" THEN <<SignedIn>> ELSE <<>>)
  /\ requests' = [requests EXCEPT ![r] = [kind |-> "none", user |-> NoUser]]
  /\ overtaken' = (overtaken \/ Overtakes(req.user))
  /\ UNCHANGED <<keychain, loaded, listeners, session, viewVars, crashed>>

\* The server accepts; both flows sign in, and a sign-up only says so.
AuthAccepts(r) ==
  LET req == requests[r] IN
  /\ ~crashed
  /\ loaded
  /\ req.kind # "none"
  /\ SetCurrentUser(req.user, IF req.kind = "signIn" THEN <<SignedIn>> ELSE <<>>)
  /\ keychain' = req.user
  /\ requests' = [requests EXCEPT ![r] = [kind |-> "none", user |-> NoUser]]
  /\ overtaken' = (overtaken \/ Overtakes(req.user))
  /\ UNCHANGED <<loaded, listeners, session, viewVars, crashed>>

\* The server refuses, the network fails, or the keychain cannot be written:
\* the callback only shows a message.
AuthRefuses(r) ==
  /\ ~crashed
  /\ requests[r].kind # "none"
  /\ requests' = [requests EXCEPT ![r] = [kind |-> "none", user |-> NoUser]]
  /\ UNCHANGED <<authVars, mainQueue, listeners, session, viewVars, crashed, overtaken>>

\* A refreshed token is announced like a new user.
TokenRefreshed ==
  /\ ~crashed
  /\ currentUser # NoUser
  /\ Enqueue(<<Notify(1)>>)
  /\ UNCHANGED <<authVars, listeners, session, viewVars, requests, crashed, overtaken>>

\* The server finds the token invalid, or the account disabled: the user is
\* dropped by force, even if the keychain cannot be written.
AutoSignOut ==
  /\ ~crashed
  /\ currentUser # NoUser
  /\ SetCurrentUser(NoUser, <<>>)
  /\ keychain' \in {NoUser, keychain}
  /\ UNCHANGED <<loaded, listeners, session, viewVars, requests, crashed, overtaken>>

-----------------------------------------------------------------------------
\* Taps and drawing

\* The button stays enabled while earlier requests are in flight.
TapRequest(r, kind, u) ==
  /\ MainIsFree
  /\ shown = "login"
  /\ requests[r].kind = "none"
  /\ requests' = [requests EXCEPT ![r] = [kind |-> kind, user |-> u]]
  /\ UNCHANGED <<authVars, mainQueue, listeners, session, viewVars, crashed, overtaken>>

\* signOut waits for the work queue, so the saved user was read before.  When
\* the keychain cannot be written nothing changes but the screen.
TapLogOut ==
  /\ MainIsFree
  /\ shown = "main"
  /\ loaded
  /\ signInDone' = FALSE
  /\ \/ /\ currentUser = NoUser
        /\ session' = NoUser
        /\ UNCHANGED <<authVars, mainQueue>>
     \/ /\ currentUser # NoUser
        /\ SetCurrentUser(NoUser, <<>>)
        /\ keychain' = NoUser
        /\ session' = NoUser
        /\ UNCHANGED loaded
     \/ /\ currentUser # NoUser
        /\ UNCHANGED <<authVars, mainQueue, session>>
  /\ UNCHANGED <<listeners, shown, requests, crashed, overtaken>>

\* Mutant: a new listener hears of changes only.
AppearUntold(order) ==
  /\ Len(listeners) < MaxListeners
  /\ listeners' = Append(listeners, [called |-> FALSE, uid |-> NoUser])
  /\ Enqueue(<<Reload>>)

\* Both onAppear closures run: listen() registers one listener more and queues
\* its first call, and a task that reloads the gallery is queued.
Appear(order) ==
  LET new == Len(listeners) + 1 IN
  /\ new <= MaxListeners
  /\ listeners' = Append(listeners, [called |-> FALSE, uid |-> NoUser])
  /\ Enqueue(IF order = "listenFirst" THEN <<First(new), Reload>> ELSE <<Reload, First(new)>>)

\* The body is evaluated again; it may have missed a value that did not last.
Render ==
  /\ MainIsFree
  /\ \/ /\ signInDone
        /\ shown = "login"
        /\ shown' = "main"
        /\ \E order \in AppearOrders : Appear(order)
     \/ /\ ~signInDone
        /\ shown = "main"
        /\ shown' = "login"
        /\ UNCHANGED <<mainQueue, listeners>>
  /\ UNCHANGED <<authVars, session, signInDone, requests, crashed, overtaken>>

\* Back from the screen that edits a picture, the list appears again.
ReturnToList ==
  /\ MainIsFree
  /\ shown = "main"
  /\ \E order \in AppearOrders : Appear(order)
  /\ UNCHANGED <<authVars, session, viewVars, requests, crashed, overtaken>>

\* The process ends and a new one starts: the keychain is all that is left.
Restart ==
  /\ currentUser' = NoUser
  /\ loaded' = FALSE
  /\ mainQueue' = <<>>
  /\ listeners' = <<>>
  /\ session' = NoUser
  /\ signInDone' = FALSE
  /\ shown' = "login"
  /\ requests' = [r \in Requests |-> [kind |-> "none", user |-> NoUser]]
  /\ crashed' = FALSE
  /\ overtaken' = FALSE
  /\ UNCHANGED keychain

-----------------------------------------------------------------------------
Init ==
  /\ currentUser = NoUser
  /\ keychain = NoUser
  /\ loaded = FALSE
  /\ mainQueue = <<>>
  /\ listeners = <<>>
  /\ session = NoUser
  /\ signInDone = FALSE
  /\ shown = "login"
  /\ requests = [r \in Requests |-> [kind |-> "none", user |-> NoUser]]
  /\ crashed = FALSE
  /\ overtaken = FALSE

MainStep == RunNotify \/ RunFirst \/ RunSignedIn \/ RunReload

Next ==
  \/ MainStep
  \/ LoadKeychain
  \/ \E r \in Requests : AuthAccepts(r) \/ AuthRefuses(r)
  \/ TokenRefreshed
  \/ AutoSignOut
  \/ \E r \in Requests, kind \in {"signIn", "signUp"}, u \in Users : TapRequest(r, kind, u)
  \/ TapLogOut
  \/ Render
  \/ ReturnToList
  \/ Restart

Spec == Init /\ [][Next]_vars

\* The main thread runs its queue.
FairSpec == Spec /\ WF_vars(MainStep)

-----------------------------------------------------------------------------
\* Properties

\* Nothing that would change the session is on its way.
Settled == \A q \in DOMAIN mainQueue : mainQueue[q].kind \notin {"notify", "first"}

\* Once the listeners were told everything, the session is never that of
\* another user than Auth's: at worst there is none.
NeverAnotherUser == Settled => session \in {NoUser, currentUser}

\* And there is one, if MainView ever appeared, unless a sign-out was overtaken
\* by a sign-in of the same user, which the listeners take for no change.
SessionFollowsUser ==
  Settled /\ listeners # <<>> /\ ~overtaken => session = currentUser

\* The comment at FirebaseController.swift:146, "if we have a user, create a new
\* user model": with a user signed in, a listener registered and nothing on its
\* way, there is a session.
UserHasModel ==
  Settled /\ listeners # <<>> /\ currentUser # NoUser => session # NoUser

\* The assertion at MainView.swift:63, (session.session?.email)!: when a task
\* reloads the gallery there is a session with an email.
SessionAtReload == ~crashed

\* The keychain never holds another user than Auth once it was read: what a
\* restart brings back is the user, or one that was signed out by force.
RestartRestoresUser ==
  loaded /\ currentUser # NoUser => keychain = currentUser

\* A user of Auth becomes the session, if it stays and MainView has appeared.
SessionCatchesUp ==
  \A u \in Users :
    (currentUser = u /\ listeners # <<>>) ~>
      (session = u \/ currentUser # u \/ overtaken \/ crashed \/ listeners = <<>>)

=============================================================================
