--------------------------- MODULE SessionProofs ---------------------------
(***************************************************************************)
(* Proofs about Session, for any sets of users and requests and any        *)
(* bounds: the session is Auth's user, or no one's.                        *)
(***************************************************************************)
EXTENDS Session, SequenceTheorems, TLAPS

-----------------------------------------------------------------------------
\* The inductive invariant

\* A notification that listener i has still to hear.
PendingFor(i) ==
  \E q \in 1..Len(mainQueue) : mainQueue[q].kind = "notify" /\ mainQueue[q].at <= i

FirstFor(i) ==
  \E q \in 1..Len(mainQueue) : mainQueue[q].kind = "first" /\ mainQueue[q].at = i

\* A first call is for a listener that is registered.
FirstsKnown ==
  \A q \in 1..Len(mainQueue) :
    mainQueue[q].kind = "first" => mainQueue[q].at \in 1..Len(listeners)

\* A listener that was called, and has nothing more to hear, knows the user.
CalledKnow ==
  \A i \in 1..Len(listeners) :
    listeners[i].called /\ ~PendingFor(i) => listeners[i].uid = currentUser

\* A listener that was not called will be.
UncalledWait ==
  \A i \in 1..Len(listeners) :
    ~listeners[i].called => FirstFor(i) /\ listeners[i].uid = NoUser

\* The session is the user that some listener was last called for.
SessionHeard ==
  session # NoUser => \E i \in 1..Len(listeners) : listeners[i].called /\ listeners[i].uid = session

\* With no session, no listener takes Auth's user for the one it knows.
NoneMistaken ==
  ~overtaken /\ session = NoUser =>
    \A i \in 1..Len(listeners) : listeners[i].uid # NoUser => listeners[i].uid # currentUser

\* Until the saved user was read, MainView cannot have appeared.
UnloadedIsLogin ==
  ~loaded => /\ ~signInDone /\ shown = "login" /\ listeners = <<>> /\ currentUser = NoUser
             /\ \A q \in 1..Len(mainQueue) : mainQueue[q].kind # "signedIn"

IInv ==
  /\ TypeOK
  /\ FirstsKnown
  /\ CalledKnow
  /\ UncalledWait
  /\ SessionHeard
  /\ NoneMistaken
  /\ UnloadedIsLogin
  /\ RestartRestoresUser

-----------------------------------------------------------------------------
\* The queue

LEMMA Enqueued ==
  ASSUME mainQueue \in Seq(Block), NEW bs \in Seq(Block), Enqueue(bs)
  PROVE  /\ mainQueue' \in Seq(Block)
         /\ Len(mainQueue') = Len(mainQueue) + Len(bs)
         /\ \A q \in 1..Len(mainQueue) : mainQueue'[q] = mainQueue[q]
         /\ \A q \in 1..Len(bs) : mainQueue'[Len(mainQueue) + q] = bs[q]
         /\ \A q \in 1..Len(mainQueue') :
              \/ q \in 1..Len(mainQueue)
              \/ q - Len(mainQueue) \in 1..Len(bs) /\ mainQueue'[q] = bs[q - Len(mainQueue)]
BY DEF Enqueue

LEMMA Dequeued ==
  ASSUME mainQueue \in Seq(Block), mainQueue # <<>>, mainQueue' = Tail(mainQueue)
  PROVE  /\ mainQueue' \in Seq(Block)
         /\ Len(mainQueue) = Len(mainQueue') + 1
         /\ Head(mainQueue) = mainQueue[1]
         /\ \A q \in 1..Len(mainQueue') : mainQueue'[q] = mainQueue[q + 1]
OBVIOUS

\* What is queued stays queued behind what is added.
LEMMA EnqueueKeeps ==
  ASSUME mainQueue \in Seq(Block), NEW bs \in Seq(Block), Enqueue(bs), NEW i \in Nat
  PROVE  /\ PendingFor(i) => PendingFor(i)'
         /\ FirstFor(i) => FirstFor(i)'
<1>1. \A q \in 1..Len(mainQueue) : q \in 1..Len(mainQueue') /\ mainQueue'[q] = mainQueue[q]
  BY Enqueued
<1> QED BY <1>1 DEF PendingFor, FirstFor

\* A change of user is announced to every listener.
LEMMA NotifyReachesAll ==
  ASSUME mainQueue \in Seq(Block), NEW bs \in Seq(Block), Enqueue(bs),
         Len(bs) >= 1, bs[1] = Notify(1), NEW i \in Nat \ {0}
  PROVE  PendingFor(i)'
<1>1. /\ Len(mainQueue) + 1 \in 1..Len(mainQueue')
      /\ mainQueue'[Len(mainQueue) + 1] = Notify(1)
  BY Enqueued
<1> QED BY <1>1 DEF PendingFor, Notify

\* Running a block that is neither kind loses no call.
LEMMA DequeueKeeps ==
  ASSUME mainQueue \in Seq(Block), mainQueue # <<>>, mainQueue' = Tail(mainQueue), NEW i \in Nat
  PROVE  /\ ~(mainQueue[1].kind = "notify" /\ mainQueue[1].at <= i) =>
              (PendingFor(i) => PendingFor(i)')
         /\ ~(mainQueue[1].kind = "first" /\ mainQueue[1].at = i) =>
              (FirstFor(i) => FirstFor(i)')
<1>1. \A q \in 1..Len(mainQueue) : q # 1 => q - 1 \in 1..Len(mainQueue') /\ mainQueue'[q - 1] = mainQueue[q]
  BY Dequeued
<1> QED BY <1>1 DEF PendingFor, FirstFor

LEMMA HeadTyped ==
  ASSUME mainQueue \in Seq(Block), mainQueue # <<>>
  PROVE  /\ Head(mainQueue) = mainQueue[1]
         /\ 1 \in 1..Len(mainQueue)
         /\ mainQueue[1].at \in Nat
<1>1. 1 \in 1..Len(mainQueue) /\ Head(mainQueue) = mainQueue[1]
  OBVIOUS
<1>2. mainQueue[1] \in Block
  BY <1>1
<1> QED BY <1>1, <1>2 DEF Block

LEMMA BlocksTyped ==
  /\ <<Notify(1)>> \in Seq(Block)
  /\ \A i \in Nat : <<First(i), Reload>> \in Seq(Block) /\ <<Reload, First(i)>> \in Seq(Block)
<1>1. SignedIn \in Block /\ Reload \in Block /\ \A i \in Nat : Notify(i) \in Block /\ First(i) \in Block
  BY DEF Notify, SignedIn, Reload, First, Block
<1>2. <<Notify(1)>> \in Seq(Block)
  BY <1>1
<1>3. \A i \in Nat : <<First(i), Reload>> \in Seq(Block) /\ <<Reload, First(i)>> \in Seq(Block)
  BY <1>1
<1> QED BY <1>2, <1>3

\* A change of user queues a notification, and no first call.
LEMMA ChangeQueues ==
  ASSUME NEW u, NEW more \in {<<>>, <<SignedIn>>}, SetCurrentUser(u, more)
  PROVE  \E bs \in Seq(Block) :
           /\ Enqueue(bs)
           /\ Len(bs) >= 1
           /\ bs[1] = Notify(1)
           /\ \A q \in 1..Len(bs) : bs[q].kind # "first"
<1> DEFINE bs == <<Notify(1)>> \o more
<1>1. Notify(1) \in Block /\ SignedIn \in Block
  BY DEF Notify, SignedIn, Block
<1>2. more \in Seq(Block) /\ \A q \in 1..Len(more) : more[q] = SignedIn
  <2>1. CASE more = <<>>
    BY <2>1, EmptySeq
  <2>2. CASE more = <<SignedIn>>
    BY <1>1, <2>2
  <2> QED BY <2>1, <2>2
<1>3. /\ bs \in Seq(Block)
      /\ Len(bs) = Len(more) + 1
      /\ bs[1] = Notify(1)
      /\ \A q \in 1..Len(bs) : q # 1 => q - 1 \in 1..Len(more) /\ bs[q] = more[q - 1]
  <2>1. <<Notify(1)>> \in Seq(Block) /\ Len(<<Notify(1)>>) = 1 /\ <<Notify(1)>>[1] = Notify(1)
    BY <1>1
  <2> HIDE DEF bs
  <2>2. bs = <<Notify(1)>> \o more
    BY DEF bs
  <2> DEFINE one == <<Notify(1)>>
  <2> HIDE DEF one
  <2>3. /\ one \o more \in Seq(Block)
        /\ Len(one \o more) = Len(one) + Len(more)
        /\ \A q \in 1..(Len(one) + Len(more)) :
             (one \o more)[q] = IF q <= Len(one) THEN one[q] ELSE more[q - Len(one)]
    BY <1>2, <2>1, ConcatProperties DEF one
  <2>4. Len(one) = 1 /\ one[1] = Notify(1) /\ bs = one \o more
    BY <2>1, <2>2 DEF one
  <2>5. Len(more) \in Nat
    BY <1>2
  <2> HIDE DEF bs
  <2>6. bs \in Seq(Block) /\ Len(bs) = Len(more) + 1
    BY <2>3, <2>4, <2>5
  <2>7. bs[1] = Notify(1)
    BY <2>3, <2>4, <2>5
  <2>8. ASSUME NEW q \in 1..Len(bs), q # 1
        PROVE  q - 1 \in 1..Len(more) /\ bs[q] = more[q - 1]
    <3>1. q \in 1..(Len(one) + Len(more)) /\ ~(q <= Len(one))
      BY <2>4, <2>5, <2>6, <2>8
    <3>2. bs[q] = more[q - Len(one)]
      BY <2>3, <2>4, <3>1
    <3> QED BY <2>4, <2>5, <2>6, <2>8, <3>2
  <2>9. \A q \in 1..Len(bs) : q # 1 => q - 1 \in 1..Len(more) /\ bs[q] = more[q - 1]
    BY <2>8
  <2> QED BY <2>6, <2>7, <2>9
<1>4. Enqueue(bs)
  BY DEF SetCurrentUser
<1> HIDE DEF bs
<1>5. \A q \in 1..Len(bs) : bs[q].kind # "first"
  BY <1>2, <1>3 DEF Notify, SignedIn
<1> QED BY <1>2, <1>3, <1>4, <1>5

-----------------------------------------------------------------------------
\* Type correctness

LEMMA InitType == Init => TypeOK
<1> SUFFICES ASSUME Init PROVE TypeOK OBVIOUS
<1>1. <<>> \in Seq(Block) /\ <<>> \in Seq(Listener)
  BY EmptySeq
<1>2. requests \in [Requests -> Request]
  BY DEF Init, Request, MaybeUser
<1> QED BY <1>1, <1>2 DEF Init, TypeOK, MaybeUser

LEMMA CallType ==
  ASSUME TypeOK, NEW i \in 1..Len(listeners), Call(i)
  PROVE  listeners' \in Seq(Listener) /\ session' \in MaybeUser /\ Len(listeners') = Len(listeners)
<1>1. [called |-> TRUE, uid |-> currentUser] \in Listener
  BY DEF TypeOK, Listener
<1> QED BY <1>1 DEF Call, TypeOK

\* Both orders queue the first call of the new listener, and a reload.
LEMMA AppearQueues ==
  ASSUME TypeOK, NEW order, Appear(order)
  PROVE  \E bs \in Seq(Block) :
           /\ Enqueue(bs)
           /\ Len(bs) = 2
           /\ \E q \in 1..2 : bs[q] = First(Len(listeners) + 1)
           /\ \A q \in 1..2 : bs[q] \in {First(Len(listeners) + 1), Reload}
<1>1. Len(listeners) + 1 \in Nat
  BY DEF TypeOK
<1> DEFINE one == <<First(Len(listeners) + 1), Reload>>
           other == <<Reload, First(Len(listeners) + 1)>>
<1>2. one \in Seq(Block) /\ other \in Seq(Block)
  BY <1>1, BlocksTyped
<1>3. Enqueue(one) \/ Enqueue(other)
  BY DEF Appear
<1>4. CASE Enqueue(one)
  <2>1. Len(one) = 2 /\ one[1] = First(Len(listeners) + 1) /\ one[2] = Reload
    OBVIOUS
  <2> HIDE DEF one
  <2> QED BY <1>2, <1>4, <2>1
<1>5. CASE Enqueue(other)
  <2>1. Len(other) = 2 /\ other[1] = Reload /\ other[2] = First(Len(listeners) + 1)
    OBVIOUS
  <2> HIDE DEF other
  <2> QED BY <1>2, <1>5, <2>1
<1> QED BY <1>3, <1>4, <1>5

LEMMA AppearListens ==
  ASSUME TypeOK, NEW order, Appear(order)
  PROVE  /\ listeners' \in Seq(Listener)
         /\ Len(listeners') = Len(listeners) + 1
         /\ \A i \in 1..Len(listeners) : listeners'[i] = listeners[i]
         /\ listeners'[Len(listeners) + 1] = [called |-> FALSE, uid |-> NoUser]
<1>1. [called |-> FALSE, uid |-> NoUser] \in Listener
  BY DEF Listener, MaybeUser
<1> QED BY <1>1 DEF Appear, TypeOK

LEMMA NextType == TypeOK /\ FirstsKnown /\ [Next]_vars => TypeOK'
<1> SUFFICES ASSUME TypeOK, FirstsKnown, [Next]_vars PROVE TypeOK' OBVIOUS
<1> USE DEF TypeOK, authVars, viewVars
<1>1. CASE RunNotify
  <2>1. mainQueue' \in Seq(Block)
    <3>1. mainQueue # <<>> /\ Head(mainQueue).at + 1 \in Nat
      BY <1>1, HeadTyped DEF RunNotify
    <3>2. [mainQueue EXCEPT ![1] = Notify(Head(mainQueue).at + 1)] \in Seq(Block)
      BY <3>1 DEF Notify, Block
    <3>3. Tail(mainQueue) \in Seq(Block)
      BY <3>1
    <3> QED BY <1>1, <3>2, <3>3 DEF RunNotify
  <2>2. listeners' \in Seq(Listener) /\ session' \in MaybeUser
    BY <1>1, CallType DEF RunNotify
  <2> QED BY <1>1, <2>1, <2>2 DEF RunNotify
<1>2. CASE RunFirst
  <2>1. mainQueue # <<>> /\ mainQueue' = Tail(mainQueue) /\ mainQueue[1].kind = "first"
    BY <1>2 DEF RunFirst, Run
  <2>2. Head(mainQueue).at \in 1..Len(listeners)
    BY <2>1 DEF FirstsKnown
  <2>3. listeners' \in Seq(Listener) /\ session' \in MaybeUser
    BY <1>2, <2>2, CallType DEF RunFirst
  <2> QED BY <1>2, <2>1, <2>3, Dequeued DEF RunFirst
<1>3. CASE RunSignedIn \/ RunReload
  BY <1>3, Dequeued DEF RunSignedIn, RunReload, Run
<1>4. CASE LoadKeychain
  BY <1>4, Enqueued, ChangeQueues DEF LoadKeychain, SetCurrentUser
<1>5. ASSUME NEW r \in Requests, AuthAccepts(r) PROVE TypeOK'
  <2>1. requests[r].user \in MaybeUser
    BY DEF Request
  <2>2. mainQueue' \in Seq(Block)
    BY <1>5, Enqueued, ChangeQueues DEF AuthAccepts
  <2> QED BY <1>5, <2>1, <2>2 DEF AuthAccepts, SetCurrentUser, Request, MaybeUser
<1>6. ASSUME NEW r \in Requests, AuthRefuses(r) PROVE TypeOK'
  BY <1>6 DEF AuthRefuses, Request, MaybeUser
<1>7. CASE TokenRefreshed
  BY <1>7, Enqueued, BlocksTyped DEF TokenRefreshed
<1>8. CASE AutoSignOut
  BY <1>8, Enqueued, ChangeQueues DEF AutoSignOut, SetCurrentUser, MaybeUser
<1>9. ASSUME NEW r \in Requests, NEW kind \in {"signIn", "signUp"}, NEW u \in Users,
             TapRequest(r, kind, u)
      PROVE  TypeOK'
  BY <1>9 DEF TapRequest, Request, MaybeUser
<1>10. CASE TapLogOut
  BY <1>10, Enqueued, ChangeQueues DEF TapLogOut, SetCurrentUser, MaybeUser
<1>11. CASE Render
  BY <1>11, AppearQueues, AppearListens, Enqueued DEF Render
<1>12. CASE ReturnToList
  BY <1>12, AppearQueues, AppearListens, Enqueued DEF ReturnToList
<1>13. CASE Restart
  <2>1. <<>> \in Seq(Block) /\ <<>> \in Seq(Listener)
    OBVIOUS
  <2>2. requests' \in [Requests -> Request]
    BY <1>13 DEF Restart, MaybeUser, Request
  <2> QED BY <1>13, <2>1, <2>2 DEF Restart, MaybeUser
<1>14. CASE UNCHANGED vars
  BY <1>14 DEF vars
<1> QED BY <1>1, <1>2, <1>3, <1>4, <1>5, <1>6, <1>7, <1>8, <1>9, <1>10, <1>11, <1>12, <1>13, <1>14
        DEF Next, MainStep

-----------------------------------------------------------------------------
\* What the listeners know, class of step by class of step

Heard == FirstsKnown /\ CalledKnow /\ UncalledWait /\ SessionHeard /\ NoneMistaken

\* A call replaces what one listener knows by Auth's user.
LEMMA CallEffect ==
  ASSUME TypeOK, NEW i \in 1..Len(listeners), Call(i)
  PROVE  /\ Len(listeners') = Len(listeners)
         /\ listeners'[i].called
         /\ listeners'[i].uid = currentUser
         /\ \A j \in 1..Len(listeners) : j # i => listeners'[j] = listeners[j]
         /\ \/ session' = currentUser
            \/ /\ session' = session
               /\ listeners[i].called
               /\ listeners[i].uid = currentUser
<1>1. /\ listeners' = [listeners EXCEPT ![i] = [called |-> TRUE, uid |-> currentUser]]
      /\ i \in DOMAIN listeners /\ listeners \in Seq(Listener)
  BY DEF Call, TypeOK
<1>2. listeners'[i] = [called |-> TRUE, uid |-> currentUser]
  BY <1>1
<1>3. Len(listeners') = Len(listeners) /\ \A j \in 1..Len(listeners) : j # i => listeners'[j] = listeners[j]
  BY <1>1
<1> QED BY <1>2, <1>3 DEF Call

\* The session stays one that was heard, and no listener is mistaken.
LEMMA CallKeeps ==
  ASSUME TypeOK, SessionHeard, NoneMistaken, NEW i \in 1..Len(listeners), Call(i),
         UNCHANGED <<currentUser, overtaken>>
  PROVE  SessionHeard' /\ NoneMistaken'
<1>1. CASE session' = currentUser
  <2>1. SessionHeard'
    BY <1>1, CallEffect DEF SessionHeard
  <2>2. NoneMistaken'
    BY <1>1 DEF NoneMistaken
  <2> QED BY <2>1, <2>2
<1>2. CASE session' = session /\ listeners[i].called /\ listeners[i].uid = currentUser
  <2>1. \A j \in 1..Len(listeners) :
          listeners[j].called => listeners'[j].called /\ listeners'[j].uid = listeners[j].uid
    BY <1>2, CallEffect
  <2>2. \A j \in 1..Len(listeners) : listeners'[j].uid = listeners[j].uid
    BY <1>2, CallEffect
  <2>3. SessionHeard'
    BY <1>2, <2>1, CallEffect DEF SessionHeard
  <2>4. NoneMistaken'
    BY <1>2, <2>2, CallEffect DEF NoneMistaken
  <2> QED BY <2>3, <2>4
<1> QED BY <1>1, <1>2, CallEffect

LEMMA RunFirstHeard ==
  ASSUME TypeOK, Heard, RunFirst
  PROVE  Heard'
<1> DEFINE i == Head(mainQueue).at
<1> USE DEF Heard
<1>1. /\ mainQueue \in Seq(Block) /\ mainQueue # <<>> /\ mainQueue' = Tail(mainQueue)
      /\ i = mainQueue[1].at /\ mainQueue[1].kind = "first"
      /\ Call(i)
      /\ UNCHANGED <<currentUser, overtaken>>
  BY HeadTyped DEF TypeOK, RunFirst, Run, authVars
<1>2. i \in 1..Len(listeners)
  BY <1>1, HeadTyped DEF FirstsKnown
<1> HIDE DEF i
<1>3. Len(listeners') = Len(listeners)
  BY <1>1, <1>2, CallEffect
<1>4. FirstsKnown'
  BY <1>1, <1>3, Dequeued DEF FirstsKnown
<1>5. CalledKnow'
  <2>1. ASSUME NEW j \in 1..Len(listeners), listeners'[j].called, ~PendingFor(j)'
        PROVE  listeners'[j].uid = currentUser'
    <3>1. CASE j = i
      BY <1>1, <1>2, <3>1, CallEffect
    <3>2. CASE j # i
      <4>1. ~PendingFor(j) /\ listeners'[j] = listeners[j]
        BY <1>1, <1>2, <2>1, <3>2, DequeueKeeps, CallEffect
      <4> QED BY <1>1, <2>1, <4>1 DEF CalledKnow
    <3> QED BY <3>1, <3>2
  <2> QED BY <1>3, <2>1 DEF CalledKnow
<1>6. UncalledWait'
  <2>1. ASSUME NEW j \in 1..Len(listeners), ~listeners'[j].called
        PROVE  FirstFor(j)' /\ listeners'[j].uid = NoUser
    <3>1. j # i /\ listeners'[j] = listeners[j]
      BY <1>1, <1>2, <2>1, CallEffect
    <3> QED BY <1>1, <2>1, <3>1, DequeueKeeps DEF UncalledWait
  <2> QED BY <1>3, <2>1 DEF UncalledWait
<1> QED BY <1>1, <1>2, <1>4, <1>5, <1>6, CallKeeps

\* Listener i has its turn in a notification: those behind it still will.
LEMMA RunNotifyQueue ==
  ASSUME TypeOK, RunNotify
  PROVE  LET i == mainQueue[1].at IN
         /\ \A j \in 1..Len(listeners) : j # i => (PendingFor(j) => PendingFor(j)')
         /\ \A j \in Nat : FirstFor(j) => FirstFor(j)'
         /\ \A q \in 1..Len(mainQueue') :
              mainQueue'[q].kind = "notify" \/ \E p \in 1..Len(mainQueue) : mainQueue'[q] = mainQueue[p]
<1> DEFINE i == mainQueue[1].at
<1>1. /\ mainQueue \in Seq(Block) /\ mainQueue # <<>> /\ Head(mainQueue) = mainQueue[1]
      /\ 1 \in 1..Len(mainQueue) /\ i \in Nat /\ mainQueue[1].kind = "notify"
      /\ Len(listeners) \in Nat
  BY HeadTyped DEF TypeOK, RunNotify
<1>2. CASE i < Len(listeners)
  <2>1. mainQueue' = [mainQueue EXCEPT ![1] = Notify(i + 1)]
    BY <1>1, <1>2 DEF RunNotify
  <2>2. /\ Len(mainQueue') = Len(mainQueue)
        /\ mainQueue'[1] = Notify(i + 1)
        /\ \A q \in 1..Len(mainQueue) : q # 1 => mainQueue'[q] = mainQueue[q]
    BY <1>1, <2>1
  <2>3. Notify(i + 1).kind = "notify" /\ Notify(i + 1).at = i + 1
    BY DEF Notify
  <2>4. ASSUME NEW j \in 1..Len(listeners), j # i, PendingFor(j) PROVE PendingFor(j)'
    <3>1. PICK q \in 1..Len(mainQueue) : mainQueue[q].kind = "notify" /\ mainQueue[q].at <= j
      BY <2>4 DEF PendingFor
    <3>2. CASE q = 1
      <4>1. i + 1 <= j
        BY <1>1, <2>4, <3>1, <3>2
      <4> QED BY <1>1, <2>2, <2>3, <4>1 DEF PendingFor
    <3>3. CASE q # 1
      BY <2>2, <3>1, <3>3 DEF PendingFor
    <3> QED BY <3>2, <3>3
  <2>5. ASSUME NEW j \in Nat, FirstFor(j) PROVE FirstFor(j)'
    BY <1>1, <2>2, <2>5 DEF FirstFor
  <2>6. \A q \in 1..Len(mainQueue') :
          mainQueue'[q].kind = "notify" \/ \E p \in 1..Len(mainQueue) : mainQueue'[q] = mainQueue[p]
    BY <2>2, <2>3
  <2> QED BY <2>4, <2>5, <2>6
<1>3. CASE ~(i < Len(listeners))
  <2>1. mainQueue' = Tail(mainQueue)
    BY <1>1, <1>3 DEF RunNotify
  <2>2. ASSUME NEW j \in 1..Len(listeners), j # i PROVE PendingFor(j) => PendingFor(j)'
    <3>1. ~(mainQueue[1].at <= j)
      BY <1>1, <1>3, <2>2
    <3> QED BY <1>1, <2>1, <3>1, DequeueKeeps
  <2>3. \A j \in Nat : FirstFor(j) => FirstFor(j)'
    BY <1>1, <2>1, DequeueKeeps
  <2>4. \A q \in 1..Len(mainQueue') : \E p \in 1..Len(mainQueue) : mainQueue'[q] = mainQueue[p]
    BY <1>1, <2>1, Dequeued
  <2> QED BY <2>2, <2>3, <2>4
<1> QED BY <1>2, <1>3

LEMMA RunNotifyHeard ==
  ASSUME TypeOK, Heard, RunNotify
  PROVE  Heard'
<1> DEFINE i == mainQueue[1].at
<1> USE DEF Heard
<1>1. /\ mainQueue \in Seq(Block) /\ mainQueue # <<>> /\ Head(mainQueue) = mainQueue[1]
      /\ i \in Nat /\ Len(listeners) \in Nat /\ DOMAIN listeners = 1..Len(listeners)
      /\ UNCHANGED <<currentUser, overtaken>>
  BY HeadTyped DEF TypeOK, RunNotify, authVars
<1>2. \/ i \in 1..Len(listeners) /\ Call(i)
      \/ i \notin 1..Len(listeners) /\ UNCHANGED <<listeners, session>>
  BY <1>1 DEF RunNotify
<1>3. /\ \A j \in 1..Len(listeners) : j # i => (PendingFor(j) => PendingFor(j)')
      /\ \A j \in Nat : FirstFor(j) => FirstFor(j)'
      /\ \A q \in 1..Len(mainQueue') :
           mainQueue'[q].kind = "notify" \/ \E p \in 1..Len(mainQueue) : mainQueue'[q] = mainQueue[p]
  BY RunNotifyQueue
<1> HIDE DEF i
<1>4. /\ Len(listeners') = Len(listeners)
      /\ \A j \in 1..Len(listeners) : j # i => listeners'[j] = listeners[j]
      /\ i \in 1..Len(listeners) => listeners'[i].called /\ listeners'[i].uid = currentUser
  BY <1>2, CallEffect
<1>5. FirstsKnown'
  BY <1>3, <1>4 DEF FirstsKnown
<1>6. CalledKnow'
  <2>1. ASSUME NEW j \in 1..Len(listeners), listeners'[j].called, ~PendingFor(j)'
        PROVE  listeners'[j].uid = currentUser'
    <3>1. CASE j = i
      BY <1>1, <1>4, <3>1
    <3>2. CASE j # i
      BY <1>1, <1>3, <1>4, <2>1, <3>2 DEF CalledKnow
    <3> QED BY <3>1, <3>2
  <2> QED BY <1>4, <2>1 DEF CalledKnow
<1>7. UncalledWait'
  <2>1. ASSUME NEW j \in 1..Len(listeners), ~listeners'[j].called
        PROVE  FirstFor(j)' /\ listeners'[j].uid = NoUser
    <3>1. listeners'[j] = listeners[j]
      BY <1>4, <2>1
    <3> QED BY <1>3, <2>1, <3>1 DEF UncalledWait
  <2> QED BY <1>4, <2>1 DEF UncalledWait
<1>8. SessionHeard' /\ NoneMistaken'
  <2>1. CASE i \in 1..Len(listeners) /\ Call(i)
    BY <1>1, <2>1, CallKeeps
  <2>2. CASE UNCHANGED <<listeners, session>>
    BY <1>1, <2>2 DEF SessionHeard, NoneMistaken
  <2> QED BY <1>2, <2>1, <2>2
<1> QED BY <1>5, <1>6, <1>7, <1>8

\* Blocks of other kinds run: nobody is called.
LEMMA OtherBlockHeard ==
  ASSUME TypeOK, Heard, NEW kind \in {"signedIn", "reload"}, Run(kind),
         UNCHANGED <<currentUser, listeners, session, overtaken>>
  PROVE  Heard'
<1> USE DEF Heard
<1>1. /\ mainQueue \in Seq(Block) /\ mainQueue # <<>> /\ mainQueue' = Tail(mainQueue)
      /\ mainQueue[1].kind \notin {"notify", "first"}
  BY HeadTyped DEF TypeOK, Run
<1>2. \A j \in Nat : (PendingFor(j) => PendingFor(j)') /\ (FirstFor(j) => FirstFor(j)')
  BY <1>1, DequeueKeeps
<1>3. FirstsKnown'
  BY <1>1, Dequeued DEF FirstsKnown
<1>4. CalledKnow' /\ UncalledWait'
  BY <1>2 DEF CalledKnow, UncalledWait
<1>5. SessionHeard' /\ NoneMistaken'
  BY DEF SessionHeard, NoneMistaken
<1> QED BY <1>3, <1>4, <1>5

\* Auth announces a user, the old one or a new one: all listeners have
\* something to hear.
LEMMA AnnouncedHeard ==
  ASSUME TypeOK, Heard, NEW bs \in Seq(Block), Enqueue(bs),
         Len(bs) >= 1, bs[1] = Notify(1), \A q \in 1..Len(bs) : bs[q].kind # "first",
         UNCHANGED listeners, session' \in {NoUser, session}, NoneMistaken'
  PROVE  Heard'
<1> USE DEF Heard
<1>1. mainQueue \in Seq(Block)
  BY DEF TypeOK
<1>2. FirstsKnown'
  <2>1. ASSUME NEW q \in 1..Len(mainQueue'), mainQueue'[q].kind = "first"
        PROVE  mainQueue'[q].at \in 1..Len(listeners)
    <3>1. q \in 1..Len(mainQueue) /\ mainQueue'[q] = mainQueue[q]
      BY <1>1, <2>1, Enqueued
    <3> QED BY <2>1, <3>1 DEF FirstsKnown
  <2> QED BY <2>1 DEF FirstsKnown
<1>3. CalledKnow'
  BY <1>1, NotifyReachesAll DEF CalledKnow
<1>4. UncalledWait'
  BY <1>1, EnqueueKeeps DEF UncalledWait
<1>5. SessionHeard'
  BY DEF SessionHeard
<1> QED BY <1>2, <1>3, <1>4, <1>5

LEMMA AppearHeard ==
  ASSUME TypeOK, Heard, NEW order, Appear(order),
         UNCHANGED <<currentUser, session, overtaken>>
  PROVE  Heard'
<1> DEFINE new == Len(listeners) + 1
<1> USE DEF Heard
<1>1. mainQueue \in Seq(Block) /\ new \in Nat
  BY DEF TypeOK
<1>2. /\ Len(listeners') = new
      /\ \A i \in 1..Len(listeners) : listeners'[i] = listeners[i]
      /\ ~listeners'[new].called /\ listeners'[new].uid = NoUser
  BY AppearListens
<1>3. \A i \in 1..new : i \in 1..Len(listeners) \/ i = new
  BY <1>1 DEF TypeOK
<1>4. PICK bs \in Seq(Block) :
        /\ Enqueue(bs)
        /\ Len(bs) = 2
        /\ \E q \in 1..2 : bs[q] = First(new)
        /\ \A q \in 1..2 : bs[q] \in {First(new), Reload}
  BY AppearQueues
<1>5. \A i \in Nat : (PendingFor(i) => PendingFor(i)') /\ (FirstFor(i) => FirstFor(i)')
  BY <1>1, <1>4, EnqueueKeeps
<1> HIDE DEF new
<1>6. FirstsKnown'
  <2>1. ASSUME NEW q \in 1..Len(mainQueue'), mainQueue'[q].kind = "first"
        PROVE  mainQueue'[q].at \in 1..new
    <3>1. CASE q \in 1..Len(mainQueue)
      <4>1. mainQueue[q].kind = "first" /\ mainQueue'[q].at = mainQueue[q].at
        BY <1>1, <1>4, <2>1, <3>1, Enqueued
      <4> QED BY <3>1, <4>1 DEF FirstsKnown, new
    <3>2. CASE q - Len(mainQueue) \in 1..Len(bs) /\ mainQueue'[q] = bs[q - Len(mainQueue)]
      <4>1. mainQueue'[q] \in {First(new), Reload}
        BY <1>4, <3>2
      <4>2. mainQueue'[q].at = new
        BY <2>1, <4>1 DEF First, Reload
      <4> QED BY <1>1, <4>2 DEF TypeOK, new
    <3> QED BY <1>1, <1>4, <3>1, <3>2, Enqueued
  <2> QED BY <1>2, <2>1 DEF FirstsKnown
<1>7. \E p \in 1..Len(mainQueue') : mainQueue'[p].kind = "first" /\ mainQueue'[p].at = new
  <2>1. PICK q \in 1..2 : bs[q] = First(new)
    BY <1>4
  <2>2. Len(mainQueue') = Len(mainQueue) + 2 /\ Len(mainQueue) \in Nat
    <3>1. Len(mainQueue') = Len(mainQueue) + Len(bs)
      BY <1>1, <1>4, Enqueued
    <3>2. Len(bs) = 2
      BY <1>4
    <3> QED BY <1>1, <3>1, <3>2
  <2>3. mainQueue'[Len(mainQueue) + q] = First(new)
    BY <1>1, <1>4, <2>1, Enqueued
  <2>4. Len(mainQueue) + q \in 1..Len(mainQueue')
    BY <2>2
  <2> QED BY <2>3, <2>4 DEF First
<1>8. CalledKnow' /\ UncalledWait'
  <2>1. CalledKnow'
    BY <1>2, <1>3, <1>5 DEF CalledKnow
  <2>2. ASSUME NEW i \in 1..new, ~listeners'[i].called
        PROVE  FirstFor(i)' /\ listeners'[i].uid = NoUser
    <3>1. CASE i \in 1..Len(listeners)
      BY <1>2, <1>5, <2>2, <3>1 DEF UncalledWait
    <3>2. CASE i = new
      BY <1>2, <1>7, <3>2 DEF FirstFor
    <3> QED BY <1>3, <3>1, <3>2
  <2> QED BY <1>2, <2>1, <2>2 DEF UncalledWait
<1>9. SessionHeard' /\ NoneMistaken'
  BY <1>2, <1>3 DEF SessionHeard, NoneMistaken, new
<1> QED BY <1>6, <1>8, <1>9

\* Nothing that listeners hear of changes.
LEMMA QuietHeard ==
  ASSUME Heard, UNCHANGED <<currentUser, mainQueue, listeners, session, overtaken>>
  PROVE  Heard'
BY DEF Heard, FirstsKnown, CalledKnow, UncalledWait, SessionHeard, NoneMistaken, PendingFor, FirstFor

-----------------------------------------------------------------------------
\* The invariant is inductive

LEMMA InitIInv == Init => IInv
<1> SUFFICES ASSUME Init PROVE IInv OBVIOUS
<1>1. mainQueue = <<>> /\ listeners = <<>> /\ Len(<<>>) = 0
  BY EmptySeq DEF Init
<1>2. 1..Len(mainQueue) = {} /\ 1..Len(listeners) = {}
  BY <1>1
<1>3. FirstsKnown /\ CalledKnow /\ UncalledWait
  BY <1>2 DEF FirstsKnown, CalledKnow, UncalledWait
<1>4. SessionHeard /\ NoneMistaken /\ UnloadedIsLogin /\ RestartRestoresUser
  BY <1>2 DEF Init, SessionHeard, NoneMistaken, UnloadedIsLogin, RestartRestoresUser
<1> QED BY <1>3, <1>4, InitType DEF IInv

\* A user signs in while the session is nil: if no notification is pending, no
\* listener knows a user; if one is, Overtakes says who is mistaken.
LEMMA SignInNotMistaken ==
  ASSUME TypeOK, Heard, NEW u \in MaybeUser,
         currentUser' = u, UNCHANGED <<listeners, session>>,
         overtaken' = (overtaken \/ Overtakes(u))
  PROVE  NoneMistaken'
<1> SUFFICES ASSUME ~overtaken', session = NoUser, NEW i \in 1..Len(listeners), listeners[i].uid # NoUser
             PROVE  listeners[i].uid # u
  BY DEF NoneMistaken
<1>1. ~overtaken /\ ~Overtakes(u)
  OBVIOUS
<1>2. i \in DOMAIN listeners /\ DOMAIN mainQueue = 1..Len(mainQueue)
  BY DEF TypeOK
<1>3. CASE Notifying
  BY <1>1, <1>2, <1>3 DEF Overtakes
<1>4. CASE ~Notifying
  <2>1. ~PendingFor(i)
    BY <1>2, <1>4 DEF Notifying, PendingFor
  <2>2. listeners[i].called
    <3>1. listeners[i].called \/ ~listeners[i].called
      OBVIOUS
    <3> QED BY <3>1 DEF Heard, UncalledWait
  <2>3. listeners[i].uid = currentUser
    BY <2>1, <2>2 DEF Heard, CalledKnow
  <2>4. FALSE
    BY <1>1, <2>3 DEF Heard, NoneMistaken
  <2> QED BY <2>4
<1> QED BY <1>3, <1>4

LEMMA NextHeard == IInv /\ [Next]_vars => Heard'
<1> SUFFICES ASSUME IInv, [Next]_vars PROVE Heard' OBVIOUS
<1>0. TypeOK /\ Heard /\ UnloadedIsLogin /\ mainQueue \in Seq(Block)
  BY DEF IInv, Heard, TypeOK
<1> USE <1>0 DEF authVars, viewVars
<1>1. CASE RunNotify
  BY <1>1, RunNotifyHeard
<1>2. CASE RunFirst
  BY <1>2, RunFirstHeard
<1>3. CASE RunSignedIn
  BY <1>3, OtherBlockHeard DEF RunSignedIn
<1>4. CASE RunReload
  BY <1>4, OtherBlockHeard DEF RunReload
<1>5. CASE LoadKeychain
  <2>1. CASE SetCurrentUser(keychain, <<>>)
    <3>1. listeners = <<>> /\ 1..Len(listeners) = {} /\ UNCHANGED listeners
      BY <1>5, EmptySeq DEF LoadKeychain, UnloadedIsLogin
    <3>2. NoneMistaken'
      BY <3>1 DEF NoneMistaken
    <3> QED BY <1>5, <2>1, <3>2, ChangeQueues, AnnouncedHeard DEF LoadKeychain
  <2>2. CASE UNCHANGED <<currentUser, mainQueue>>
    BY <1>5, <2>2, QuietHeard DEF LoadKeychain
  <2> QED BY <1>5, <2>1, <2>2 DEF LoadKeychain
<1>6. ASSUME NEW r \in Requests, AuthAccepts(r) PROVE Heard'
  <2>1. requests[r].user \in MaybeUser
    BY DEF TypeOK, Request
  <2>2. PICK more \in {<<>>, <<SignedIn>>} : SetCurrentUser(requests[r].user, more)
    BY <1>6 DEF AuthAccepts
  <2>3. /\ UNCHANGED <<listeners, session>>
        /\ overtaken' = (overtaken \/ Overtakes(requests[r].user))
    BY <1>6 DEF AuthAccepts
  <2>4. currentUser' = requests[r].user
    BY <2>2 DEF SetCurrentUser
  <2>5. NoneMistaken'
    BY <2>1, <2>3, <2>4, SignInNotMistaken
  <2> QED BY <2>2, <2>3, <2>5, ChangeQueues, AnnouncedHeard
<1>7. ASSUME NEW r \in Requests, AuthRefuses(r) PROVE Heard'
  BY <1>7, QuietHeard DEF AuthRefuses
<1>8. CASE TokenRefreshed
  <2> DEFINE bs == <<Notify(1)>>
  <2>1. bs \in Seq(Block) /\ Len(bs) = 1 /\ bs[1] = Notify(1)
    BY BlocksTyped
  <2>2. Enqueue(bs) /\ UNCHANGED <<currentUser, listeners, session, overtaken>>
    BY <1>8 DEF TokenRefreshed
  <2> HIDE DEF bs
  <2>3. \A q \in 1..Len(bs) : bs[q].kind # "first"
    BY <2>1 DEF Notify
  <2>4. NoneMistaken'
    BY <2>2 DEF Heard, NoneMistaken
  <2> QED BY <2>1, <2>2, <2>3, <2>4, AnnouncedHeard
<1>9. CASE AutoSignOut
  <2>1. SetCurrentUser(NoUser, <<>>) /\ UNCHANGED <<listeners, session, overtaken>>
    BY <1>9 DEF AutoSignOut
  <2>2. NoneMistaken'
    BY <2>1 DEF SetCurrentUser, NoneMistaken
  <2> QED BY <2>1, <2>2, ChangeQueues, AnnouncedHeard
<1>10. ASSUME NEW r \in Requests, NEW kind \in {"signIn", "signUp"}, NEW u \in Users,
              TapRequest(r, kind, u)
       PROVE  Heard'
  BY <1>10, QuietHeard DEF TapRequest
<1>11. CASE TapLogOut
  <2>1. CASE currentUser = NoUser /\ session' = NoUser /\ UNCHANGED <<authVars, mainQueue>>
    <3>1. UNCHANGED <<currentUser, mainQueue, listeners, overtaken>>
      BY <1>11, <2>1 DEF TapLogOut
    <3>2. FirstsKnown' /\ CalledKnow' /\ UncalledWait'
      BY <3>1 DEF Heard, FirstsKnown, CalledKnow, UncalledWait, PendingFor, FirstFor
    <3>3. SessionHeard' /\ NoneMistaken'
      BY <2>1, <3>1 DEF SessionHeard, NoneMistaken
    <3> QED BY <3>2, <3>3 DEF Heard
  <2>2. CASE SetCurrentUser(NoUser, <<>>) /\ session' = NoUser
    <3>1. UNCHANGED listeners
      BY <1>11 DEF TapLogOut
    <3>2. NoneMistaken'
      BY <2>2 DEF SetCurrentUser, NoneMistaken
    <3> QED BY <2>2, <3>1, <3>2, ChangeQueues, AnnouncedHeard
  <2>3. CASE UNCHANGED <<authVars, mainQueue, session>>
    BY <1>11, <2>3, QuietHeard DEF TapLogOut
  <2> QED BY <1>11, <2>1, <2>2, <2>3 DEF TapLogOut
<1>12. CASE Render
  <2>1. CASE \E order \in AppearOrders : Appear(order)
    BY <1>12, <2>1, AppearHeard DEF Render
  <2>2. CASE UNCHANGED <<mainQueue, listeners>>
    BY <1>12, <2>2, QuietHeard DEF Render
  <2> QED BY <1>12, <2>1, <2>2 DEF Render
<1>13. CASE ReturnToList
  BY <1>13, AppearHeard DEF ReturnToList
<1>14. CASE Restart
  <2>1. mainQueue' = <<>> /\ listeners' = <<>> /\ session' = NoUser /\ Len(<<>>) = 0
    BY <1>14, EmptySeq DEF Restart
  <2>2. 1..Len(mainQueue') = {} /\ 1..Len(listeners') = {}
    BY <2>1
  <2>3. FirstsKnown' /\ CalledKnow' /\ UncalledWait'
    BY <2>2 DEF FirstsKnown, CalledKnow, UncalledWait
  <2>4. SessionHeard' /\ NoneMistaken'
    BY <2>1, <2>2 DEF SessionHeard, NoneMistaken
  <2> QED BY <2>3, <2>4 DEF Heard
<1>15. CASE UNCHANGED vars
  BY <1>15, QuietHeard DEF vars
<1> QED BY <1>1, <1>2, <1>3, <1>4, <1>5, <1>6, <1>7, <1>8, <1>9, <1>10, <1>11, <1>12, <1>13, <1>14, <1>15
        DEF Next, MainStep

LEMMA NextUnloaded == IInv /\ [Next]_vars => UnloadedIsLogin'
<1> SUFFICES ASSUME IInv, [Next]_vars, ~loaded' PROVE UnloadedIsLogin'
  BY DEF UnloadedIsLogin
<1>0. TypeOK /\ UnloadedIsLogin /\ mainQueue \in Seq(Block)
  BY DEF IInv, TypeOK
<1>1. CASE Restart
  <2>1. mainQueue' = <<>> /\ Len(<<>>) = 0
    BY <1>1, EmptySeq DEF Restart
  <2>2. 1..Len(mainQueue') = {}
    BY <2>1
  <2> QED BY <1>1, <2>2 DEF Restart, UnloadedIsLogin
<1>2. CASE UNCHANGED vars
  BY <1>0, <1>2 DEF UnloadedIsLogin, vars, authVars, viewVars
<1>3. CASE ~Restart /\ Next
  <2>1. /\ ~loaded /\ ~signInDone /\ shown = "login" /\ listeners = <<>> /\ currentUser = NoUser
        /\ \A q \in 1..Len(mainQueue) : mainQueue[q].kind # "signedIn"
    <3>1. ~loaded
      BY <1>3, <1>0 DEF Next, MainStep, RunNotify, RunFirst, RunSignedIn, RunReload, LoadKeychain, AuthAccepts,
         AuthRefuses, TokenRefreshed, AutoSignOut, TapRequest, TapLogOut, Render, ReturnToList, authVars
    <3> QED BY <1>0, <3>1 DEF UnloadedIsLogin
  <2>2. CASE MainStep
    <3>1. ~RunSignedIn
      BY <1>0, <2>1, HeadTyped DEF RunSignedIn, Run
    <3>2. UNCHANGED <<loaded, signInDone, shown, currentUser>>
      BY <2>2, <3>1 DEF MainStep, RunNotify, RunFirst, RunReload, authVars, viewVars
    <3>3. \A i \in Nat : i \notin DOMAIN listeners
      BY <2>1
    <3>4. CASE RunNotify
      <4>1. UNCHANGED listeners
        BY <1>0, <3>3, <3>4, HeadTyped DEF RunNotify
      <4>2. \A q \in 1..Len(mainQueue') : mainQueue'[q].kind # "signedIn"
        BY <1>0, <2>1, <3>4, RunNotifyQueue
      <4> QED BY <2>1, <3>2, <4>1, <4>2 DEF UnloadedIsLogin
    <3>5. CASE RunFirst
      <4>1. mainQueue # <<>> /\ mainQueue[1].kind = "first" /\ 1 \in 1..Len(mainQueue)
        BY <1>0, <3>5, HeadTyped DEF RunFirst, Run
      <4>2. mainQueue[1].at \in 1..Len(listeners) /\ Len(listeners) = 0
        BY <2>1, <4>1, EmptySeq DEF IInv, FirstsKnown
      <4> QED BY <4>2
    <3>6. CASE RunReload
      <4>1. \A q \in 1..Len(mainQueue') : mainQueue'[q].kind # "signedIn"
        BY <1>0, <2>1, <3>6, Dequeued DEF RunReload, Run
      <4> QED BY <2>1, <3>2, <3>6, <4>1 DEF RunReload, UnloadedIsLogin
    <3> QED BY <2>2, <3>1, <3>4, <3>5, <3>6 DEF MainStep
  <2>3. CASE \E r \in Requests : AuthRefuses(r)
    BY <2>1, <2>3 DEF AuthRefuses, UnloadedIsLogin, authVars, viewVars
  <2>4. CASE \E r \in Requests, kind \in {"signIn", "signUp"}, u \in Users : TapRequest(r, kind, u)
    BY <2>1, <2>4 DEF TapRequest, UnloadedIsLogin, authVars, viewVars
  <2>5. ~LoadKeychain /\ ~(\E r \in Requests : AuthAccepts(r)) /\ ~TapLogOut
        /\ ~TokenRefreshed /\ ~AutoSignOut /\ ~Render /\ ~ReturnToList
    BY <2>1 DEF LoadKeychain, AuthAccepts, TapLogOut, TokenRefreshed, AutoSignOut, Render, ReturnToList
  <2> QED BY <1>3, <2>2, <2>3, <2>4, <2>5 DEF Next
<1> QED BY <1>1, <1>2, <1>3

LEMMA NextRestores == IInv /\ [Next]_vars => RestartRestoresUser'
<1> SUFFICES ASSUME IInv, [Next]_vars PROVE RestartRestoresUser' OBVIOUS
<1>0. UnloadedIsLogin /\ RestartRestoresUser
  BY DEF IInv
<1> USE <1>0 DEF RestartRestoresUser, authVars
<1>1. CASE MainStep
  BY <1>1 DEF MainStep, RunNotify, RunFirst, RunSignedIn, RunReload
<1>2. CASE LoadKeychain
  BY <1>2 DEF LoadKeychain, SetCurrentUser, UnloadedIsLogin
<1>3. CASE \E r \in Requests : AuthAccepts(r) \/ AuthRefuses(r)
  BY <1>3 DEF AuthAccepts, AuthRefuses, SetCurrentUser
<1>4. CASE TokenRefreshed \/ AutoSignOut
  BY <1>4 DEF TokenRefreshed, AutoSignOut, SetCurrentUser
<1>5. CASE \E r \in Requests, kind \in {"signIn", "signUp"}, u \in Users : TapRequest(r, kind, u)
  BY <1>5 DEF TapRequest
<1>6. CASE TapLogOut
  BY <1>6 DEF TapLogOut, SetCurrentUser
<1>7. CASE Render \/ ReturnToList
  BY <1>7 DEF Render, ReturnToList
<1>8. CASE Restart
  BY <1>8 DEF Restart
<1>9. CASE UNCHANGED vars
  BY <1>9 DEF vars
<1> QED BY <1>1, <1>2, <1>3, <1>4, <1>5, <1>6, <1>7, <1>8, <1>9 DEF Next

LEMMA NextIInv == IInv /\ [Next]_vars => IInv'
<1> SUFFICES ASSUME IInv, [Next]_vars PROVE IInv' OBVIOUS
<1>1. TypeOK'
  BY NextType DEF IInv
<1>2. Heard' /\ UnloadedIsLogin' /\ RestartRestoresUser'
  BY NextHeard, NextUnloaded, NextRestores
<1> QED BY <1>1, <1>2 DEF IInv, Heard

LEMMA IInvAlways == Spec => []IInv
BY InitIInv, NextIInv, PTL DEF Spec

-----------------------------------------------------------------------------
\* Theorems

\* Every variable keeps its type, whatever the users and the bounds are.
THEOREM TypeCorrect == Spec => []TypeOK
<1>1. IInv => TypeOK
  BY DEF IInv
<1> QED BY <1>1, IInvAlways, PTL

\* When nothing is left to run that listeners hear of, each of them was called
\* and knows Auth's user.
LEMMA SettledKnow ==
  ASSUME IInv, Settled, NEW i \in 1..Len(listeners)
  PROVE  listeners[i].called /\ listeners[i].uid = currentUser
<1>1. DOMAIN mainQueue = 1..Len(mainQueue)
  BY DEF IInv, TypeOK
<1>2. ~PendingFor(i) /\ ~FirstFor(i)
  BY <1>1 DEF Settled, PendingFor, FirstFor
<1> QED BY <1>2 DEF IInv, CalledKnow, UncalledWait

\* FirebaseController.session is never that of another user than Auth's, once
\* listen()'s closures were called for everything that happened.
THEOREM SessionIsNoOtherUser == Spec => []NeverAnotherUser
<1>1. IInv => NeverAnotherUser
  BY SettledKnow DEF IInv, SessionHeard, NeverAnotherUser
<1> QED BY <1>1, IInvAlways, PTL

\* It is Auth's user, if MainView appeared and no sign-out was overtaken.
THEOREM SessionIsUser == Spec => []SessionFollowsUser
<1>1. IInv => SessionFollowsUser
  <2> SUFFICES ASSUME IInv, Settled, listeners # <<>>, ~overtaken PROVE session = currentUser
    BY DEF SessionFollowsUser
  <2>1. 1 \in 1..Len(listeners)
    BY DEF IInv, TypeOK
  <2>2. listeners[1].uid = currentUser
    BY <2>1, SettledKnow
  <2>3. CASE session = NoUser
    BY <2>1, <2>2, <2>3 DEF IInv, NoneMistaken
  <2>4. CASE session # NoUser
    BY <2>4, SettledKnow DEF IInv, SessionHeard
  <2> QED BY <2>3, <2>4
<1> QED BY <1>1, IInvAlways, PTL

\* The keychain holds Auth's user whenever there is one: Auth saves a user
\* before it makes it current, and reads the saved one before anything else.
THEOREM KeychainHoldsUser == Spec => []RestartRestoresUser
<1>1. IInv => RestartRestoresUser
  BY DEF IInv
<1> QED BY <1>1, IInvAlways, PTL

=============================================================================
