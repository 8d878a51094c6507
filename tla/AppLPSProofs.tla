---------------------------- MODULE AppLPSProofs ----------------------------
(***************************************************************************)
(* Proofs about AppLPS.  Its actions are written with those of its parts, so *)
(* that what GalleryProofs and SessionProofs show of them holds in the     *)
(* application (UserImplemented, ListImplemented); what is about both, when a *)
(* save goes to nobody and whose rows the list shows, is proved here.      *)
(***************************************************************************)
EXTENDS AppLPS, TLAPS

SP == INSTANCE SessionProofs WITH crashed <- unwrapped
GP == INSTANCE GalleryProofs WITH crashed <- trapped, Emails <- Users \cup {None}

-----------------------------------------------------------------------------
\* Each step is a step of each part, or leaves that part alone

LEMMA UserSteps == UserStep \/ LogOut => [S!Next]_(S!vars) /\ UNCHANGED listVars
BY DEF UserStep, LogOut, S!Next, S!MainStep

LEMMA ListSteps == ListStep => [G!Next]_(G!vars) /\ UNCHANGED userVars
BY DEF ListStep, PoolStep, CallbackStep, Redraw, G!Next, G!Step, G!LoadNext, G!SaveNext

LEMMA RenderSteps == Render => S!Next /\ [G!Next]_(G!vars)
BY DEF Render, S!Next, G!Next, G!Step, listVars, G!vars, G!appVars

LEMMA ReloadSteps ==
  ASSUME Reload, session \in Users \cup {NoUser}
  PROVE  [G!Next]_(G!vars)
<1>1. CASE session = NoUser
  BY <1>1 DEF Reload, listVars, G!vars, G!appVars
<1>2. CASE session # NoUser
  BY <1>2 DEF Reload, G!Next, G!Step, G!LoadNext
<1> QED BY <1>1, <1>2

LEMMA TapSteps ==
  ASSUME Swipe \/ SwipeReload \/ SaveTap, session \in Users \cup {NoUser}
  PROVE  [G!Next]_(G!vars)
<1>1. EmailOrNone \in Users \cup {None}
  BY DEF EmailOrNone
<1> QED BY <1>1 DEF Swipe, SwipeReload, SaveTap, G!Next, G!Step, G!LoadNext, G!SaveNext

LEMMA NextUser == [Next]_vars => [S!Next]_(S!vars)
<1>1. UNCHANGED userVars => UNCHANGED S!vars
  BY DEF userVars, S!vars, S!authVars, S!viewVars
<1>2. Reload => S!Next
  BY DEF Reload, S!Next, S!MainStep
<1>3. Swipe \/ SwipeReload \/ SaveTap => UNCHANGED userVars
  BY DEF Swipe, SwipeReload, SaveTap
<1>4. Restart => S!Next
  BY DEF Restart, S!Next
<1> QED BY <1>1, <1>2, <1>3, <1>4, UserSteps, ListSteps, RenderSteps DEF Next, vars

LEMMA NextList == S!TypeOK /\ [Next]_vars => [G!Next]_(G!vars)
<1>1. UNCHANGED listVars => UNCHANGED G!vars
  BY DEF listVars, G!vars, G!appVars
<1>2. Restart => G!Next
  BY DEF Restart, G!Next
<1>3. S!TypeOK => session \in Users \cup {NoUser}
  BY DEF S!TypeOK, S!MaybeUser
<1> QED BY <1>1, <1>2, <1>3, UserSteps, ListSteps, RenderSteps, ReloadSteps, TapSteps
    DEF Next, vars

-----------------------------------------------------------------------------
\* The parts, and what is known of them

\* The user's state moves in the application as Session moves it.
LEMMA UserImplemented == Spec => S!Spec
<1>1. Init => S!Init
  BY DEF Init
<1> QED BY <1>1, NextUser, PTL DEF Spec, S!Spec

LEMMA SameSession == S!Spec <=> SP!Spec
<1>1. S!Init <=> SP!Init
  BY DEF S!Init, SP!Init
<1>2. [S!Next]_(S!vars) <=> [SP!Next]_(SP!vars)
  BY
     DEF S!MaybeUser, SP!MaybeUser, S!Notify, SP!Notify, S!First, SP!First, S!SignedIn,
         SP!SignedIn, S!Reload, SP!Reload, S!Enqueue, SP!Enqueue, S!Delivering,
         SP!Delivering, S!MainIsFree, SP!MainIsFree, S!Call, SP!Call, S!RunNotify,
         SP!RunNotify, S!RunFirst, SP!RunFirst, S!Run, SP!Run, S!RunSignedIn,
         SP!RunSignedIn, S!RunReload, SP!RunReload, S!SetCurrentUser, SP!SetCurrentUser,
         S!LoadKeychain, SP!LoadKeychain, S!Notifying, SP!Notifying, S!Overtakes,
         SP!Overtakes, S!AuthAccepts, SP!AuthAccepts, S!AuthRefuses, SP!AuthRefuses,
         S!TokenRefreshed, SP!TokenRefreshed, S!AutoSignOut, SP!AutoSignOut,
         S!TapRequest, SP!TapRequest, S!TapLogOut, SP!TapLogOut, S!Appear, SP!Appear,
         S!Render, SP!Render, S!ReturnToList, SP!ReturnToList, S!Restart, SP!Restart,
         S!MainStep, SP!MainStep, S!Next, SP!Next, S!vars, SP!vars, S!authVars,
         SP!authVars, S!viewVars, SP!viewVars
<1> QED BY <1>1, <1>2, PTL DEF S!Spec, SP!Spec

LEMMA SameGallery == G!Spec <=> GP!Spec
<1>1. G!Init <=> GP!Init
  BY DEF G!Init, GP!Init, G!Drawing, GP!Drawing, G!NoCall, GP!NoCall, G!NoUpload, GP!NoUpload
<1>2. [G!Next]_(G!vars) <=> [GP!Next]_(GP!vars)
  BY
     DEF G!LoadPc, GP!LoadPc, G!Running, GP!Running, G!Called, GP!Called,
         G!Spawn, GP!Spawn, G!SwipeReload, GP!SwipeReload, G!At, GP!At,
         G!Goto, GP!Goto, G!Appear, GP!Appear, G!SetLoading, GP!SetLoading, G!SetEmpty,
         GP!SetEmpty, G!ClearAndAsk, GP!ClearAndAsk, G!QueryFails, GP!QueryFails,
         G!QueryAnswers, GP!QueryAnswers, G!FetchFails, GP!FetchFails, G!Row, GP!Row,
         G!Fetched, GP!Fetched, G!FetchSucceeds, GP!FetchSucceeds, G!FetchRacesClear,
         GP!FetchRacesClear, G!UploadStorage, GP!UploadStorage, G!PutFails, GP!PutFails,
         G!UploadData, GP!UploadData, G!WriteFails, GP!WriteFails, G!WriteSucceeds,
         GP!WriteSucceeds, G!Drawing, GP!Drawing, G!Redraw, GP!Redraw, G!DeleteRow,
         GP!DeleteRow, G!FilesSnapshots, GP!FilesSnapshots, G!NoCall, GP!NoCall,
         G!NoUpload, GP!NoUpload, G!Restart, GP!Restart, G!LoadNext, GP!LoadNext,
         G!SaveNext, GP!SaveNext, G!Step, GP!Step, G!Next, GP!Next, G!appVars,
         GP!appVars, G!vars, GP!vars
<1> QED BY <1>1, <1>2, PTL DEF G!Spec, GP!Spec

LEMMA SessionTypes == Spec => []S!TypeOK
<1>1. SP!Spec => []SP!TypeOK
  BY SP!TypeCorrect, NoUserAssumption, OrdersAssumption, BoundsAssumption, PTL
<1>2. SP!TypeOK <=> S!TypeOK
  BY DEF SP!TypeOK, S!TypeOK, SP!MaybeUser, S!MaybeUser, SP!Block, S!Block,
         SP!Listener, S!Listener, SP!Request, S!Request
<1> QED BY <1>1, <1>2, UserImplemented, SameSession, PTL

\* The list moves in the application as Gallery moves it.
LEMMA ListImplemented == Spec => G!Spec
<1>1. Init => G!Init
  BY DEF Init
<1> QED BY <1>1, NextList, SessionTypes, PTL DEF Spec, G!Spec

LEMMA GalleryInvariant == Spec => []GP!IInv
<1>1. None \in Users \cup {None}
  OBVIOUS
<1>2. GP!Spec => []GP!IInv
  BY GP!IInvAlways, <1>1, NoLoadAssumption, NoDateAssumption, PTL
<1> QED BY <1>2, ListImplemented, SameGallery, PTL

LEMMA ListTypes == GP!IInv => G!TypeOK
BY DEF GP!IInv, GP!TypeOK, G!TypeOK, GP!UserImage, G!UserImage, GP!LoadRecord, G!LoadRecord,
       GP!LoadPc, G!LoadPc, GP!SaveRecord, G!SaveRecord, GP!Screen, G!Screen

\* The variables of the application keep their types.
THEOREM TypeCorrect == Spec => []TypeOK
<1> DEFINE Kind == reloaded \in {"no", "alone", "crowded"}
<1>1. Init => Kind
  BY DEF Init
<1>2. Kind /\ [Next]_vars => Kind'
  BY DEF Next, UserStep, LogOut, Track, ListStep, Render, Reload, Swipe, SwipeReload, SaveTap,
         Restart, vars
<1> QED BY <1>1, <1>2, SessionTypes, GalleryInvariant, ListTypes, PTL DEF Spec, TypeOK

-----------------------------------------------------------------------------
\* Saves for "none"

\* Where MainView is shown, it has registered its listener.
MainListens == shown = "main" => listeners # <<>>

LEMMA MainListensAlways == Spec => []MainListens
<1>1. Init => MainListens
  BY DEF Init, S!Init, MainListens
<1>2. S!TypeOK /\ MainListens /\ [S!Next]_(S!vars) => MainListens'
  <2> SUFFICES ASSUME S!TypeOK, MainListens, [S!Next]_(S!vars) PROVE MainListens'
    OBVIOUS
  <2>1. listeners \in Seq(S!Listener)
    BY DEF S!TypeOK
  <2>2. ASSUME NEW i, S!Call(i) PROVE listeners # <<>> => listeners' # <<>>
    BY <2>1, <2>2 DEF S!Call
  <2>3. ASSUME NEW order, S!Appear(order) PROVE listeners' # <<>>
    BY <2>1, <2>3 DEF S!Appear
  <2>4. CASE S!MainStep
    BY <2>2, <2>4 DEF S!MainStep, S!RunNotify, S!RunFirst, S!RunSignedIn, S!RunReload, S!Run,
                      S!viewVars, MainListens
  <2>5. CASE S!Render \/ S!ReturnToList
    BY <2>3, <2>5 DEF S!Render, S!ReturnToList, S!viewVars, MainListens
  <2>6. CASE S!Restart
    BY <2>6 DEF S!Restart, MainListens
  <2>7. CASE UNCHANGED <<shown, listeners>>
    BY <2>7 DEF MainListens
  <2> QED
    BY <2>4, <2>5, <2>6, <2>7
       DEF S!Next, S!LoadKeychain, S!AuthAccepts, S!AuthRefuses, S!TokenRefreshed, S!AutoSignOut,
           S!TapRequest, S!TapLogOut, S!viewVars, S!vars
<1> QED BY <1>1, <1>2, SessionTypes, NextUser, PTL DEF Spec

LEMMA SessionFollows == Spec => []S!SessionFollowsUser
<1>1. SP!Spec => []SP!SessionFollowsUser
  BY SP!SessionIsUser, NoUserAssumption, OrdersAssumption, BoundsAssumption, PTL
<1>2. SP!SessionFollowsUser <=> S!SessionFollowsUser
  BY DEF SP!SessionFollowsUser, S!SessionFollowsUser, SP!Settled, S!Settled
<1> QED BY <1>1, <1>2, UserImplemented, SameSession, PTL

\* Only the Save button begins a save.
LEMMA SaveBegins ==
  ASSUME G!TypeOK, Next, NEW s \in Saves, save[s].pc = "unused", save'[s].pc = "putting"
  PROVE  SaveTap
<1>1. save \in [Saves -> G!SaveRecord]
  BY DEF G!TypeOK
<1>2. CASE UserStep \/ LogOut \/ Reload
  BY <1>2 DEF UserStep, LogOut, Reload, G!Appear, listVars
<1>3. CASE ListStep
  <2>1. CASE PoolStep \/ Redraw
    BY <2>1 DEF PoolStep, Redraw, G!SetLoading, G!SetEmpty, G!ClearAndAsk, G!Redraw
  <2>2. CASE CallbackStep
    BY <1>1, <2>2
       DEF CallbackStep, G!QueryFails, G!QueryAnswers, G!FetchFails, G!FetchSucceeds,
           G!FetchRacesClear, G!PutFails, G!UploadData, G!WriteFails, G!WriteSucceeds, G!SaveRecord
  <2> QED BY <1>3, <2>1, <2>2 DEF ListStep
<1>4. CASE Swipe \/ SwipeReload \/ Render
  BY <1>4 DEF Swipe, SwipeReload, Render, G!DeleteRow, G!SwipeReload, G!Redraw, listVars
<1>5. CASE Restart
  BY <1>5 DEF Restart, G!Restart, G!NoUpload
<1> QED BY <1>2, <1>3, <1>4, <1>5 DEF Next

\* A picture is saved for "none" only while Auth has no user, or the listeners
\* have yet to hear of the one it has, or missed a sign-in.
THEOREM NoneIsForNobody == Spec => NoneIsNobodys
<1> DEFINE Inv == S!TypeOK /\ G!TypeOK /\ MainListens /\ S!SessionFollowsUser
<1>1. Inv /\ [Next]_vars =>
        [\A s \in Saves :
           save[s].pc = "unused" /\ save'[s].pc = "putting" /\ save'[s].email = None =>
             currentUser = NoUser \/ ~S!Settled \/ overtaken]_vars
  <2> SUFFICES ASSUME Inv, Next, NEW s \in Saves,
                      save[s].pc = "unused", save'[s].pc = "putting", save'[s].email = None
               PROVE  currentUser = NoUser \/ ~S!Settled \/ overtaken
    OBVIOUS
  <2>1. SaveTap
    BY SaveBegins
  <2>2. save'[s].email = EmailOrNone
    <3>1. PICK t \in Saves : G!UploadStorage(t, EmailOrNone)
      BY <2>1 DEF SaveTap
    <3>2. save' = [save EXCEPT ![t] = [pc |-> "putting", email |-> EmailOrNone]]
      BY <3>1 DEF G!UploadStorage
    <3>3. save \in [Saves -> G!SaveRecord]
      BY DEF G!TypeOK
    <3> QED BY <3>2, <3>3
  <2>3. session = NoUser
    BY <2>2, NoneAssumption DEF EmailOrNone, S!TypeOK, S!MaybeUser
  <2>4. listeners # <<>>
    BY <2>1 DEF SaveTap, OnMain, MainListens
  <2> QED BY <2>3, <2>4 DEF S!SessionFollowsUser
<1>2. Spec => []Inv
  BY SessionTypes, GalleryInvariant, ListTypes, MainListensAlways, SessionFollows, PTL
<1> QED BY <1>1, <1>2, PTL DEF Spec, NoneIsNobodys

-----------------------------------------------------------------------------
\* Whose rows are shown

\* The session's, or of a user with a save that was acknowledged.
Excused(e) == e = session \/ \E s \in Saves : save[s].pc = "done" /\ save[s].email = e

\* The call was made for the session, or its rows are excused by a save.
Accounted(l) == Excused(load[l].email)

Begun(l) == load[l].pc \notin {"unused", "swiped"}
Early(l) == load[l].pc \in {"ready", "spinning", "marked"}

\* No call can append to the array before another empties it.
Idle == \A l \in Loads : load[l].fetching = {} /\ load[l].pc # "asking"

\* A lone call of another user is over, and another call emptied the array
\* after it, or is about to.
OthersArePast ==
  session # NoUser /\ reloaded # "no" =>
    \A l \in Loads : Begun(l) /\ load[l].solo /\ ~Accounted(l) =>
      ~G!Running(l) /\ (owner # l \/ \E k \in Loads : Early(k))

\* Once MainView reloaded with no call under way, what is under way is
\* accounted for, and so are the rows, or the array is about to be emptied.
AloneIsOwn ==
  session # NoUser /\ reloaded = "alone" =>
    /\ \A l \in Loads : G!Running(l) => Accounted(l)
    /\ \/ \A i \in 1..Len(refImagenesUsuario) : Excused(refImagenesUsuario[i].email)
       \/ Idle /\ \E k \in Loads : Early(k)

\* What a step does to a call l that it does not start.
Lets(l) ==
  /\ load'[l].email = load[l].email
  /\ load'[l].solo => load[l].solo
  /\ Begun(l)' => Begun(l)
  /\ G!Running(l)' => G!Running(l)
  /\ ~G!Running(l) /\ Begun(l) => load'[l].pc = load[l].pc

\* What a step of the gallery does to the rest.
LetsRest ==
  /\ \A s \in Saves : save[s].pc = "done" => save'[s] = save[s]
  /\ owner' # owner => \E k \in Loads : owner' = k /\ Early(k)
  /\ \A k \in Loads : Early(k) => Early(k)' \/ owner' = k

\* What it does to the rows, and that nothing is asked for behind the back of
\* a call that is yet to empty them.
LetsRows ==
  \/ refImagenesUsuario' = <<>>
  \/ /\ refImagenesUsuario' = refImagenesUsuario
     /\ Idle => Idle' /\ \A k \in Loads : Early(k) => Early(k)'
  \/ \E l \in Loads, d \in Dates :
       /\ load[l].fetching # {}
       /\ refImagenesUsuario' = Append(refImagenesUsuario, G!Row(l, d))

LEMMA ExcusedStays ==
  ASSUME LetsRest, session' = session, NEW e, Excused(e)
  PROVE  Excused(e)'
BY DEF LetsRest, Excused

LEMMA OthersKept ==
  ASSUME OthersArePast, session' = session, reloaded' = reloaded, LetsRest,
         \A l \in Loads : Lets(l) \/ Accounted(l)'
  PROVE  OthersArePast'
<1> SUFFICES ASSUME session # NoUser, reloaded # "no", NEW l \in Loads,
                    Begun(l)', load'[l].solo, ~Accounted(l)'
             PROVE  ~G!Running(l)' /\ (owner' # l \/ \E k \in Loads : Early(k)')
  BY DEF OthersArePast
<1>1. Lets(l)
  OBVIOUS
<1>2. ~Accounted(l)
  BY <1>1, ExcusedStays DEF Lets, Accounted
<1>3. ~G!Running(l) /\ (owner # l \/ \E k \in Loads : Early(k))
  BY <1>1, <1>2 DEF Lets, OthersArePast
<1>4. ~G!Running(l)'
  BY <1>1, <1>3 DEF Lets
<1>5. ~Early(l) /\ ~Early(l)'
  BY <1>3, <1>4 DEF Early, G!Running
<1>6. CASE owner' # owner
  BY <1>4, <1>5, <1>6 DEF LetsRest
<1>7. CASE owner' = owner
  <2>1. CASE owner # l
    BY <1>4, <1>7, <2>1
  <2>2. CASE owner = l
    BY <1>3, <1>4, <1>5, <1>7, <2>2 DEF LetsRest
  <2> QED BY <2>1, <2>2
<1> QED BY <1>6, <1>7

LEMMA OwnKept ==
  ASSUME G!TypeOK, AloneIsOwn, session' = session, reloaded' = reloaded, LetsRest, LetsRows,
         \A l \in Loads : Lets(l) \/ Accounted(l)'
  PROVE  AloneIsOwn'
<1> DEFINE Rows == \A i \in 1..Len(refImagenesUsuario) : Excused(refImagenesUsuario[i].email)
<1> DEFINE Pending == Idle /\ \E k \in Loads : Early(k)
<1> SUFFICES ASSUME session # NoUser, reloaded = "alone"
             PROVE  (\A l \in Loads : G!Running(l) => Accounted(l))' /\ (Rows \/ Pending)'
  BY DEF AloneIsOwn
<1>0. refImagenesUsuario \in Seq(G!UserImage) /\ load \in [Loads -> G!LoadRecord]
  BY DEF G!TypeOK
<1>1. \A l \in Loads : G!Running(l) => Accounted(l)
  BY DEF AloneIsOwn
<1>2. \A l \in Loads : G!Running(l)' => Accounted(l)'
  BY <1>1, ExcusedStays DEF Lets, Accounted
<1>3. Rows \/ Pending
  BY DEF AloneIsOwn
<1>4. CASE refImagenesUsuario' = <<>>
  BY <1>2, <1>4
<1>5. CASE /\ refImagenesUsuario' = refImagenesUsuario
           /\ Idle => Idle' /\ \A k \in Loads : Early(k) => Early(k)'
  <2>1. CASE Rows
    BY <1>2, <1>5, <2>1, ExcusedStays
  <2>2. CASE Pending
    BY <1>2, <1>5, <2>2
  <2> QED BY <1>3, <2>1, <2>2
<1>6. ASSUME NEW l \in Loads, NEW d \in Dates, load[l].fetching # {},
             refImagenesUsuario' = Append(refImagenesUsuario, G!Row(l, d))
      PROVE  Rows'
  <2>1. Rows
    BY <1>3, <1>6 DEF Idle
  <2>2. Excused(load[l].email)
    BY <1>1, <1>6 DEF G!Running, Accounted
  <2>3. G!Row(l, d) \in G!UserImage /\ G!Row(l, d).email = load[l].email
    BY <1>0 DEF G!Row, G!UserImage, G!LoadRecord
  <2>4. \A i \in 1..Len(refImagenesUsuario') :
          \/ i \in 1..Len(refImagenesUsuario) /\ refImagenesUsuario'[i] = refImagenesUsuario[i]
          \/ refImagenesUsuario'[i] = G!Row(l, d)
    BY <1>0, <1>6, <2>3
  <2> QED BY <2>1, <2>2, <2>3, <2>4, ExcusedStays
<1> QED BY <1>2, <1>4, <1>5, <1>6 DEF LetsRows

\* A call begins, or the task of a swipe does.
Begins(j, e) == ~Begun(j) /\ load' = G!Called(j, e)

LEMMA BeginsLets ==
  ASSUME GP!FetchesSound, load \in [Loads -> G!LoadRecord], NEW j \in Loads, NEW e, Begins(j, e)
  PROVE  /\ load'[j].email = e /\ load'[j].pc = "ready" /\ load'[j].fetching = {}
         /\ ~G!Running(j)
         /\ \A l \in Loads \ {j} :
              /\ Lets(l)
              /\ load'[l].pc = load[l].pc /\ load'[l].fetching = load[l].fetching
              /\ load'[l].solo => ~G!Running(l)
<1>1. load' = [k \in Loads |->
         IF k = j
           THEN [pc |-> "ready", email |-> e, fetching |-> {}, found |-> {},
                 got |-> {}, solo |-> \A i \in Loads : ~G!Running(i)]
           ELSE [load[k] EXCEPT !.solo = @ /\ ~G!Running(k)]]
  BY DEF Begins, G!Called
<1>2. load[j].pc \in {"unused", "swiped"} /\ load[j].fetching = {}
  BY DEF Begins, Begun, GP!FetchesSound
<1>3. load'[j].email = e /\ load'[j].pc = "ready" /\ load'[j].fetching = {}
  BY <1>1
<1>4. ASSUME NEW l \in Loads \ {j}
      PROVE  /\ Lets(l)
             /\ load'[l].pc = load[l].pc /\ load'[l].fetching = load[l].fetching
             /\ load'[l].solo => ~G!Running(l)
  <2>1. load'[l] = [load[l] EXCEPT !.solo = @ /\ ~G!Running(l)]
    BY <1>1
  <2>2. load[l] \in G!LoadRecord
    OBVIOUS
  <2>3. /\ load'[l].pc = load[l].pc /\ load'[l].fetching = load[l].fetching
        /\ load'[l].email = load[l].email
        /\ load'[l].solo = (load[l].solo /\ ~G!Running(l))
    BY <2>1, <2>2 DEF G!LoadRecord
  <2> QED BY <2>3 DEF Lets, Begun, G!Running
<1> QED BY <1>2, <1>3, <1>4 DEF G!Running

LEMMA BeginsRest ==
  ASSUME GP!FetchesSound, load \in [Loads -> G!LoadRecord], NEW j \in Loads, NEW e, Begins(j, e),
         refImagenesUsuario' = refImagenesUsuario, owner' = owner,
         \A s \in Saves : save[s].pc = "done" => save'[s] = save[s]
  PROVE  LetsRest /\ LetsRows
<1>1. \A k \in Loads : Early(k) => Early(k)'
  BY BeginsLets DEF Early
<1>2. Idle => Idle'
  BY BeginsLets DEF Idle
<1> QED BY <1>1, <1>2 DEF LetsRest, LetsRows

\* Steps of the list, one by one.
LEMMA ListLets ==
  ASSUME G!TypeOK, GP!FetchesSound, ListStep
  PROVE  LetsRest /\ LetsRows /\ \A k \in Loads : Lets(k) \/ Accounted(k)'
<1> DEFINE Goal == LetsRest /\ LetsRows /\ \A k \in Loads : Lets(k) \/ Accounted(k)'
<1>0. load \in [Loads -> G!LoadRecord] /\ save \in [Saves -> G!SaveRecord]
  BY DEF G!TypeOK
\* A call moves on, and neither empties nor asks.
<1>M. ASSUME UNCHANGED <<save, owner>>, NEW l \in Loads, refImagenesUsuario' = refImagenesUsuario,
             load'[l].email = load[l].email, load'[l].solo = load[l].solo,
             Begun(l), G!Running(l),
             load'[l].pc \notin {"unused", "swiped"},
             Idle => load'[l].fetching = {} /\ load'[l].pc # "asking",
             Early(l) => Early(l)',
             \A k \in Loads \ {l} : load'[k] = load[k]
      PROVE  Goal
  <2>1. \A k \in Loads : Lets(k)
    BY <1>M DEF Lets, Begun, G!Running
  <2>2. \A k \in Loads : Early(k) => Early(k)'
    BY <1>M DEF Early
  <2>3. Idle => Idle'
    BY <1>M DEF Idle
  <2> QED BY <1>M, <2>1, <2>2, <2>3 DEF LetsRest, LetsRows
<1>1. ASSUME NEW l \in Loads, G!SetLoading(l) \/ G!SetEmpty(l) \/ G!QueryFails(l) PROVE Goal
  <2>1. /\ UNCHANGED <<save, owner, refImagenesUsuario>>
        /\ \/ load[l].pc \in {"ready", "spinning"} /\ load'[l].pc \in {"spinning", "marked"}
           \/ load[l].pc = "asking" /\ load'[l].pc = "failed"
        /\ load'[l].email = load[l].email /\ load'[l].solo = load[l].solo
        /\ load'[l].fetching = load[l].fetching
        /\ \A k \in Loads \ {l} : load'[k] = load[k]
    BY <1>0, <1>1 DEF G!SetLoading, G!SetEmpty, G!QueryFails, G!At, G!Goto, G!LoadRecord
  <2> QED BY <1>M, <2>1 DEF Begun, Early, Idle, G!Running
<1>2. ASSUME NEW l \in Loads, G!ClearAndAsk(l) PROVE Goal
  <2>1. /\ owner' = l /\ refImagenesUsuario' = <<>> /\ UNCHANGED save
        /\ load[l].pc = "marked" /\ load'[l].pc = "asking"
        /\ load'[l].email = load[l].email /\ load'[l].solo = load[l].solo
        /\ load'[l].fetching = load[l].fetching
        /\ \A k \in Loads \ {l} : load'[k] = load[k]
    BY <1>0, <1>2 DEF G!ClearAndAsk, G!At, G!Goto, G!LoadRecord
  <2>2. \A k \in Loads : Lets(k)
    BY <2>1 DEF Lets, Begun, G!Running
  <2>3. LetsRest
    BY <2>1 DEF LetsRest, Early
  <2> QED BY <2>1, <2>2, <2>3 DEF LetsRows
<1>3. ASSUME NEW l \in Loads, NEW files \in G!FilesSnapshots, G!QueryAnswers(l, files) PROVE Goal
  <2>1. /\ UNCHANGED <<save, owner, refImagenesUsuario>>
        /\ load[l].pc = "asking" /\ load'[l].pc = "answered"
        /\ load'[l].email = load[l].email /\ load'[l].solo = load[l].solo
        /\ \A k \in Loads \ {l} : load'[k] = load[k]
    BY <1>0, <1>3 DEF G!QueryAnswers, G!At, G!LoadRecord
  <2> QED BY <1>M, <2>1 DEF Begun, Early, Idle, G!Running
<1>4. ASSUME NEW l \in Loads, NEW d \in Dates, G!FetchFails(l, d) PROVE Goal
  <2>1. /\ UNCHANGED <<save, owner, refImagenesUsuario>> /\ load[l].fetching # {}
        /\ load'[l].pc = load[l].pc /\ load'[l].email = load[l].email
        /\ load'[l].solo = load[l].solo
        /\ \A k \in Loads \ {l} : load'[k] = load[k]
    BY <1>0, <1>4 DEF G!FetchFails, G!appVars, G!LoadRecord
  <2> QED BY <1>M, <2>1 DEF GP!FetchesSound, Begun, Early, Idle, G!Running
<1>5. ASSUME NEW l \in Loads, NEW d \in Dates, G!FetchSucceeds(l, d) PROVE Goal
  <2>1. /\ UNCHANGED <<save, owner>> /\ load[l].fetching # {}
        /\ refImagenesUsuario' = Append(refImagenesUsuario, G!Row(l, d))
        /\ load'[l].pc = load[l].pc /\ load'[l].email = load[l].email
        /\ load'[l].solo = load[l].solo
        /\ \A k \in Loads \ {l} : load'[k] = load[k]
    BY <1>0, <1>5 DEF G!FetchSucceeds, G!Fetched, G!LoadRecord
  <2>2. \A k \in Loads : Lets(k)
    BY <2>1 DEF Lets, Begun, G!Running
  <2>3. LetsRest
    BY <2>1 DEF LetsRest, Early
  <2> QED BY <2>1, <2>2, <2>3 DEF LetsRows
<1>6. ASSUME NEW l \in Loads, NEW d \in Dates, NEW k \in Loads, G!FetchRacesClear(l, d, k)
      PROVE  Goal
  <2>1. load' = [G!Fetched(l, d) EXCEPT ![k].pc = "asking"] /\ load[k].pc = "marked"
    BY <1>6 DEF G!FetchRacesClear
  <2>2. \A j \in Loads :
          /\ load'[j].email = load[j].email /\ load'[j].solo = load[j].solo
          /\ j # l => load'[j].fetching = load[j].fetching
          /\ j # k => load'[j].pc = load[j].pc
    BY <1>0, <2>1 DEF G!Fetched, G!LoadRecord
  <2>3. G!Running(l) /\ G!Running(k) /\ Early(k) /\ load[l].fetching # {}
    BY <1>6, <2>1 DEF G!FetchRacesClear, G!Running, Early
  <2>4. /\ UNCHANGED save /\ owner' = k
        /\ refImagenesUsuario' = Append(refImagenesUsuario, G!Row(l, d))
    BY <1>6 DEF G!FetchRacesClear
  <2>5. load'[k].pc = "asking"
    BY <1>0, <2>1 DEF G!Fetched, G!LoadRecord
  <2>6. \A j \in Loads : Lets(j)
    BY <2>1, <2>2, <2>3, <2>5 DEF Lets, Begun, G!Running
  <2>7. LetsRest
    BY <2>2, <2>3, <2>4 DEF LetsRest, Early
  <2> QED BY <2>3, <2>4, <2>6, <2>7 DEF LetsRows
<1>7. ASSUME UNCHANGED <<load, owner, refImagenesUsuario>>,
             \A s \in Saves : save[s].pc = "done" => save'[s] = save[s]
      PROVE  Goal
  BY <1>7 DEF LetsRest, LetsRows, Lets, Begun, Early, Idle, G!Running
<1>8. ASSUME NEW s \in Saves, G!PutFails(s) \/ G!UploadData(s) \/ G!WriteFails(s) PROVE Goal
  <2>1. UNCHANGED <<load, owner, refImagenesUsuario>>
    BY <1>8 DEF G!PutFails, G!UploadData, G!WriteFails, G!appVars
  <2>2. \A t \in Saves : save[t].pc = "done" => save'[t] = save[t]
    BY <1>0, <1>8 DEF G!PutFails, G!UploadData, G!WriteFails, G!SaveRecord
  <2> QED BY <1>7, <2>1, <2>2
<1>9. ASSUME NEW s \in Saves, NEW l \in Loads, G!WriteSucceeds(s, l) PROVE Goal
  <2>1. Begins(l, save[s].email) /\ UNCHANGED <<owner, refImagenesUsuario>>
        /\ save' = [save EXCEPT ![s].pc = "done"] /\ save[s].pc = "writing"
    BY <1>9 DEF G!WriteSucceeds, G!Spawn, Begins, Begun
  <2>2. save'[s].pc = "done" /\ save'[s].email = save[s].email
        /\ \A t \in Saves : save[t].pc = "done" => save'[t] = save[t]
    BY <1>0, <2>1 DEF G!SaveRecord
  <2>3. Accounted(l)'
    BY <1>0, <2>1, <2>2, BeginsLets DEF Accounted, Excused
  <2>4. LetsRest /\ LetsRows
    BY <1>0, <2>1, <2>2, BeginsRest
  <2> QED BY <1>0, <2>1, <2>3, <2>4, BeginsLets
<1>10. ASSUME Redraw PROVE Goal
  BY <1>7, <1>10 DEF Redraw, G!Redraw, G!appVars
<1> QED
  BY <1>1, <1>2, <1>3, <1>4, <1>5, <1>6, <1>8, <1>9, <1>10 DEF ListStep, PoolStep, CallbackStep

\* A tap begins nothing of its own; the task of a swipe reloads for the session.
LEMMA TapLets ==
  ASSUME G!TypeOK, GP!FetchesSound, session # NoUser, session' = session,
         Swipe \/ SwipeReload \/ SaveTap
  PROVE  LetsRest /\ LetsRows /\ \A k \in Loads : Lets(k) \/ Accounted(k)'
<1>0. load \in [Loads -> G!LoadRecord] /\ save \in [Saves -> G!SaveRecord]
  BY DEF G!TypeOK
<1>1. CASE Swipe
  <2>1. PICK l \in Loads : \E i \in DOMAIN screen.rows : G!DeleteRow(i, l)
    BY <1>1 DEF Swipe
  <2>2. /\ UNCHANGED <<save, owner, refImagenesUsuario>>
        /\ \/ load' = load
           \/ load[l].pc = "unused" /\ load' = [load EXCEPT ![l].pc = "swiped"]
    BY <2>1 DEF G!DeleteRow, G!Goto, G!appVars
  <2>3. \A k \in Loads :
          /\ \/ load'[k].pc = load[k].pc
             \/ load[k].pc = "unused" /\ load'[k].pc = "swiped"
          /\ load'[k].email = load[k].email /\ load'[k].solo = load[k].solo
          /\ load'[k].fetching = load[k].fetching
    BY <1>0, <2>2 DEF G!LoadRecord
  <2>4. \A k \in Loads : Lets(k)
    BY <2>3 DEF Lets, Begun, G!Running
  <2>5. \A k \in Loads : Early(k) => Early(k)'
    BY <2>3 DEF Early
  <2>6. Idle => Idle'
    BY <2>3 DEF Idle
  <2> QED BY <2>2, <2>4, <2>5, <2>6 DEF LetsRest, LetsRows
<1>2. CASE SwipeReload
  <2>1. PICK j \in Loads : G!SwipeReload(j, session)
    BY <1>2 DEF SwipeReload, EmailOrNone
  <2>2. Begins(j, session) /\ UNCHANGED <<owner, save, refImagenesUsuario>>
    BY <2>1 DEF G!SwipeReload, G!At, G!appVars, Begins, Begun
  <2>3. Accounted(j)'
    BY <1>0, <2>2, BeginsLets DEF Accounted, Excused
  <2> QED BY <1>0, <2>2, <2>3, BeginsLets, BeginsRest
<1>3. CASE SaveTap
  <2>1. PICK t \in Saves : G!UploadStorage(t, EmailOrNone)
    BY <1>3 DEF SaveTap
  <2>2. UNCHANGED <<load, owner, refImagenesUsuario>> /\ save[t].pc = "unused"
        /\ save' = [save EXCEPT ![t] = [pc |-> "putting", email |-> EmailOrNone]]
    BY <2>1 DEF G!UploadStorage, G!appVars
  <2>3. \A s \in Saves : save[s].pc = "done" => save'[s] = save[s]
    BY <1>0, <2>2
  <2> QED BY <2>2, <2>3 DEF LetsRest, LetsRows, Lets, Begun, Early, Idle, G!Running
<1> QED BY <1>1, <1>2, <1>3

\* MainView reloads for the session.
LEMMA ReloadOwns ==
  ASSUME G!TypeOK, GP!FetchesSound, OthersArePast, AloneIsOwn, Reload
  PROVE  OthersArePast' /\ AloneIsOwn'
<1>0. load \in [Loads -> G!LoadRecord]
  BY DEF G!TypeOK
<1>1. session' = session
  BY DEF Reload, S!RunReload
<1>2. CASE session = NoUser
  BY <1>1, <1>2 DEF OthersArePast, AloneIsOwn
<1>3. CASE session # NoUser
  <2>1. PICK j \in Loads : G!Appear(j, session)
    BY <1>3 DEF Reload
  <2>2. Begins(j, session) /\ UNCHANGED <<owner, save, refImagenesUsuario>>
    BY <2>1 DEF G!Appear, G!Spawn, G!appVars, Begins, Begun
  <2>3. Early(j)' /\ Accounted(j)'
    BY <1>0, <1>1, <2>2, BeginsLets DEF Early, Accounted, Excused
  <2>4. ASSUME NEW l \in Loads, l # j, load'[l].solo PROVE ~G!Running(l)'
    BY <1>0, <2>2, <2>4, BeginsLets DEF Lets
  <2>5. OthersArePast'
    BY <2>3, <2>4 DEF OthersArePast
  <2>6. CASE reloaded' = reloaded
    <3>1. \A l \in Loads : Lets(l) \/ Accounted(l)'
      BY <1>0, <2>2, <2>3, BeginsLets
    <3> QED BY <1>0, <1>1, <2>2, <2>5, <2>6, <3>1, BeginsRest, OwnKept
  <2>7. CASE reloaded' # reloaded /\ reloaded' = "alone"
    <3>1. \A l \in Loads : ~G!Running(l)
      BY <2>7 DEF Reload
    <3>2. \A l \in Loads \ {j} : ~G!Running(l)'
      BY <1>0, <2>2, <3>1, BeginsLets DEF Lets
    <3>3. Idle'
      BY <1>0, <2>2, <3>2, BeginsLets DEF Idle, G!Running
    <3> QED BY <2>3, <2>5, <3>2, <3>3 DEF AloneIsOwn
  <2>8. CASE reloaded' # "alone"
    BY <2>5, <2>8 DEF AloneIsOwn
  <2> QED BY <2>6, <2>7, <2>8
<1> QED BY <1>2, <1>3

LEMMA NextOwn ==
  G!TypeOK /\ GP!FetchesSound /\ OthersArePast /\ AloneIsOwn /\ [Next]_vars
    => OthersArePast' /\ AloneIsOwn'
<1> SUFFICES ASSUME G!TypeOK, GP!FetchesSound, OthersArePast, AloneIsOwn, [Next]_vars
             PROVE  OthersArePast' /\ AloneIsOwn'
  OBVIOUS
<1>1. CASE UserStep \/ LogOut \/ Render
  <2>1. /\ UNCHANGED <<load, save, owner, refImagenesUsuario>>
        /\ reloaded' = IF session' = session THEN reloaded ELSE "no"
    BY <1>1 DEF UserStep, LogOut, Render, Track, listVars, G!Redraw, G!appVars
  <2>2. CASE session' # session
    BY <2>1, <2>2 DEF OthersArePast, AloneIsOwn
  <2>3. CASE session' = session
    BY <2>1, <2>3
       DEF OthersArePast, AloneIsOwn, Accounted, Excused, Begun, Early, Idle, G!Running
  <2> QED BY <2>2, <2>3
<1>2. CASE ListStep
  BY <1>2, ListLets, OthersKept, OwnKept DEF ListStep, userVars
<1>3. CASE Reload
  BY <1>3, ReloadOwns
<1>4. CASE Swipe \/ SwipeReload \/ SaveTap
  <2>1. session' = session /\ reloaded' = reloaded
    BY <1>4 DEF Swipe, SwipeReload, SaveTap, userVars
  <2>2. CASE session = NoUser
    BY <2>1, <2>2 DEF OthersArePast, AloneIsOwn
  <2>3. CASE session # NoUser
    BY <1>4, <2>1, <2>3, TapLets, OthersKept, OwnKept
  <2> QED BY <2>2, <2>3
<1>5. CASE Restart
  BY <1>5 DEF Restart, OthersArePast, AloneIsOwn
<1>6. CASE UNCHANGED vars
  BY <1>6
     DEF vars, userVars, listVars, OthersArePast, AloneIsOwn, Accounted, Excused, Begun, Early,
         Idle, G!Running
<1> QED BY <1>1, <1>2, <1>3, <1>4, <1>5, <1>6 DEF Next

\* What the user sees is the user's own, once MainView has reloaded for this
\* session and nothing is under way, but for the reload of a save some other
\* user had begun, and for what overlapping calls brought when MainView never
\* reloaded alone.
THEOREM RowsAreOwn == Spec => []RowsAreSessions
<1>1. Init => OthersArePast /\ AloneIsOwn
  BY DEF Init, S!Init, OthersArePast, AloneIsOwn
<1>2. GP!IInv /\ TypeOK /\ OthersArePast /\ AloneIsOwn => RowsAreSessions
  <2> SUFFICES ASSUME GP!IInv, TypeOK, OthersArePast, AloneIsOwn,
                      session # NoUser, reloaded # "no", \A l \in Loads : ~G!Running(l),
                      NEW i \in DOMAIN refImagenesUsuario,
                      ~Excused(refImagenesUsuario[i].email)
               PROVE  reloaded = "crowded" /\ ~load[refImagenesUsuario[i].from].solo
    BY DEF RowsAreSessions, Excused
  <2> DEFINE from == refImagenesUsuario[i].from
  <2>1. i \in 1..Len(refImagenesUsuario)
    BY DEF GP!IInv, GP!TypeOK
  <2>2. \A k \in Loads : ~Early(k)
    BY DEF G!Running, Early
  <2>3. reloaded # "alone"
    BY <2>1, <2>2 DEF AloneIsOwn
  <2>4. refImagenesUsuario[i] \in GP!UserImage
    BY <2>1 DEF GP!IInv, GP!TypeOK
  <2>5. from \in Loads
    BY <2>4 DEF GP!UserImage
  <2>6. load[from].email = refImagenesUsuario[i].email /\ load[from].got # {}
    BY DEF GP!IInv, GP!RowsAccountedFor
  <2>7. Begun(from)
    BY <2>5, <2>6 DEF GP!IInv, GP!FetchesSound, Begun
  <2>8. ASSUME load[from].solo PROVE FALSE
    <3>1. owner = from
      BY <2>1, <2>8 DEF GP!IInv, GP!SoloOwns
    <3>2. owner # from
      BY <2>2, <2>5, <2>6, <2>7, <2>8 DEF OthersArePast, Accounted
    <3> QED BY <3>1, <3>2
  <2> QED BY <2>3, <2>8 DEF TypeOK
<1>3. GP!IInv => GP!FetchesSound
  BY DEF GP!IInv
<1> QED BY <1>1, <1>2, <1>3, NextOwn, TypeCorrect, GalleryInvariant, ListTypes, PTL DEF Spec

=============================================================================
