------------------------- MODULE GetDocumentsProofs -------------------------
(***************************************************************************)
(* Proofs about GetDocuments, for any calls and bounds: no call is         *)
(* answered twice, the assertions of RemoteStore and of                    *)
(* OnlineStateTracker hold, the responses that are outstanding are those   *)
(* awaited, and what is shown as the server's is no older than the listen. *)
(***************************************************************************)
EXTENDS GetDocuments, FiniteSetTheorems, SequenceTheorems, TLAPS

-----------------------------------------------------------------------------
\* The inductive invariant

Task == [what: {"listen", "remove"}, get: Gets]
Event == Sources \cup {"error"}

\* The listener of g waits to be added.
Listening(g) == \E i \in 1..Len(worker) : worker[i].what = "listen" /\ worker[i].get = g

\* It is queued once, and not while g listens.
ListenQueuedOnce ==
  /\ \A i, j \in 1..Len(worker) :
       /\ worker[i].what = "listen" /\ worker[j].what = "listen"
       /\ worker[i].get = worker[j].get
       => i = j
  /\ \A g \in listeners : ~Listening(g)

\* Who listens has a view.
ViewThere == listeners # {} => view.at # "none"

\* Nothing more will be raised for g.
Deaf(g) == g \in called /\ g \notin listeners /\ ~Listening(g)

UncalledQuiet ==
  \A g \in Gets : g \notin called =>
    events[g] = <<>> /\ answers[g] = <<>> /\ g \notin listeners /\ ~Listening(g)

\* After an error nothing is raised.
ErrorIsLast ==
  \A g \in Gets : \A i \in 1..Len(events[g]) :
    events[g][i] = "error" => i = Len(events[g]) /\ Deaf(g)

\* A call that was answered hears nothing more.
AnsweredIsDeaf ==
  \A g \in Gets :
    /\ Len(answers[g]) <= 1
    /\ answers[g] # <<>> => g \in muted \/ (events[g] = <<>> /\ Deaf(g))

EventInv == ListenQueuedOnce /\ ViewThere /\ UncalledQuiet /\ ErrorIsLast /\ AnsweredIsDeaf

IInv == TypeOK /\ EventInv /\ TrackerAgrees /\ StreamAsNeeded

-----------------------------------------------------------------------------
\* Types

LEMMA RaiseTyped ==
  ASSUME TypeOK, NEW gs \in SUBSET Gets, NEW what, gs # {} => what \in Event, Raise(gs, what)
  PROVE  /\ events' \in [Gets -> Seq(Event)]
         /\ raised' \subseteq Gets
         /\ UNCHANGED <<called, muted, answers>>
<1>1. \A g \in Gets : events[g] \in Seq(Event)
  BY DEF TypeOK, Event
<1>2. ASSUME NEW g \in Gets
      PROVE  (IF g \in gs THEN Append(events[g], what) ELSE events[g]) \in Seq(Event)
  <2>1. CASE g \in gs
    <3>1. Append(events[g], what) \in Seq(Event)
      BY <1>1, <2>1
    <3> QED BY <2>1, <3>1
  <2> QED BY <1>1, <2>1
<1> QED BY <1>2 DEF Raise, TypeOK

Target == [outstanding: Int, current: BOOLEAN, changed: BOOLEAN, docs: Nat]
View == [at: Sources \cup {"none"}, docs: Nat]
Server == [on: BOOLEAN, sent: Int, whole: BOOLEAN]
Spent == [breaks: Nat, restarts: Nat, rejects: Nat]
Streams == {"initial", "starting", "open", "error", "backoff"}

LEMMA NothingTyped ==
  /\ NoTarget \in Target
  /\ NoView \in View
  /\ NoServer \in Server
  /\ [on |-> TRUE, sent |-> -1, whole |-> TRUE] \in Server
BY DEF NoTarget, Target, NoView, View, NoServer, Server

\* A field of a record is updated with a value of its type.
LEMMA FieldTyped ==
  /\ \A t \in Target :
       /\ t.outstanding \in Int /\ t.changed \in BOOLEAN /\ t.docs \in Nat
       /\ [t EXCEPT !.changed = FALSE] \in Target
       /\ \A n \in Int : [t EXCEPT !.outstanding = n] \in Target
       /\ \A n \in Int, c \in BOOLEAN : [t EXCEPT !.outstanding = n, !.changed = c] \in Target
       /\ \A d \in Nat : [t EXCEPT !.current = TRUE, !.changed = TRUE, !.docs = d] \in Target
  /\ \A s \in Spent :
       /\ s.breaks \in Nat /\ s.restarts \in Nat /\ s.rejects \in Nat
       /\ \A n \in Nat : /\ [s EXCEPT !.breaks = n] \in Spent
                        /\ [s EXCEPT !.restarts = n] \in Spent
                        /\ [s EXCEPT !.rejects = n] \in Spent
  /\ \A s \in Server :
       /\ [s EXCEPT !.whole = TRUE] \in Server
       /\ \A n \in Int : [s EXCEPT !.sent = n, !.whole = FALSE] \in Server
<1>1. ASSUME NEW t \in Target
      PROVE  /\ t.outstanding \in Int /\ t.changed \in BOOLEAN /\ t.docs \in Nat
             /\ [t EXCEPT !.changed = FALSE] \in Target
  BY DEF Target
<1>2. ASSUME NEW t \in Target, NEW n \in Int, NEW c \in BOOLEAN
      PROVE  /\ [t EXCEPT !.outstanding = n] \in Target
             /\ [t EXCEPT !.outstanding = n, !.changed = c] \in Target
  BY DEF Target
<1>3. ASSUME NEW t \in Target, NEW d \in Nat
      PROVE  [t EXCEPT !.current = TRUE, !.changed = TRUE, !.docs = d] \in Target
  BY DEF Target
<1>4. ASSUME NEW s \in Spent, NEW n \in Nat
      PROVE  /\ s.breaks \in Nat /\ s.restarts \in Nat /\ s.rejects \in Nat
             /\ [s EXCEPT !.breaks = n] \in Spent
             /\ [s EXCEPT !.restarts = n] \in Spent
             /\ [s EXCEPT !.rejects = n] \in Spent
  BY DEF Spent
<1>5. ASSUME NEW s \in Server, NEW n \in Int
      PROVE  /\ [s EXCEPT !.sent = n, !.whole = FALSE] \in Server
             /\ [s EXCEPT !.whole = TRUE] \in Server
  BY DEF Server
<1>6. \A s \in Spent : s.breaks \in Nat /\ s.restarts \in Nat /\ s.rejects \in Nat
  BY DEF Spent
<1>7. \A s \in Server : [s EXCEPT !.whole = TRUE] \in Server
  BY DEF Server
<1> QED BY <1>1, <1>2, <1>3, <1>4, <1>5, <1>6, <1>7

LEMMA SendTyped ==
  ASSUME TypeOK, NEW what \in {"watch", "unwatch"}, SendRequest(what)
  PROVE  target' \in Target /\ requests' \in Seq({"watch", "unwatch"})
<1>1. target' \in Target
  <2>1. target \in Target /\ target' = [target EXCEPT !.outstanding = target.outstanding + 1]
    BY DEF TypeOK, SendRequest, Target
  <2>2. target.outstanding + 1 \in Int
    <3>1. target.outstanding \in Int
      BY <2>1, FieldTyped
    <3> QED BY <3>1
  <2> QED BY <2>1, <2>2, FieldTyped
<1>2. requests \in Seq({"watch", "unwatch"})
  BY DEF TypeOK
<1>3. requests' \in Seq({"watch", "unwatch"})
  BY <1>2 DEF SendRequest
<1> QED BY <1>1, <1>3

LEMMA DropTyped ==
  ASSUME DropWire
  PROVE  /\ requests' \in Seq({"watch", "unwatch"}) /\ responses' \in Seq(Message)
         /\ server' \in Server
BY NothingTyped DEF DropWire

LEMMA GoOfflineTyped ==
  ASSUME TypeOK, ViewThere, GoOffline
  PROVE  /\ online' = "Offline" /\ view' \in View
         /\ events' \in [Gets -> Seq(Event)] /\ raised' \subseteq Gets
         /\ UNCHANGED <<called, muted, answers>>
<1>1. CASE online = "Offline"
  BY <1>1 DEF GoOffline, TypeOK, View, Event
<1>2. CASE online # "Offline"
  <2>1. PICK gs \in SUBSET Gets : Raise(gs, "cache")
    <3>1. listeners \in SUBSET Gets /\ listeners \ raised \in SUBSET Gets
      BY DEF TypeOK
    <3> QED BY <1>2, <3>1 DEF GoOffline
  <2>2. "cache" \in Event
    BY DEF Event, Sources
  <2>3. view' \in View
    BY <1>2 DEF GoOffline, TypeOK, View, Sources
  <2> QED BY <1>2, <2>1, <2>2, <2>3, RaiseTyped DEF GoOffline
<1> QED BY <1>1, <1>2

LEMMA ListenTyped ==
  ASSUME TypeOK, ListenToTarget
  PROVE  /\ stream' \in Streams /\ listened' = TRUE /\ idle' \in BOOLEAN
         /\ target' \in Target /\ requests' \in Seq({"watch", "unwatch"})
         /\ online' \in {"Unknown", "Online", "Offline"} /\ failed' \in BOOLEAN /\ timer' \in BOOLEAN
<1>1. CASE ~Started
  BY <1>1, NothingTyped DEF ListenToTarget, TypeOK, Started, WatchStreamStart, Target, Streams
<1>2. CASE stream = "open"
  <2>1. SendRequest("watch") /\ idle' = FALSE /\ UNCHANGED <<stream, onlineVars>> /\ listened'
    BY <1>2 DEF ListenToTarget, Started
  <2> QED BY <2>1, SendTyped DEF TypeOK, onlineVars, ListenToTarget, Streams
<1>3. CASE stream \in {"starting", "backoff"}
  BY <1>3 DEF ListenToTarget, TypeOK, Started, onlineVars, Target, Streams
<1> QED BY <1>1, <1>2, <1>3 DEF Started, TypeOK

LEMMA HearTyped ==
  ASSUME TypeOK, NEW what, Hear(what)
  PROVE  /\ responses' \in Seq(Message) /\ Head(responses) \in Message
         /\ Head(responses).docs \in Nat
         /\ online' = "Online" /\ failed' = FALSE /\ timer' = FALSE
         /\ UNCHANGED <<worker, stream, idle, requests, server, data, spent, openedAt>>
<1>1. responses \in Seq(Message) /\ responses # <<>>
  BY DEF TypeOK, Hear
<1>2. Head(responses) \in Message /\ Tail(responses) \in Seq(Message)
  BY <1>1
<1>3. Head(responses).docs \in Nat
  BY <1>2 DEF Message
<1> QED BY <1>2, <1>3 DEF Hear, UpdateState, worldVars

LEMMA ReplyTyped ==
  ASSUME TypeOK, NEW what \in {"added", "current", "snapshot", "removed", "rejected"},
         NEW docs \in Nat, Reply(what, docs)
  PROVE  responses' \in Seq(Message)
<1>1. [what |-> what, docs |-> docs] \in Message
  BY DEF Message
<1>2. responses \in Seq(Message)
  BY DEF TypeOK
<1> QED BY <1>1, <1>2 DEF Reply

LEMMA TakeTyped ==
  ASSUME TypeOK, NEW what, NEW g, Take(what, g)
  PROVE  worker' \in Seq(Task)
<1>1. worker \in Seq(Task) /\ worker # <<>>
  BY DEF TypeOK, Take, Task
<1> QED BY <1>1 DEF Take

\* TypeOK, with the sets named.
LEMMA TypeNamed ==
  TypeOK <=>
    /\ worker \in Seq(Task)
    /\ called \subseteq Gets
    /\ events \in [Gets -> Seq(Event)]
    /\ muted \subseteq Gets
    /\ answers \in [Gets -> Seq(Event)]
    /\ listeners \subseteq Gets
    /\ raised \subseteq Gets
    /\ view \in View
    /\ cache \in Nat
    /\ online \in {"Unknown", "Online", "Offline"}
    /\ failed \in BOOLEAN
    /\ timer \in BOOLEAN
    /\ stream \in Streams
    /\ idle \in BOOLEAN
    /\ listened \in BOOLEAN
    /\ target \in Target
    /\ requests \in Seq({"watch", "unwatch"})
    /\ responses \in Seq(Message)
    /\ server \in Server
    /\ data \in Nat
    /\ spent \in Spent
    /\ openedAt \in Nat
BY DEF TypeOK, Task, Event, View, Streams, Target, Server, Spent

LEMMA CallTypes ==
  ASSUME TypeOK, NEW g \in Gets, Call(g)
  PROVE  TypeOK'
<1>1. worker' \in Seq(Task)
  <2>1. worker \in Seq(Task) /\ [what |-> "listen", get |-> g] \in Task
    BY TypeNamed DEF Task
  <2> QED BY <2>1 DEF Call
<1> QED BY <1>1, TypeNamed
        DEF Call, viewVars, onlineVars, streamVars, wireVars, worldVars,
            TypeOK, Task, Event, View, Streams, Target, Server, Spent

LEMMA RunEventTypes ==
  ASSUME TypeOK, NEW g \in Gets, RunEvent(g)
  PROVE  TypeOK'
<1>1. events[g] \in Seq(Event) /\ events[g] # <<>> /\ answers[g] \in Seq(Event)
  BY TypeNamed DEF RunEvent
<1>2. Head(events[g]) \in Event /\ Tail(events[g]) \in Seq(Event)
  BY <1>1
<1>3. Append(answers[g], Head(events[g])) \in Seq(Event)
  BY <1>1, <1>2
<1>4. events' \in [Gets -> Seq(Event)]
  BY <1>2, TypeNamed DEF RunEvent
<1>5. answers' \in [Gets -> Seq(Event)]
  BY <1>3, TypeNamed DEF RunEvent
<1>6. worker' \in Seq(Task)
  <2>1. worker \in Seq(Task) /\ [what |-> "remove", get |-> g] \in Task
    BY TypeNamed DEF Task
  <2>2. worker' = worker \/ worker' = Append(worker, [what |-> "remove", get |-> g])
    BY DEF RunEvent
  <2> QED BY <2>1, <2>2
<1>7. muted' \subseteq Gets
  BY TypeNamed DEF RunEvent
<1>8. UNCHANGED <<called, viewVars, onlineVars, streamVars, wireVars, worldVars>>
  BY DEF RunEvent
<1> QED BY <1>4, <1>5, <1>6, <1>7, <1>8, SMTT(30)
        DEF viewVars, onlineVars, streamVars, wireVars, worldVars, TypeOK, Task, Event

LEMMA JoinTypes ==
  ASSUME TypeOK, ViewThere, NEW g \in Gets, JoinListeners(g)
  PROVE  TypeOK'
<1>1. worker' \in Seq(Task)
  BY TakeTyped DEF JoinListeners
<1>2. view.at \in Event
  BY TypeNamed DEF JoinListeners, ViewThere, View, Event
<1>3. events' \in [Gets -> Seq(Event)] /\ raised' \subseteq Gets /\ UNCHANGED <<called, muted, answers>>
  <2>1. (IF view.at = "server" \/ online = "Offline" THEN {g} ELSE {}) \in SUBSET Gets
    OBVIOUS
  <2> QED BY <1>2, <2>1, RaiseTyped DEF JoinListeners
<1>4. listeners' \subseteq Gets
  BY TypeNamed DEF JoinListeners
<1>5. UNCHANGED <<view, cache, onlineVars, streamVars, wireVars, worldVars>>
  BY DEF JoinListeners
<1> QED BY <1>1, <1>3, <1>4, <1>5, SMTT(30)
        DEF onlineVars, streamVars, wireVars, worldVars, TypeOK, Task, Event

LEMMA OpenTypes ==
  ASSUME TypeOK, NEW g \in Gets, OpenListen(g)
  PROVE  TypeOK'
<1>1. worker' \in Seq(Task)
  BY TakeTyped DEF OpenListen
<1>2. view' \in View
  BY TypeNamed DEF OpenListen, FirstView, View, Sources
<1>3. events' \in [Gets -> Seq(Event)] /\ raised' \subseteq Gets /\ UNCHANGED <<called, muted, answers>>
  <2>1. (IF online = "Offline" THEN {g} ELSE {}) \in SUBSET Gets /\ "cache" \in Event
    BY DEF Event, Sources
  <2> QED BY <2>1, RaiseTyped DEF OpenListen
<1>4. ListenToTarget
  BY DEF OpenListen
<1>5. listeners' \subseteq Gets /\ openedAt' \in Nat /\ UNCHANGED <<cache, responses, server, data, spent>>
  BY TypeNamed DEF OpenListen
<1>6. /\ stream' \in Streams /\ listened' \in BOOLEAN /\ idle' \in BOOLEAN
      /\ target' \in Target /\ requests' \in Seq({"watch", "unwatch"})
      /\ online' \in {"Unknown", "Online", "Offline"} /\ failed' \in BOOLEAN /\ timer' \in BOOLEAN
  BY <1>4, ListenTyped
<1> QED BY <1>1, <1>2, <1>3, <1>5, <1>6 DEF TypeOK, Task, Event, View, Streams, Target

LEMMA RemoveTypes ==
  ASSUME TypeOK, NEW g \in Gets, RemoveListener(g)
  PROVE  TypeOK'
<1>1. worker' \in Seq(Task)
  BY TakeTyped DEF RemoveListener
<1>2. target' \in Target /\ requests' \in Seq({"watch", "unwatch"})
  <2>1. (UNCHANGED target /\ UNCHANGED requests) \/ SendRequest("unwatch")
    BY DEF RemoveListener
  <2> QED BY <2>1, SendTyped, TypeNamed
<1>3. view' \in View
  BY NothingTyped, TypeNamed DEF RemoveListener
<1>4. /\ listened' \in BOOLEAN /\ idle' \in BOOLEAN /\ listeners' \subseteq Gets
      /\ online' \in {"Unknown", "Online", "Offline"} /\ failed' \in BOOLEAN /\ timer' \in BOOLEAN
  BY TypeNamed DEF RemoveListener, UpdateState, onlineVars
<1> QED BY <1>1, <1>2, <1>3, <1>4
        DEF RemoveListener, mainVars, worldVars, TypeOK, Task, Event, View, Streams, Target, Server, Spent

LEMMA TimerTypes ==
  ASSUME TypeOK, ViewThere, OnlineTimeout \/ BackoffElapsed \/ IdleTimeout
  PROVE  TypeOK'
<1>1. CASE OnlineTimeout
  BY <1>1, GoOfflineTyped
  DEF OnlineTimeout, streamVars, wireVars, worldVars, TypeOK, Task, Event, View, Streams, Target, Server, Spent
<1>2. CASE BackoffElapsed
  BY <1>2
  DEF BackoffElapsed, mainVars, viewVars, onlineVars, wireVars, worldVars, TypeOK
<1>3. CASE IdleTimeout
  BY <1>3, DropTyped, NothingTyped
  DEF IdleTimeout, UpdateState, mainVars, viewVars, worldVars, TypeOK, Task, Event, View, Streams, Target, Server, Spent
<1> QED BY <1>1, <1>2, <1>3

LEMMA StreamTypes ==
  ASSUME TypeOK, ViewThere, StreamOpens \/ StreamFails \/ RestartNetwork
  PROVE  TypeOK'
<1>1. CASE StreamOpens
  <2>1. target' \in Target /\ requests' \in Seq({"watch", "unwatch"})
    BY <1>1, SendTyped, TypeNamed DEF StreamOpens
  <2> QED BY <1>1, <2>1
    DEF StreamOpens, mainVars, viewVars, onlineVars, worldVars, TypeOK, Task, Event, View, Streams, Target, Server, Spent
<1>2. CASE StreamFails
  <2>1. spent' \in Spent
    <3>1. spent \in Spent /\ spent' = [spent EXCEPT !.breaks = spent.breaks + 1]
      BY <1>2 DEF StreamFails, TypeOK, Spent
    <3>2. spent.breaks + 1 \in Nat
      <4>1. spent.breaks \in Nat
        BY <3>1, FieldTyped
      <4> QED BY <4>1
    <3> QED BY <3>1, <3>2, FieldTyped
  <2>2. target' \in Target /\ idle' \in BOOLEAN /\ DropWire /\ UNCHANGED <<worker, listened, data, openedAt>>
    BY <1>2, NothingTyped DEF StreamFails
  <2>3. /\ online' \in {"Unknown", "Online", "Offline"} /\ failed' \in BOOLEAN /\ timer' \in BOOLEAN
        /\ view' \in View /\ stream' \in Streams
        /\ events' \in [Gets -> Seq(Event)] /\ raised' \subseteq Gets
        /\ UNCHANGED <<called, muted, answers, listeners, cache>>
    <3>1. CASE listened /\ online = "Online"
      BY <1>2, <3>1, TypeNamed DEF StreamFails, WatchStreamStart, mainVars, viewVars, Streams
    <3>2. CASE listened /\ online # "Online"
      BY <1>2, <3>2, GoOfflineTyped DEF StreamFails, Streams
    <3>3. CASE ~listened
      BY <1>2, <3>3, TypeNamed DEF StreamFails, UpdateState, mainVars, viewVars, Streams
    <3> QED BY <3>1, <3>2, <3>3
  <2> QED BY <2>1, <2>2, <2>3, DropTyped DEF TypeOK, Task, Event, View, Streams, Target, Server, Spent
<1>3. CASE RestartNetwork
  <2>1. spent' \in Spent
    <3>1. spent \in Spent /\ spent' = [spent EXCEPT !.restarts = spent.restarts + 1]
      BY <1>3 DEF RestartNetwork, TypeOK, Spent
    <3>2. spent.restarts + 1 \in Nat
      <4>1. spent.restarts \in Nat
        BY <3>1, FieldTyped
      <4> QED BY <4>1
    <3> QED BY <3>1, <3>2, FieldTyped
  <2>2. target' \in Target /\ DropWire
    BY <1>3, NothingTyped DEF RestartNetwork
  <2> QED BY <1>3, <2>1, <2>2, DropTyped
    DEF RestartNetwork, mainVars, viewVars, TypeOK, Task, Event, View, Streams, Target, Server, Spent
<1> QED BY <1>1, <1>2, <1>3

LEMMA HearTypes ==
  ASSUME TypeOK, HearStep
  PROVE  TypeOK'
<1>1. ASSUME NEW what, Hear(what), UNCHANGED <<mainVars, viewVars, listened>>, target' \in Target
      PROVE  TypeOK'
  BY <1>1, HearTyped DEF mainVars, viewVars, TypeOK, Task, Event, View, Streams, Target, Server, Spent
<1>2. CASE HearAdded
  <2>1. target' \in Target
    <3>1. target \in Target
      BY DEF TypeOK, Target
    <3>2. target.outstanding \in Int /\ target.changed \in BOOLEAN
      BY <3>1, FieldTyped
    <3>3. target.outstanding - 1 \in Int /\ (target.changed /\ target.outstanding # 1) \in BOOLEAN
      BY <3>2
    <3>4. target' = [target EXCEPT !.outstanding = target.outstanding - 1,
                                   !.changed = target.changed /\ target.outstanding # 1]
      BY <1>2 DEF HearAdded
    <3> QED BY <3>1, <3>3, <3>4, FieldTyped
  <2> QED BY <1>1, <1>2, <2>1 DEF HearAdded
<1>3. CASE HearCurrent
  <2>1. Head(responses).docs \in Nat
    BY <1>3, HearTyped DEF HearCurrent
  <2>2. target' \in Target
    <3>1. target \in Target
      BY DEF TypeOK, Target
    <3>2. \/ target' = target
          \/ target' = [target EXCEPT !.current = TRUE, !.changed = TRUE, !.docs = Head(responses).docs]
      BY <1>3 DEF HearCurrent
    <3> QED BY <2>1, <3>1, <3>2, FieldTyped
  <2> QED BY <1>1, <1>3, <2>2 DEF HearCurrent
<1>4. CASE HearRemoved
  <2>1. target' \in Target
    <3>1. target \in Target
      BY DEF TypeOK, Target
    <3>2. target.outstanding - 1 \in Int
      <4>1. target.outstanding \in Int
        BY <3>1, FieldTyped
      <4> QED BY <4>1
    <3>3. target' = NoTarget \/ target' = [target EXCEPT !.outstanding = target.outstanding - 1]
      BY <1>4 DEF HearRemoved
    <3> QED BY <3>1, <3>2, <3>3, NothingTyped, FieldTyped
  <2> QED BY <1>1, <1>4, <2>1 DEF HearRemoved
<1>5. CASE HearSnapshot
  <2>1. Hear("snapshot") /\ UNCHANGED <<listeners, listened>>
    BY <1>5 DEF HearSnapshot
  <2>2. /\ target' \in Target /\ view' \in View /\ cache' \in Nat
        /\ events' \in [Gets -> Seq(Event)] /\ raised' \subseteq Gets
        /\ UNCHANGED <<called, muted, answers>>
    <3>1. CASE Active /\ target.changed
      <4> DEFINE new == [at |-> IF target.current THEN "server" ELSE "cache", docs |-> target.docs]
                 gs == {g \in listeners : IF g \in raised THEN new # view ELSE new.at = "server"}
      <4>1. target.docs \in Nat
        BY TypeNamed DEF Target
      <4>2. new \in View /\ new.at \in Event
        BY <4>1 DEF View, Event, Sources
      <4>3. view' = new /\ Raise(gs, new.at) /\ cache' = target.docs
        BY <1>5, <3>1 DEF HearSnapshot
      <4>4. gs \in SUBSET Gets
        BY TypeNamed
      <4>5. target' \in Target
        <5>1. target \in Target /\ target' = [target EXCEPT !.changed = FALSE]
          BY <1>5, <3>1 DEF HearSnapshot, TypeOK, Target
        <5> QED BY <5>1, FieldTyped
      <4> HIDE DEF new, gs
      <4> QED BY <4>1, <4>2, <4>3, <4>4, <4>5, RaiseTyped
    <3>2. CASE ~(Active /\ target.changed)
      BY <1>5, <3>2, TypeNamed DEF HearSnapshot, mainVars
    <3> QED BY <3>1, <3>2
  <2> QED BY <2>1, <2>2, HearTyped DEF TypeOK, Task, Event, View, Streams, Target, Server, Spent
<1>6. CASE HearRejected
  <2>1. Hear("rejected") /\ UNCHANGED cache
    BY <1>6 DEF HearRejected
  <2>2. /\ target' \in Target /\ view' \in View /\ listened' \in BOOLEAN /\ listeners' \subseteq Gets
        /\ events' \in [Gets -> Seq(Event)] /\ raised' \subseteq Gets
        /\ UNCHANGED <<called, muted, answers>>
    <3>1. CASE listened
      <4>1. Raise(listeners, "error") /\ listeners \in SUBSET Gets /\ "error" \in Event
        BY <1>6, <3>1, TypeNamed DEF HearRejected, Event
      <4>2. /\ events' \in [Gets -> Seq(Event)] /\ raised' \subseteq Gets
            /\ UNCHANGED <<called, muted, answers>>
        BY <4>1, RaiseTyped
      <4> QED BY <1>6, <3>1, <4>2, NothingTyped DEF HearRejected
    <3>2. CASE ~listened
      BY <1>6, <3>2, TypeNamed DEF HearRejected, mainVars
    <3> QED BY <3>1, <3>2
  <2> QED BY <2>1, <2>2, HearTyped DEF TypeOK, Task, Event, View, Streams, Target, Server, Spent
<1> QED BY <1>2, <1>3, <1>4, <1>5, <1>6 DEF HearStep

LEMMA ServerTypes ==
  ASSUME TypeOK, ServerStep \/ Commit
  PROVE  TypeOK'
<1> USE DEF mainVars, viewVars, onlineVars, streamVars, wireVars, worldVars
<1>r. requests # <<>> => Tail(requests) \in Seq({"watch", "unwatch"})
  BY DEF TypeOK
<1>1. CASE ServeWatch
  <2>1. requests' \in Seq({"watch", "unwatch"})
    BY <1>1, <1>r DEF ServeWatch
  <2>2. responses' \in Seq(Message)
    BY <1>1, ReplyTyped DEF ServeWatch
  <2>3. server' \in Server
    <3>1. server' = NoServer \/ server' = [on |-> TRUE, sent |-> -1, whole |-> TRUE]
      BY <1>1 DEF ServeWatch
    <3> QED BY <3>1, NothingTyped
  <2>4. spent' \in Spent
    <3>1. spent \in Spent
      BY DEF TypeOK, Spent
    <3>2. spent' = spent \/ spent' = [spent EXCEPT !.rejects = spent.rejects + 1]
      BY <1>1 DEF ServeWatch
    <3>3. spent.rejects + 1 \in Nat
      <4>1. spent.rejects \in Nat
        BY <3>1, FieldTyped
      <4> QED BY <4>1
    <3> QED BY <3>1, <3>2, <3>3, FieldTyped
  <2> QED BY <1>1, <2>1, <2>2, <2>3, <2>4 DEF ServeWatch, TypeOK, Server, Spent
<1>2. CASE ServeUnwatch
  <2>1. requests' \in Seq({"watch", "unwatch"}) /\ responses' \in Seq(Message)
    BY <1>2, <1>r, ReplyTyped DEF ServeUnwatch
  <2> QED BY <1>2, <2>1, NothingTyped DEF ServeUnwatch, TypeOK, Server, Spent
<1>3. CASE ServeDocuments
  <2>1. responses' \in Seq(Message)
    BY <1>3, ReplyTyped, TypeNamed DEF ServeDocuments
  <2>2. server' \in Server
    <3>1. /\ server \in Server /\ data \in Int
          /\ server' = [server EXCEPT !.sent = data, !.whole = FALSE]
      BY <1>3 DEF ServeDocuments, TypeOK, Server
    <3> QED BY <3>1, FieldTyped
  <2> QED BY <1>3, <2>1, <2>2 DEF ServeDocuments, TypeOK, Server, Spent
<1>4. CASE ServeSnapshot
  <2>1. responses' \in Seq(Message)
    BY <1>4, ReplyTyped DEF ServeSnapshot
  <2>2. server' \in Server
    <3>1. server \in Server /\ server' = [server EXCEPT !.whole = TRUE]
      BY <1>4 DEF ServeSnapshot, TypeOK, Server
    <3> QED BY <3>1, FieldTyped
  <2> QED BY <1>4, <2>1, <2>2 DEF ServeSnapshot, TypeOK, Server, Spent
<1>5. CASE Commit
  BY <1>5 DEF Commit, TypeOK
<1> QED BY <1>1, <1>2, <1>3, <1>4, <1>5 DEF ServerStep

-----------------------------------------------------------------------------
\* The assertions of OnlineStateTracker and of RemoteStore

LEMMA TrackerStep ==
  ASSUME TypeOK, TrackerAgrees, Next
  PROVE  TrackerAgrees'
<1> USE DEF TrackerAgrees, onlineVars
<1>1. ASSUME NEW what, Hear(what)
      PROVE  TrackerAgrees'
  BY <1>1 DEF Hear, UpdateState
<1>2. CASE HearStep
  BY <1>1, <1>2 DEF HearStep, HearAdded, HearCurrent, HearSnapshot, HearRemoved, HearRejected
<1>3. CASE StreamFails
  BY <1>3 DEF StreamFails, WatchStreamStart, GoOffline, UpdateState
<1>4. ASSUME NEW g \in Gets, OpenListen(g)
      PROVE  TrackerAgrees'
  <2>1. ListenToTarget
    BY <1>4 DEF OpenListen
  <2>2. UNCHANGED onlineVars \/ WatchStreamStart(failed)
    BY <2>1 DEF ListenToTarget
  <2> QED BY <2>2 DEF WatchStreamStart, TypeOK
<1>5. ASSUME NEW g \in Gets, RemoveListener(g)
      PROVE  TrackerAgrees'
  BY <1>5 DEF RemoveListener, UpdateState
<1>6. CASE OnlineTimeout \/ IdleTimeout \/ RestartNetwork
  BY <1>6 DEF OnlineTimeout, GoOffline, IdleTimeout, RestartNetwork, UpdateState
<1>7. CASE BackoffElapsed \/ StreamOpens
  BY <1>7 DEF BackoffElapsed, StreamOpens
<1>8. CASE ServerStep \/ Commit
  BY <1>8 DEF ServerStep, ServeWatch, ServeUnwatch, ServeDocuments, ServeSnapshot, Commit
<1>9. ASSUME NEW g \in Gets, Call(g) \/ RunEvent(g) \/ JoinListeners(g)
      PROVE  TrackerAgrees'
  BY <1>9 DEF Call, RunEvent, JoinListeners
<1> QED BY <1>2, <1>3, <1>4, <1>5, <1>6, <1>7, <1>8, <1>9 DEF Next, MainStep, WorkerStep

LEMMA NeededStep ==
  ASSUME TypeOK, StreamAsNeeded, Next
  PROVE  StreamAsNeeded'
<1> USE DEF StreamAsNeeded, Started
<1>1. ASSUME NEW what, Hear(what), UNCHANGED <<viewVars, listened>>
      PROVE  StreamAsNeeded'
  BY <1>1 DEF Hear, viewVars
<1>2. CASE HearAdded \/ HearCurrent \/ HearRemoved
  BY <1>1, <1>2 DEF HearAdded, HearCurrent, HearRemoved
<1>3. CASE HearSnapshot
  BY <1>3 DEF HearSnapshot, Hear
<1>4. CASE HearRejected
  BY <1>4 DEF HearRejected, Hear
<1>5. CASE StreamFails
  BY <1>5 DEF StreamFails, viewVars
<1>6. ASSUME NEW g \in Gets, OpenListen(g)
      PROVE  StreamAsNeeded'
  <2>1. ListenToTarget /\ listeners' = {g} /\ ~listened
    BY <1>6 DEF OpenListen
  <2>2. listened' /\ listeners' # {}
    BY <2>1 DEF ListenToTarget
  <2>3. stream' \in {"starting", "open", "backoff"} /\ idle' = FALSE
    BY <2>1 DEF ListenToTarget, TypeOK
  <2> QED BY <2>2, <2>3
<1>7. ASSUME NEW g \in Gets, RemoveListener(g)
      PROVE  StreamAsNeeded'
  <2>1. CASE listeners = {g}
    BY <1>7, <2>1 DEF RemoveListener
  <2>2. CASE listeners # {g}
    BY <1>7, <2>2 DEF RemoveListener
  <2> QED BY <2>1, <2>2
<1>8. CASE OnlineTimeout \/ IdleTimeout \/ RestartNetwork
  BY <1>8 DEF OnlineTimeout, IdleTimeout, RestartNetwork, streamVars, viewVars
<1>9. CASE BackoffElapsed \/ StreamOpens
  BY <1>9 DEF BackoffElapsed, StreamOpens, viewVars
<1>10. CASE ServerStep \/ Commit
  BY <1>10 DEF ServerStep, ServeWatch, ServeUnwatch, ServeDocuments, ServeSnapshot, Commit,
               viewVars, streamVars
<1>11. ASSUME NEW g \in Gets, Call(g) \/ RunEvent(g) \/ JoinListeners(g)
       PROVE  StreamAsNeeded'
  BY <1>11 DEF Call, RunEvent, JoinListeners, viewVars, streamVars
<1> QED BY <1>2, <1>3, <1>4, <1>5, <1>6, <1>7, <1>8, <1>9, <1>10, <1>11
        DEF Next, MainStep, WorkerStep, HearStep

-----------------------------------------------------------------------------
\* The listeners and what they are told

\* A block that is queued.
LEMMA QueueStep ==
  ASSUME TypeOK, NEW b \in Task, worker' = Append(worker, b)
  PROVE  /\ b.what = "remove" => \A h : Listening(h)' <=> Listening(h)
         /\ b.what = "listen" => \A h : Listening(h)' <=> Listening(h) \/ h = b.get
         /\ b.what = "listen" /\ ~Listening(b.get) /\ ListenQueuedOnce /\ UNCHANGED listeners
              /\ b.get \notin listeners
            => ListenQueuedOnce'
         /\ b.what = "remove" /\ ListenQueuedOnce /\ UNCHANGED listeners => ListenQueuedOnce'
<1>1. worker \in Seq(Task)
  BY DEF TypeOK, Task
<1>2. /\ Len(worker') = Len(worker) + 1 /\ Len(worker) \in Nat
      /\ \A i \in 1..Len(worker) : worker'[i] = worker[i]
      /\ worker'[Len(worker) + 1] = b
  BY <1>1
<1>3. b.what = "remove" => \A h : Listening(h)' <=> Listening(h)
  BY <1>2 DEF Listening
<1>4. b.what = "listen" => \A h : Listening(h)' <=> Listening(h) \/ h = b.get
  BY <1>2 DEF Listening
<1>5. ASSUME b.what = "listen", ~Listening(b.get), ListenQueuedOnce, UNCHANGED listeners,
             b.get \notin listeners
      PROVE  ListenQueuedOnce'
  <2>1. ASSUME NEW i \in 1..Len(worker'), NEW j \in 1..Len(worker'),
               worker'[i].what = "listen", worker'[j].what = "listen",
               worker'[i].get = worker'[j].get
        PROVE  i = j
    BY <1>2, <1>5, <2>1 DEF ListenQueuedOnce, Listening
  <2>2. \A h \in listeners' : ~Listening(h)'
    BY <1>4, <1>5 DEF ListenQueuedOnce
  <2> QED BY <2>1, <2>2 DEF ListenQueuedOnce
<1>6. ASSUME b.what = "remove", ListenQueuedOnce, UNCHANGED listeners
      PROVE  ListenQueuedOnce'
  <2>1. ASSUME NEW i \in 1..Len(worker'), NEW j \in 1..Len(worker'),
               worker'[i].what = "listen", worker'[j].what = "listen",
               worker'[i].get = worker'[j].get
        PROVE  i = j
    BY <1>2, <1>6, <2>1 DEF ListenQueuedOnce
  <2>2. \A h \in listeners' : ~Listening(h)'
    BY <1>3, <1>6 DEF ListenQueuedOnce
  <2> QED BY <2>1, <2>2 DEF ListenQueuedOnce
<1> QED BY <1>3, <1>4, <1>5, <1>6

\* A block that is run.
LEMMA TakeStep ==
  ASSUME TypeOK, ListenQueuedOnce, NEW what \in {"listen", "remove"}, NEW g \in Gets, Take(what, g)
  PROVE  /\ \A h : Listening(h)' => Listening(h)
         /\ what = "listen" => Listening(g) /\ ~Listening(g)'
         /\ listeners' \subseteq (IF what = "listen" THEN listeners \cup {g} ELSE listeners)
            => ListenQueuedOnce'
<1>1. worker \in Seq(Task) /\ worker # <<>>
  BY DEF TypeOK, Task, Take
<1>2. /\ Len(worker) \in Nat /\ Len(worker) >= 1 /\ Len(worker') = Len(worker) - 1
      /\ \A i \in 1..Len(worker') : i + 1 \in 1..Len(worker) /\ worker'[i] = worker[i + 1]
      /\ worker[1] = [what |-> what, get |-> g]
  BY <1>1 DEF Take
<1>3. \A h : Listening(h)' => Listening(h)
  BY <1>2 DEF Listening
<1>4. ASSUME what = "listen"
      PROVE  Listening(g) /\ ~Listening(g)'
  <2>1. Listening(g)
    BY <1>2, <1>4 DEF Listening
  <2>2. ASSUME NEW i \in 1..Len(worker'), worker'[i].what = "listen", worker'[i].get = g
        PROVE  FALSE
    <3>1. /\ i + 1 \in 1..Len(worker) /\ 1 \in 1..Len(worker) /\ i + 1 # 1
          /\ worker[i + 1].what = "listen" /\ worker[i + 1].get = g
          /\ worker[1].what = "listen" /\ worker[1].get = g
      BY <1>2, <1>4, <2>2
    <3> QED BY <3>1 DEF ListenQueuedOnce
  <2> QED BY <2>1, <2>2 DEF Listening
<1>5. ASSUME listeners' \subseteq (IF what = "listen" THEN listeners \cup {g} ELSE listeners)
      PROVE  ListenQueuedOnce'
  <2>1. ASSUME NEW i \in 1..Len(worker'), NEW j \in 1..Len(worker'),
               worker'[i].what = "listen", worker'[j].what = "listen",
               worker'[i].get = worker'[j].get
        PROVE  i = j
    <3>1. i + 1 = j + 1
      BY <1>2, <2>1 DEF ListenQueuedOnce
    <3> QED BY <1>2, <3>1
  <2>2. \A h \in listeners' : ~Listening(h)'
    BY <1>3, <1>4, <1>5 DEF ListenQueuedOnce
  <2> QED BY <2>1, <2>2 DEF ListenQueuedOnce
<1> QED BY <1>3, <1>4, <1>5

\* Each get hears nothing, or one event more, which an error ends.
HearsOnly(what) ==
  /\ UNCHANGED <<muted, answers>>
  /\ \A h \in Gets :
       \/ events'[h] = events[h] /\ (Deaf(h) => Deaf(h)')
       \/ ~Deaf(h) /\ events'[h] = Append(events[h], what) /\ (what = "error" => Deaf(h)')

LEMMA HearsStep ==
  ASSUME TypeOK, EventInv, NEW what, HearsOnly(what)
  PROVE  ErrorIsLast' /\ AnsweredIsDeaf'
<1>1. ASSUME NEW h \in Gets, NEW i \in 1..Len(events'[h]), events'[h][i] = "error"
      PROVE  i = Len(events'[h]) /\ Deaf(h)'
  <2>1. CASE events'[h] = events[h] /\ (Deaf(h) => Deaf(h)')
    BY <1>1, <2>1 DEF EventInv, ErrorIsLast
  <2>2. CASE ~Deaf(h) /\ events'[h] = Append(events[h], what) /\ (what = "error" => Deaf(h)')
    <3>1. events[h] \in Seq(Event)
      BY DEF TypeOK, Event
    <3>2. /\ Len(events'[h]) = Len(events[h]) + 1 /\ Len(events[h]) \in Nat
          /\ \A j \in 1..Len(events[h]) : events'[h][j] = events[h][j]
          /\ events'[h][Len(events[h]) + 1] = what
      BY <2>2, <3>1
    <3>3. i \notin 1..Len(events[h])
      BY <1>1, <2>2, <3>2 DEF EventInv, ErrorIsLast
    <3>4. i = Len(events[h]) + 1
      BY <3>2, <3>3
    <3> QED BY <1>1, <2>2, <3>2, <3>4
  <2> QED BY <2>1, <2>2 DEF HearsOnly
<1>2. ErrorIsLast'
  BY <1>1 DEF ErrorIsLast
<1>3. ASSUME NEW h \in Gets
      PROVE  /\ Len(answers'[h]) <= 1
             /\ answers'[h] # <<>> => h \in muted' \/ (events'[h] = <<>> /\ Deaf(h)')
  BY DEF HearsOnly, EventInv, AnsweredIsDeaf
<1> QED BY <1>2, <1>3 DEF AnsweredIsDeaf

\* What is raised from a view leaves the queue and the listeners alone.
LEMMA RaiseEvent ==
  ASSUME TypeOK, EventInv, NEW gs \in SUBSET listeners, NEW what, what # "error", Raise(gs, what),
         UNCHANGED <<worker, listeners>>, view'.at = "none" => view.at = "none"
  PROVE  EventInv'
<1>1. /\ \A h : Listening(h)' <=> Listening(h)
      /\ \A h : Deaf(h)' <=> Deaf(h)
  BY DEF Raise, Listening, Deaf
<1>2. HearsOnly(what)
  BY <1>1 DEF HearsOnly, Raise, TypeOK, Deaf
<1>3. UncalledQuiet'
  BY <1>1 DEF UncalledQuiet, EventInv, Raise, TypeOK
<1>4. ListenQueuedOnce' /\ ViewThere'
  BY <1>1 DEF EventInv, ListenQueuedOnce, ViewThere
<1> QED BY <1>2, <1>3, <1>4, HearsStep DEF EventInv

LEMMA OfflineEvent ==
  ASSUME TypeOK, EventInv, GoOffline, UNCHANGED <<worker, listeners>>
  PROVE  EventInv'
<1>1. CASE online = "Offline"
  BY <1>1 DEF GoOffline, EventInv, ListenQueuedOnce, ViewThere, UncalledQuiet, ErrorIsLast,
              AnsweredIsDeaf, Deaf, Listening
<1>2. CASE online # "Offline"
  <2>1. PICK gs \in SUBSET listeners : Raise(gs, "cache")
    BY <1>2 DEF GoOffline
  <2>2. view'.at = "none" => view.at = "none"
    BY <1>2 DEF GoOffline, TypeOK
  <2> QED BY <2>1, <2>2, RaiseEvent
<1> QED BY <1>1, <1>2

LEMMA CallEvent ==
  ASSUME TypeOK, EventInv, NEW g \in Gets, Call(g)
  PROVE  EventInv'
<1> DEFINE b == [what |-> "listen", get |-> g]
<1>1. /\ b \in Task /\ b.what = "listen" /\ b.get = g /\ worker' = Append(worker, b)
      /\ called' = called \cup {g} /\ g \notin called
      /\ UNCHANGED <<events, muted, answers, listeners, view>>
  BY DEF Call, Task, viewVars
<1>2. ~Listening(g) /\ g \notin listeners
  BY <1>1 DEF EventInv, UncalledQuiet
<1> HIDE DEF b
<1>3. ListenQueuedOnce' /\ \A h : Listening(h)' <=> Listening(h) \/ h = g
  BY <1>1, <1>2, QueueStep DEF EventInv
<1>4. HearsOnly("cache")
  <2>1. \A h \in Gets : Deaf(h) => Deaf(h)'
    BY <1>1, <1>3 DEF Deaf
  <2> QED BY <1>1, <2>1 DEF HearsOnly
<1>5. UncalledQuiet' /\ ViewThere'
  BY <1>1, <1>3 DEF EventInv, UncalledQuiet, ViewThere
<1> QED BY <1>3, <1>4, <1>5, HearsStep DEF EventInv

\* The one listener that is added is told a snapshot, or nothing.
LEMMA AddedEvent ==
  ASSUME TypeOK, EventInv, NEW g \in Gets, Take("listen", g), listeners' = listeners \cup {g},
         NEW gs \in SUBSET {g}, NEW what, what # "error", Raise(gs, what), view'.at # "none"
  PROVE  EventInv'
<1>1. /\ \A h : Listening(h)' => Listening(h)
      /\ Listening(g) /\ ~Listening(g)' /\ ListenQueuedOnce'
  BY TakeStep DEF EventInv
<1>2. \A h \in Gets : Deaf(h) => Deaf(h)'
  BY <1>1 DEF Deaf, Raise
<1>3. HearsOnly(what)
  BY <1>1, <1>2 DEF HearsOnly, Raise, TypeOK, Deaf
<1>4. UncalledQuiet'
  BY <1>1 DEF EventInv, UncalledQuiet, Raise
<1>5. ViewThere'
  BY DEF ViewThere
<1> QED BY <1>1, <1>3, <1>4, <1>5, HearsStep DEF EventInv

LEMMA RemoveEvent ==
  ASSUME TypeOK, EventInv, NEW g \in Gets, RemoveListener(g)
  PROVE  EventInv'
<1>1. /\ Take("remove", g) /\ listeners' = listeners \ {g}
      /\ UNCHANGED <<called, events, muted, answers>>
      /\ listeners' # {} => view' = view
  BY DEF RemoveListener, mainVars
<1>2. ListenQueuedOnce' /\ \A h : Listening(h)' => Listening(h)
  BY <1>1, TakeStep DEF EventInv
<1>3. HearsOnly("cache")
  <2>1. \A h \in Gets : Deaf(h) => Deaf(h)'
    BY <1>1, <1>2 DEF Deaf
  <2> QED BY <1>1, <2>1 DEF HearsOnly
<1>4. UncalledQuiet' /\ ViewThere'
  BY <1>1, <1>2 DEF EventInv, UncalledQuiet, ViewThere
<1> QED BY <1>2, <1>3, <1>4, HearsStep DEF EventInv

LEMMA RejectedEvent ==
  ASSUME TypeOK, EventInv, HearRejected, listened
  PROVE  EventInv'
<1>1. listeners' = {} /\ Raise(listeners, "error") /\ UNCHANGED worker
  BY DEF HearRejected, Hear
<1>2. \A h : Listening(h)' <=> Listening(h)
  BY <1>1 DEF Listening
<1>3. \A h \in Gets : h \in listeners \/ Deaf(h) => (h \in called /\ ~Listening(h))
  BY DEF EventInv, UncalledQuiet, ListenQueuedOnce, Deaf
<1>4. HearsOnly("error")
  BY <1>1, <1>2, <1>3 DEF HearsOnly, Raise, TypeOK, Deaf
<1>5. UncalledQuiet'
  BY <1>1, <1>2 DEF EventInv, UncalledQuiet, Raise
<1>6. ListenQueuedOnce' /\ ViewThere'
  BY <1>1 DEF EventInv, ListenQueuedOnce, ViewThere
<1> QED BY <1>4, <1>5, <1>6, HearsStep DEF EventInv

LEMMA RunEventEvent ==
  ASSUME TypeOK, EventInv, NEW g \in Gets, RunEvent(g)
  PROVE  EventInv'
<1> DEFINE b == [what |-> "remove", get |-> g]
<1>1. /\ b \in Task /\ b.what = "remove" /\ UNCHANGED <<called, listeners, view>>
      /\ worker' = worker \/ worker' = Append(worker, b)
      /\ events[g] # <<>> /\ events' = [events EXCEPT ![g] = Tail(events[g])]
      /\ \/ g \in muted /\ UNCHANGED <<answers, muted>>
         \/ /\ g \notin muted
            /\ answers' = [answers EXCEPT ![g] = Append(answers[g], Head(events[g]))]
            /\ IF Head(events[g]) = "error" THEN muted' = muted ELSE muted' = muted \cup {g}
  BY DEF RunEvent, Task, viewVars
<1> HIDE DEF b
<1>2. ListenQueuedOnce' /\ \A h : Listening(h)' <=> Listening(h)
  <2>1. CASE worker' = worker
    BY <1>1, <2>1 DEF Listening, ListenQueuedOnce, EventInv
  <2>2. CASE worker' = Append(worker, b)
    BY <1>1, <2>2, QueueStep DEF EventInv
  <2> QED BY <1>1, <2>1, <2>2
<1>3. \A h : Deaf(h)' <=> Deaf(h)
  BY <1>1, <1>2 DEF Deaf
<1>4. g \in called
  BY <1>1 DEF EventInv, UncalledQuiet
<1>5. \A h \in Gets \ {g} : events'[h] = events[h] /\ answers'[h] = answers[h]
  BY <1>1 DEF TypeOK
<1>6. events[g] \in Seq(Event) /\ events'[g] = Tail(events[g])
  BY <1>1 DEF TypeOK, Event
<1>7. /\ Len(events[g]) \in Nat /\ Len(events[g]) >= 1 /\ Len(events'[g]) = Len(events[g]) - 1
      /\ \A i \in 1..Len(events'[g]) : i + 1 \in 1..Len(events[g]) /\ events'[g][i] = events[g][i + 1]
  <2>1. events[g] # <<>>
    BY <1>1
  <2> QED BY <1>6, <2>1
<1>8. UncalledQuiet' /\ ViewThere'
  BY <1>1, <1>2, <1>4, <1>5 DEF EventInv, UncalledQuiet, ViewThere
<1>9. ErrorIsLast'
  <2>1. ASSUME NEW i \in 1..Len(events'[g]), events'[g][i] = "error"
        PROVE  i = Len(events'[g]) /\ Deaf(g)
    <3>1. i + 1 = Len(events[g]) /\ Deaf(g)
      BY <1>7, <2>1 DEF EventInv, ErrorIsLast
    <3> QED BY <1>7, <3>1
  <2>2. ASSUME NEW h \in Gets \ {g}, NEW i \in 1..Len(events'[h]), events'[h][i] = "error"
        PROVE  i = Len(events'[h]) /\ Deaf(h)
    BY <1>5, <2>2 DEF EventInv, ErrorIsLast
  <2> QED BY <1>3, <2>1, <2>2 DEF ErrorIsLast
<1>10. AnsweredIsDeaf'
  <2>1. ASSUME NEW h \in Gets \ {g}
        PROVE  /\ Len(answers'[h]) <= 1
               /\ answers'[h] # <<>> => h \in muted' \/ (events'[h] = <<>> /\ Deaf(h))
    BY <1>1, <1>5 DEF EventInv, AnsweredIsDeaf
  <2>2. CASE g \in muted
    BY <1>1, <1>3, <2>1, <2>2 DEF EventInv, AnsweredIsDeaf
  <2>3. CASE g \notin muted
    <3>1. answers[g] = <<>>
      BY <1>1, <2>3 DEF EventInv, AnsweredIsDeaf
    <3>2. answers'[g] = Append(answers[g], Head(events[g])) /\ Len(answers'[g]) = 1
      <4>1. answers'[g] = Append(answers[g], Head(events[g]))
        BY <1>1, <2>3 DEF TypeOK
      <4>2. Len(Append(<<>>, Head(events[g]))) = 1
        BY <1>6
      <4> QED BY <3>1, <4>1, <4>2
    <3>3. CASE Head(events[g]) = "error"
      <4>1. 1 \in 1..Len(events[g]) /\ events[g][1] = "error"
        BY <1>1, <1>6, <1>7, <3>3
      <4>2. Len(events[g]) = 1 /\ Deaf(g)
        BY <4>1 DEF EventInv, ErrorIsLast
      <4>3. events'[g] = <<>>
        <5>1. events'[g] \in Seq(Event) /\ Len(events'[g]) = 0
          BY <1>1, <1>6, <1>7, <4>2
        <5> QED BY <5>1, EmptySeq
      <4>4. Len(answers'[g]) <= 1 /\ events'[g] = <<>> /\ Deaf(g)'
        BY <1>3, <3>2, <4>2, <4>3
      <4>5. \A h \in Gets \ {g} : Deaf(h) => Deaf(h)'
        BY <1>3
      <4> QED BY <2>1, <4>4, <4>5 DEF AnsweredIsDeaf
    <3>4. CASE Head(events[g]) # "error"
      <4>1. g \in muted'
        BY <1>1, <2>3, <3>4
      <4> QED BY <1>3, <2>1, <3>2, <4>1 DEF AnsweredIsDeaf
    <3> QED BY <3>3, <3>4
  <2> QED BY <2>2, <2>3
<1> QED BY <1>2, <1>8, <1>9, <1>10 DEF EventInv

\* No one is added, removed, called or told.
LEMMA FrameEvent ==
  ASSUME EventInv, UNCHANGED <<worker, listeners, view, called, events, muted, answers>>
  PROVE  EventInv'
BY DEF EventInv, ListenQueuedOnce, ViewThere, UncalledQuiet, ErrorIsLast, AnsweredIsDeaf, Deaf, Listening

LEMMA EventStep ==
  ASSUME TypeOK, EventInv, Next
  PROVE  EventInv'
<1> USE DEF mainVars, viewVars
<1>1. ASSUME NEW g \in Gets, JoinListeners(g)
      PROVE  EventInv'
  <2>1. /\ Take("listen", g) /\ listeners' = listeners \cup {g} /\ view' = view
        /\ \E gs \in SUBSET {g} : Raise(gs, view.at)
    BY <1>1 DEF JoinListeners
  <2>2. view.at # "none" /\ view.at # "error"
    BY <1>1 DEF JoinListeners, EventInv, ViewThere, TypeOK, Sources
  <2> QED BY <2>1, <2>2, AddedEvent
<1>2. ASSUME NEW g \in Gets, OpenListen(g)
      PROVE  EventInv'
  <2>1. /\ Take("listen", g) /\ listeners' = listeners \cup {g} /\ view'.at # "none"
        /\ \E gs \in SUBSET {g} : Raise(gs, "cache")
    BY <1>2 DEF OpenListen, FirstView
  <2> QED BY <2>1, AddedEvent
<1>3. CASE OnlineTimeout
  BY <1>3, OfflineEvent DEF OnlineTimeout
<1>4. CASE StreamFails
  <2>1. CASE GoOffline /\ UNCHANGED <<worker, listeners>>
    BY <2>1, OfflineEvent
  <2>2. CASE UNCHANGED <<worker, mainVars, viewVars>>
    BY <2>2, FrameEvent
  <2> QED BY <1>4, <2>1, <2>2 DEF StreamFails
<1>5. CASE HearSnapshot
  <2>1. CASE Active /\ target.changed
    <3>1. PICK gs \in SUBSET listeners : Raise(gs, view'.at)
      BY <1>5, <2>1 DEF HearSnapshot
    <3>2. view'.at \in Sources /\ UNCHANGED <<worker, listeners>>
      BY <1>5, <2>1 DEF HearSnapshot, Hear, Sources
    <3>3. view'.at # "error" /\ view'.at # "none"
      BY <3>2 DEF Sources
    <3> QED BY <3>1, <3>2, <3>3, RaiseEvent
  <2>2. CASE ~(Active /\ target.changed)
    BY <1>5, <2>2, FrameEvent DEF HearSnapshot, Hear
  <2> QED BY <2>1, <2>2
<1>6. CASE HearRejected
  <2>1. CASE ~listened
    BY <1>6, <2>1, FrameEvent DEF HearRejected, Hear
  <2> QED BY <1>6, <2>1, RejectedEvent
<1>7. CASE HearAdded \/ HearCurrent \/ HearRemoved
  BY <1>7, FrameEvent DEF HearAdded, HearCurrent, HearRemoved, Hear
<1>8. CASE BackoffElapsed \/ IdleTimeout \/ StreamOpens \/ RestartNetwork
  BY <1>8, FrameEvent DEF BackoffElapsed, IdleTimeout, StreamOpens, RestartNetwork
<1>9. CASE ServerStep \/ Commit
  BY <1>9, FrameEvent DEF ServerStep, ServeWatch, ServeUnwatch, ServeDocuments, ServeSnapshot, Commit
<1> QED BY <1>1, <1>2, <1>3, <1>4, <1>5, <1>6, <1>7, <1>8, <1>9, CallEvent, RunEventEvent, RemoveEvent
        DEF Next, MainStep, WorkerStep, HearStep

-----------------------------------------------------------------------------
\* The theorems

LEMMA InitHolds == Init => IInv
<1> SUFFICES ASSUME Init PROVE IInv
  OBVIOUS
<1>1. TypeOK
  <2>1. NoView \in View /\ NoTarget \in Target /\ NoServer \in Server
    BY NothingTyped
  <2>2. [breaks |-> 0, restarts |-> 0, rejects |-> 0] \in Spent
    BY DEF Spent
  <2>3. /\ worker \in Seq(Task) /\ requests \in Seq({"watch", "unwatch"}) /\ responses \in Seq(Message)
        /\ events \in [Gets -> Seq(Event)] /\ answers \in [Gets -> Seq(Event)]
    BY DEF Init
  <2> QED BY <2>1, <2>2, <2>3 DEF Init, TypeOK, Task, Event, View, Target, Server, Spent
<1>2. EventInv
  BY DEF Init, EventInv, ListenQueuedOnce, ViewThere, UncalledQuiet, ErrorIsLast, AnsweredIsDeaf,
         Listening, Deaf, NoView
<1>3. TrackerAgrees /\ StreamAsNeeded
  BY DEF Init, TrackerAgrees, StreamAsNeeded
<1> QED BY <1>1, <1>2, <1>3 DEF IInv

LEMMA TypeStep ==
  ASSUME TypeOK, EventInv, Next
  PROVE  TypeOK'
<1>1. ViewThere
  BY DEF EventInv
<1> QED BY <1>1, CallTypes, RunEventTypes, JoinTypes, OpenTypes, RemoveTypes, TimerTypes, StreamTypes,
           HearTypes, ServerTypes DEF Next, MainStep, WorkerStep

LEMMA Inductive == IInv /\ [Next]_vars => IInv'
<1>1. ASSUME IInv, Next
      PROVE  IInv'
  BY <1>1, TypeStep, EventStep, TrackerStep, NeededStep DEF IInv
<1>2. ASSUME IInv, UNCHANGED vars
      PROVE  IInv'
  BY <1>2, FrameEvent
  DEF IInv, vars, mainVars, viewVars, onlineVars, streamVars, wireVars, worldVars,
      TypeOK, TrackerAgrees, StreamAsNeeded, Started
<1> QED BY <1>1, <1>2

LEMMA Invariant == Spec => []IInv
BY InitHolds, Inductive, PTL DEF Spec

\* The variables keep their types, in any order of calls, timers and messages.
THEOREM TypeCorrect == Spec => []TypeOK
<1>1. IInv => TypeOK
  BY DEF IInv
<1> QED BY <1>1, Invariant, PTL

\* No call of getDocuments is answered twice, however many events were raised
\* for it before its listener was removed: muting drops the snapshots, and an
\* error is the last event of a listener.
THEOREM NoneAnsweredTwice == Spec => []AnsweredOnce
<1>1. IInv => AnsweredOnce
  BY DEF IInv, EventInv, AnsweredIsDeaf, AnsweredOnce
<1> QED BY <1>1, Invariant, PTL

\* The assertions of OnlineStateTracker hold: its timeout finds the state
\* Unknown, and Online there is neither a failure nor a timeout.
THEOREM TrackerAgreement == Spec => []TrackerAgrees
<1>1. IInv => TrackerAgrees
  BY DEF IInv
<1> QED BY <1>1, Invariant, PTL

\* The assertions of RemoteStore hold: it listens exactly while the query has
\* listeners, with a stream started, and only an unneeded stream is idle.
THEOREM StreamIsAsNeeded == Spec => []StreamAsNeeded
<1>1. IInv => StreamAsNeeded
  BY DEF IInv
<1> QED BY <1>1, Invariant, PTL

-----------------------------------------------------------------------------
\* The age of documents and the count of responses.  The rest of the module
\* proves OutstandingIsAwaited and ServerViewIsNew: while nothing was refused
\* the count is that of the answers on their way, so that documents are read
\* only when no answer is, and documents of an earlier listen are followed by
\* one.  A refusal may put the count wrong; CountInv says in which ways.

Answers == {"added", "removed", "rejected"}

AnswersIn(messages) == {i \in DOMAIN messages : messages[i].what \in Answers}

\* A stream that is not open has nothing on its way.
Closed == stream # "open" =>
  target = NoTarget /\ requests = <<>> /\ responses = <<>> /\ server = NoServer

\* Documents from before the listen are followed by an answer.
OldIsFollowed == \A i \in 1..Len(responses) :
  responses[i].what = "current" /\ responses[i].docs < openedAt =>
    requests # <<>> \/ \E j \in 1..Len(responses) : i < j /\ responses[j].what \in Answers

OldInv ==
  /\ openedAt <= data
  /\ OldIsFollowed

\* What counts is no older than the listen.
NewInv ==
  /\ Active /\ target.changed => target.docs >= openedAt
  /\ view.at = "server" => view.docs >= openedAt

\* Who was told is no longer to be added.
Told ==
  /\ \A g \in raised : g \in called /\ ~Listening(g)
  /\ \A g \in Gets : events[g] # <<>> \/ g \in muted => g \in raised
  /\ \A i \in 1..Len(worker) : worker[i].what = "remove" => worker[i].get \in raised

\* Watches and unwatches take turns, and the server is silent between an
\* unwatch or a refusal and the next watch.
Turns ==
  /\ \A i, j \in 1..Len(requests) : j = i + 1 => requests[i] # requests[j]
  /\ \A i, j \in 1..Len(responses) : j = i + 1 =>
       /\ responses[i].what = "rejected" => responses[j].what = "removed"
       /\ responses[i].what = "removed" => responses[j].what \in {"added", "rejected"}
  /\ responses # <<>> =>
       /\ responses[Len(responses)].what = "rejected" =>
            ~server.on /\ (requests # <<>> => requests[1] = "unwatch")
       /\ responses[Len(responses)].what = "removed" =>
            ~server.on /\ (requests # <<>> => requests[1] = "watch")
  /\ requests # <<>> => (requests[Len(requests)] = "watch" <=> listened)
  /\ requests = <<>> /\ responses # <<>> =>
       /\ responses[Len(responses)].what = "rejected" => listened
       /\ responses[Len(responses)].what = "removed" => ~listened

Counted == target.outstanding = Awaited /\ Turns

NoneRejected == \A i \in 1..Len(responses) : responses[i].what # "rejected"

\* The next answer is that of a watch.
WatchNext ==
  \/ responses = <<>> /\ ~server.on /\ requests # <<>> /\ requests[1] = "watch"
  \/ responses # <<>> /\ responses[1].what = "added"

\* The next two answers are those of an unwatch and a watch.
UnwatchNext ==
  \/ responses = <<>> /\ ~server.on /\ Len(requests) >= 2 /\ requests[1] = "unwatch" /\ requests[2] = "watch"
  \/ /\ Len(responses) = 1 /\ responses[1].what = "removed"
     /\ ~server.on /\ requests # <<>> /\ requests[1] = "watch"
  \/ Len(responses) >= 2 /\ responses[1].what = "removed" /\ responses[2].what = "added"

\* Requests that were on their way at a refusal are forgotten: two answers, of
\* an unwatch and of a watch, make the target seem active too early, but no
\* documents come between them, and then it is not active again.
Rest == target.outstanding - (IF listened THEN 1 ELSE 0)

Behind ==
  \/ Rest = 0 /\ UnwatchNext
  \/ Rest = -1 /\ WatchNext
  \/ Rest <= -2

\* No listener was told anything, and so none is removed.
Untold == online = "Online" /\ view.at # "server" /\ listeners \cap raised = {}

Miscounted == Behind /\ ~target.changed /\ Untold

RejectedOnce ==
  /\ spent.rejects = 0 => NoneRejected
  /\ spent.rejects = 1 => \A i, j \in 1..Len(responses) :
       responses[i].what = "rejected" /\ responses[j].what = "rejected" => i = j

CountInv ==
  stream = "open" /\ spent.rejects <= 1 =>
    \/ Counted
    \/ /\ spent.rejects = 1 /\ NoneRejected
       /\ target.outstanding = Awaited + 1 \/ Miscounted

AgeInv == Closed /\ Told /\ OldInv /\ RejectedOnce /\ CountInv /\ (spent.rejects <= 1 => NewInv)

-----------------------------------------------------------------------------
\* Messages

\* What a sequence of messages holds.
LEMMA MessageFacts ==
  ASSUME NEW s \in Seq(Message)
  PROVE  /\ Len(s) \in Nat /\ DOMAIN s = 1..Len(s) /\ (s = <<>> <=> Len(s) = 0)
         /\ \A i \in 1..Len(s) :
              s[i].what \in {"added", "current", "snapshot", "removed", "rejected"} /\ s[i].docs \in Nat
<1>1. \A i \in 1..Len(s) : s[i] \in Message
  BY ElementOfSeq
<1>2. \A m \in Message :
        m.what \in {"added", "current", "snapshot", "removed", "rejected"} /\ m.docs \in Nat
  BY DEF Message
<1>3. Len(s) \in Nat /\ DOMAIN s = 1..Len(s) /\ (s = <<>> <=> Len(s) = 0)
  BY LenProperties, EmptySeq
<1> QED
  BY <1>1, <1>2, <1>3

\* The answers in it can be counted,
LEMMA AnswersFinite ==
  ASSUME NEW s \in Seq(Message)
  PROVE  /\ IsFiniteSet(AnswersIn(s)) /\ Cardinality(AnswersIn(s)) \in Nat
         /\ Cardinality(AnswersIn(s)) = 0 => \A i \in 1..Len(s) : s[i].what \notin Answers
<1>1. AnswersIn(s) \in SUBSET (1..Len(s))
  BY MessageFacts DEF AnswersIn
<1>2. IsFiniteSet(1..Len(s))
  BY MessageFacts, FS_Interval
<1>3. IsFiniteSet(AnswersIn(s))
  BY <1>1, <1>2, FS_Subset
<1>4. Cardinality(AnswersIn(s)) \in Nat
  BY <1>3, FS_CardinalityType
<1>5. ASSUME Cardinality(AnswersIn(s)) = 0
      PROVE  \A i \in 1..Len(s) : s[i].what \notin Answers
  <2>1. AnswersIn(s) = {}
    BY <1>3, <1>5, FS_EmptySet
  <2> QED
    BY <2>1, MessageFacts DEF AnswersIn
<1> QED
  BY <1>3, <1>4, <1>5

\* one more with an answer appended,
LEMMA AnswersAppended ==
  ASSUME NEW s \in Seq(Message), NEW m \in Message
  PROVE  Cardinality(AnswersIn(Append(s, m))) =
           Cardinality(AnswersIn(s)) + IF m.what \in Answers THEN 1 ELSE 0
<1> DEFINE t == Append(s, m)
<1>1. t \in Seq(Message) /\ Len(s) \in Nat /\ Len(t) = Len(s) + 1 /\ t[Len(s) + 1] = m
      /\ \A i \in 1..Len(s) : t[i] = s[i]
  BY MessageFacts, AppendProperties
<1> HIDE DEF t
<1>2. DOMAIN t = 1..(Len(s) + 1) /\ DOMAIN s = 1..Len(s)
  BY <1>1, MessageFacts
<1>3. \A i : i \in AnswersIn(t) <=> i \in 1..(Len(s) + 1) /\ t[i].what \in Answers
  BY <1>2 DEF AnswersIn
<1>4. \A i : i \in AnswersIn(s) <=> i \in 1..Len(s) /\ s[i].what \in Answers
  BY <1>2 DEF AnswersIn
<1>5. IsFiniteSet(AnswersIn(s)) /\ Len(s) + 1 \notin AnswersIn(s)
  BY <1>1, <1>4, AnswersFinite
<1>6. \A i : i \in 1..(Len(s) + 1) <=> i \in 1..Len(s) \/ i = Len(s) + 1
  BY <1>1
<1> HIDE DEF AnswersIn
<1>7. CASE m.what \in Answers
  <2>1. AnswersIn(t) = AnswersIn(s) \cup {Len(s) + 1}
    BY <1>1, <1>3, <1>4, <1>6, <1>7
  <2>2. Cardinality(AnswersIn(t)) = Cardinality(AnswersIn(s)) + 1
    BY <1>5, <2>1, FS_AddElement
  <2> QED
    BY <1>7, <2>2 DEF t
<1>8. CASE m.what \notin Answers
  <2>1. AnswersIn(t) = AnswersIn(s)
    BY <1>1, <1>3, <1>4, <1>6, <1>8
  <2>2. Cardinality(AnswersIn(s)) \in Nat
    BY AnswersFinite
  <2> QED
    BY <1>8, <2>1, <2>2 DEF t
<1> QED
  BY <1>7, <1>8

\* and one fewer with an answer heard.
LEMMA AnswersHeard ==
  ASSUME NEW s \in Seq(Message), s # <<>>
  PROVE  Cardinality(AnswersIn(Tail(s))) =
           Cardinality(AnswersIn(s)) - IF s[1].what \in Answers THEN 1 ELSE 0
<1> DEFINE t == Tail(s)
           S == AnswersIn(s)
           T == AnswersIn(t)
           f == [i \in T |-> i + 1]
<1>1. t \in Seq(Message) /\ Len(s) \in Nat /\ Len(s) >= 1 /\ Len(t) = Len(s) - 1
      /\ \A i \in 1..Len(t) : t[i] = s[i + 1]
  <2>1. Len(s) \in Nat /\ Len(s) # 0
    BY MessageFacts
  <2> QED
    BY <2>1, HeadTailProperties
<1> HIDE DEF t
<1>2. DOMAIN t = 1..(Len(s) - 1) /\ DOMAIN s = 1..Len(s)
  BY <1>1, MessageFacts
<1>3. \A i : i \in T <=> i \in 1..(Len(s) - 1) /\ s[i + 1].what \in Answers
  BY <1>1, <1>2 DEF AnswersIn
<1>4. \A i : i \in S <=> i \in 1..Len(s) /\ s[i].what \in Answers
  BY <1>2 DEF AnswersIn
<1>5. IsFiniteSet(S) /\ IsFiniteSet(T) /\ Cardinality(S) \in Nat
  BY <1>1, AnswersFinite
<1> HIDE DEF S, T
<1>6. \A i \in T : i + 1 \in S \ {1}
  BY <1>1, <1>3, <1>4
<1>7. \A j \in S \ {1} : j - 1 \in T /\ (j - 1) + 1 = j
  BY <1>1, <1>3, <1>4
<1>8. f \in Bijection(T, S \ {1})
  <2>1. f \in [T -> S \ {1}]
    BY <1>6
  <2>2. \A i, j \in T : f[i] = f[j] => i = j
    BY <1>3
  <2>3. \A j \in S \ {1} : \E i \in T : f[i] = j
    <3> TAKE j \in S \ {1}
    <3>1. j - 1 \in T /\ f[j - 1] = j
      BY <1>7
    <3> QED
      BY <3>1
  <2> QED
    BY <2>1, <2>2, <2>3 DEF Bijection, Injection, Surjection, IsInjective
<1> HIDE DEF f
<1>9. Cardinality(S \ {1}) = Cardinality(T)
  <2>1. ExistsBijection(T, S \ {1})
    BY <1>8 DEF ExistsBijection
  <2> QED
    BY <1>5, <2>1, FS_Bijection
<1>10. 1 \in S <=> s[1].what \in Answers
  BY <1>1, <1>4
<1>11. Cardinality(S \ {1}) = IF 1 \in S THEN Cardinality(S) - 1 ELSE Cardinality(S)
  BY <1>5, FS_RemoveElement
<1>12. Cardinality(T) = Cardinality(S) - IF s[1].what \in Answers THEN 1 ELSE 0
  BY <1>5, <1>9, <1>10, <1>11
<1> QED
  BY <1>12 DEF t, S, T

-----------------------------------------------------------------------------
\* The wire

\* The types, as arithmetic needs them.
LEMMA WireFacts ==
  ASSUME TypeOK
  PROVE  /\ Len(requests) \in Nat /\ (requests = <<>> <=> Len(requests) = 0)
         /\ \A i \in 1..Len(requests) : requests[i] \in {"watch", "unwatch"}
         /\ Len(responses) \in Nat /\ (responses = <<>> <=> Len(responses) = 0)
         /\ \A i \in 1..Len(responses) :
              /\ responses[i].what \in {"added", "current", "snapshot", "removed", "rejected"}
              /\ responses[i].docs \in Nat
         /\ Cardinality(AnswersIn(responses)) \in Nat
         /\ target.outstanding \in Int
         /\ target.docs \in Nat /\ openedAt \in Nat /\ data \in Nat /\ view.docs \in Nat
         /\ spent.rejects \in Nat
<1>1. requests \in Seq({"watch", "unwatch"}) /\ responses \in Seq(Message)
  BY DEF TypeOK
<1>2. Len(requests) \in Nat /\ (requests = <<>> <=> Len(requests) = 0)
  BY <1>1, LenProperties, EmptySeq
<1>3. \A i \in 1..Len(requests) : requests[i] \in {"watch", "unwatch"}
  BY <1>1, ElementOfSeq
<1>4. target.outstanding \in Int /\ target.docs \in Nat
  BY TypeNamed, FieldTyped
<1>5. view.docs \in Nat
  BY TypeNamed DEF View
<1>6. spent.rejects \in Nat
  BY TypeNamed, FieldTyped
<1>7. openedAt \in Nat /\ data \in Nat
  BY DEF TypeOK
<1>8. Cardinality(AnswersIn(responses)) \in Nat
  BY <1>1, AnswersFinite
<1> QED
  BY <1>1, <1>2, <1>3, <1>4, <1>5, <1>6, <1>7, <1>8, MessageFacts

\* A message is heard.
LEMMA HearFacts ==
  ASSUME TypeOK, NEW what, Hear(what)
  PROVE  /\ Len(responses) >= 1 /\ responses[1] = Head(responses) /\ responses[1].what = what
         /\ Len(responses') = Len(responses) - 1 /\ Len(responses') \in Nat
         /\ \A i \in 1..Len(responses') : responses'[i] = responses[i + 1] /\ i + 1 \in 1..Len(responses)
         /\ (responses' = <<>> <=> Len(responses') = 0)
         /\ Awaited' = Awaited - IF what \in Answers THEN 1 ELSE 0
         /\ stream = "open" /\ UNCHANGED <<worker, stream, idle, requests, server, data, spent, openedAt>>
         /\ online' = "Online"
<1>1. /\ responses \in Seq(Message) /\ responses # <<>> /\ responses' = Tail(responses)
      /\ Head(responses).what = what
  BY DEF TypeOK, Hear
<1>2. Len(responses) \in Nat /\ Len(responses) # 0
  BY <1>1, WireFacts
<1>3. /\ responses' \in Seq(Message) /\ Len(responses') = Len(responses) - 1
      /\ \A i \in 1..Len(responses') : responses'[i] = responses[i + 1]
  BY <1>1, HeadTailProperties
<1>4. responses' = <<>> <=> Len(responses') = 0
  BY <1>3, MessageFacts
<1>5. responses[1] = Head(responses)
  BY <1>1
<1>6. /\ stream = "open" /\ UNCHANGED <<worker, stream, idle, requests, server, data, spent, openedAt>>
      /\ online' = "Online"
  BY DEF Hear, worldVars, UpdateState
<1>7. Awaited' = Awaited - IF what \in Answers THEN 1 ELSE 0
  <2>1. Awaited = Len(requests) + Cardinality(AnswersIn(responses))
    BY DEF Awaited, AnswersIn, Answers
  <2>2. Awaited' = Len(requests') + Cardinality(AnswersIn(responses'))
    BY DEF Awaited, AnswersIn, Answers
  <2>3. Cardinality(AnswersIn(responses')) =
          Cardinality(AnswersIn(responses)) - IF what \in Answers THEN 1 ELSE 0
    BY <1>1, <1>5, AnswersHeard
  <2>4. Len(requests') = Len(requests) /\ Len(requests) \in Nat
        /\ Cardinality(AnswersIn(responses)) \in Nat
    BY <1>6, WireFacts
  <2> QED
    BY <2>1, <2>2, <2>3, <2>4
<1> QED
  BY <1>1, <1>2, <1>3, <1>4, <1>5, <1>6, <1>7

\* A message is sent.
LEMMA ReplyFacts ==
  ASSUME TypeOK, NEW what \in {"added", "current", "snapshot", "removed", "rejected"},
         NEW docs \in Nat, Reply(what, docs)
  PROVE  /\ Len(responses') = Len(responses) + 1 /\ Len(responses) \in Nat
         /\ \A i \in 1..Len(responses) : responses'[i] = responses[i] /\ i \in 1..Len(responses')
         /\ responses'[Len(responses) + 1].what = what /\ responses'[Len(responses) + 1].docs = docs
         /\ \A i \in 1..Len(responses') : i \in 1..Len(responses) \/ i = Len(responses) + 1
         /\ responses' # <<>>
         /\ Cardinality(AnswersIn(responses')) =
              Cardinality(AnswersIn(responses)) + IF what \in Answers THEN 1 ELSE 0
<1> DEFINE m == [what |-> what, docs |-> docs]
<1>1. m \in Message /\ m.what = what /\ m.docs = docs
  BY DEF Message
<1>2. responses \in Seq(Message) /\ responses' = Append(responses, m)
  BY DEF TypeOK, Reply
<1> HIDE DEF m
<1>3. /\ responses' \in Seq(Message) /\ Len(responses') = Len(responses) + 1
      /\ \A i \in 1..Len(responses) : responses'[i] = responses[i]
      /\ responses'[Len(responses) + 1] = m
  BY <1>1, <1>2, AppendProperties
<1>4. Len(responses) \in Nat
  BY WireFacts
<1>5. responses' # <<>>
  BY <1>3, <1>4, MessageFacts
<1>6. Cardinality(AnswersIn(responses')) =
        Cardinality(AnswersIn(responses)) + IF what \in Answers THEN 1 ELSE 0
  BY <1>1, <1>2, AnswersAppended
<1> QED
  BY <1>1, <1>3, <1>4, <1>5, <1>6

\* A request is sent.
LEMMA SendFacts ==
  ASSUME TypeOK, NEW what \in {"watch", "unwatch"}, SendRequest(what), responses' = responses
  PROVE  /\ Len(requests') = Len(requests) + 1 /\ Len(requests) \in Nat
         /\ \A i \in 1..Len(requests) : requests'[i] = requests[i]
         /\ requests'[Len(requests) + 1] = what
         /\ requests' # <<>>
         /\ Awaited' = Awaited + 1
         /\ target'.outstanding = target.outstanding + 1
         /\ target'.changed = target.changed /\ target'.docs = target.docs
<1>1. requests \in Seq({"watch", "unwatch"}) /\ requests' = Append(requests, what)
  BY DEF TypeOK, SendRequest
<1>2. /\ requests' \in Seq({"watch", "unwatch"}) /\ Len(requests') = Len(requests) + 1
      /\ \A i \in 1..Len(requests) : requests'[i] = requests[i]
      /\ requests'[Len(requests) + 1] = what
  BY <1>1, AppendProperties
<1>3. Len(requests) \in Nat
  BY WireFacts
<1>4. requests' # <<>>
  BY <1>2, <1>3, EmptySeq
<1>5. Awaited' = Awaited + 1
  <2>1. Awaited = Len(requests) + Cardinality(AnswersIn(responses))
    BY DEF Awaited, AnswersIn, Answers
  <2>2. Awaited' = Len(requests') + Cardinality(AnswersIn(responses'))
    BY DEF Awaited, AnswersIn, Answers
  <2>3. Cardinality(AnswersIn(responses)) \in Nat /\ AnswersIn(responses') = AnswersIn(responses)
    BY WireFacts
  <2> QED
    BY <1>2, <1>3, <2>1, <2>2, <2>3
<1>6. /\ target'.outstanding = target.outstanding + 1
      /\ target'.changed = target.changed /\ target'.docs = target.docs
  <2>1. target \in Target /\ target' = [target EXCEPT !.outstanding = target.outstanding + 1]
    BY TypeNamed DEF SendRequest
  <2> QED
    BY <2>1 DEF Target
<1> QED
  BY <1>2, <1>3, <1>4, <1>5, <1>6

\* The server takes a request.
LEMMA ServeFacts ==
  ASSUME TypeOK, requests # <<>>, requests' = Tail(requests)
  PROVE  /\ Len(requests) \in Nat /\ Len(requests) >= 1 /\ Head(requests) = requests[1]
         /\ Len(requests') = Len(requests) - 1
         /\ \A i \in 1..Len(requests') : requests'[i] = requests[i + 1] /\ i + 1 \in 1..Len(requests)
         /\ (requests' = <<>> <=> Len(requests') = 0)
<1>1. requests \in Seq({"watch", "unwatch"})
  BY DEF TypeOK
<1>2. Len(requests) \in Nat /\ Len(requests) # 0
  BY WireFacts
<1>3. /\ requests' \in Seq({"watch", "unwatch"}) /\ Len(requests') = Len(requests) - 1
      /\ \A i \in 1..Len(requests') : requests'[i] = requests[i + 1]
  BY <1>1, HeadTailProperties
<1>4. requests' = <<>> <=> Len(requests') = 0
  BY <1>3, EmptySeq, LenProperties
<1>5. Head(requests) = requests[1]
  BY <1>1
<1> QED
  BY <1>2, <1>3, <1>4, <1>5

\* What is awaited, counted in both directions.
LEMMA AwaitedIs ==
  ASSUME TypeOK
  PROVE  /\ Awaited = Len(requests) + Cardinality(AnswersIn(responses)) /\ Awaited \in Nat
         /\ Awaited = 0 => /\ requests = <<>>
                           /\ \A i \in 1..Len(responses) : responses[i].what \notin Answers
<1>1. Awaited = Len(requests) + Cardinality(AnswersIn(responses))
  BY DEF Awaited, AnswersIn, Answers
<1>2. Len(requests) \in Nat /\ Cardinality(AnswersIn(responses)) \in Nat
  BY WireFacts
<1>3. Awaited \in Nat /\ (Awaited = 0 => Len(requests) = 0 /\ Cardinality(AnswersIn(responses)) = 0)
  BY <1>1, <1>2
<1>4. responses \in Seq(Message)
  BY DEF TypeOK
<1> QED
  BY <1>1, <1>3, <1>4, WireFacts, AnswersFinite

-----------------------------------------------------------------------------
\* What was told

\* A stream that is not open has nothing on its way.
LEMMA ClosedStep ==
  ASSUME TypeOK, Closed, Next
  PROVE  Closed'
<1> USE DEF Closed
<1>1. CASE stream = "open" /\ stream' = "open"
  BY <1>1
<1>2. ASSUME NEW g \in Gets, OpenListen(g) PROVE Closed'
  <2>1. ListenToTarget /\ UNCHANGED <<responses, server>>
    BY <1>2 DEF OpenListen
  <2>2. CASE ~Started
    BY <2>1, <2>2 DEF ListenToTarget, Started
  <2>3. CASE stream = "open"
    BY <2>1, <2>3 DEF ListenToTarget, Started
  <2>4. CASE stream \in {"starting", "backoff"}
    BY <2>1, <2>4 DEF ListenToTarget, Started
  <2> QED
    BY <2>2, <2>3, <2>4 DEF Started
<1>3. ASSUME NEW g \in Gets, RemoveListener(g) PROVE Closed'
  BY <1>3 DEF RemoveListener
<1>4. CASE IdleTimeout \/ StreamFails \/ RestartNetwork
  BY <1>4 DEF IdleTimeout, StreamFails, RestartNetwork, DropWire
<1>5. CASE StreamOpens
  BY <1>5 DEF StreamOpens
<1>6. CASE HearStep
  BY <1>6 DEF HearStep, HearAdded, HearCurrent, HearSnapshot, HearRemoved, HearRejected, Hear
<1>7. CASE ServerStep
  <2>1. stream' = stream
    BY <1>7 DEF ServerStep, ServeWatch, ServeUnwatch, ServeDocuments, ServeSnapshot, streamVars
  <2>2. stream = "open"
    <3>1. requests # <<>> \/ server.on
      BY <1>7 DEF ServerStep, ServeWatch, ServeUnwatch, ServeDocuments, ServeSnapshot
    <3> QED
      BY <3>1 DEF NoServer
  <2> QED
    BY <2>1, <2>2
<1>8. CASE OnlineTimeout \/ BackoffElapsed \/ Commit
  BY <1>8 DEF OnlineTimeout, BackoffElapsed, Commit, streamVars, wireVars
<1>9. ASSUME NEW g \in Gets, Call(g) \/ RunEvent(g) \/ JoinListeners(g) PROVE Closed'
  BY <1>9 DEF Call, RunEvent, JoinListeners, streamVars, wireVars
<1> QED
  BY <1>2, <1>3, <1>4, <1>5, <1>6, <1>7, <1>8, <1>9 DEF Next, MainStep, WorkerStep

-----------------------------------------------------------------------------
\* Who was told

\* Who is told was called, and is no longer to be added.
LEMMA RaiseTold ==
  ASSUME TypeOK, Told, NEW gs \in SUBSET Gets, NEW what, Raise(gs, what),
         \A g \in gs : g \in called /\ ~Listening(g)',
         \A g : Listening(g)' => Listening(g),
         \A i \in 1..Len(worker') : worker'[i].what = "remove" => worker'[i].get \in raised
  PROVE  Told'
<1>1. /\ raised' = raised \cup gs /\ UNCHANGED <<called, muted>>
      /\ \A g \in Gets : g \notin gs => events'[g] = events[g]
  BY DEF Raise
<1>2. \A g \in raised' : g \in called' /\ ~Listening(g)'
  BY <1>1 DEF Told
<1>3. \A g \in Gets : events'[g] # <<>> \/ g \in muted' => g \in raised'
  BY <1>1 DEF Told
<1>4. \A i \in 1..Len(worker') : worker'[i].what = "remove" => worker'[i].get \in raised'
  BY <1>1
<1> QED
  BY <1>2, <1>3, <1>4 DEF Told

\* Only listeners are told.
LEMMA ListenersTold ==
  ASSUME TypeOK, EventInv, Told, NEW gs \in SUBSET listeners, NEW what, Raise(gs, what), worker' = worker
  PROVE  Told'
<1>1. \A g : Listening(g)' <=> Listening(g)
  BY DEF Listening
<1>2. gs \in SUBSET Gets /\ \A g \in gs : g \in called /\ ~Listening(g)'
  BY <1>1 DEF TypeOK, EventInv, UncalledQuiet, ListenQueuedOnce
<1>3. \A i \in 1..Len(worker') : worker'[i].what = "remove" => worker'[i].get \in raised
  BY DEF Told
<1> QED
  BY <1>1, <1>2, <1>3, RaiseTold

\* Steps that tell nobody.
LEMMA FrameTold ==
  ASSUME Told, UNCHANGED <<raised, called, worker, events, muted>>
  PROVE  Told'
BY DEF Told, Listening

\* All listeners are told that the client is offline.
LEMMA OfflineTold ==
  ASSUME TypeOK, EventInv, Told, GoOffline, worker' = worker
  PROVE  Told'
<1>1. CASE online = "Offline"
  BY <1>1, FrameTold DEF GoOffline
<1>2. CASE online # "Offline"
  <2>1. PICK gs \in SUBSET listeners : Raise(gs, "cache")
    BY <1>2 DEF GoOffline
  <2> QED
    BY <2>1, ListenersTold
<1> QED
  BY <1>1, <1>2

\* What is left of the worker queue.
LEMMA TakeTold ==
  ASSUME TypeOK, Told, NEW what, NEW g, Take(what, g)
  PROVE  \A i \in 1..Len(worker') : worker'[i].what = "remove" => worker'[i].get \in raised
<1>1. worker \in Seq(Task) /\ worker # <<>> /\ worker' = Tail(worker)
  BY DEF TypeOK, Task, Take
<1>2. /\ Len(worker) \in Nat /\ Len(worker') = Len(worker) - 1
      /\ \A i \in 1..Len(worker') : worker'[i] = worker[i + 1]
  BY <1>1, HeadTailProperties, LenProperties
<1>3. \A i \in 1..Len(worker') : i + 1 \in 1..Len(worker)
  BY <1>2
<1> QED
  BY <1>2, <1>3 DEF Told

\* A new call was told nothing.
LEMMA CallTold ==
  ASSUME TypeOK, EventInv, Told, NEW g \in Gets, Call(g)
  PROVE  Told'
<1> DEFINE b == [what |-> "listen", get |-> g]
<1>1. /\ b \in Task /\ b.what = "listen" /\ b.get = g /\ worker' = Append(worker, b)
      /\ called' = called \cup {g} /\ g \notin called /\ UNCHANGED <<events, muted, raised>>
  BY DEF Call, Task, viewVars
<1> HIDE DEF b
<1>2. \A h : Listening(h)' <=> Listening(h) \/ h = g
  BY <1>1, QueueStep
<1>3. \A h \in raised' : h \in called' /\ ~Listening(h)'
  BY <1>1, <1>2 DEF Told
<1>4. /\ Len(worker) \in Nat /\ Len(worker') = Len(worker) + 1
      /\ \A i \in 1..Len(worker) : worker'[i] = worker[i]
      /\ worker'[Len(worker) + 1] = b
  <2>1. worker \in Seq(Task)
    BY DEF TypeOK, Task
  <2> QED
    BY <1>1, <2>1, AppendProperties, LenProperties
<1>5. \A i \in 1..Len(worker') : i \in 1..Len(worker) \/ i = Len(worker) + 1
  BY <1>4
<1>6. \A i \in 1..Len(worker') : worker'[i].what = "remove" => worker'[i].get \in raised'
  BY <1>1, <1>4, <1>5 DEF Told
<1> QED
  BY <1>1, <1>3, <1>6 DEF Told

\* A listener is removed once it was told.
LEMMA RunEventTold ==
  ASSUME TypeOK, Told, NEW g \in Gets, RunEvent(g)
  PROVE  Told'
<1> DEFINE b == [what |-> "remove", get |-> g]
<1>1. /\ b \in Task /\ b.what = "remove" /\ b.get = g
      /\ worker' = worker \/ worker' = Append(worker, b)
      /\ UNCHANGED <<called, raised>> /\ muted' \subseteq muted \cup {g}
      /\ events[g] # <<>> /\ events' = [events EXCEPT ![g] = Tail(events[g])]
  BY DEF RunEvent, Task, viewVars
<1> HIDE DEF b
<1>2. \A h : Listening(h)' <=> Listening(h)
  BY <1>1, QueueStep DEF Listening
<1>3. g \in raised
  BY <1>1 DEF Told
<1>4. \A h \in Gets : events'[h] # <<>> => events[h] # <<>>
  BY <1>1 DEF TypeOK
<1>5. \A h \in Gets : events'[h] # <<>> \/ h \in muted' => h \in raised'
  BY <1>1, <1>3, <1>4 DEF Told
<1>6. CASE worker' = worker
  BY <1>1, <1>2, <1>5, <1>6 DEF Told
<1>7. CASE worker' = Append(worker, b)
  <2>1. worker \in Seq(Task)
    BY DEF TypeOK, Task
  <2>2. /\ Len(worker) \in Nat /\ Len(worker') = Len(worker) + 1
        /\ \A i \in 1..Len(worker) : worker'[i] = worker[i]
        /\ worker'[Len(worker) + 1] = b
    BY <1>1, <1>7, <2>1, AppendProperties, LenProperties
  <2>3. \A i \in 1..Len(worker') : i \in 1..Len(worker) \/ i = Len(worker) + 1
    BY <2>2
  <2>4. \A i \in 1..Len(worker') : worker'[i].what = "remove" => worker'[i].get \in raised'
    BY <1>1, <1>3, <2>2, <2>3 DEF Told
  <2> QED
    BY <1>1, <1>2, <1>5, <2>4 DEF Told
<1> QED
  BY <1>1, <1>6, <1>7

\* A listener that is added may be told at once.
LEMMA AddedTold ==
  ASSUME TypeOK, EventInv, Told, NEW g \in Gets, Take("listen", g),
         NEW gs \in SUBSET {g}, NEW what, Raise(gs, what)
  PROVE  Told'
<1>1. /\ \A h : Listening(h)' => Listening(h)
      /\ Listening(g) /\ ~Listening(g)'
  BY TakeStep DEF EventInv
<1>2. \A h \in gs : h \in called /\ ~Listening(h)'
  BY <1>1 DEF EventInv, UncalledQuiet
<1>3. gs \in SUBSET Gets
  OBVIOUS
<1> QED
  BY <1>1, <1>2, <1>3, TakeTold, RaiseTold

\* Every step keeps Told.
LEMMA ToldStep ==
  ASSUME TypeOK, EventInv, Told, Next
  PROVE  Told'
<1> USE DEF mainVars, viewVars
<1>1. ASSUME NEW g \in Gets, JoinListeners(g) PROVE Told'
  <2>1. Take("listen", g) /\ \E gs \in SUBSET {g} : Raise(gs, view.at)
    BY <1>1 DEF JoinListeners
  <2> QED
    BY <2>1, AddedTold
<1>2. ASSUME NEW g \in Gets, OpenListen(g) PROVE Told'
  <2>1. Take("listen", g) /\ \E gs \in SUBSET {g} : Raise(gs, "cache")
    BY <1>2 DEF OpenListen
  <2> QED
    BY <2>1, AddedTold
<1>3. ASSUME NEW g \in Gets, RemoveListener(g) PROVE Told'
  <2>1. Take("remove", g) /\ UNCHANGED <<called, events, muted, raised>>
    BY <1>3 DEF RemoveListener
  <2>2. \A h : Listening(h)' => Listening(h)
    BY <2>1, TakeStep DEF EventInv
  <2>3. \A i \in 1..Len(worker') : worker'[i].what = "remove" => worker'[i].get \in raised
    BY <2>1, TakeTold
  <2> QED
    BY <2>1, <2>2, <2>3 DEF Told
<1>4. CASE OnlineTimeout
  BY <1>4, OfflineTold DEF OnlineTimeout
<1>5. CASE StreamFails
  <2>1. CASE GoOffline /\ worker' = worker
    BY <2>1, OfflineTold
  <2>2. CASE UNCHANGED <<worker, mainVars, viewVars>>
    BY <2>2, FrameTold
  <2> QED
    BY <1>5, <2>1, <2>2 DEF StreamFails
<1>6. CASE HearSnapshot
  <2>1. CASE Active /\ target.changed
    <3>1. PICK gs \in SUBSET listeners : Raise(gs, view'.at)
      BY <1>6, <2>1 DEF HearSnapshot
    <3>2. worker' = worker
      BY <1>6 DEF HearSnapshot, Hear
    <3> QED
      BY <3>1, <3>2, ListenersTold
  <2>2. CASE ~(Active /\ target.changed)
    BY <1>6, <2>2, FrameTold DEF HearSnapshot, Hear
  <2> QED
    BY <2>1, <2>2
<1>7. CASE HearRejected
  <2>1. CASE ~listened
    BY <1>7, <2>1, FrameTold DEF HearRejected, Hear
  <2>2. CASE listened
    <3>1. Raise(listeners, "error") /\ worker' = worker
      BY <1>7, <2>2 DEF HearRejected, Hear
    <3> QED
      BY <3>1, ListenersTold
  <2> QED
    BY <2>1, <2>2
<1>8. CASE HearAdded \/ HearCurrent \/ HearRemoved
  BY <1>8, FrameTold DEF HearAdded, HearCurrent, HearRemoved, Hear
<1>9. CASE BackoffElapsed \/ IdleTimeout \/ StreamOpens \/ RestartNetwork
  BY <1>9, FrameTold DEF BackoffElapsed, IdleTimeout, StreamOpens, RestartNetwork
<1>10. CASE ServerStep \/ Commit
  BY <1>10, FrameTold DEF ServerStep, ServeWatch, ServeUnwatch, ServeDocuments, ServeSnapshot, Commit
<1> QED
  BY <1>1, <1>2, <1>3, <1>4, <1>5, <1>6, <1>7, <1>8, <1>9, <1>10, CallTold, RunEventTold
  DEF Next, MainStep, WorkerStep, HearStep

-----------------------------------------------------------------------------
\* Refusals

LEMMA EmptyLen == Len(<<>>) = 0 /\ 1..0 = {}
BY EmptySeq

\* Breaks and restarts are not refusals.
LEMMA SpentRejects ==
  ASSUME TypeOK, StreamFails \/ RestartNetwork
  PROVE  spent'.rejects = spent.rejects
<1>1. spent \in Spent
  BY TypeNamed
<1>2. \/ spent' = [spent EXCEPT !.breaks = spent.breaks + 1]
      \/ spent' = [spent EXCEPT !.restarts = spent.restarts + 1]
  BY DEF StreamFails, RestartNetwork
<1> QED
  BY <1>1, <1>2 DEF Spent

\* The answer to a watch: a refusal is counted.
LEMMA WatchServed ==
  ASSUME TypeOK, ServeWatch
  PROVE  /\ requests # <<>> /\ requests[1] = "watch" /\ requests' = Tail(requests)
         /\ UNCHANGED <<worker, mainVars, viewVars, onlineVars, streamVars, data, openedAt>>
         /\ \/ Reply("added", 0) /\ spent' = spent
            \/ /\ Reply("rejected", 0) /\ spent'.rejects = spent.rejects + 1
               /\ server'.on = FALSE
<1>1. requests # <<>> /\ requests[1] = "watch" /\ requests' = Tail(requests)
  BY ServeFacts DEF ServeWatch
<1>2. /\ UNCHANGED <<worker, mainVars, viewVars, onlineVars, streamVars, data, openedAt>>
      /\ \/ Reply("added", 0) /\ spent' = spent
         \/ /\ Reply("rejected", 0) /\ spent' = [spent EXCEPT !.rejects = spent.rejects + 1]
            /\ server' = NoServer
  BY DEF ServeWatch
<1>3. spent' = [spent EXCEPT !.rejects = spent.rejects + 1] => spent'.rejects = spent.rejects + 1
  BY TypeNamed DEF Spent
<1>4. NoServer.on = FALSE
  BY DEF NoServer
<1> QED
  BY <1>1, <1>2, <1>3, <1>4

\* What is on its way is left alone, but for requests.
LEMMA Quiet ==
  ASSUME TypeOK, Next
  PROVE  \/ HearStep \/ ServerStep
         \/ responses' = <<>> /\ requests' = <<>> /\ spent'.rejects = spent.rejects
              /\ UNCHANGED <<data, openedAt>> /\ stream' # "open"
         \/ UNCHANGED <<responses, server, spent>>
<1>1. CASE IdleTimeout \/ StreamFails \/ RestartNetwork
  <2>1. responses' = <<>> /\ requests' = <<>> /\ UNCHANGED <<data, openedAt>> /\ stream' # "open"
    BY <1>1 DEF IdleTimeout, StreamFails, RestartNetwork, DropWire, worldVars
  <2>2. spent'.rejects = spent.rejects
    BY <1>1, SpentRejects DEF IdleTimeout, worldVars
  <2> QED
    BY <2>1, <2>2
<1>2. CASE OnlineTimeout \/ BackoffElapsed \/ StreamOpens \/ Commit
  BY <1>2 DEF OnlineTimeout, BackoffElapsed, StreamOpens, Commit, wireVars, worldVars
<1>3. ASSUME NEW g \in Gets, Call(g) \/ RunEvent(g) \/ JoinListeners(g) \/ OpenListen(g) \/ RemoveListener(g)
      PROVE  UNCHANGED <<responses, server, spent>>
  BY <1>3 DEF Call, RunEvent, JoinListeners, OpenListen, RemoveListener, wireVars, worldVars
<1> QED
  BY <1>1, <1>2, <1>3 DEF Next, MainStep, WorkerStep

\* Every step of the stream hears one message.
LEMMA HearWhat ==
  ASSUME HearStep
  PROVE  \E what \in {"added", "current", "snapshot", "removed", "rejected"} : Hear(what)
BY DEF HearStep, HearAdded, HearCurrent, HearSnapshot, HearRemoved, HearRejected

\* Refusals on their way are no more than those made.
LEMMA RejectedStep ==
  ASSUME TypeOK, RejectedOnce, Next
  PROVE  RejectedOnce'
<1>r. spent.rejects \in Nat
  BY WireFacts
<1>1. CASE HearStep
  <2>1. PICK what : Hear(what)
    BY <1>1, HearWhat
  <2>2. /\ \A i \in 1..Len(responses') : responses'[i] = responses[i + 1] /\ i + 1 \in 1..Len(responses)
        /\ spent' = spent
    BY <2>1, HearFacts
  <2>3. \A i, j \in 1..Len(responses') : i + 1 = j + 1 => i = j
    BY <2>1, HearFacts
  <2> QED
    BY <2>2, <2>3 DEF RejectedOnce, NoneRejected
<1>2. ASSUME NEW what \in {"added", "current", "snapshot", "removed"}, NEW docs \in Nat, Reply(what, docs),
             spent' = spent
      PROVE  RejectedOnce'
  <2>1. /\ \A i \in 1..Len(responses) : responses'[i] = responses[i]
        /\ \A i \in 1..Len(responses') : i \in 1..Len(responses) \/ i = Len(responses) + 1
        /\ responses'[Len(responses) + 1].what = what
    BY <1>2, ReplyFacts
  <2>2. \A i \in 1..Len(responses') : responses'[i].what = "rejected" =>
          i \in 1..Len(responses) /\ responses[i].what = "rejected"
    BY <2>1
  <2> QED
    BY <1>2, <2>2 DEF RejectedOnce, NoneRejected
<1>3. CASE ServeWatch
  <2>1. CASE Reply("added", 0) /\ spent' = spent
    BY <1>2, <2>1
  <2>2. CASE Reply("rejected", 0) /\ spent'.rejects = spent.rejects + 1
    <3>1. /\ \A i \in 1..Len(responses) : responses'[i] = responses[i]
          /\ \A i \in 1..Len(responses') : i \in 1..Len(responses) \/ i = Len(responses) + 1
      BY <2>2, ReplyFacts
    <3>2. spent'.rejects # 0 /\ (spent'.rejects = 1 => spent.rejects = 0)
      BY <1>r, <2>2
    <3> QED
      BY <3>1, <3>2 DEF RejectedOnce, NoneRejected
  <2> QED
    BY <1>3, <2>1, <2>2, WatchServed
<1>4. CASE ServeUnwatch \/ ServeDocuments \/ ServeSnapshot
  <2>1. data \in Nat
    BY DEF TypeOK
  <2> QED
    BY <1>2, <1>4, <2>1 DEF ServeUnwatch, ServeDocuments, ServeSnapshot, worldVars
<1>5. CASE responses' = <<>> /\ spent'.rejects = spent.rejects
  <2>1. \A i \in 1..Len(responses') : FALSE
    BY <1>5, EmptyLen
  <2> QED
    BY <2>1 DEF RejectedOnce, NoneRejected
<1>6. CASE UNCHANGED <<responses, spent>>
  BY <1>6 DEF RejectedOnce, NoneRejected
<1> QED
  BY <1>1, <1>3, <1>4, <1>5, <1>6, Quiet DEF ServerStep

-----------------------------------------------------------------------------
\* Old documents

\* Documents from before the listen stay followed by an answer: those
\* of the server are new, and a listen sends a request.
LEMMA OldStep ==
  ASSUME TypeOK, Closed, OldInv, Next
  PROVE  OldInv'
<1>d. data \in Nat /\ openedAt \in Nat /\ openedAt <= data
  BY DEF TypeOK, OldInv
<1>1. CASE HearStep
  <2>1. PICK what : Hear(what)
    BY <1>1, HearWhat
  <2>2. /\ \A i \in 1..Len(responses') : responses'[i] = responses[i + 1] /\ i + 1 \in 1..Len(responses)
        /\ Len(responses') = Len(responses) - 1 /\ Len(responses') \in Nat
        /\ UNCHANGED <<requests, data, openedAt>>
    BY <2>1, HearFacts
  <2>3. ASSUME NEW i \in 1..Len(responses'), responses'[i].what = "current", responses'[i].docs < openedAt,
               requests = <<>>
        PROVE  \E j \in 1..Len(responses') : i < j /\ responses'[j].what \in Answers
    <3>1. PICK j \in 1..Len(responses) : i + 1 < j /\ responses[j].what \in Answers
      BY <2>2, <2>3 DEF OldInv, OldIsFollowed
    <3>2. j - 1 \in 1..Len(responses') /\ i < j - 1 /\ (j - 1) + 1 = j
      BY <2>2, <3>1
    <3>3. responses'[j - 1].what \in Answers
      BY <2>2, <3>1, <3>2
    <3> QED
      BY <3>2, <3>3
  <2> QED
    BY <1>d, <2>2, <2>3 DEF OldInv, OldIsFollowed
<1>2. ASSUME NEW what \in {"added", "current", "snapshot", "removed", "rejected"}, NEW docs \in Nat,
             Reply(what, docs), UNCHANGED <<data, openedAt>>,
             what \in Answers \/ UNCHANGED requests, what = "current" => docs = data
      PROVE  OldInv'
  <2>1. /\ \A i \in 1..Len(responses) : responses'[i] = responses[i] /\ i \in 1..Len(responses')
        /\ \A i \in 1..Len(responses') : i \in 1..Len(responses) \/ i = Len(responses) + 1
        /\ responses'[Len(responses) + 1].what = what /\ responses'[Len(responses) + 1].docs = docs
        /\ Len(responses) \in Nat /\ Len(responses') = Len(responses) + 1
    BY <1>2, ReplyFacts
  <2>2. ASSUME NEW i \in 1..Len(responses'), responses'[i].what = "current", responses'[i].docs < openedAt,
               requests' = <<>>
        PROVE  \E j \in 1..Len(responses') : i < j /\ responses'[j].what \in Answers
    <3>1. i \in 1..Len(responses)
      <4>1. i # Len(responses) + 1
        BY <1>d, <1>2, <2>1, <2>2
      <4> QED
        BY <2>1, <4>1
    <3>2. responses[i].what = "current" /\ responses[i].docs < openedAt
      BY <2>1, <2>2, <3>1
    <3>3. CASE what \in Answers
      <4>1. Len(responses) + 1 \in 1..Len(responses') /\ i < Len(responses) + 1
        BY <2>1, <3>1
      <4> QED
        BY <2>1, <3>3, <4>1
    <3>4. CASE UNCHANGED requests
      <4>1. PICK j \in 1..Len(responses) : i < j /\ responses[j].what \in Answers
        BY <2>2, <3>1, <3>2, <3>4 DEF OldInv, OldIsFollowed
      <4> QED
        BY <2>1, <4>1
    <3> QED
      BY <1>2, <3>3, <3>4
  <2> QED
    BY <1>d, <1>2, <2>2 DEF OldInv, OldIsFollowed
<1>3. CASE ServerStep
  <2>1. CASE ServeWatch
    <3>1. \/ Reply("added", 0)
          \/ Reply("rejected", 0)
      BY <2>1, WatchServed
    <3>2. UNCHANGED <<data, openedAt>>
      BY <2>1, WatchServed
    <3> QED
      BY <1>2, <3>1, <3>2 DEF Answers
  <2>2. CASE ServeUnwatch
    BY <1>2, <2>2 DEF ServeUnwatch, worldVars, Answers
  <2>3. CASE ServeDocuments
    BY <1>d, <1>2, <2>3 DEF ServeDocuments, worldVars
  <2>4. CASE ServeSnapshot
    BY <1>2, <2>4 DEF ServeSnapshot, worldVars
  <2> QED
    BY <1>3, <2>1, <2>2, <2>3, <2>4 DEF ServerStep
<1>4. CASE responses' = <<>> /\ UNCHANGED <<data, openedAt>>
  <2>1. \A i \in 1..Len(responses') : FALSE
    BY <1>4, EmptyLen
  <2> QED
    BY <1>4, <2>1 DEF OldInv, OldIsFollowed
<1>5. ASSUME UNCHANGED responses, requests' = requests \/ requests' # <<>>, openedAt' = openedAt,
             data' \in {data, data + 1}
      PROVE  OldInv'
  BY <1>d, <1>5 DEF OldInv, OldIsFollowed
<1>6. ASSUME NEW what \in {"watch", "unwatch"}, SendRequest(what), UNCHANGED <<responses, data, openedAt>>
      PROVE  OldInv'
  BY <1>5, <1>6, SendFacts
<1>7. ASSUME NEW g \in Gets, OpenListen(g) PROVE OldInv'
  <2>1. ListenToTarget /\ UNCHANGED <<responses, data>> /\ openedAt' = data
    BY <1>7 DEF OpenListen
  <2>2. CASE stream = "open"
    <3>1. SendRequest("watch")
      BY <2>1, <2>2 DEF ListenToTarget, Started
    <3>2. requests' # <<>>
      BY <2>1, <3>1, SendFacts
    <3> QED
      BY <1>d, <2>1, <3>2 DEF OldInv, OldIsFollowed
  <2>3. CASE stream # "open"
    <3>1. responses' = <<>>
      BY <2>1, <2>3 DEF Closed
    <3>2. \A i \in 1..Len(responses') : FALSE
      BY <3>1, EmptyLen
    <3> QED
      BY <1>d, <2>1, <3>2 DEF OldInv, OldIsFollowed
  <2> QED
    BY <2>2, <2>3
<1>8. ASSUME NEW g \in Gets, RemoveListener(g) PROVE OldInv'
  <2>1. SendRequest("unwatch") \/ UNCHANGED requests
    BY <1>8 DEF RemoveListener
  <2>2. UNCHANGED <<responses, data, openedAt>>
    BY <1>8 DEF RemoveListener, worldVars
  <2> QED
    BY <1>5, <1>6, <2>1, <2>2
<1>9. CASE StreamOpens
  <2>1. SendRequest("watch") \/ UNCHANGED requests
    BY <1>9 DEF StreamOpens
  <2>2. UNCHANGED <<responses, data, openedAt>>
    BY <1>9 DEF StreamOpens, worldVars
  <2> QED
    BY <1>5, <1>6, <2>1, <2>2
<1>10. CASE OnlineTimeout \/ BackoffElapsed \/ Commit
  BY <1>5, <1>10 DEF OnlineTimeout, BackoffElapsed, Commit, wireVars, worldVars
<1>11. CASE IdleTimeout \/ StreamFails \/ RestartNetwork
  BY <1>4, <1>11 DEF IdleTimeout, StreamFails, RestartNetwork, DropWire, worldVars
<1>12. ASSUME NEW g \in Gets, Call(g) \/ RunEvent(g) \/ JoinListeners(g) PROVE OldInv'
  BY <1>5, <1>12 DEF Call, RunEvent, JoinListeners, wireVars, worldVars
<1> QED
  BY <1>1, <1>3, <1>7, <1>8, <1>9, <1>10, <1>11, <1>12 DEF Next, MainStep, WorkerStep

-----------------------------------------------------------------------------
\* The turns of watches and unwatches

\* A message is heard.
LEMMA TurnsHear ==
  ASSUME TypeOK, Turns, NEW what, Hear(what), listened' = listened
  PROVE  Turns'
<1>1. /\ Len(responses) >= 1 /\ Len(responses) \in Nat
      /\ Len(responses') = Len(responses) - 1 /\ Len(responses') \in Nat
      /\ \A i \in 1..Len(responses') : responses'[i] = responses[i + 1] /\ i + 1 \in 1..Len(responses)
      /\ (responses' = <<>> <=> Len(responses') = 0) /\ (responses = <<>> <=> Len(responses) = 0)
      /\ UNCHANGED <<requests, server, listened>>
  BY HearFacts, WireFacts
<1>2. responses' # <<>> =>
        responses # <<>> /\ responses'[Len(responses')] = responses[Len(responses)]
  <2> SUFFICES ASSUME responses' # <<>>
               PROVE  responses # <<>> /\ responses'[Len(responses')] = responses[Len(responses)]
    OBVIOUS
  <2>1. Len(responses') \in 1..Len(responses') /\ Len(responses') + 1 = Len(responses)
    BY <1>1
  <2> QED
    BY <1>1, <2>1
<1>3. ASSUME NEW i \in 1..Len(responses'), NEW j \in 1..Len(responses'), j = i + 1
      PROVE  /\ responses'[i].what = "rejected" => responses'[j].what = "removed"
             /\ responses'[i].what = "removed" => responses'[j].what \in {"added", "rejected"}
  <2>1. /\ responses'[i] = responses[i + 1] /\ i + 1 \in 1..Len(responses)
        /\ responses'[j] = responses[j + 1] /\ j + 1 \in 1..Len(responses) /\ j + 1 = (i + 1) + 1
    BY <1>1, <1>3
  <2> QED
    BY <2>1 DEF Turns
<1>4. UNCHANGED <<requests, server, listened>>
  BY <1>1
<1>5. requests' # <<>> => (requests'[Len(requests')] = "watch" <=> listened')
  BY <1>4 DEF Turns
<1>6. responses' # <<>> =>
        /\ responses'[Len(responses')].what = "rejected" =>
             ~server'.on /\ (requests' # <<>> => requests'[1] = "unwatch")
        /\ responses'[Len(responses')].what = "removed" =>
             ~server'.on /\ (requests' # <<>> => requests'[1] = "watch")
  BY <1>2, <1>4 DEF Turns
<1>7. requests' = <<>> /\ responses' # <<>> =>
        /\ responses'[Len(responses')].what = "rejected" => listened'
        /\ responses'[Len(responses')].what = "removed" => ~listened'
  BY <1>2, <1>4 DEF Turns
<1>8. \A i, j \in 1..Len(requests') : j = i + 1 => requests'[i] # requests'[j]
  BY <1>4 DEF Turns
<1> QED
  BY <1>3, <1>5, <1>6, <1>7, <1>8 DEF Turns

\* The server answers a request.
LEMMA TurnsAnswer ==
  ASSUME TypeOK, Turns, requests # <<>>, requests' = Tail(requests), listened' = listened,
         NEW what \in Answers, Reply(what, 0),
         what = "removed" <=> requests[1] = "unwatch",
         what # "added" => server'.on = FALSE
  PROVE  Turns'
<1>1. /\ Len(requests) \in Nat /\ Len(requests) >= 1 /\ Len(requests') = Len(requests) - 1
      /\ \A i \in 1..Len(requests') : requests'[i] = requests[i + 1] /\ i + 1 \in 1..Len(requests)
      /\ (requests' = <<>> <=> Len(requests') = 0)
  BY ServeFacts
<1>2. /\ Len(responses) \in Nat /\ Len(responses') = Len(responses) + 1
      /\ \A i \in 1..Len(responses) : responses'[i] = responses[i]
      /\ responses'[Len(responses')].what = what
      /\ \A i \in 1..Len(responses') : i \in 1..Len(responses) \/ i = Len(responses) + 1
      /\ (responses = <<>> <=> Len(responses) = 0)
  BY ReplyFacts, WireFacts DEF Answers
<1>3. requests[1] \in {"watch", "unwatch"} /\ \A i \in 1..Len(requests) : requests[i] \in {"watch", "unwatch"}
  BY <1>1, WireFacts
<1>4. ASSUME NEW i \in 1..Len(requests'), NEW j \in 1..Len(requests'), j = i + 1
      PROVE  requests'[i] # requests'[j]
  <2>1. /\ requests'[i] = requests[i + 1] /\ i + 1 \in 1..Len(requests)
        /\ requests'[j] = requests[j + 1] /\ j + 1 \in 1..Len(requests) /\ j + 1 = (i + 1) + 1
    BY <1>1, <1>4
  <2> QED
    BY <2>1 DEF Turns
<1>5. ASSUME NEW i \in 1..Len(responses'), NEW j \in 1..Len(responses'), j = i + 1
      PROVE  /\ responses'[i].what = "rejected" => responses'[j].what = "removed"
             /\ responses'[i].what = "removed" => responses'[j].what \in {"added", "rejected"}
  <2>1. CASE j \in 1..Len(responses)
    <3>1. i \in 1..Len(responses)
      BY <1>2, <1>5, <2>1
    <3> QED
      BY <1>2, <1>5, <2>1, <3>1 DEF Turns
  <2>2. CASE j = Len(responses) + 1
    <3>1. i = Len(responses) /\ i \in 1..Len(responses) /\ responses # <<>>
      BY <1>2, <1>5, <2>2
    <3>2. /\ responses'[i] = responses[Len(responses)]
          /\ responses'[j].what = what
      BY <1>2, <2>2, <3>1
    <3>3. /\ responses[Len(responses)].what = "rejected" => requests[1] = "unwatch"
          /\ responses[Len(responses)].what = "removed" => requests[1] = "watch"
      BY <3>1 DEF Turns
    <3> QED
      BY <1>3, <3>2, <3>3 DEF Answers
  <2> QED
    BY <1>2, <2>1, <2>2
<1>6. requests' # <<>> => /\ requests'[1] = requests[2] /\ requests[1] # requests[2]
                          /\ requests[2] \in {"watch", "unwatch"}
                          /\ requests'[Len(requests')] = requests[Len(requests)]
  <2> SUFFICES ASSUME requests' # <<>>
               PROVE  /\ requests'[1] = requests[2] /\ requests[1] # requests[2]
                      /\ requests[2] \in {"watch", "unwatch"}
                      /\ requests'[Len(requests')] = requests[Len(requests)]
    OBVIOUS
  <2>1. /\ 1 \in 1..Len(requests') /\ 1 + 1 = 2 /\ 1 \in 1..Len(requests) /\ 2 \in 1..Len(requests)
        /\ Len(requests') \in 1..Len(requests') /\ Len(requests') + 1 = Len(requests)
    BY <1>1
  <2>2. requests'[1] = requests[1 + 1] /\ requests'[Len(requests')] = requests[Len(requests') + 1]
    BY <1>1, <2>1
  <2>3. requests[1] # requests[2]
    BY <2>1 DEF Turns
  <2> QED
    BY <1>3, <2>1, <2>2, <2>3
<1>7. requests' = <<>> => requests[1] = requests[Len(requests)]
  BY <1>1
<1>8. /\ what = "rejected" => server'.on = FALSE /\ (requests' # <<>> => requests'[1] = "unwatch")
      /\ what = "removed" => server'.on = FALSE /\ (requests' # <<>> => requests'[1] = "watch")
  BY <1>3, <1>6
<1>9. requests[Len(requests)] = "watch" <=> listened
  BY DEF Turns
<1>10. requests' # <<>> => (requests'[Len(requests')] = "watch" <=> listened')
  BY <1>6, <1>9
<1>11. requests' = <<>> => (what = "rejected" => listened') /\ (what = "removed" => ~listened')
  BY <1>3, <1>7, <1>9
<1> QED
  BY <1>2, <1>4, <1>5, <1>8, <1>10, <1>11 DEF Turns

\* The server sends documents.
LEMMA TurnsDocuments ==
  ASSUME TypeOK, Turns, server.on, UNCHANGED <<requests, listened>>,
         NEW what \in {"current", "snapshot"}, NEW docs \in Nat, Reply(what, docs)
  PROVE  Turns'
<1>1. /\ Len(responses) \in Nat /\ Len(responses') = Len(responses) + 1
      /\ \A i \in 1..Len(responses) : responses'[i] = responses[i]
      /\ responses'[Len(responses')].what = what
      /\ \A i \in 1..Len(responses') : i \in 1..Len(responses) \/ i = Len(responses) + 1
      /\ (responses = <<>> <=> Len(responses) = 0)
  BY ReplyFacts, WireFacts
<1>2. ASSUME NEW i \in 1..Len(responses'), NEW j \in 1..Len(responses'), j = i + 1
      PROVE  /\ responses'[i].what = "rejected" => responses'[j].what = "removed"
             /\ responses'[i].what = "removed" => responses'[j].what \in {"added", "rejected"}
  <2>1. CASE j \in 1..Len(responses)
    <3>1. i \in 1..Len(responses)
      BY <1>1, <1>2, <2>1
    <3> QED
      BY <1>1, <1>2, <2>1, <3>1 DEF Turns
  <2>2. CASE j = Len(responses) + 1
    <3>1. i = Len(responses) /\ i \in 1..Len(responses) /\ responses # <<>>
      BY <1>1, <1>2, <2>2
    <3>2. responses'[i].what \notin {"rejected", "removed"}
      BY <1>1, <3>1 DEF Turns
    <3> QED
      BY <3>2
  <2> QED
    BY <1>1, <2>1, <2>2
<1> QED
  BY <1>1, <1>2 DEF Turns

\* A request is sent.
LEMMA TurnsSend ==
  ASSUME TypeOK, Turns, UNCHANGED <<responses, server>>, NEW what \in {"watch", "unwatch"}, SendRequest(what),
         listened <=> what = "unwatch", listened' <=> what = "watch"
  PROVE  Turns'
<1>1. /\ Len(requests') = Len(requests) + 1 /\ Len(requests) \in Nat
      /\ \A i \in 1..Len(requests) : requests'[i] = requests[i]
      /\ requests'[Len(requests) + 1] = what
      /\ requests' # <<>> /\ (requests = <<>> <=> Len(requests) = 0)
  BY SendFacts, WireFacts
<1>2. \A i \in 1..Len(requests) : requests[i] \in {"watch", "unwatch"}
  BY WireFacts
<1>3. ASSUME NEW i \in 1..Len(requests'), NEW j \in 1..Len(requests'), j = i + 1
      PROVE  requests'[i] # requests'[j]
  <2>1. i \in 1..Len(requests)
    BY <1>1, <1>3
  <2>2. CASE j \in 1..Len(requests)
    BY <1>1, <1>3, <2>1, <2>2 DEF Turns
  <2>3. CASE j = Len(requests) + 1
    <3>1. i = Len(requests) /\ requests # <<>>
      BY <1>1, <1>3, <2>1, <2>3
    <3>2. requests[i] # what
      BY <1>2, <2>1, <3>1 DEF Turns
    <3> QED
      BY <1>1, <2>1, <2>3, <3>2
  <2> QED
    BY <1>1, <2>2, <2>3
<1>4. requests # <<>> => requests'[1] = requests[1]
  BY <1>1
<1>5. requests = <<>> => requests'[1] = what
  BY <1>1
<1>6. responses # <<>> =>
        /\ responses[Len(responses)].what = "rejected" => ~server.on /\ requests'[1] = "unwatch"
        /\ responses[Len(responses)].what = "removed" => ~server.on /\ requests'[1] = "watch"
  BY <1>4, <1>5 DEF Turns
<1>7. \A i, j \in 1..Len(responses) : j = i + 1 =>
       /\ responses[i].what = "rejected" => responses[j].what = "removed"
       /\ responses[i].what = "removed" => responses[j].what \in {"added", "rejected"}
  BY DEF Turns
<1> QED
  BY <1>1, <1>3, <1>6, <1>7 DEF Turns

\* Nothing on its way.
LEMMA TurnsEmpty ==
  ASSUME requests = <<>>, responses = <<>>
  PROVE  Turns
<1>1. \A i \in 1..Len(requests) : FALSE
  BY EmptyLen
<1>2. \A i \in 1..Len(responses) : FALSE
  BY EmptyLen
<1> QED
  BY <1>1, <1>2 DEF Turns

-----------------------------------------------------------------------------
\* The target's fields

\* A target that is forgotten.
LEMMA NoTargetIs == NoTarget.outstanding = 0 /\ NoTarget.changed = FALSE
BY DEF NoTarget

\* What a response does to the count of an open stream.
LEMMA HeardTarget ==
  ASSUME TypeOK
  PROVE  /\ HearAdded => /\ target'.outstanding = target.outstanding - 1
                         /\ target'.changed => target.changed /\ target.outstanding # 1
         /\ HearCurrent => /\ target'.outstanding = target.outstanding
                           /\ ~Active => target' = target
                           /\ Active => target'.docs = Head(responses).docs
         /\ HearSnapshot => /\ target'.outstanding = target.outstanding
                            /\ target'.changed => target.changed /\ ~Active
                            /\ target'.docs = target.docs
         /\ HearRemoved => /\ target'.outstanding = target.outstanding - 1
                           /\ target'.changed => target.changed /\ target.outstanding # 1
<1>1. target \in Target /\ target.outstanding \in Int
  BY TypeNamed, WireFacts
<1>2. HearAdded => /\ target'.outstanding = target.outstanding - 1
                   /\ target'.changed => target.changed /\ target.outstanding # 1
  <2> SUFFICES ASSUME HearAdded
               PROVE  /\ target'.outstanding = target.outstanding - 1
                      /\ target'.changed => target.changed /\ target.outstanding # 1
    OBVIOUS
  <2>1. target' = [target EXCEPT !.outstanding = target.outstanding - 1,
                                 !.changed = target.changed /\ target.outstanding # 1]
    BY DEF HearAdded
  <2> QED
    BY <1>1, <2>1 DEF Target
<1>3. HearCurrent => /\ target'.outstanding = target.outstanding
                     /\ ~Active => target' = target
                     /\ Active => target'.docs = Head(responses).docs
  <2> SUFFICES ASSUME HearCurrent
               PROVE  /\ target'.outstanding = target.outstanding
                      /\ ~Active => target' = target
                      /\ Active => target'.docs = Head(responses).docs
    OBVIOUS
  <2>1. CASE Active
    <3>1. target' = [target EXCEPT !.current = TRUE, !.changed = TRUE, !.docs = Head(responses).docs]
      BY <2>1 DEF HearCurrent
    <3> QED
      BY <1>1, <2>1, <3>1 DEF Target
  <2>2. CASE ~Active
    BY <2>2 DEF HearCurrent
  <2> QED
    BY <2>1, <2>2
<1>4. HearSnapshot => /\ target'.outstanding = target.outstanding
                      /\ target'.changed => target.changed /\ ~Active
                      /\ target'.docs = target.docs
  <2> SUFFICES ASSUME HearSnapshot
               PROVE  /\ target'.outstanding = target.outstanding
                      /\ target'.changed => target.changed /\ ~Active
                      /\ target'.docs = target.docs
    OBVIOUS
  <2>1. CASE Active /\ target.changed
    <3>1. target' = [target EXCEPT !.changed = FALSE]
      BY <2>1 DEF HearSnapshot
    <3> QED
      BY <1>1, <2>1, <3>1 DEF Target
  <2>2. CASE ~(Active /\ target.changed)
    BY <2>2 DEF HearSnapshot
  <2> QED
    BY <2>1, <2>2
<1>5. HearRemoved => /\ target'.outstanding = target.outstanding - 1
                     /\ target'.changed => target.changed /\ target.outstanding # 1
  <2> SUFFICES ASSUME HearRemoved
               PROVE  /\ target'.outstanding = target.outstanding - 1
                      /\ target'.changed => target.changed /\ target.outstanding # 1
    OBVIOUS
  <2>1. CASE target.outstanding = 1
    BY <2>1, NoTargetIs DEF HearRemoved
  <2>2. CASE target.outstanding # 1
    <3>1. target' = [target EXCEPT !.outstanding = target.outstanding - 1]
      BY <2>2 DEF HearRemoved
    <3> QED
      BY <1>1, <2>2, <3>1 DEF Target
  <2> QED
    BY <2>1, <2>2
<1> QED
  BY <1>2, <1>3, <1>4, <1>5

\* What the server does to what is awaited.
LEMMA ServedAwaited ==
  ASSUME TypeOK, ServerStep
  PROVE  /\ Awaited' = Awaited
         /\ UNCHANGED <<mainVars, viewVars, onlineVars, streamVars>>
<1>1. Awaited = Len(requests) + Cardinality(AnswersIn(responses))
  BY DEF Awaited, AnswersIn, Answers
<1>2. Awaited' = Len(requests') + Cardinality(AnswersIn(responses'))
  BY DEF Awaited, AnswersIn, Answers
<1>3. Cardinality(AnswersIn(responses)) \in Nat /\ Len(requests) \in Nat
  BY WireFacts
<1>4. CASE ServeWatch \/ ServeUnwatch
  <2>1. requests # <<>> /\ requests' = Tail(requests)
    BY <1>4 DEF ServeWatch, ServeUnwatch
  <2>2. Len(requests') = Len(requests) - 1
    BY <2>1, ServeFacts
  <2>3. \E what \in Answers : Reply(what, 0)
    BY <1>4 DEF ServeWatch, ServeUnwatch, Answers
  <2>4. Cardinality(AnswersIn(responses')) = Cardinality(AnswersIn(responses)) + 1
    BY <2>3, ReplyFacts DEF Answers
  <2>5. UNCHANGED <<mainVars, viewVars, onlineVars, streamVars>>
    BY <1>4 DEF ServeWatch, ServeUnwatch
  <2> QED
    BY <1>1, <1>2, <1>3, <2>2, <2>4, <2>5
<1>5. CASE ServeDocuments \/ ServeSnapshot
  <2>1. \E what \in {"current", "snapshot"}, docs \in Nat : Reply(what, docs)
    BY <1>5 DEF ServeDocuments, ServeSnapshot, TypeOK
  <2>2. Cardinality(AnswersIn(responses')) = Cardinality(AnswersIn(responses))
    BY <1>3, <2>1, ReplyFacts DEF Answers
  <2>3. UNCHANGED <<requests, mainVars, viewVars, onlineVars, streamVars>>
    BY <1>5 DEF ServeDocuments, ServeSnapshot
  <2> QED
    BY <1>1, <1>2, <2>2, <2>3
<1> QED
  BY <1>4, <1>5 DEF ServerStep

\* What the server does to the turns.
LEMMA ServedTurns ==
  ASSUME TypeOK, Turns, ServerStep
  PROVE  Turns'
<1>1. listened' = listened
  BY ServedAwaited DEF streamVars
<1>2. CASE ServeWatch
  <2>1. requests # <<>> /\ requests[1] = "watch" /\ requests' = Tail(requests)
    BY <1>2, WatchServed
  <2>2. CASE Reply("added", 0)
    BY <1>1, <2>1, <2>2, TurnsAnswer DEF Answers
  <2>3. CASE Reply("rejected", 0) /\ server'.on = FALSE
    BY <1>1, <2>1, <2>3, TurnsAnswer DEF Answers
  <2> QED
    BY <1>2, <2>2, <2>3, WatchServed
<1>3. CASE ServeUnwatch
  <2>1. requests # <<>> /\ requests[1] = "unwatch" /\ requests' = Tail(requests)
    BY <1>3, ServeFacts DEF ServeUnwatch
  <2>2. Reply("removed", 0) /\ server'.on = FALSE
    BY <1>3 DEF ServeUnwatch, NoServer
  <2> QED
    BY <1>1, <2>1, <2>2, TurnsAnswer DEF Answers
<1>4. CASE ServeDocuments
  <2>1. server.on /\ requests' = requests /\ Reply("current", data) /\ data \in Nat
    BY <1>4 DEF ServeDocuments, TypeOK
  <2> QED
    BY <1>1, <2>1, TurnsDocuments
<1>5. CASE ServeSnapshot
  <2>1. server.on /\ requests' = requests /\ Reply("snapshot", 0)
    BY <1>5 DEF ServeSnapshot
  <2> QED
    BY <1>1, <2>1, TurnsDocuments
<1> QED
  BY <1>2, <1>3, <1>4, <1>5 DEF ServerStep

-----------------------------------------------------------------------------
\* The count

\* A stream that stays open: a message, the server, a request or neither.
LEMMA OpenSteps ==
  ASSUME TypeOK, StreamAsNeeded, Next, stream = "open", stream' = "open"
  PROVE  \/ HearStep \/ ServerStep
         \/ UNCHANGED <<target, requests, responses, server, listened, spent>>
         \/ \E what \in {"watch", "unwatch"} :
              /\ SendRequest(what) /\ UNCHANGED <<responses, server, spent>>
              /\ listened <=> what = "unwatch"
              /\ listened' <=> what = "watch"
<1>1. CASE IdleTimeout \/ StreamFails \/ RestartNetwork \/ StreamOpens \/ BackoffElapsed
  BY <1>1 DEF IdleTimeout, StreamFails, RestartNetwork, StreamOpens, BackoffElapsed
<1>2. CASE OnlineTimeout \/ Commit
  BY <1>2 DEF OnlineTimeout, Commit, streamVars, wireVars, worldVars
<1>3. ASSUME NEW g \in Gets, Call(g) \/ RunEvent(g) \/ JoinListeners(g)
      PROVE  UNCHANGED <<target, requests, responses, server, listened, spent>>
  BY <1>3 DEF Call, RunEvent, JoinListeners, streamVars, wireVars, worldVars
<1>4. ASSUME NEW g \in Gets, OpenListen(g)
      PROVE  /\ SendRequest("watch") /\ UNCHANGED <<responses, server, spent>>
             /\ ~listened /\ listened'
  <2>1. ListenToTarget /\ UNCHANGED <<responses, server, spent>> /\ ~listened
    BY <1>4 DEF OpenListen, StreamAsNeeded
  <2> QED
    BY <2>1 DEF ListenToTarget, Started
<1>5. ASSUME NEW g \in Gets, RemoveListener(g)
      PROVE  \/ UNCHANGED <<target, requests, responses, server, listened, spent>>
             \/ /\ SendRequest("unwatch") /\ UNCHANGED <<responses, server, spent>>
                /\ listened /\ ~listened'
  <2>1. UNCHANGED <<responses, server, spent>>
    BY <1>5 DEF RemoveListener, worldVars
  <2>2. CASE listeners = {g}
    BY <1>5, <2>1, <2>2 DEF RemoveListener, StreamAsNeeded
  <2>3. CASE listeners # {g}
    BY <1>5, <2>1, <2>3 DEF RemoveListener
  <2> QED
    BY <2>2, <2>3
<1> QED
  BY <1>1, <1>2, <1>3, <1>4, <1>5 DEF Next, MainStep, WorkerStep

\* A stream that opens has a count that is right.
LEMMA OpensCounted ==
  ASSUME TypeOK, Closed, Next, stream # "open", stream' = "open"
  PROVE  Counted'
<1>1. StreamOpens
  <2>1. ASSUME NEW g \in Gets, OpenListen(g) PROVE FALSE
    <3>1. ListenToTarget
      BY <2>1 DEF OpenListen
    <3> QED
      BY <3>1 DEF ListenToTarget
  <2>2. ASSUME NEW g \in Gets, Call(g) \/ RunEvent(g) \/ JoinListeners(g) \/ RemoveListener(g) PROVE FALSE
    BY <2>2 DEF Call, RunEvent, JoinListeners, RemoveListener, streamVars
  <2>3. CASE HearStep
    BY <2>3 DEF HearStep, HearAdded, HearCurrent, HearSnapshot, HearRemoved, HearRejected, Hear
  <2>4. CASE ServerStep
    BY <2>4 DEF ServerStep, ServeWatch, ServeUnwatch, ServeDocuments, ServeSnapshot, streamVars
  <2>5. CASE OnlineTimeout \/ BackoffElapsed \/ IdleTimeout \/ StreamFails \/ RestartNetwork \/ Commit
    BY <2>5 DEF OnlineTimeout, BackoffElapsed, IdleTimeout, StreamFails, RestartNetwork, Commit, streamVars
  <2> QED
    BY <2>1, <2>2, <2>3, <2>4, <2>5 DEF Next, MainStep, WorkerStep
<1>2. /\ target = NoTarget /\ requests = <<>> /\ responses = <<>>
      /\ UNCHANGED <<responses, server, listened>>
      /\ IF listened THEN SendRequest("watch") ELSE UNCHANGED <<target, requests>>
  BY <1>1 DEF StreamOpens, Closed
<1>3. Awaited = 0 /\ target.outstanding = 0
  <2>1. responses \in Seq(Message)
    BY DEF TypeOK
  <2>2. Len(requests) = 0 /\ AnswersIn(responses) = {}
    <3>1. \A i \in 1..Len(responses) : FALSE
      BY <1>2, EmptyLen
    <3>2. DOMAIN responses = 1..Len(responses)
      BY <2>1, MessageFacts
    <3> QED
      BY <1>2, <3>1, <3>2, EmptyLen DEF AnswersIn
  <2>3. Cardinality(AnswersIn(responses)) = 0
    BY <2>2, FS_EmptySet
  <2> QED
    BY <1>2, <2>2, <2>3, NoTargetIs, AwaitedIs
<1>4. CASE ~listened
  <2>1. UNCHANGED <<target, requests, responses>>
    BY <1>2, <1>4
  <2>2. Awaited' = Awaited
    BY <2>1 DEF Awaited
  <2>3. Turns'
    BY <1>2, <2>1, TurnsEmpty DEF Turns
  <2> QED
    BY <1>3, <2>1, <2>2, <2>3 DEF Counted
<1>5. CASE listened
  <2>1. SendRequest("watch")
    BY <1>2, <1>5
  <2>2. /\ Len(requests') = Len(requests) + 1 /\ requests'[Len(requests) + 1] = "watch" /\ requests' # <<>>
        /\ Awaited' = Awaited + 1 /\ target'.outstanding = target.outstanding + 1
    BY <1>2, <2>1, SendFacts
  <2>3. Len(requests) = 0
    BY <1>2, EmptyLen
  <2>4. Len(requests') = 1 /\ requests'[1] = "watch"
    BY <2>2, <2>3
  <2>5. \A i, j \in 1..Len(requests') : j = i + 1 => requests'[i] # requests'[j]
    BY <2>4
  <2>6. responses' = <<>> /\ listened'
    BY <1>2, <1>5
  <2>7. \A i \in 1..Len(responses') : FALSE
    BY <2>6, EmptyLen
  <2>8. Turns'
    BY <2>2, <2>4, <2>5, <2>6, <2>7 DEF Turns
  <2> QED
    BY <1>3, <2>2, <2>8 DEF Counted
<1> QED
  BY <1>4, <1>5

LEMMA AwaitedSame ==
  ASSUME UNCHANGED <<requests, responses>>
  PROVE  Awaited' = Awaited
BY DEF Awaited

\* A refusal that is heard.
LEMMA RefusalHeard ==
  ASSUME TypeOK, RejectedOnce, Hear("rejected"), spent.rejects <= 1
  PROVE  spent'.rejects = 1 /\ NoneRejected'
<1>1. /\ Len(responses) >= 1 /\ responses[1].what = "rejected" /\ spent' = spent
      /\ \A i \in 1..Len(responses') : responses'[i] = responses[i + 1] /\ i + 1 \in 1..Len(responses)
      /\ 1 \in 1..Len(responses)
  BY HearFacts, WireFacts
<1>2. spent.rejects # 0
  BY <1>1 DEF RejectedOnce, NoneRejected
<1>3. spent.rejects = 1
  BY <1>2, WireFacts
<1>4. ASSUME NEW i \in 1..Len(responses'), responses'[i].what = "rejected" PROVE FALSE
  <2>1. i + 1 = 1
    BY <1>1, <1>3, <1>4 DEF RejectedOnce
  <2> QED
    BY <2>1
<1> QED
  BY <1>1, <1>3, <1>4 DEF NoneRejected

\* It puts the count wrong when requests are on their way.
LEMMA RejectedMiscounts ==
  ASSUME TypeOK, RejectedOnce, Counted, HearRejected, listened, spent.rejects <= 1
  PROVE  Counted' \/ Miscounted'
<1>1. /\ Hear("rejected") /\ ~listened' /\ target' = NoTarget /\ view' = NoView /\ listeners' = {}
  BY DEF HearRejected
<1>2. /\ Len(responses) >= 1 /\ Len(responses) \in Nat /\ responses[1].what = "rejected"
      /\ Len(responses') = Len(responses) - 1
      /\ \A i \in 1..Len(responses') : responses'[i] = responses[i + 1] /\ i + 1 \in 1..Len(responses)
      /\ (responses' = <<>> <=> Len(responses') = 0) /\ responses # <<>>
      /\ UNCHANGED <<requests, server>> /\ online' = "Online"
  BY <1>1, HearFacts, WireFacts
<1>3. /\ Len(requests) \in Nat /\ (requests = <<>> <=> Len(requests) = 0)
      /\ \A i \in 1..Len(requests) : requests[i] \in {"watch", "unwatch"}
  BY WireFacts
<1>4. Untold' /\ ~target'.changed /\ target'.outstanding = 0 /\ Rest' = 0
  <2>1. target'.outstanding = 0 /\ ~target'.changed
    BY <1>1, NoTargetIs
  <2>2. NoView.at = "none"
    BY DEF NoView
  <2>3. view'.at # "server"
    BY <1>1, <2>2
  <2>4. Untold'
    BY <1>1, <1>2, <2>3 DEF Untold
  <2>5. Rest' = 0
    <3>1. Rest' = target'.outstanding - (IF listened' THEN 1 ELSE 0)
      BY DEF Rest
    <3>2. target'.outstanding - (IF listened' THEN 1 ELSE 0) = 0 - 0
      BY <1>1, <2>1
    <3> QED
      BY <3>1, <3>2
  <2> QED
    BY <2>1, <2>4, <2>5
<1>5. NoneRejected'
  BY <1>1, RefusalHeard
<1>6. CASE Len(responses) = 1 /\ requests = <<>>
  <2>1. responses' = <<>> /\ requests' = <<>>
    BY <1>2, <1>6
  <2>2. Turns'
    <3>1. (\A i \in 1..Len(requests') : FALSE) /\ (\A i \in 1..Len(responses') : FALSE)
      BY <2>1, EmptyLen
    <3> QED
      BY <2>1, <3>1 DEF Turns
  <2>3. Awaited' = 0
    <3>1. Awaited' = Awaited - 1
      BY <1>1, HearFacts DEF Answers
    <3>2. Awaited = 1
      <4>1. DOMAIN responses = 1..1
        BY <1>6, MessageFacts DEF TypeOK
      <4>2. \A i : i \in AnswersIn(responses) <=> i = 1
        BY <1>2, <4>1 DEF AnswersIn, Answers
      <4>3. AnswersIn(responses) = {1}
        BY <4>2
      <4>4. Cardinality(AnswersIn(responses)) = 1
        BY <4>3, FS_Singleton
      <4> QED
        BY <1>3, <1>6, <4>4, AwaitedIs
    <3> QED
      BY <3>1, <3>2
  <2> QED
    BY <1>4, <2>2, <2>3 DEF Counted
<1>7. CASE Len(responses) = 1 /\ requests # <<>>
  <2>1. ~server.on /\ requests[1] = "unwatch"
    BY <1>2, <1>7 DEF Counted, Turns
  <2>2. requests[Len(requests)] = "watch"
    BY <1>7 DEF Counted, Turns
  <2>3. Len(requests) >= 2
    BY <1>3, <1>7, <2>1, <2>2
  <2>4. requests[2] = "watch"
    <3>1. 1 \in 1..Len(requests) /\ 2 \in 1..Len(requests) /\ 2 = 1 + 1
      BY <1>3, <2>3
    <3>2. requests[1] # requests[2]
      BY <3>1 DEF Counted, Turns
    <3> QED
      BY <1>3, <2>1, <3>1, <3>2
  <2>5. responses' = <<>>
    BY <1>2, <1>7
  <2>6. UnwatchNext'
    BY <1>2, <2>1, <2>3, <2>4, <2>5 DEF UnwatchNext
  <2> QED
    BY <1>4, <2>6 DEF Miscounted, Behind
<1>8. CASE Len(responses) = 2
  <2>1. responses[2].what = "removed"
    <3>1. 1 \in 1..Len(responses) /\ 2 \in 1..Len(responses) /\ 2 = 1 + 1
      BY <1>8
    <3> QED
      BY <1>2, <3>1 DEF Counted, Turns
  <2>2. ~server.on /\ requests # <<>> /\ requests[1] = "watch"
    BY <1>2, <1>8, <2>1 DEF Counted, Turns
  <2>3. Len(responses') = 1 /\ responses'[1].what = "removed"
    BY <1>2, <1>8, <2>1
  <2>4. UnwatchNext'
    BY <1>2, <2>2, <2>3 DEF UnwatchNext
  <2> QED
    BY <1>4, <2>4 DEF Miscounted, Behind
<1>9. CASE Len(responses) > 2
  <2>1. /\ 1 \in 1..Len(responses) /\ 2 \in 1..Len(responses) /\ 2 = 1 + 1
        /\ 3 \in 1..Len(responses) /\ 3 = 2 + 1
        /\ 1 \in 1..Len(responses') /\ 2 \in 1..Len(responses') /\ Len(responses') >= 2
    BY <1>2, <1>9
  <2>2. responses[2].what = "removed"
    BY <1>2, <2>1 DEF Counted, Turns
  <2>3. responses[3].what \in {"added", "rejected"}
    BY <2>1, <2>2 DEF Counted, Turns
  <2>4. responses'[1] = responses[2] /\ responses'[2] = responses[3]
    BY <1>2, <2>1
  <2>5. responses'[2].what # "rejected"
    BY <1>5, <2>1 DEF NoneRejected
  <2>6. UnwatchNext'
    BY <2>1, <2>2, <2>3, <2>4, <2>5 DEF UnwatchNext
  <2> QED
    BY <1>4, <2>6 DEF Miscounted, Behind
<1> QED
  BY <1>2, <1>6, <1>7, <1>8, <1>9

\* A count that is right stays right, unless a refusal is heard.
LEMMA CountedStep ==
  ASSUME TypeOK, StreamAsNeeded, RejectedOnce, Counted, Next, stream = "open", stream' = "open",
         spent.rejects <= 1
  PROVE  \/ Counted'
         \/ /\ spent'.rejects = 1 /\ NoneRejected'
            /\ target'.outstanding = Awaited' + 1 \/ Miscounted'
<1>1. target.outstanding = Awaited /\ Turns /\ Awaited \in Nat
  BY AwaitedIs DEF Counted
<1>2. ASSUME NEW what, Hear(what), listened' = listened,
             target'.outstanding = target.outstanding - IF what \in Answers THEN 1 ELSE 0
      PROVE  Counted'
  BY <1>1, <1>2, HearFacts, TurnsHear DEF Counted
<1>3. CASE HearAdded
  <2>1. Hear("added") /\ listened' = listened /\ target'.outstanding = target.outstanding - 1
    BY <1>3, HeardTarget DEF HearAdded
  <2> QED
    BY <1>2, <2>1 DEF Answers
<1>4. CASE HearRemoved
  <2>1. Hear("removed") /\ listened' = listened /\ target'.outstanding = target.outstanding - 1
    BY <1>4, HeardTarget DEF HearRemoved
  <2> QED
    BY <1>2, <2>1 DEF Answers
<1>5. CASE HearCurrent
  <2>1. Hear("current") /\ listened' = listened /\ target'.outstanding = target.outstanding
    BY <1>5, HeardTarget DEF HearCurrent
  <2> QED
    BY <1>1, <1>2, <2>1 DEF Answers
<1>6. CASE HearSnapshot
  <2>1. Hear("snapshot") /\ listened' = listened /\ target'.outstanding = target.outstanding
    BY <1>6, HeardTarget DEF HearSnapshot
  <2> QED
    BY <1>1, <1>2, <2>1 DEF Answers
<1>7. CASE HearRejected
  <2>1. Hear("rejected")
    BY <1>7 DEF HearRejected
  <2>2. spent'.rejects = 1 /\ NoneRejected'
    BY <2>1, RefusalHeard
  <2>3. CASE listened
    BY <1>7, <2>2, <2>3, RejectedMiscounts
  <2>4. CASE ~listened
    <3>1. target' = target /\ Awaited' = Awaited - 1
      BY <1>7, <2>1, <2>4, HearFacts DEF HearRejected, Answers
    <3> QED
      BY <1>1, <2>2, <3>1
  <2> QED
    BY <2>3, <2>4
<1>8. CASE ServerStep
  BY <1>1, <1>8, ServedAwaited, ServedTurns DEF Counted, streamVars
<1>9. CASE UNCHANGED <<target, requests, responses, server, listened>>
  BY <1>1, <1>9, AwaitedSame DEF Counted, Turns
<1>10. ASSUME NEW what \in {"watch", "unwatch"}, SendRequest(what), UNCHANGED <<responses, server>>,
              listened <=> what = "unwatch", listened' <=> what = "watch"
       PROVE  Counted'
  BY <1>1, <1>10, SendFacts, TurnsSend DEF Counted
<1> QED
  BY <1>3, <1>4, <1>5, <1>6, <1>7, <1>8, <1>9, <1>10, OpenSteps DEF HearStep

-----------------------------------------------------------------------------
\* After the refusal was heard

\* There is no second refusal.
LEMMA NoOtherRefusal ==
  ASSUME TypeOK, Next, stream' = "open", spent.rejects = 1, NoneRejected, spent'.rejects <= 1
  PROVE  /\ spent'.rejects = 1 /\ NoneRejected'
         /\ ~HearRejected
         /\ ServeWatch => Reply("added", 0)
<1>1. ~Hear("rejected")
  <2> SUFFICES ASSUME Hear("rejected") PROVE FALSE
    OBVIOUS
  <2>1. Len(responses) >= 1 /\ Len(responses) \in Nat /\ responses[1].what = "rejected"
    BY HearFacts, WireFacts
  <2>2. 1 \in 1..Len(responses)
    BY <2>1
  <2> QED
    BY <2>1, <2>2 DEF NoneRejected
<1>2. ~HearRejected
  BY <1>1 DEF HearRejected
<1>3. ASSUME ServeWatch PROVE Reply("added", 0) /\ spent' = spent
  <2>1. ~(spent'.rejects = spent.rejects + 1)
    BY DEF TypeOK
  <2> QED
    BY <1>3, <2>1, WatchServed
<1>4. ASSUME NEW what \in {"added", "current", "snapshot", "removed"}, NEW docs \in Nat, Reply(what, docs)
      PROVE  NoneRejected'
  <2>1. /\ \A i \in 1..Len(responses) : responses'[i] = responses[i]
        /\ \A i \in 1..Len(responses') : i \in 1..Len(responses) \/ i = Len(responses) + 1
        /\ responses'[Len(responses) + 1].what = what
    BY <1>4, ReplyFacts
  <2> QED
    BY <2>1 DEF NoneRejected
<1>5. CASE HearStep
  <2>1. PICK what : Hear(what)
    BY <1>5, HearWhat
  <2>2. /\ \A i \in 1..Len(responses') : responses'[i] = responses[i + 1] /\ i + 1 \in 1..Len(responses)
        /\ spent' = spent
    BY <2>1, HearFacts
  <2> QED
    BY <1>2, <1>3, <2>2 DEF NoneRejected
<1>6. CASE ServerStep
  <2>1. data \in Nat
    BY DEF TypeOK
  <2>2. CASE ServeWatch
    BY <1>2, <1>3, <1>4, <2>2
  <2>3. CASE ServeUnwatch \/ ServeDocuments \/ ServeSnapshot
    <3>1. NoneRejected'
      BY <1>4, <2>1, <2>3 DEF ServeUnwatch, ServeDocuments, ServeSnapshot
    <3>2. spent' = spent
      BY <2>3 DEF ServeUnwatch, ServeDocuments, ServeSnapshot, worldVars
    <3> QED
      BY <1>2, <1>3, <3>1, <3>2
  <2> QED
    BY <1>6, <2>2, <2>3 DEF ServerStep
<1>7. CASE UNCHANGED <<responses, server, spent>>
  BY <1>2, <1>3, <1>7 DEF NoneRejected
<1> QED
  BY <1>5, <1>6, <1>7, Quiet

\* A count that is one too many stays so: the target is not active again.
LEMMA OverStep ==
  ASSUME TypeOK, StreamAsNeeded, Next, stream = "open", stream' = "open",
         spent.rejects = 1, NoneRejected, spent'.rejects <= 1, target.outstanding = Awaited + 1
  PROVE  target'.outstanding = Awaited' + 1
<1>1. Awaited \in Nat /\ ~HearRejected
  BY AwaitedIs, NoOtherRefusal
<1>2. CASE HearAdded
  BY <1>1, <1>2, HeardTarget, HearFacts DEF HearAdded, Answers
<1>3. CASE HearRemoved
  BY <1>1, <1>3, HeardTarget, HearFacts DEF HearRemoved, Answers
<1>4. CASE HearCurrent
  BY <1>1, <1>4, HeardTarget, HearFacts DEF HearCurrent, Answers
<1>5. CASE HearSnapshot
  BY <1>1, <1>5, HeardTarget, HearFacts DEF HearSnapshot, Answers
<1>6. CASE ServerStep
  BY <1>6, ServedAwaited DEF streamVars
<1>7. CASE UNCHANGED <<target, requests, responses>>
  BY <1>7, AwaitedSame
<1>8. ASSUME NEW what \in {"watch", "unwatch"}, SendRequest(what), UNCHANGED responses
      PROVE  target'.outstanding = Awaited' + 1
  BY <1>1, <1>8, SendFacts
<1> QED
  BY <1>1, <1>2, <1>3, <1>4, <1>5, <1>6, <1>7, <1>8, OpenSteps DEF HearStep

\* What counts of the outstanding responses, step by step.
LEMMA RestIs ==
  ASSUME TypeOK
  PROVE  /\ Rest = target.outstanding - (IF listened THEN 1 ELSE 0) /\ Rest \in Int
         /\ Active => Rest = -1
         /\ listened' = listened /\ target'.outstanding = target.outstanding => Rest' = Rest
         /\ listened' = listened /\ target'.outstanding = target.outstanding - 1 => Rest' = Rest - 1
         /\ ~listened /\ listened' /\ target'.outstanding = target.outstanding + 1 => Rest' = Rest
<1>1. target.outstanding \in Int
  BY WireFacts
<1>2. Rest = target.outstanding - (IF listened THEN 1 ELSE 0)
  BY DEF Rest
<1>3. Rest' = target'.outstanding - (IF listened' THEN 1 ELSE 0)
  BY DEF Rest
<1>4. Active <=> target.outstanding = 0 /\ listened
  BY DEF Active
<1> QED
  BY <1>1, <1>2, <1>3, <1>4

\* What the server does to the answers that are next.
LEMMA ServedNext ==
  ASSUME TypeOK, ServerStep, ServeWatch => Reply("added", 0)
  PROVE  (UnwatchNext => UnwatchNext') /\ (WatchNext => WatchNext')
<1>w. /\ Len(responses) \in Nat /\ (responses = <<>> <=> Len(responses) = 0)
      /\ Len(requests) \in Nat /\ (requests = <<>> <=> Len(requests) = 0)
  BY WireFacts
<1>1. ASSUME NEW what \in {"added", "current", "snapshot", "removed"}, NEW docs \in Nat, Reply(what, docs)
      PROVE  /\ Len(responses') = Len(responses) + 1 /\ responses' # <<>>
             /\ Len(responses) >= 1 => responses'[1] = responses[1]
             /\ Len(responses) >= 2 => responses'[2] = responses[2]
             /\ Len(responses) = 0 => responses'[1].what = what
             /\ Len(responses) = 1 => responses'[2].what = what
  <2>1. /\ Len(responses') = Len(responses) + 1 /\ responses' # <<>>
        /\ \A i \in 1..Len(responses) : responses'[i] = responses[i]
        /\ responses'[Len(responses) + 1].what = what
    BY <1>1, ReplyFacts
  <2>2. (Len(responses) >= 1 => 1 \in 1..Len(responses)) /\ (Len(responses) >= 2 => 2 \in 1..Len(responses))
    BY <1>w
  <2>3. Len(responses) = 0 => responses'[1].what = what
    <3>1. SUFFICES ASSUME Len(responses) = 0 PROVE responses'[0 + 1].what = what
      OBVIOUS
    <3> QED
      BY <2>1, <3>1
  <2>4. Len(responses) = 1 => responses'[2].what = what
    <3>1. SUFFICES ASSUME Len(responses) = 1 PROVE responses'[1 + 1].what = what
      OBVIOUS
    <3> QED
      BY <2>1, <3>1
  <2> QED
    BY <2>1, <2>2, <2>3, <2>4
<1>2. CASE ServeWatch
  <2>1. requests[1] = "watch" /\ Reply("added", 0)
    BY <1>2, WatchServed
  <2>2. /\ Len(responses') = Len(responses) + 1 /\ responses' # <<>>
        /\ Len(responses) >= 1 => responses'[1] = responses[1]
        /\ Len(responses) >= 2 => responses'[2] = responses[2]
        /\ Len(responses) = 0 => responses'[1].what = "added"
        /\ Len(responses) = 1 => responses'[2].what = "added"
    BY <1>1, <2>1
  <2> QED
    BY <1>w, <2>1, <2>2 DEF UnwatchNext, WatchNext
<1>3. CASE ServeUnwatch
  <2>1. requests # <<>> /\ requests[1] = "unwatch" /\ requests' = Tail(requests)
        /\ Reply("removed", 0) /\ ~server'.on
    BY <1>3, ServeFacts DEF ServeUnwatch, NoServer
  <2>2. /\ Len(responses') = Len(responses) + 1 /\ responses' # <<>>
        /\ Len(responses) >= 1 => responses'[1] = responses[1]
        /\ Len(responses) >= 2 => responses'[2] = responses[2]
        /\ Len(responses) = 0 => responses'[1].what = "removed"
    BY <1>1, <2>1
  <2>3. Len(requests) >= 2 => requests' # <<>> /\ requests'[1] = requests[2]
    <3>1. /\ Len(requests') = Len(requests) - 1 /\ (requests' = <<>> <=> Len(requests') = 0)
          /\ \A i \in 1..Len(requests') : requests'[i] = requests[i + 1]
      BY <2>1, ServeFacts
    <3>2. Len(requests) >= 2 => 1 \in 1..Len(requests') /\ 1 + 1 = 2
      BY <1>w, <3>1
    <3> QED
      BY <1>w, <3>1, <3>2
  <2> QED
    BY <1>w, <2>1, <2>2, <2>3 DEF UnwatchNext, WatchNext
<1>4. CASE ServeDocuments \/ ServeSnapshot
  <2>1. server.on /\ \E what \in {"current", "snapshot"}, docs \in Nat : Reply(what, docs)
    BY <1>4 DEF ServeDocuments, ServeSnapshot, TypeOK
  <2>2. /\ Len(responses') = Len(responses) + 1 /\ responses' # <<>>
        /\ Len(responses) >= 1 => responses'[1] = responses[1]
        /\ Len(responses) >= 2 => responses'[2] = responses[2]
    BY <1>1, <2>1
  <2> QED
    BY <1>w, <2>1, <2>2 DEF UnwatchNext, WatchNext
<1> QED
  BY <1>2, <1>3, <1>4 DEF ServerStep

\* What a response that is heard does to them.
LEMMA HeardNext ==
  ASSUME TypeOK, NEW what, Hear(what)
  PROVE  /\ UnwatchNext => what = "removed" /\ WatchNext'
         /\ WatchNext => what = "added"
<1>1. /\ Len(responses) >= 1 /\ Len(responses) \in Nat /\ responses # <<>> /\ responses[1].what = what
      /\ Len(responses') = Len(responses) - 1
      /\ \A i \in 1..Len(responses') : responses'[i] = responses[i + 1]
      /\ (responses' = <<>> <=> Len(responses') = 0)
      /\ UNCHANGED <<requests, server>>
  BY HearFacts, WireFacts
<1>2. WatchNext => what = "added"
  BY <1>1 DEF WatchNext
<1>3. ASSUME UnwatchNext PROVE what = "removed" /\ WatchNext'
  <2>1. CASE Len(responses) = 1
    BY <1>1, <1>3, <2>1 DEF UnwatchNext, WatchNext
  <2>2. CASE Len(responses) # 1
    <3>1. Len(responses) >= 2 /\ responses[1].what = "removed" /\ responses[2].what = "added"
      BY <1>1, <1>3, <2>2 DEF UnwatchNext
    <3>2. 1 \in 1..Len(responses') /\ 1 + 1 = 2
      BY <1>1, <3>1
    <3>3. responses'[1] = responses[2] /\ responses' # <<>>
      BY <1>1, <3>1, <3>2
    <3> QED
      BY <1>1, <3>1, <3>3 DEF WatchNext
  <2> QED
    BY <2>1, <2>2
<1> QED
  BY <1>2, <1>3

\* Documents are not counted on a target with requests forgotten: only two
\* answers are awaited, and no documents come between them.
LEMMA MiscountedStep ==
  ASSUME TypeOK, TrackerAgrees, StreamAsNeeded, Told, Next, stream = "open", stream' = "open",
         spent.rejects = 1, NoneRejected, spent'.rejects <= 1, Miscounted
  PROVE  Miscounted'
<1>m. Behind /\ ~target.changed /\ Untold
  BY DEF Miscounted
<1>u. online = "Online" /\ view.at # "server" /\ listeners \cap raised = {}
  BY <1>m DEF Untold
<1>1. ASSUME UNCHANGED <<target, requests, responses, server, listened>> PROVE Behind'
  BY <1>m, <1>1 DEF Behind, Rest, UnwatchNext, WatchNext
<1>2. ASSUME NEW what, Hear(what), UNCHANGED <<view, listeners, raised>> PROVE Untold'
  BY <1>u, <1>2, HearFacts DEF Untold
<1>3. CASE HearAdded
  <2>1. /\ Hear("added") /\ UNCHANGED <<view, listeners, raised, listened>>
        /\ target'.outstanding = target.outstanding - 1 /\ ~target'.changed
    BY <1>3, <1>m, HeardTarget DEF HearAdded, viewVars
  <2>2. Rest' = Rest - 1 /\ Rest \in Int
    BY <2>1, RestIs
  <2>3. Rest = -1 \/ Rest <= -2
    BY <1>m, <2>1, HeardNext DEF Behind
  <2>4. Rest' <= -2
    BY <2>2, <2>3
  <2> QED
    BY <1>2, <2>1, <2>4 DEF Miscounted, Behind
<1>4. CASE HearRemoved
  <2>1. /\ Hear("removed") /\ UNCHANGED <<view, listeners, raised, listened>>
        /\ target'.outstanding = target.outstanding - 1 /\ ~target'.changed
    BY <1>4, <1>m, HeardTarget DEF HearRemoved, viewVars
  <2>2. Rest' = Rest - 1 /\ Rest \in Int
    BY <2>1, RestIs
  <2>3. (Rest = 0 /\ WatchNext') \/ Rest <= -2
    BY <1>m, <2>1, HeardNext DEF Behind
  <2>4. (Rest' = -1 /\ WatchNext') \/ Rest' <= -2
    BY <2>2, <2>3
  <2> QED
    BY <1>2, <2>1, <2>4 DEF Miscounted, Behind
<1>5. CASE HearCurrent \/ HearSnapshot
  <2>1. PICK what \in {"current", "snapshot"} : Hear(what)
    BY <1>5 DEF HearCurrent, HearSnapshot
  <2>2. Rest <= -2
    BY <1>m, <2>1, HeardNext DEF Behind
  <2>3. ~Active
    BY <2>2, RestIs
  <2>4. UNCHANGED <<view, listeners, raised, listened, target>>
    BY <1>5, <2>3 DEF HearCurrent, HearSnapshot, viewVars, mainVars
  <2>5. Rest' = Rest
    BY <2>4 DEF Rest
  <2> QED
    BY <1>2, <1>m, <2>1, <2>2, <2>4, <2>5 DEF Miscounted, Behind
<1>6. CASE ServerStep
  <2>1. UNCHANGED <<listeners, raised, view, online, target, listened>>
    BY <1>6, ServedAwaited DEF viewVars, onlineVars, streamVars
  <2>2. (UnwatchNext => UnwatchNext') /\ (WatchNext => WatchNext')
    BY <1>6, ServedNext, NoOtherRefusal
  <2>3. Rest' = Rest
    BY <2>1 DEF Rest
  <2> QED
    BY <1>m, <1>u, <2>1, <2>2, <2>3 DEF Miscounted, Behind, Untold
<1>7. ASSUME NEW g \in Gets, Call(g) \/ RunEvent(g) PROVE Miscounted'
  <2>1. UNCHANGED <<listeners, raised, view, online, target, listened, requests, responses, server>>
    BY <1>7 DEF Call, RunEvent, viewVars, onlineVars, streamVars, wireVars
  <2> QED
    BY <1>1, <1>m, <1>u, <2>1 DEF Miscounted, Untold
<1>8. CASE Commit
  <2>1. UNCHANGED <<listeners, raised, view, online, target, listened, requests, responses, server>>
    BY <1>8 DEF Commit, viewVars, onlineVars, streamVars, wireVars
  <2> QED
    BY <1>1, <1>m, <1>u, <2>1 DEF Miscounted, Untold
<1>9. ASSUME NEW what \in {"listen", "remove"}, NEW g \in Gets, Take(what, g)
      PROVE  IF what = "listen" THEN g \notin raised ELSE g \in raised
  <2>1. worker \in Seq(Task) /\ worker # <<>> /\ Head(worker) = [what |-> what, get |-> g]
    BY <1>9 DEF TypeOK, Task, Take
  <2>2. Len(worker) \in Nat /\ Len(worker) # 0 /\ worker[1] = Head(worker)
    BY <2>1, LenProperties, EmptySeq
  <2>3. 1 \in 1..Len(worker) /\ worker[1].what = what /\ worker[1].get = g
    BY <2>1, <2>2
  <2> QED
    BY <2>3 DEF Told, Listening
<1>10. ASSUME NEW g \in Gets, JoinListeners(g) PROVE Miscounted'
  <2>1. /\ listeners' = listeners \cup {g} /\ Raise({}, view.at) /\ Take("listen", g)
        /\ UNCHANGED <<view, online, target, listened, requests, responses, server>>
    BY <1>10, <1>u DEF JoinListeners, onlineVars, streamVars, wireVars
  <2>2. raised' = raised
    BY <2>1 DEF Raise
  <2>3. g \notin raised
    BY <1>9, <2>1
  <2> QED
    BY <1>1, <1>m, <1>u, <2>1, <2>2, <2>3 DEF Miscounted, Untold
<1>11. ASSUME NEW g \in Gets, OpenListen(g) PROVE Miscounted'
  <2>1. /\ listeners' = {g} /\ Raise({}, "cache") /\ Take("listen", g) /\ view' = FirstView
        /\ UNCHANGED <<responses, server>> /\ ListenToTarget /\ ~listened
    BY <1>11, <1>u DEF OpenListen, StreamAsNeeded
  <2>2. SendRequest("watch") /\ online' = online /\ listened'
    BY <2>1 DEF ListenToTarget, Started, onlineVars
  <2>3. raised' = raised
    BY <2>1 DEF Raise
  <2>4. g \notin raised
    BY <1>9, <2>1
  <2>5. view'.at # "server"
    BY <2>1 DEF FirstView
  <2>6. Untold'
    BY <1>u, <2>1, <2>2, <2>3, <2>4, <2>5 DEF Untold
  <2>7. /\ Len(requests') = Len(requests) + 1 /\ Len(requests) \in Nat /\ requests' # <<>>
        /\ \A i \in 1..Len(requests) : requests'[i] = requests[i]
        /\ target'.outstanding = target.outstanding + 1 /\ target'.changed = target.changed
    BY <2>1, <2>2, SendFacts
  <2>8. Rest' = Rest
    BY <2>1, <2>2, <2>7, RestIs
  <2>9. /\ requests # <<>> => requests'[1] = requests[1]
        /\ Len(requests) >= 2 => requests'[2] = requests[2] /\ requests # <<>>
    <3>1. /\ requests # <<>> => 1 \in 1..Len(requests)
          /\ Len(requests) >= 2 => 2 \in 1..Len(requests) /\ requests # <<>>
      BY WireFacts
    <3> QED
      BY <2>7, <3>1
  <2>10. (UnwatchNext => UnwatchNext') /\ (WatchNext => WatchNext')
    BY <2>1, <2>7, <2>9 DEF UnwatchNext, WatchNext
  <2> QED
    BY <1>m, <2>6, <2>7, <2>8, <2>10 DEF Miscounted, Behind
<1>12. ASSUME NEW g \in Gets, RemoveListener(g) PROVE Miscounted'
  <2>1. Take("remove", g) /\ listeners' = listeners \ {g} /\ UNCHANGED <<raised, responses, server>>
    BY <1>12 DEF RemoveListener
  <2>2. g \in raised
    BY <1>9, <2>1
  <2>3. listeners' = listeners /\ listeners # {g}
    BY <1>u, <2>1, <2>2
  <2>4. UNCHANGED <<view, online, target, listened, requests>>
    BY <1>12, <2>3 DEF RemoveListener, onlineVars
  <2> QED
    BY <1>1, <1>m, <1>u, <2>1, <2>3, <2>4 DEF Miscounted, Untold
<1>13. CASE OnlineTimeout
  BY <1>13, <1>u DEF OnlineTimeout, TrackerAgrees
<1>14. CASE BackoffElapsed \/ IdleTimeout \/ StreamOpens \/ StreamFails \/ RestartNetwork
  BY <1>14 DEF BackoffElapsed, IdleTimeout, StreamOpens, StreamFails, RestartNetwork
<1>15. ~HearRejected
  BY NoOtherRefusal
<1> QED
  BY <1>3, <1>4, <1>5, <1>6, <1>7, <1>8, <1>10, <1>11, <1>12, <1>13, <1>14, <1>15
  DEF Next, MainStep, WorkerStep, HearStep

\* Refusals are counted.
LEMMA RejectsGrow ==
  ASSUME TypeOK, Next
  PROVE  spent'.rejects >= spent.rejects
<1>1. spent.rejects \in Nat
  BY WireFacts
<1>2. CASE HearStep
  BY <1>1, <1>2, HearWhat, HearFacts
<1>3. CASE ServeWatch
  <2>1. spent' = spent \/ spent'.rejects = spent.rejects + 1
    BY <1>3, WatchServed
  <2>2. CASE spent' = spent
    BY <1>1, <2>2
  <2>3. CASE spent'.rejects = spent.rejects + 1
    BY <1>1, <2>3
  <2> QED
    BY <2>1, <2>2, <2>3
<1>4. CASE ServeUnwatch \/ ServeDocuments \/ ServeSnapshot
  BY <1>1, <1>4 DEF ServeUnwatch, ServeDocuments, ServeSnapshot, worldVars
<1> QED
  BY <1>1, <1>2, <1>3, <1>4, Quiet DEF ServerStep

\* Every step keeps CountInv.
LEMMA CountStep ==
  ASSUME TypeOK, EventInv, TrackerAgrees, StreamAsNeeded, Closed, Told, RejectedOnce, CountInv, Next
  PROVE  CountInv'
<1> SUFFICES ASSUME stream' = "open", spent'.rejects <= 1
             PROVE  \/ Counted'
                    \/ /\ spent'.rejects = 1 /\ NoneRejected'
                       /\ target'.outstanding = Awaited' + 1 \/ Miscounted'
  BY DEF CountInv
<1>1. spent.rejects <= 1
  <2>1. spent.rejects \in Nat /\ spent'.rejects \in Int
    <3>1. TypeOK'
      BY TypeStep
    <3>2. spent' \in Spent
      BY <3>1, TypeNamed DEF TypeOK, Spent
    <3> QED
      BY <3>2, WireFacts DEF Spent
  <2> QED
    BY <2>1, RejectsGrow
<1>2. CASE stream # "open"
  BY <1>2, OpensCounted
<1>3. CASE stream = "open" /\ Counted
  BY <1>1, <1>3, CountedStep
<1>4. CASE /\ stream = "open" /\ spent.rejects = 1 /\ NoneRejected
           /\ target.outstanding = Awaited + 1
  BY <1>4, OverStep, NoOtherRefusal
<1>5. CASE stream = "open" /\ spent.rejects = 1 /\ NoneRejected /\ Miscounted
  BY <1>5, MiscountedStep, NoOtherRefusal
<1> QED
  BY <1>1, <1>2, <1>3, <1>4, <1>5 DEF CountInv

-----------------------------------------------------------------------------
\* The age of documents

\* Steps that show no documents, or whose target is not active.
LEMMA StaysNew ==
  ASSUME NewInv, UNCHANGED openedAt, view' = view \/ view'.at # "server",
         UNCHANGED <<target, listened>> \/ ~target'.changed \/ ~Active'
  PROVE  NewInv'
BY DEF NewInv, Active

\* The count of a stream that is open.
LEMMA CountIs ==
  ASSUME TypeOK, CountInv, stream = "open", spent.rejects <= 1
  PROVE  /\ target.outstanding >= 0 \/ ~target.changed
         /\ Active => \/ Awaited = 0
                      \/ WatchNext
<1>1. Awaited \in Nat
  BY AwaitedIs
<1>2. CASE target.outstanding = Awaited \/ target.outstanding = Awaited + 1
  <2>1. target.outstanding >= 0
    BY <1>1, <1>2
  <2>2. target.outstanding = 0 => Awaited = 0
    BY <1>1, <1>2
  <2> QED
    BY <2>1, <2>2 DEF Active
<1>3. CASE Miscounted
  <2>1. ~target.changed
    BY <1>3 DEF Miscounted
  <2>2. Active => Rest = -1
    BY RestIs
  <2>3. Active => WatchNext
    BY <1>3, <2>2 DEF Miscounted, Behind
  <2> QED
    BY <2>1, <2>3
<1> QED
  BY <1>2, <1>3 DEF CountInv, Counted

\* Documents are read when no answer is awaited, and so are new.
LEMMA ReadsNew ==
  ASSUME TypeOK, OldInv, CountInv, NewInv, spent.rejects <= 1, HearStep
  PROVE  NewInv'
<1>1. ASSUME HearAdded \/ HearRemoved PROVE NewInv'
  <2>1. /\ target'.outstanding = target.outstanding - 1
        /\ target'.changed => target.outstanding # 1
    BY <1>1, HeardTarget
  <2>2. UNCHANGED <<view, openedAt>>
    BY <1>1 DEF HearAdded, HearRemoved, Hear, viewVars, worldVars
  <2>3. target.outstanding \in Int
    BY WireFacts
  <2>4. target'.outstanding = 0 => target.outstanding = 1
    BY <2>1, <2>3
  <2>5. ~target'.changed \/ ~Active'
    BY <2>1, <2>4 DEF Active
  <2> QED
    BY <2>2, <2>5, StaysNew
<1>2. CASE HearCurrent
  <2>1. Hear("current") /\ stream = "open" /\ UNCHANGED <<view, openedAt, listened>>
    BY <1>2 DEF HearCurrent, Hear, viewVars, worldVars
  <2>2. CASE ~Active
    BY <1>2, <2>1, <2>2, HeardTarget, StaysNew
  <2>3. CASE Active
    <3>1. Awaited = 0
      BY <2>1, <2>3, CountIs, HeardNext
    <3>2. requests = <<>> /\ \A i \in 1..Len(responses) : responses[i].what \notin Answers
      BY <3>1, AwaitedIs
    <3>3. 1 \in 1..Len(responses) /\ responses[1].what = "current" /\ responses[1] = Head(responses)
      <4>1. Len(responses) >= 1 /\ Len(responses) \in Nat
        BY <2>1, HearFacts, WireFacts
      <4> QED
        BY <2>1, <4>1, HearFacts
    <3>4. ~(responses[1].docs < openedAt)
      BY <3>2, <3>3 DEF OldInv, OldIsFollowed
    <3>5. responses[1].docs >= openedAt
      BY <3>3, <3>4, WireFacts
    <3>6. target'.docs >= openedAt
      BY <1>2, <2>3, <3>3, <3>5, HeardTarget
    <3> QED
      BY <2>1, <3>6 DEF NewInv
  <2> QED
    BY <2>2, <2>3
<1>3. CASE HearSnapshot
  <2>1. openedAt' = openedAt /\ listened' = listened
    BY <1>3 DEF HearSnapshot, Hear, worldVars
  <2>2. CASE Active /\ target.changed
    <3>1. view'.docs = target.docs
      BY <1>3, <2>2 DEF HearSnapshot
    <3>2. ~target'.changed
      BY <1>3, <2>2, HeardTarget
    <3>3. target.docs >= openedAt
      BY <2>2 DEF NewInv
    <3> QED
      BY <2>1, <3>1, <3>2, <3>3 DEF NewInv
  <2>3. CASE ~(Active /\ target.changed)
    <3>1. UNCHANGED <<view, target>>
      BY <1>3, <2>3 DEF HearSnapshot
    <3> QED
      BY <2>1, <3>1, StaysNew
  <2> QED
    BY <2>2, <2>3
<1>4. CASE HearRejected
  <2>1. openedAt' = openedAt
    BY <1>4 DEF HearRejected, Hear, worldVars
  <2>2. CASE listened
    <3>1. ~listened' /\ view'.at = "none"
      BY <1>4, <2>2 DEF HearRejected, NoView
    <3>2. ~Active'
      BY <3>1 DEF Active
    <3> QED
      BY <2>1, <3>1, <3>2, StaysNew
  <2>3. CASE ~listened
    <3>1. UNCHANGED <<view, target, listened>>
      BY <1>4, <2>3 DEF HearRejected
    <3> QED
      BY <2>1, <3>1, StaysNew
  <2> QED
    BY <2>2, <2>3
<1> QED
  BY <1>1, <1>2, <1>3, <1>4 DEF HearStep

\* Every step keeps NewInv, while at most one refusal was made.
LEMMA NewStep ==
  ASSUME TypeOK, StreamAsNeeded, Closed, OldInv, CountInv, NewInv, spent.rejects <= 1, Next
  PROVE  NewInv'
<1>1. CASE HearStep
  BY <1>1, ReadsNew
<1>2. CASE ServerStep \/ Commit
  <2>1. UNCHANGED <<view, target, listened, openedAt>>
    BY <1>2 DEF ServerStep, ServeWatch, ServeUnwatch, ServeDocuments, ServeSnapshot, Commit,
                viewVars, streamVars, worldVars
  <2> QED
    BY <2>1, StaysNew
<1>3. ASSUME NEW g \in Gets, Call(g) \/ RunEvent(g) \/ JoinListeners(g) PROVE NewInv'
  <2>1. UNCHANGED <<view, target, listened, openedAt>>
    BY <1>3 DEF Call, RunEvent, JoinListeners, viewVars, streamVars, worldVars
  <2> QED
    BY <2>1, StaysNew
<1>4. ASSUME NEW g \in Gets, RemoveListener(g) PROVE NewInv'
  <2>1. openedAt' = openedAt
    BY <1>4 DEF RemoveListener, worldVars
  <2>2. CASE listeners = {g}
    <3>1. ~listened' /\ view'.at = "none"
      BY <1>4, <2>2 DEF RemoveListener, NoView
    <3>2. ~Active'
      BY <3>1 DEF Active
    <3> QED
      BY <2>1, <3>1, <3>2, StaysNew
  <2>3. CASE listeners # {g}
    <3>1. UNCHANGED <<view, target, listened>>
      BY <1>4, <2>3 DEF RemoveListener
    <3> QED
      BY <2>1, <3>1, StaysNew
  <2> QED
    BY <2>2, <2>3
<1>5. ASSUME NEW g \in Gets, OpenListen(g) PROVE NewInv'
  <2>1. ListenToTarget /\ view' = FirstView /\ responses' = responses
    BY <1>5 DEF OpenListen
  <2>2. view'.at # "server"
    BY <2>1 DEF FirstView
  <2>3. ~(Active' /\ target'.changed)
    <3>1. CASE stream = "open"
      <4>1. SendRequest("watch")
        BY <2>1, <3>1 DEF ListenToTarget, Started
      <4>2. target'.outstanding = target.outstanding + 1 /\ target'.changed = target.changed
        BY <2>1, <4>1, SendFacts
      <4>3. target.outstanding \in Int /\ (target.outstanding >= 0 \/ ~target.changed)
        BY <3>1, CountIs, WireFacts
      <4>4. target'.outstanding # 0 \/ ~target'.changed
        BY <4>2, <4>3
      <4> QED
        BY <4>4 DEF Active
    <3>2. CASE stream # "open"
      <4>1. target' = NoTarget
        BY <2>1, <3>2 DEF ListenToTarget, Closed
      <4> QED
        BY <4>1, NoTargetIs
    <3> QED
      BY <3>1, <3>2
  <2> QED
    BY <2>2, <2>3 DEF NewInv
<1>6. ASSUME GoOffline PROVE view' = view \/ view'.at # "server"
  <2>1. view \in View
    BY TypeNamed
  <2> QED
    BY <1>6, <2>1 DEF GoOffline, View
<1>7. CASE OnlineTimeout
  BY <1>6, <1>7, StaysNew DEF OnlineTimeout, streamVars, worldVars
<1>8. CASE BackoffElapsed
  BY <1>8, StaysNew DEF BackoffElapsed, viewVars, worldVars
<1>9. CASE StreamOpens
  <2>1. stream # "open" /\ UNCHANGED <<view, openedAt, responses>>
        /\ (SendRequest("watch") \/ UNCHANGED target)
    BY <1>9 DEF StreamOpens, viewVars, worldVars
  <2>2. ~target.changed
    BY <2>1, NoTargetIs DEF Closed
  <2>3. ~target'.changed
    BY <2>1, <2>2, SendFacts
  <2> QED
    BY <2>1, <2>3, StaysNew
<1>10. CASE IdleTimeout \/ StreamFails \/ RestartNetwork
  <2>1. target' = NoTarget /\ openedAt' = openedAt
    BY <1>10 DEF IdleTimeout, StreamFails, RestartNetwork, worldVars
  <2>2. view' = view \/ GoOffline
    BY <1>10 DEF IdleTimeout, StreamFails, RestartNetwork, viewVars
  <2>3. ~target'.changed
    BY <2>1, NoTargetIs
  <2> QED
    BY <1>6, <2>1, <2>2, <2>3, StaysNew
<1> QED
  BY <1>1, <1>2, <1>3, <1>4, <1>5, <1>7, <1>8, <1>9, <1>10 DEF Next, MainStep, WorkerStep

-----------------------------------------------------------------------------
AgeIInv == IInv /\ AgeInv

\* The invariant holds at first,
LEMMA AgeInit == Init => AgeIInv
<1> SUFFICES ASSUME Init PROVE AgeIInv
  OBVIOUS
<1>1. IInv
  BY InitHolds
<1>2. /\ requests = <<>> /\ responses = <<>> /\ worker = <<>> /\ stream = "initial" /\ target = NoTarget
      /\ server = NoServer /\ raised = {} /\ muted = {} /\ events = [g \in Gets |-> <<>>]
      /\ data = 0 /\ openedAt = 0 /\ view.at = "none" /\ ~listened
  BY DEF Init, NoView
<1>3. (\A i \in 1..Len(responses) : FALSE) /\ (\A i \in 1..Len(worker) : FALSE)
  BY <1>2, EmptyLen
<1>4. Closed /\ Told /\ OldInv /\ RejectedOnce
  BY <1>2, <1>3 DEF Closed, Told, OldInv, OldIsFollowed, RejectedOnce, NoneRejected
<1>5. CountInv /\ NewInv
  BY <1>2 DEF CountInv, NewInv, Active
<1> QED
  BY <1>1, <1>4, <1>5 DEF AgeIInv, AgeInv

\* and every step keeps it.
LEMMA AgeInductive == AgeIInv /\ [Next]_vars => AgeIInv'
<1>1. ASSUME AgeIInv, Next PROVE AgeIInv'
  <2>1. /\ TypeOK /\ EventInv /\ TrackerAgrees /\ StreamAsNeeded /\ IInv
        /\ Closed /\ Told /\ OldInv /\ RejectedOnce /\ CountInv /\ (spent.rejects <= 1 => NewInv)
    BY <1>1 DEF AgeIInv, AgeInv, IInv
  <2>2. IInv'
    BY <1>1, <2>1, Inductive
  <2>3. Closed' /\ Told' /\ OldInv' /\ RejectedOnce' /\ CountInv'
    BY <1>1, <2>1, ClosedStep, ToldStep, OldStep, RejectedStep, CountStep
  <2>4. ASSUME spent'.rejects <= 1 PROVE NewInv'
    <3>1. spent.rejects \in Nat /\ spent'.rejects \in Int
      <4>1. TypeOK'
        BY <2>2 DEF IInv
      <4>2. spent' \in Spent
        BY <4>1 DEF TypeOK, Spent
      <4> QED
        BY <2>1, <4>2, WireFacts DEF Spent
    <3>2. spent.rejects <= 1
      BY <1>1, <2>1, <2>4, <3>1, RejectsGrow
    <3> QED
      BY <1>1, <2>1, <3>2, NewStep
  <2> QED
    BY <2>2, <2>3, <2>4 DEF AgeIInv, AgeInv
<1>2. ASSUME AgeIInv, UNCHANGED vars PROVE AgeIInv'
  <2>1. IInv' /\ AgeInv
    BY <1>2, Inductive DEF AgeIInv
  <2>2. /\ UNCHANGED <<worker, called, events, muted, listeners, raised, view, online>>
        /\ UNCHANGED <<stream, listened, target, requests, responses, server, data, spent, openedAt>>
    BY <1>2 DEF vars, mainVars, viewVars, onlineVars, streamVars, wireVars, worldVars
  <2>3. Closed' /\ Told' /\ OldInv' /\ RejectedOnce'
    BY <2>1, <2>2
    DEF AgeInv, Closed, Told, Listening, OldInv, OldIsFollowed, RejectedOnce, NoneRejected
  <2>4. /\ Counted' = Counted /\ NoneRejected' = NoneRejected /\ Awaited' = Awaited
        /\ Miscounted' = Miscounted /\ NewInv' = NewInv
    BY <2>2 DEF Counted, Turns, NoneRejected, Awaited, Miscounted, Behind, Rest, WatchNext, UnwatchNext,
                Untold, NewInv, Active
  <2>5. CountInv' /\ (spent'.rejects <= 1 => NewInv')
    BY <2>1, <2>2, <2>4 DEF AgeInv, CountInv
  <2> QED
    BY <2>1, <2>3, <2>5 DEF AgeIInv, AgeInv
<1> QED
  BY <1>1, <1>2

LEMMA AgeInvariant == Spec => []AgeIInv
BY AgeInit, AgeInductive, PTL DEF Spec

\* What is shown as the server's is no older than the listen, as long as the
\* server refused at most one: late messages of an earlier listen on the same
\* stream come before its answers, and do not count.
THEOREM ServerViewStaysNew == Spec => []ServerViewIsNew
<1>1. AgeIInv => ServerViewIsNew
  BY DEF AgeIInv, AgeInv, NewInv, ServerViewIsNew
<1> QED
  BY <1>1, AgeInvariant, PTL

\* The outstanding responses of the target on an open stream are those that the
\* device has yet to hear, while the server refused nothing.
THEOREM OutstandingStaysAwaited == Spec => []OutstandingIsAwaited
<1>1. ASSUME AgeIInv PROVE OutstandingIsAwaited
  <2>1. CASE stream = "open" /\ spent.rejects = 0
    <3>1. spent.rejects <= 1 /\ spent.rejects # 1
      BY <2>1
    <3> QED
      BY <1>1, <2>1, <3>1 DEF AgeIInv, AgeInv, CountInv, Counted, OutstandingIsAwaited
  <2> QED
    BY <2>1 DEF OutstandingIsAwaited
<1> QED
  BY <1>1, AgeInvariant, PTL
=============================================================================
