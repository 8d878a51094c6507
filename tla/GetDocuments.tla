---------------------------- MODULE GetDocuments ----------------------------
(***************************************************************************)
(* How Firestore answers getDocuments, the query of the application's      *)
(* list: a listener that is removed at its first event.  Three threads of  *)
(* control share it: the main thread, which calls and is called back, the  *)
(* worker queue, where EventManager, SyncEngine and RemoteStore run, and   *)
(* the watch stream with the server at its end.  Every get asks the same   *)
(* query, the pictures of one email, so there is one target.               *)
(*                                                                         *)
(* Documents are a number that counts the server's commits.  Limbo         *)
(* documents and existence filters are left out.                           *)
(***************************************************************************)
EXTENDS Integers, Sequences, FiniteSets

CONSTANTS
  Gets,         \* calls of getDocuments, each made once
  MaxCommits,   \* bounds on: changes of the documents by others,
  MaxBreaks,    \* attempts and streams that fail,
  MaxRestarts,  \* changes of connectivity or of credentials,
  MaxRejects    \* and listens that the server refuses

ASSUME BoundsAssumption ==
  /\ MaxCommits \in Nat /\ MaxBreaks \in Nat
  /\ MaxRestarts \in Nat /\ MaxRejects \in Nat

VARIABLES
  worker,     \* blocks on the worker queue
  called,     \* the gets that were made
  events,     \* of each get, the events on their way to the main thread
  muted,      \* the gets whose listener was muted
  answers,    \* what each get was told, in order
  listeners,  \* EventManager: the listeners of the query
  raised,     \* QueryListener: those whose initial event was raised
  view,       \* SyncEngine's view, which is EventManager's last snapshot
  cache,      \* LocalStore's documents
  online,     \* OnlineStateTracker: its state,
  failed,     \* whether it counts a failure,
  timer,      \* and its timeout
  stream,     \* the state of the watch stream
  idle,       \* its idleness timer
  listened,   \* RemoteStore: whether it listens to the target
  target,     \* WatchChangeAggregator's state of the target
  requests, responses,  \* the two directions of the stream
  server,     \* what the server at the other end does
  data,       \* the server's documents
  spent,      \* uses of the bounds
  openedAt    \* history: data at the call that opened the last listen

mainVars == <<called, events, muted, answers>>
viewVars == <<listeners, raised, view, cache>>
onlineVars == <<online, failed, timer>>
streamVars == <<stream, idle, listened, target>>
wireVars == <<requests, responses, server>>
worldVars == <<data, spent, openedAt>>
vars == <<worker, mainVars, viewVars, onlineVars, streamVars, wireVars, worldVars>>

-----------------------------------------------------------------------------
\* Types

Sources == {"cache", "server"}
Message == [what: {"added", "current", "snapshot", "removed", "rejected"}, docs: Nat]
NoView == [at |-> "none", docs |-> 0]
NoTarget == [outstanding |-> 0, current |-> FALSE, changed |-> FALSE, docs |-> 0]
NoServer == [on |-> FALSE, sent |-> -1, whole |-> TRUE]

TypeOK ==
  /\ worker \in Seq([what: {"listen", "remove"}, get: Gets])
  /\ called \subseteq Gets
  /\ events \in [Gets -> Seq(Sources \cup {"error"})]
  /\ muted \subseteq Gets
  /\ answers \in [Gets -> Seq(Sources \cup {"error"})]
  /\ listeners \subseteq Gets
  /\ raised \subseteq Gets
  /\ view \in [at: Sources \cup {"none"}, docs: Nat]
  /\ cache \in Nat
  /\ online \in {"Unknown", "Online", "Offline"}
  /\ failed \in BOOLEAN
  /\ timer \in BOOLEAN
  /\ stream \in {"initial", "starting", "open", "error", "backoff"}
  /\ idle \in BOOLEAN
  /\ listened \in BOOLEAN
  /\ target \in [outstanding: Int, current: BOOLEAN, changed: BOOLEAN, docs: Nat]
  /\ requests \in Seq({"watch", "unwatch"})
  /\ responses \in Seq(Message)
  /\ server \in [on: BOOLEAN, sent: Int, whole: BOOLEAN]
  /\ data \in Nat
  /\ spent \in [breaks: Nat, restarts: Nat, rejects: Nat]
  /\ openedAt \in Nat

-----------------------------------------------------------------------------
\* The state of the stream, the target and the listeners

Started == stream \in {"starting", "open", "backoff"}

\* A target is active when no response to a request for it is outstanding.
Active == target.outstanding = 0 /\ listened

\* gs are told of the view, for the first time or again.
Raise(gs, what) ==
  /\ events' = [g \in Gets |-> IF g \in gs THEN Append(events[g], what) ELSE events[g]]
  /\ raised' = raised \cup gs
  /\ UNCHANGED <<called, muted, answers>>

\* Mutant: the timeout is not cancelled.
UpdateStateTimed(state) ==
  /\ online' = state
  /\ failed' = FALSE
  /\ UNCHANGED timer

\* OnlineStateTracker::UpdateState; a state other than Offline raises nothing.
UpdateState(state) ==
  /\ online' = state
  /\ failed' = FALSE
  /\ timer' = FALSE

\* Offline, a view that was the server's is the cache's, and all who wait for
\* the server are told what there is.
GoOffline ==
  /\ online' = "Offline"
  /\ IF online = "Offline"
       THEN UNCHANGED <<view, events, raised, called, muted, answers>>
       ELSE /\ view' = IF view.at = "server" THEN [view EXCEPT !.at = "cache"] ELSE view
            /\ Raise(IF view.at = "server" THEN listeners ELSE listeners \ raised, "cache")

\* RecordPendingTargetRequest, and the request is written.
SendRequest(what) ==
  /\ target' = [target EXCEPT !.outstanding = @ + 1]
  /\ requests' = Append(requests, what)

\* A stream that ends takes with it what was on its way.
DropWire ==
  /\ requests' = <<>>
  /\ responses' = <<>>
  /\ server' = NoServer

-----------------------------------------------------------------------------
\* The main thread

\* getDocuments: the listener is made here and added on the worker queue.
Call(g) ==
  /\ g \notin called
  /\ called' = called \cup {g}
  /\ worker' = Append(worker, [what |-> "listen", get |-> g])
  /\ UNCHANGED <<events, muted, answers, viewVars, onlineVars, streamVars, wireVars, worldVars>>

\* Mutant: events that were queued before the listener was muted are run.
RunEventUnmuted(g) ==
  /\ events[g] # <<>>
  /\ events' = [events EXCEPT ![g] = Tail(@)]
  /\ answers' = [answers EXCEPT ![g] = Append(@, Head(events[g]))]
  /\ muted' = muted \cup {g}
  /\ worker' = Append(worker, [what |-> "remove", get |-> g])
  /\ UNCHANGED <<called, viewVars, onlineVars, streamVars, wireVars, worldVars>>

\* ListenOnce: an error is passed on; a snapshot mutes the listener, removes
\* it and is passed on.
RunEvent(g) ==
  /\ events[g] # <<>>
  /\ events' = [events EXCEPT ![g] = Tail(@)]
  /\ \/ /\ g \in muted
        /\ UNCHANGED <<answers, muted, worker>>
     \/ /\ g \notin muted
        /\ answers' = [answers EXCEPT ![g] = Append(@, Head(events[g]))]
        /\ IF Head(events[g]) = "error"
             THEN UNCHANGED <<muted, worker>>
             ELSE /\ muted' = muted \cup {g}
                  /\ worker' = Append(worker, [what |-> "remove", get |-> g])
  /\ UNCHANGED <<called, viewVars, onlineVars, streamVars, wireVars, worldVars>>

-----------------------------------------------------------------------------
\* The worker queue

Take(what, g) ==
  /\ worker # <<>>
  /\ Head(worker) = [what |-> what, get |-> g]
  /\ worker' = Tail(worker)

\* OnlineStateTracker::HandleWatchStreamStart: after a failure there is no
\* timeout, and the state stays.
WatchStreamStart(failedBefore) ==
  /\ failed' = failedBefore
  /\ IF failedBefore
       THEN UNCHANGED <<online, timer>>
       ELSE online' = "Unknown" /\ timer' = TRUE

\* A listener that joins others is told their snapshot, if it may be raised.
JoinListeners(g) ==
  /\ Take("listen", g)
  /\ listeners # {}
  /\ listeners' = listeners \cup {g}
  /\ Raise(IF view.at = "server" \/ online = "Offline" THEN {g} ELSE {}, view.at)
  /\ UNCHANGED <<view, cache, onlineVars, streamVars, wireVars, worldVars>>

\* Mutant: a request does not cancel the idleness timer.
ListenToTargetIdle ==
  /\ listened' = TRUE
  /\ \/ /\ ~Started
        /\ stream' = IF stream = "error" THEN "backoff" ELSE "starting"
        /\ target' = NoTarget
        /\ WatchStreamStart(failed)
        /\ UNCHANGED requests
     \/ /\ stream = "open"
        /\ SendRequest("watch")
        /\ UNCHANGED <<stream, onlineVars>>
     \/ /\ stream \in {"starting", "backoff"}
        /\ UNCHANGED <<stream, target, requests, onlineVars>>
  /\ UNCHANGED idle

\* RemoteStore::Listen: a stream that is started but not open sends the
\* request when it opens.
ListenToTarget ==
  /\ listened' = TRUE
  /\ \/ /\ ~Started
        /\ stream' = IF stream = "error" THEN "backoff" ELSE "starting"
        /\ target' = NoTarget
        /\ WatchStreamStart(failed)
        /\ UNCHANGED <<idle, requests>>
     \/ /\ stream = "open"
        /\ SendRequest("watch")
        /\ idle' = FALSE
        /\ UNCHANGED <<stream, onlineVars>>
     \/ /\ stream \in {"starting", "backoff"}
        /\ UNCHANGED <<stream, target, idle, requests, onlineVars>>

\* SyncEngine::Listen begins with what LocalStore has.
FirstView == [at |-> "cache", docs |-> cache]

\* The first listener opens the view and the listen.
OpenListen(g) ==
  /\ Take("listen", g)
  /\ listeners = {}
  /\ listeners' = {g}
  /\ view' = FirstView
  /\ Raise(IF online = "Offline" THEN {g} ELSE {}, "cache")
  /\ ListenToTarget
  /\ openedAt' = data
  /\ UNCHANGED <<cache, responses, server, data, spent>>

\* The last listener closes them; an open stream with no target is idle.
RemoveListener(g) ==
  /\ Take("remove", g)
  /\ listeners' = listeners \ {g}
  /\ IF listeners = {g}
       THEN /\ view' = NoView
            /\ listened' = FALSE
            /\ \/ /\ stream = "open"
                  /\ SendRequest("unwatch")
                  /\ idle' = TRUE
                  /\ UNCHANGED onlineVars
               \/ /\ stream # "open"
                  /\ UpdateState("Unknown")
                  /\ UNCHANGED <<target, idle, requests>>
       ELSE UNCHANGED <<view, listened, target, idle, requests, onlineVars>>
  /\ UNCHANGED <<mainVars, raised, cache, stream, responses, server, worldVars>>

-----------------------------------------------------------------------------
\* Timers, on the worker queue

OnlineTimeout ==
  /\ timer
  /\ timer' = FALSE
  /\ GoOffline
  /\ UNCHANGED <<worker, listeners, cache, failed, streamVars, wireVars, worldVars>>

BackoffElapsed ==
  /\ stream = "backoff"
  /\ stream' = "starting"
  /\ UNCHANGED <<worker, mainVars, viewVars, onlineVars, idle, listened, target, wireVars, worldVars>>

IdleTimeout ==
  /\ idle
  /\ idle' = FALSE
  /\ stream' = "initial"
  /\ target' = NoTarget
  /\ UpdateState("Unknown")
  /\ DropWire
  /\ UNCHANGED <<worker, mainVars, viewVars, listened, worldVars>>

-----------------------------------------------------------------------------
\* The stream opens, fails and restarts

\* Mutant: the listen is not sent again.
StreamOpensBare ==
  /\ stream = "starting"
  /\ stream' = "open"
  /\ UNCHANGED <<worker, mainVars, viewVars, onlineVars, idle, listened, target, wireVars, worldVars>>

\* OnWatchStreamOpen
StreamOpens ==
  /\ stream = "starting"
  /\ stream' = "open"
  /\ IF listened THEN SendRequest("watch") ELSE UNCHANGED <<target, requests>>
  /\ UNCHANGED <<worker, mainVars, viewVars, onlineVars, idle, listened, responses, server, worldVars>>

\* OnWatchStreamClose with an error: an attempt that fails, or a connection
\* that breaks.  While there is a target it is tried again, after a backoff.
StreamFails ==
  /\ stream \in {"starting", "open"}
  /\ spent.breaks < MaxBreaks
  /\ spent' = [spent EXCEPT !.breaks = @ + 1]
  /\ target' = NoTarget
  /\ idle' = FALSE
  /\ DropWire
  /\ \/ /\ listened /\ online = "Online"
        /\ stream' = "backoff"
        /\ WatchStreamStart(FALSE)
        /\ UNCHANGED <<mainVars, viewVars>>
     \/ /\ listened /\ online # "Online"
        /\ stream' = "backoff"
        /\ failed' = TRUE
        /\ timer' = FALSE
        /\ GoOffline
        /\ UNCHANGED <<listeners, cache>>
     \/ /\ ~listened
        /\ stream' = "error"
        /\ UpdateState("Unknown")
        /\ UNCHANGED <<mainVars, viewVars>>
  /\ UNCHANGED <<worker, listened, data, openedAt>>

\* RestartNetwork, when connectivity or the credentials changed: both stop
\* and, while there is a target, start without a backoff.
RestartNetwork ==
  /\ spent.restarts < MaxRestarts
  /\ spent' = [spent EXCEPT !.restarts = @ + 1]
  /\ target' = NoTarget
  /\ idle' = FALSE
  /\ stream' = IF listened THEN "starting" ELSE "initial"
  /\ online' = "Unknown"
  /\ failed' = FALSE
  /\ timer' = listened
  /\ DropWire
  /\ UNCHANGED <<worker, mainVars, viewVars, listened, data, openedAt>>

-----------------------------------------------------------------------------
\* OnWatchStreamChange: any message means Online

Hear(what) ==
  /\ stream = "open"
  /\ responses # <<>>
  /\ Head(responses).what = what
  /\ responses' = Tail(responses)
  /\ UpdateState("Online")
  /\ UNCHANGED <<worker, stream, idle, requests, server, worldVars>>

\* Mutant: the count of outstanding responses is not kept.
HearAddedAnyway ==
  /\ Hear("added")
  /\ target' = [target EXCEPT !.outstanding = 0, !.changed = FALSE]
  /\ UNCHANGED <<mainVars, viewVars, listened>>

\* The last outstanding response makes the target fresh.
HearAdded ==
  /\ Hear("added")
  /\ target' = [target EXCEPT !.outstanding = @ - 1,
                              !.changed = @ /\ target.outstanding # 1]
  /\ UNCHANGED <<mainVars, viewVars, listened>>

\* Documents, and that they are all; ignored unless the target is active.
HearCurrent ==
  /\ Hear("current")
  /\ target' = IF Active
                 THEN [target EXCEPT !.current = TRUE, !.changed = TRUE,
                                     !.docs = Head(responses).docs]
                 ELSE target
  /\ UNCHANGED <<mainVars, viewVars, listened>>

\* Mutant: the target is forgotten with responses still outstanding.
HearRemovedEarly ==
  /\ Hear("removed")
  /\ target' = NoTarget
  /\ UNCHANGED <<mainVars, viewVars, listened>>

HearRemoved ==
  /\ Hear("removed")
  /\ target' = IF target.outstanding = 1 THEN NoTarget
               ELSE [target EXCEPT !.outstanding = @ - 1]
  /\ UNCHANGED <<mainVars, viewVars, listened>>

\* RaiseWatchSnapshot: the view takes what changed in an active target.
HearSnapshot ==
  /\ Hear("snapshot")
  /\ IF Active /\ target.changed
       THEN LET new == [at |-> IF target.current THEN "server" ELSE "cache",
                        docs |-> target.docs]
            IN  /\ view' = new
                /\ cache' = target.docs
                /\ target' = [target EXCEPT !.changed = FALSE]
                /\ Raise({g \in listeners : IF g \in raised THEN new # view
                                            ELSE new.at = "server"}, new.at)
       ELSE UNCHANGED <<view, cache, target, mainVars, raised>>
  /\ UNCHANGED <<listeners, listened>>

\* ProcessTargetError: listeners are told and forgotten, and so is the target.
HearRejected ==
  /\ Hear("rejected")
  /\ IF listened
       THEN /\ listened' = FALSE
            /\ target' = NoTarget
            /\ view' = NoView
            /\ listeners' = {}
            /\ Raise(listeners, "error")
       ELSE UNCHANGED <<listened, target, view, listeners, mainVars, raised>>
  /\ UNCHANGED cache

-----------------------------------------------------------------------------
\* The server, as RemoteStore takes it to be

Reply(what, docs) == responses' = Append(responses, [what |-> what, docs |-> docs])

ServeWatch ==
  /\ requests # <<>> /\ Head(requests) = "watch"
  /\ requests' = Tail(requests)
  /\ \/ /\ server' = [on |-> TRUE, sent |-> -1, whole |-> TRUE]
        /\ Reply("added", 0)
        /\ UNCHANGED spent
     \/ /\ spent.rejects < MaxRejects
        /\ spent' = [spent EXCEPT !.rejects = @ + 1]
        /\ server' = NoServer
        /\ Reply("rejected", 0)
  /\ UNCHANGED <<worker, mainVars, viewVars, onlineVars, streamVars, data, openedAt>>

ServeUnwatch ==
  /\ requests # <<>> /\ Head(requests) = "unwatch"
  /\ requests' = Tail(requests)
  /\ server' = NoServer
  /\ Reply("removed", 0)
  /\ UNCHANGED <<worker, mainVars, viewVars, onlineVars, streamVars, worldVars>>

ServeDocuments ==
  /\ server.on /\ server.sent # data
  /\ server' = [server EXCEPT !.sent = data, !.whole = FALSE]
  /\ Reply("current", data)
  /\ UNCHANGED <<worker, mainVars, viewVars, onlineVars, streamVars, requests, worldVars>>

\* A snapshot tells that what was sent is whole.
ServeSnapshot ==
  /\ server.on /\ ~server.whole
  /\ server' = [server EXCEPT !.whole = TRUE]
  /\ Reply("snapshot", 0)
  /\ UNCHANGED <<worker, mainVars, viewVars, onlineVars, streamVars, requests, worldVars>>

Commit ==
  /\ data < MaxCommits
  /\ data' = data + 1
  /\ UNCHANGED <<worker, mainVars, viewVars, onlineVars, streamVars, wireVars, spent, openedAt>>

-----------------------------------------------------------------------------
Init ==
  /\ worker = <<>>
  /\ called = {}
  /\ events = [g \in Gets |-> <<>>]
  /\ muted = {}
  /\ answers = [g \in Gets |-> <<>>]
  /\ listeners = {}
  /\ raised = {}
  /\ view = NoView
  /\ cache = 0
  /\ online = "Unknown"
  /\ failed = FALSE
  /\ timer = FALSE
  /\ stream = "initial"
  /\ idle = FALSE
  /\ listened = FALSE
  /\ target = NoTarget
  /\ requests = <<>>
  /\ responses = <<>>
  /\ server = NoServer
  /\ data = 0
  /\ spent = [breaks |-> 0, restarts |-> 0, rejects |-> 0]
  /\ openedAt = 0

MainStep == \E g \in Gets : RunEvent(g)

WorkerStep == \E g \in Gets : JoinListeners(g) \/ OpenListen(g) \/ RemoveListener(g)

HearStep == HearAdded \/ HearCurrent \/ HearSnapshot \/ HearRemoved \/ HearRejected

ServerStep == ServeWatch \/ ServeUnwatch \/ ServeDocuments \/ ServeSnapshot

Next ==
  \/ \E g \in Gets : Call(g)
  \/ MainStep \/ WorkerStep
  \/ OnlineTimeout \/ BackoffElapsed \/ IdleTimeout
  \/ StreamOpens \/ StreamFails \/ RestartNetwork
  \/ HearStep \/ ServerStep \/ Commit

Spec == Init /\ [][Next]_vars

\* The queues run their blocks and the timers fire.  On the network an attempt
\* ends, requests are served, messages arrive.
Fairness ==
  /\ WF_vars(MainStep)
  /\ WF_vars(WorkerStep)
  /\ WF_vars(OnlineTimeout)
  /\ WF_vars(BackoffElapsed)
  /\ WF_vars(StreamOpens \/ StreamFails)
  /\ WF_vars(ServerStep)
  /\ WF_vars(HearStep)

FairSpec == Spec /\ Fairness

-----------------------------------------------------------------------------
\* Properties

\* No get is answered twice: events that were raised before the main thread
\* removed the listener are dropped.  A second one would end the process, as
\* the promise of ListenOnce is taken once.
AnsweredOnce == \A g \in Gets : Len(answers[g]) <= 1

\* What is shown as the server's is no older than the listen: messages of an
\* earlier listen to the same target, late on the same stream, do not count.
\* A second refusal may forget the requests sent since as a first one did, and
\* then an earlier listen's documents can meet a count of zero.
ServerViewIsNew == view.at = "server" /\ spent.rejects <= 1 => view.docs >= openedAt

\* The responses that the device has yet to hear.
Awaited ==
  Len(requests) +
    Cardinality({i \in DOMAIN responses : responses[i].what \in {"added", "removed", "rejected"}})

\* remote_event.h:208, "the number of outstanding responses (adds or removes)
\* that we are waiting on".  A refusal puts it wrong: ProcessTargetError does
\* not count it when its listen is gone, and forgets the requests sent since
\* when another listen has taken its place.
OutstandingIsAwaited ==
  stream = "open" /\ spent.rejects = 0 => target.outstanding = Awaited

\* OnlineStateTracker's assertions: a timeout finds the state Unknown, and a
\* state Online has neither a failure nor a timeout.
TrackerAgrees ==
  /\ timer => online = "Unknown" /\ ~failed
  /\ online = "Online" => ~timer /\ ~failed

\* RemoteStore's assertions: the target is listened to while it has
\* listeners, a stream is there while it is needed, and only then does none
\* wait to be closed as idle.
StreamAsNeeded ==
  /\ listened <=> listeners # {}
  /\ listened => Started
  /\ idle => stream = "open" /\ ~listened

\* Every get is answered, when what is tried on the network ends; unless a
\* refusal put the count wrong, and the target is not active on this stream.
GetAnswered ==
  \A g \in Gets : g \in called ~>
    answers[g] # <<>> \/ (stream = "open" /\ target.outstanding # Awaited)

=============================================================================
