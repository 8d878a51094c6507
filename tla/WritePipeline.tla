--------------------------- MODULE WritePipeline ---------------------------
(***************************************************************************)
(* How Firestore sends the writes of one device: a queue per user that is  *)
(* kept on disk, a pipeline of at most MaxPending writes taken from the    *)
(* queue of the user signed in, and a stream that begins with a handshake, *)
(* breaks, backs off, goes idle and is restarted.  The server answers the  *)
(* writes of a stream in turn, or ends it at one that it refuses.          *)
(*                                                                         *)
(* Stream tokens and document contents are left out.                       *)
(***************************************************************************)
EXTENDS Integers, Sequences, SequencesExt

CONSTANTS
  Users,
  MaxWrites,    \* a bound on the calls of setData and delete
  Bad,          \* those that the server refuses
  Hello,        \* the handshake
  MaxPending,   \* kMaxPendingWrites
  MaxBreaks,    \* bounds on: attempts and streams that fail,
  MaxRestarts   \* and changes of connectivity, credentials or user, and ends
                \* of the process

\* The calls, in the order in which they are made.
Writes == 1..MaxWrites

ASSUME PipelineAssumption ==
  /\ MaxWrites \in Nat
  /\ Bad \subseteq Writes
  /\ Hello \notin Writes
  /\ MaxPending \in Nat \ {0}
  /\ MaxBreaks \in Nat /\ MaxRestarts \in Nat

VARIABLES
  user,       \* SyncEngine::current_user_
  queue,      \* the mutation queues, on disk
  nextId,     \* LevelDbMutationQueue::next_batch_id_
  callbacks,  \* SyncEngine::mutation_callbacks_
  told,       \* what the callback of each write was told
  pipeline,   \* RemoteStore::write_pipeline_
  stream,     \* the state of the write stream
  handshake,  \* WriteStream::handshake_complete_
  idle,       \* its idleness timer
  requests, responses,  \* the two directions of the stream
  refusing,   \* the server ended the stream with a permanent error
  log,        \* the writes that the server applied, in order
  calls,      \* how many calls were made
  spent       \* uses of the bounds

storeVars == <<user, queue, nextId, callbacks, told>>
streamVars == <<pipeline, stream, handshake, idle>>
wireVars == <<requests, responses, refusing>>
vars == <<storeVars, streamVars, wireVars, log, calls, spent>>

-----------------------------------------------------------------------------
\* Types

Batch == [id: Nat, write: Writes]

TypeOK ==
  /\ user \in Users
  /\ queue \in [Users -> Seq(Batch)]
  /\ nextId \in Nat
  /\ callbacks \subseteq [user: Users, id: Nat, write: Writes]
  /\ told \in [Writes -> {"", "ok", "refused"}]
  /\ pipeline \in Seq(Batch)
  /\ stream \in {"initial", "starting", "open", "error", "backoff"}
  /\ handshake \in BOOLEAN
  /\ idle \in BOOLEAN
  /\ requests \in Seq(Writes \cup {Hello})
  /\ responses \in Seq(Writes \cup {Hello})
  /\ refusing \in BOOLEAN
  /\ log \in Seq(Writes)
  /\ calls \in 0..MaxWrites
  /\ spent \in [breaks: Nat, restarts: Nat]

-----------------------------------------------------------------------------
Started == stream \in {"starting", "open", "backoff"}

\* The writes of some batches.
WritesOf(batches) == [i \in DOMAIN batches |-> batches[i].write]

\* NextMutationBatchAfterBatchId: where the first id above the given one is, or 0.
NextAfter(id, all) == SelectInSeq(all, LAMBDA b : b.id > id)

\* FillWritePipeline: batches of the queue after the last one, while there is room.
Fill(batches, all) ==
  LET next == NextAfter(IF batches = <<>> THEN -1 ELSE Last(batches).id, all)
      end == next + MaxPending - Len(batches) - 1
  IN  IF next = 0 THEN batches
      ELSE batches \o SubSeq(all, next, IF Len(all) < end THEN Len(all) ELSE end)

\* Mutant: the ids of batches begin anew when a queue is started.
FirstIdAgain(queues) == 1

\* LoadNextBatchIdFromDb: one more than the ids of all users.
FirstId(queues) ==
  1 + Max({0} \cup UNION {{queues[u][i].id : i \in DOMAIN queues[u]} : u \in Users})

\* NotifyUser: a write of before the process began has no callback.
Mine(batch) == {c \in callbacks : c.user = user /\ c.id = batch.id}

Notified(batch, what) ==
  [w \in Writes |-> IF \E c \in Mine(batch) : c.write = w THEN what ELSE told[w]]

\* AcknowledgeBatch and RejectBatch: the batch leaves the queue on disk.
Without(batch) ==
  [queue EXCEPT ![user] = RemoveFirstMatch(@, LAMBDA b : b.id = batch.id)]

\* Mutant: the callback is kept, for a batch that may get the same id.
SettleRemembered(batch, what) ==
  /\ queue' = Without(batch)
  /\ told' = Notified(batch, what)
  /\ UNCHANGED callbacks

\* A batch is done with, and the process lives: what comes between its two
\* halves is in CrashTold and CrashUntold.
Settle(batch, what) ==
  /\ queue' = Without(batch)
  /\ callbacks' = callbacks \ Mine(batch)
  /\ told' = Notified(batch, what)

\* A stream that ends takes with it what was on its way.
DropWire ==
  /\ requests' = <<>>
  /\ responses' = <<>>
  /\ refusing' = FALSE

-----------------------------------------------------------------------------
\* Calls, on the worker queue

\* Mutant: what is sent does not cancel the idleness timer.
IssueIdle(w) ==
  /\ w = calls + 1
  /\ calls' = w
  /\ queue' = [queue EXCEPT ![user] = Append(@, [id |-> nextId, write |-> w])]
  /\ nextId' = nextId + 1
  /\ callbacks' = callbacks \cup {[user |-> user, id |-> nextId, write |-> w]}
  /\ pipeline' = Fill(pipeline, queue'[user])
  /\ \/ /\ stream = "open" /\ handshake /\ pipeline' # pipeline
        /\ requests' = Append(requests, w)
        /\ UNCHANGED stream
     \/ /\ ~(stream = "open" /\ handshake /\ pipeline' # pipeline)
        /\ stream' = IF stream \in {"error", "initial"} THEN "starting" ELSE stream
        /\ UNCHANGED requests
  /\ UNCHANGED <<user, told, handshake, idle, responses, refusing, log, spent>>

\* WriteMutations; what is added to the pipeline is sent if it can be.
Issue(w) ==
  /\ w = calls + 1
  /\ calls' = w
  /\ queue' = [queue EXCEPT ![user] = Append(@, [id |-> nextId, write |-> w])]
  /\ nextId' = nextId + 1
  /\ callbacks' = callbacks \cup {[user |-> user, id |-> nextId, write |-> w]}
  /\ pipeline' = Fill(pipeline, queue'[user])
  /\ \/ /\ stream = "open" /\ handshake /\ pipeline' # pipeline
        /\ requests' = Append(requests, w)
        /\ idle' = FALSE
        /\ UNCHANGED stream
     \/ /\ ~(stream = "open" /\ handshake /\ pipeline' # pipeline)
        /\ stream' = IF stream = "error" THEN "backoff"
                     ELSE IF stream = "initial" THEN "starting" ELSE stream
        /\ UNCHANGED <<requests, idle>>
  /\ UNCHANGED <<user, told, handshake, responses, refusing, log, spent>>

\* Mutant: the pipeline is not filled until the next call.
BeginEmpty(u) ==
  /\ pipeline' = <<>>
  /\ stream' = "initial"
  /\ handshake' = FALSE
  /\ idle' = FALSE
  /\ DropWire

\* The streams stop and start for a user: the pipeline is filled anew.
Begin(u) ==
  /\ pipeline' = Fill(<<>>, queue'[u])
  /\ stream' = IF queue'[u] = <<>> THEN "initial" ELSE "starting"
  /\ handshake' = FALSE
  /\ idle' = FALSE
  /\ DropWire

\* HandleCredentialChange, for the same user or another.
ChangeCredentials(u) ==
  /\ spent.restarts < MaxRestarts
  /\ spent' = [spent EXCEPT !.restarts = @ + 1]
  /\ user' = u
  /\ nextId' = IF u = user THEN nextId ELSE FirstId(queue)
  /\ UNCHANGED <<queue, callbacks, told, log, calls>>
  /\ Begin(u)

\* A process starts with the queues that are on disk.
Start ==
  /\ spent.restarts < MaxRestarts
  /\ spent' = [spent EXCEPT !.restarts = @ + 1]
  /\ callbacks' = {}
  /\ nextId' = FirstId(queue')
  /\ UNCHANGED <<user, log, calls>>
  /\ Begin(user)

\* The process ends and starts again.
Crash ==
  /\ UNCHANGED <<queue, told>>
  /\ Start

-----------------------------------------------------------------------------
\* The stream

BackoffElapsed ==
  /\ stream = "backoff"
  /\ stream' = "starting"
  /\ UNCHANGED <<storeVars, pipeline, handshake, idle, wireVars, log, calls, spent>>

IdleTimeout ==
  /\ idle
  /\ idle' = FALSE
  /\ stream' = "initial"
  /\ handshake' = FALSE
  /\ DropWire
  /\ UNCHANGED <<storeVars, pipeline, log, calls, spent>>

StreamOpens ==
  /\ stream = "starting"
  /\ stream' = "open"
  /\ requests' = <<Hello>>
  /\ UNCHANGED <<storeVars, pipeline, handshake, idle, responses, refusing, log, calls, spent>>

\* Mutant: an error that may pass is taken for a refusal.
StreamFailsForGood ==
  /\ stream \in {"starting", "open"}
  /\ spent.breaks < MaxBreaks
  /\ spent' = [spent EXCEPT !.breaks = @ + 1]
  /\ IF pipeline = <<>> THEN UNCHANGED <<queue, callbacks, told>>
     ELSE Settle(Head(pipeline), "refused")
  /\ pipeline' = Fill(<<>>, queue'[user])
  /\ stream' = IF pipeline' = <<>> THEN "error" ELSE "backoff"
  /\ handshake' = FALSE
  /\ idle' = FALSE
  /\ DropWire
  /\ UNCHANGED <<user, nextId, log, calls>>

\* OnWriteStreamClose with an error that may pass: all is tried again.
StreamFails ==
  /\ stream \in {"starting", "open"}
  /\ spent.breaks < MaxBreaks
  /\ spent' = [spent EXCEPT !.breaks = @ + 1]
  /\ stream' = IF pipeline = <<>> THEN "error" ELSE "backoff"
  /\ handshake' = FALSE
  /\ idle' = FALSE
  /\ DropWire
  /\ UNCHANGED <<storeVars, pipeline, log, calls>>

\* The end of the stream is read after the answers, unless a write that was
\* on its way fails first: then answers not yet read are dropped.
StreamIsRead == responses = <<>> \/ Len(requests) > 1

\* Mutant: the refused write stays in the pipeline.
StreamRefusedKept ==
  /\ refusing /\ StreamIsRead /\ pipeline # <<>>
  /\ Settle(Head(pipeline), "refused")
  /\ stream' = "starting"
  /\ handshake' = FALSE
  /\ DropWire
  /\ UNCHANGED <<user, nextId, pipeline, idle, log, calls, spent>>

\* HandleWriteError: the first write of the pipeline is taken for the refused
\* one, and the others are sent again without a backoff.
StreamRefused ==
  /\ refusing /\ StreamIsRead /\ pipeline # <<>>
  /\ Settle(Head(pipeline), "refused")
  /\ pipeline' = Fill(Tail(pipeline), queue'[user])
  /\ stream' = IF pipeline' = <<>> THEN "initial" ELSE "starting"
  /\ handshake' = FALSE
  /\ DropWire
  /\ UNCHANGED <<user, nextId, idle, log, calls, spent>>

\* Mutant: only the first write of the pipeline is sent.
HearHelloOne ==
  /\ responses # <<>> /\ Head(responses) = Hello
  /\ responses' = Tail(responses)
  /\ handshake' = TRUE
  /\ requests' = Append(requests, Head(pipeline).write)
  /\ UNCHANGED <<storeVars, pipeline, stream, idle, refusing, log, calls, spent>>

\* OnWriteStreamHandshakeComplete: the pipeline is sent.
HearHello ==
  /\ responses # <<>> /\ Head(responses) = Hello
  /\ responses' = Tail(responses)
  /\ handshake' = TRUE
  /\ requests' = requests \o WritesOf(pipeline)
  /\ UNCHANGED <<storeVars, pipeline, stream, idle, refusing, log, calls, spent>>

\* OnWriteStreamMutationResult: the answer is taken for the first write of
\* the pipeline, whose place another takes.
HearResult ==
  /\ responses # <<>> /\ Head(responses) # Hello
  /\ responses' = Tail(responses)
  /\ Settle(Head(pipeline), "ok")
  /\ pipeline' = Fill(Tail(pipeline), queue'[user])
  /\ LET added == SubSeq(pipeline', Len(pipeline), Len(pipeline'))
     IN  requests' = requests \o WritesOf(added)
  /\ idle' = (pipeline' = <<>>)
  /\ UNCHANGED <<user, nextId, stream, handshake, refusing, log, calls, spent>>

\* The process ends while an answer is handled: HandleSuccessfulWrite notified
\* the user, and the batch was still on disk.
CrashTold ==
  /\ responses # <<>> /\ Head(responses) # Hello
  /\ told' = Notified(Head(pipeline), "ok")
  /\ UNCHANGED queue
  /\ Start

\* Or while a refusal is: HandleRejectedWrite removes the batch first.
CrashUntold ==
  /\ refusing /\ StreamIsRead /\ pipeline # <<>>
  /\ queue' = Without(Head(pipeline))
  /\ UNCHANGED told
  /\ Start

-----------------------------------------------------------------------------
\* The server, as RemoteStore takes it to be

ServeHello ==
  /\ requests # <<>> /\ Head(requests) = Hello
  /\ requests' = Tail(requests)
  /\ responses' = Append(responses, Hello)
  /\ UNCHANGED <<storeVars, streamVars, refusing, log, calls, spent>>

ServeWrite ==
  /\ ~refusing
  /\ requests # <<>> /\ Head(requests) \in Writes \ Bad
  /\ requests' = Tail(requests)
  /\ responses' = Append(responses, Head(requests))
  /\ log' = Append(log, Head(requests))
  /\ UNCHANGED <<storeVars, streamVars, refusing, calls, spent>>

ServeRefusal ==
  /\ ~refusing
  /\ requests # <<>> /\ Head(requests) \in Bad
  /\ refusing' = TRUE
  /\ UNCHANGED <<storeVars, streamVars, requests, responses, log, calls, spent>>

-----------------------------------------------------------------------------
Init ==
  /\ user \in Users
  /\ queue = [u \in Users |-> <<>>]
  /\ nextId = 1
  /\ callbacks = {}
  /\ told = [w \in Writes |-> ""]
  /\ pipeline = <<>>
  /\ stream = "initial"
  /\ handshake = FALSE
  /\ idle = FALSE
  /\ requests = <<>>
  /\ responses = <<>>
  /\ refusing = FALSE
  /\ log = <<>>
  /\ calls = 0
  /\ spent = [breaks |-> 0, restarts |-> 0]

NetworkStep ==
  \/ StreamOpens \/ StreamRefused \/ HearHello \/ HearResult
  \/ ServeHello \/ ServeWrite \/ ServeRefusal

Next ==
  \/ \E w \in Writes : Issue(w)
  \/ \E u \in Users : ChangeCredentials(u)
  \/ Crash \/ CrashTold \/ CrashUntold \/ BackoffElapsed \/ IdleTimeout \/ StreamFails
  \/ NetworkStep

Spec == Init /\ [][Next]_vars

\* The backoff elapses, and on the network something happens while it can.
FairSpec == Spec /\ WF_vars(BackoffElapsed) /\ WF_vars(NetworkStep)

-----------------------------------------------------------------------------
\* Properties

\* The pipeline is the beginning of the queue of the user signed in, whose
\* ids increase.
PipelineIsPrefix ==
  /\ IsPrefix(pipeline, queue[user])
  /\ Len(pipeline) <= MaxPending
  /\ \A u \in Users : \A i, j \in DOMAIN queue[u] : i < j => queue[u][i].id < queue[u][j].id

\* remote_store.cc:435, "a response to a write [...] should be correlated to
\* the first write in our write pipeline": what was sent and is not answered
\* is the pipeline, and before the handshake nothing is sent.
SentIsPipeline ==
  IF handshake THEN responses \o requests = WritesOf(pipeline)
               ELSE responses \o requests \in {<<>>, <<Hello>>}

\* RemoteStore's assertion of a stream that is closed as idle: nothing waits;
\* a stream that is needed is there.
StreamAsNeeded ==
  /\ idle => stream = "open" /\ handshake /\ queue[user] = <<>>
  /\ queue[user] # <<>> => Started

\* No write overtakes another of the same user, however often they are sent: of
\* the writes in a queue, the server applied one only after those called before
\* it, which OnWriteStreamHandshakeComplete sends again in order.
NoOvertaking ==
  \A u \in Users : \A i, j \in DOMAIN queue[u] : \A n \in DOMAIN log :
    j < i /\ log[n] = queue[u][i].write =>
      queue[u][j].write \in Bad \/ \E m \in 1..(n - 1) : log[m] = queue[u][j].write

\* What the application is told, and in which order writes settle, is what
\* WriteQueue promises.
Promise == INSTANCE WriteQueue WITH
  queue <- [u \in Users |-> WritesOf(queue[u])],
  applied <- {log[i] : i \in DOMAIN log},
  waiting <- {c.write : c \in callbacks}

ImplementsQueue == Promise!Spec

\* No callback is told twice, although ids are used again when the user changes
\* while callbacks are kept by id.
ToldOnce == Promise!ToldOnce

\* A callback is told of success only if the server applied its write.
OkWasApplied == Promise!OkWasApplied

\* No write is dropped: one that was called and that the server does not refuse
\* is in a queue until it was applied, also a write that a process found on
\* disk.  Its callback may be told otherwise: when a later write ends the stream
\* and the answers are not read, HandleWriteError takes the first of the pipeline
\* for the refused one.
NoneDropped ==
  \A w \in Writes \ Bad : w <= calls =>
    \/ \E u \in Users : \E i \in DOMAIN queue[u] : queue[u][i].write = w
    \/ \E i \in DOMAIN log : log[i] = w

\* Every write settles while its user is signed in.
WritesSettle ==
  \A u \in Users, w \in Writes :
    (user = u /\ \E i \in DOMAIN queue[u] : queue[u][i].write = w)
      ~> (user # u \/ \A i \in DOMAIN queue[u] : queue[u][i].write # w)

=============================================================================
