------------------------- MODULE StorageTaskProofs -------------------------
(***************************************************************************)
(* Proofs about StorageTask, for any calls, sizes and limit: each call is  *)
(* answered once, data came whole, and an error has a cause.               *)
(***************************************************************************)
EXTENDS StorageTask, SequenceTheorems, TLAPS

-----------------------------------------------------------------------------
\* The inductive invariant

Over(t) == fetch[t].at \in {"ended", "failed"}

Cause(t) == fetch[t].at = "failed" \/ (Kind[t] = "get" /\ Size[t] > Limit)

\* What a block on the main queue tells of its call.
Sound(b) ==
  /\ b.what = "received" => Kind[b.task] = "get" /\ b.n <= Size[b.task]
  /\ b.what = "progress" => Kind[b.task] = "get"
  /\ b.what = "ended" => Over(b.task)
  /\ b.what = "success" => Kind[b.task] # "delete" /\ fetch[b.task].at = "ended"
  /\ b.what = "data" => Kind[b.task] = "get" /\ fetch[b.task].at = "ended"
  /\ b.what \in {"failure", "error"} => Kind[b.task] = "get" /\ Cause(b.task)

QueueSound == \A i \in 1..Len(mainQueue) : Sound(mainQueue[i])

\* The end of a fetch, and its success, are queued once.
QueueOnce ==
  \A i, j \in 1..Len(mainQueue) :
    /\ mainQueue[i].what \in {"ended", "success"}
    /\ mainQueue[i].what = mainQueue[j].what
    /\ mainQueue[i].task = mainQueue[j].task
    => i = j

Queued(what, t) ==
  \E i \in 1..Len(mainQueue) : mainQueue[i].what = what /\ mainQueue[i].task = t

\* The end of a fetch was not yet handed on.
Unfired(t) ==
  ~Over(t) \/ Queued("ended", t) \/ finishing = [task |-> t, fired |-> FALSE]

\* Of a call other than getData, which has its flag, nothing was told.
Untold(t) == Kind[t] = "get" \/ answers[t] = <<>>

EndOnce ==
  \A t \in Tasks :
    /\ finishing.task = t => Over(t)
    /\ Queued("ended", t) => finishing.task # t
    /\ Unfired(t) => Untold(t) /\ ~Queued("success", t)
    /\ Queued("success", t) => Untold(t)

FetchSound ==
  \A t \in Tasks :
    /\ fetch[t].got <= Size[t]
    /\ fetch[t].at = "ended" => fetch[t].got = Size[t]
    /\ progress[t] <= Size[t]

\* A fetch is begun once, and cancelled if it is a download too large.
StorageSound ==
  /\ \A i \in 1..Len(storageQueue) :
       /\ storageQueue[i].what = "enqueue" => fetch[storageQueue[i].task].at = "called"
       /\ storageQueue[i].what = "cancel" =>
            Kind[storageQueue[i].task] = "get" /\ Size[storageQueue[i].task] > Limit
  /\ \A i, j \in 1..Len(storageQueue) :
       /\ storageQueue[i].what = "enqueue" /\ storageQueue[j].what = "enqueue"
       /\ storageQueue[i].task = storageQueue[j].task
       => i = j

AnswerSound ==
  \A t \in Tasks :
    /\ answers[t] = <<>> \/ answers[t] = <<"data">> \/ answers[t] = <<"error">>
    /\ answers[t] = <<"data">> => fetch[t].at = "ended"
    /\ answers[t] = <<"error">> => Cause(t)
    /\ Kind[t] = "get" /\ answers[t] # <<>> => t \in completed

IInv ==
  /\ TypeOK
  /\ QueueSound
  /\ QueueOnce
  /\ EndOnce
  /\ FetchSound
  /\ StorageSound
  /\ AnswerSound

-----------------------------------------------------------------------------
\* The main queue: k blocks are taken, and at most one of `new` is added

Moved(k, new) ==
  \A i \in 1..Len(mainQueue') :
    \/ i + k \in 1..Len(mainQueue) /\ mainQueue'[i] = mainQueue[i + k]
    \/ i = Len(mainQueue') /\ mainQueue'[i] \in new

LEMMA OneMore ==
  ASSUME NEW S, NEW q \in Seq(S), NEW b \in S
  PROVE  /\ q \o <<b>> \in Seq(S)
         /\ Len(q \o <<b>>) = Len(q) + 1
         /\ \A i \in 1..Len(q) : (q \o <<b>>)[i] = q[i]
         /\ (q \o <<b>>)[Len(q) + 1] = b
OBVIOUS

LEMMA AddedMoves ==
  ASSUME TypeOK, NEW b \in Block, mainQueue' = mainQueue \o <<b>>
  PROVE  mainQueue' \in Seq(Block) /\ Moved(0, {b})
BY DEF TypeOK, Moved

LEMMA TakenMoves ==
  ASSUME TypeOK, mainQueue # <<>>, mainQueue' = Tail(mainQueue)
  PROVE  mainQueue' \in Seq(Block) /\ Moved(1, {})
BY DEF TypeOK, Moved

LEMMA OneLessOneMore ==
  ASSUME NEW S, NEW p \in Seq(S), p # <<>>, NEW b \in S
  PROVE  /\ Tail(p) \o <<b>> \in Seq(S)
         /\ Len(Tail(p) \o <<b>>) = Len(p)
         /\ \A i \in 1..(Len(p) - 1) : (Tail(p) \o <<b>>)[i] = p[i + 1]
         /\ (Tail(p) \o <<b>>)[Len(p)] = b
<1>0. Tail(p) \in Seq(S)
  OBVIOUS
<1>1. PICK q \in Seq(S) : q = Tail(p)
  BY <1>0
<1>2. Len(p) \in Nat \ {0} /\ Len(q) = Len(p) - 1 /\ \A i \in 1..(Len(p) - 1) : q[i] = p[i + 1]
  BY <1>1
<1>3. /\ q \o <<b>> \in Seq(S)
      /\ Len(q \o <<b>>) = Len(q) + 1
      /\ \A i \in 1..Len(q) : (q \o <<b>>)[i] = q[i]
      /\ (q \o <<b>>)[Len(q) + 1] = b
  BY OneMore
<1> QED BY <1>1, <1>2, <1>3

LEMMA TakenAddedMoves ==
  ASSUME TypeOK, mainQueue # <<>>, NEW b \in Block, mainQueue' = Tail(mainQueue) \o <<b>>
  PROVE  mainQueue' \in Seq(Block) /\ Moved(1, {b})
<1>1. mainQueue \in Seq(Block) /\ Len(mainQueue) \in Nat
  BY DEF TypeOK
<1>2. mainQueue' \in Seq(Block) /\ Len(mainQueue') = Len(mainQueue)
  BY <1>1, OneLessOneMore
<1>3. \A i \in 1..(Len(mainQueue) - 1) : mainQueue'[i] = mainQueue[i + 1]
  BY <1>1, OneLessOneMore
<1>4. mainQueue'[Len(mainQueue)] = b
  BY <1>1, OneLessOneMore
<1>5. ASSUME NEW n \in Nat, NEW i \in 1..n
      PROVE  (i \in 1..(n - 1) /\ i + 1 \in 1..n) \/ i = n
  OBVIOUS
<1>6. \A i \in 1..Len(mainQueue') :
        \/ i + 1 \in 1..Len(mainQueue) /\ mainQueue'[i] = mainQueue[i + 1]
        \/ i = Len(mainQueue') /\ mainQueue'[i] = b
  BY <1>1, <1>2, <1>3, <1>4, <1>5
<1> QED BY <1>2, <1>6 DEF Moved

LEMMA StaysMoved ==
  ASSUME TypeOK, UNCHANGED mainQueue
  PROVE  mainQueue' \in Seq(Block) /\ Moved(0, {})
BY DEF TypeOK, Moved

\* Handlers that are registered add one block, others none.
LEMMA FireMoves ==
  ASSUME TypeOK, NEW t \in Tasks,
         NEW what \in {"progress", "success", "failure"}, mainQueue' = mainQueue \o Fire(what, t)
  PROVE  mainQueue' \in Seq(Block) /\ Moved(0, {B(what, t)})
<1>1. B(what, t) \in Block
  BY DEF B, Block
<1>2. CASE t \in observed
  <2>1. mainQueue' = mainQueue \o <<B(what, t)>>
    BY <1>2 DEF Fire
  <2> QED BY <1>1, <2>1, AddedMoves
<1>3. CASE t \notin observed
  <2>1. mainQueue' = mainQueue
    BY <1>3 DEF Fire, TypeOK
  <2> QED BY <2>1, StaysMoved DEF Moved
<1> QED BY <1>2, <1>3

LEMMA TakenFireMoves ==
  ASSUME TypeOK, mainQueue # <<>>, NEW t \in Tasks,
         NEW what \in {"progress", "success", "failure"},
         mainQueue' = Tail(mainQueue) \o Fire(what, t)
  PROVE  mainQueue' \in Seq(Block) /\ Moved(1, {B(what, t)})
<1>1. B(what, t) \in Block
  BY DEF B, Block
<1>2. CASE t \in observed
  <2>1. mainQueue' = Tail(mainQueue) \o <<B(what, t)>>
    BY <1>2 DEF Fire
  <2> QED BY <1>1, <2>1, TakenAddedMoves
<1>3. CASE t \notin observed
  <2>1. mainQueue' = Tail(mainQueue)
    BY <1>3 DEF Fire, TypeOK
  <2> QED BY <2>1, TakenMoves DEF Moved
<1> QED BY <1>2, <1>3

LEMMA HeadTaken ==
  ASSUME TypeOK, NEW t, NEW what, Take(what, t)
  PROVE  /\ finishing = Idle
         /\ mainQueue # <<>>
         /\ 1 \in 1..Len(mainQueue)
         /\ Head(mainQueue) = mainQueue[1]
         /\ mainQueue[1] \in Block
         /\ mainQueue[1].what = what /\ mainQueue[1].task = t
<1>1. mainQueue \in Seq(Block) /\ mainQueue # <<>>
  BY DEF TypeOK, Take
<1>2. 1 \in 1..Len(mainQueue) /\ Head(mainQueue) = mainQueue[1] /\ mainQueue[1] \in Block
  BY <1>1
<1> QED BY <1>1, <1>2 DEF Take

-----------------------------------------------------------------------------
\* What each action does to the main queue

LEMMA ReceiveMoves ==
  ASSUME TypeOK, NEW t \in Tasks, Receive(t)
  PROVE  /\ mainQueue' \in Seq(Block)
         /\ Moved(0, {b \in {[what |-> "received", task |-> t, n |-> fetch[t].got + 1]} : Kind[t] = "get"})
<1> DEFINE b == [what |-> "received", task |-> t, n |-> fetch[t].got + 1]
<1>1. b \in Block
  BY DEF TypeOK, Block, Fetch
<1>2. CASE Kind[t] = "get"
  <2>0. mainQueue' = Append(mainQueue, b)
    BY <1>2 DEF Receive
  <2> HIDE DEF b
  <2>1. mainQueue' = mainQueue \o <<b>>
    BY <2>0, <1>1 DEF TypeOK
  <2>2. mainQueue' \in Seq(Block) /\ Moved(0, {b})
    BY <1>1, <2>1, AddedMoves
  <2> QED BY <1>2, <2>2 DEF Moved, b
<1>3. CASE Kind[t] # "get"
  BY <1>3, StaysMoved DEF Receive, Moved
<1> QED BY <1>2, <1>3

LEMMA EndMoves ==
  ASSUME TypeOK, NEW t \in Tasks, End(t)
  PROVE  mainQueue' \in Seq(Block) /\ Moved(0, {B("ended", t)})
<1>1. B("ended", t) \in Block
  BY DEF B, Block
<1>2. mainQueue' = mainQueue \o <<B("ended", t)>>
  BY <1>1 DEF End, TypeOK
<1> QED BY <1>1, <1>2, AddedMoves

LEMMA RunReceivedMoves ==
  ASSUME TypeOK, NEW t \in Tasks, RunReceived(t)
  PROVE  mainQueue' \in Seq(Block) /\ Moved(1, {B("progress", t)})
<1>1. mainQueue # <<>>
  BY HeadTaken DEF RunReceived
<1>2. CASE mainQueue' = Tail(mainQueue)
  BY <1>1, <1>2, TakenMoves DEF Moved
<1>3. CASE mainQueue' = Tail(mainQueue) \o Fire("progress", t)
  BY <1>1, <1>3, TakenFireMoves
<1> QED BY <1>2, <1>3 DEF RunReceived

LEMMA BeginFinishMoves ==
  ASSUME TypeOK, NEW t \in Tasks, BeginFinish(t)
  PROVE  mainQueue' \in Seq(Block) /\ Moved(1, {b \in {B("progress", t)} : Kind[t] = "get"})
<1>1. mainQueue # <<>>
  BY HeadTaken DEF BeginFinish
<1>2. CASE mainQueue' = Tail(mainQueue)
  BY <1>1, <1>2, TakenMoves DEF Moved
<1>3. CASE Kind[t] = "get" /\ mainQueue' = Tail(mainQueue) \o Fire("progress", t)
  <2>1. mainQueue' \in Seq(Block) /\ Moved(1, {B("progress", t)})
    BY <1>1, <1>3, TakenFireMoves
  <2> QED BY <1>3, <2>1 DEF Moved
<1>4. Tail(mainQueue) \o <<>> = Tail(mainQueue)
  BY <1>1 DEF TypeOK
<1> QED BY <1>2, <1>3, <1>4 DEF BeginFinish

\* A success or a failure is added only with its cause.
LEMMA FireEndMoves ==
  ASSUME TypeOK, NEW t \in Tasks, FireEnd(t)
  PROVE  /\ mainQueue' \in Seq(Block)
         /\ \/ Moved(0, {})
            \/ Kind[t] # "delete" /\ fetch[t].at = "ended" /\ Moved(0, {B("success", t)})
            \/ Kind[t] = "get" /\ fetch[t].at # "ended" /\ Moved(0, {B("failure", t)})
<1>1. CASE mainQueue' = mainQueue
  BY <1>1, StaysMoved
<1>2. CASE Kind[t] # "delete" /\ fetch[t].at = "ended" /\ mainQueue' = mainQueue \o Fire("success", t)
  BY <1>2, FireMoves
<1>3. CASE Kind[t] = "get" /\ fetch[t].at # "ended" /\ mainQueue' = mainQueue \o Fire("failure", t)
  BY <1>3, FireMoves
<1>4. mainQueue \o <<>> = mainQueue
  BY DEF TypeOK
<1> QED BY <1>1, <1>2, <1>3, <1>4 DEF FireEnd

LEMMA RunHandlerMoves ==
  ASSUME TypeOK, NEW t \in Tasks, RunHandler(t)
  PROVE  /\ mainQueue' \in Seq(Block)
         /\ \/ Take("success", t) /\ Kind[t] = "put" /\ Tell(t, "data") /\ Moved(1, {})
            \/ Take("success", t) /\ Kind[t] = "get" /\ UNCHANGED answers /\ Moved(1, {B("data", t)})
            \/ Take("failure", t) /\ UNCHANGED answers /\ Moved(1, {B("error", t)})
<1>0. mainQueue # <<>> /\ Tail(mainQueue) \in Seq(Block)
  <2>1. mainQueue # <<>>
    BY HeadTaken DEF RunHandler
  <2> QED BY <2>1 DEF TypeOK
<1>b. B("data", t) \in Block /\ B("error", t) \in Block
  BY DEF B, Block
<1>1. CASE Take("success", t) /\ Kind[t] = "put" /\ mainQueue' = Tail(mainQueue) /\ Tell(t, "data")
  BY <1>0, <1>1, TakenMoves
<1>2. CASE /\ Take("success", t) /\ Kind[t] = "get" /\ UNCHANGED answers
           /\ mainQueue' = Append(Tail(mainQueue), B("data", t))
  <2>1. mainQueue' = Tail(mainQueue) \o <<B("data", t)>>
    BY <1>0, <1>b, <1>2
  <2> QED BY <1>0, <1>b, <1>2, <2>1, TakenAddedMoves
<1>3. CASE /\ Take("failure", t) /\ UNCHANGED answers
           /\ mainQueue' = Append(Tail(mainQueue), B("error", t))
  <2>1. mainQueue' = Tail(mainQueue) \o <<B("error", t)>>
    BY <1>0, <1>b, <1>3
  <2> QED BY <1>0, <1>b, <1>3, <2>1, TakenAddedMoves
<1> QED BY <1>1, <1>2, <1>3 DEF RunHandler

-----------------------------------------------------------------------------
\* Types

StorageBlock == [what: {"enqueue", "cancel"}, task: Tasks]

LEMMA TellTyped ==
  ASSUME TypeOK, NEW t \in Tasks, NEW a \in {"data", "error"}, Tell(t, a)
  PROVE  answers' \in [Tasks -> Seq({"data", "error"})]
<1>1. Append(answers[t], a) \in Seq({"data", "error"})
  BY DEF TypeOK
<1> QED BY <1>1 DEF Tell, TypeOK

\* What the queue of Storage holds after one step.
StorageMoved(k, new) ==
  \A i \in 1..Len(storageQueue') :
    \/ i + k \in 1..Len(storageQueue) /\ storageQueue'[i] = storageQueue[i + k]
    \/ i = Len(storageQueue') /\ storageQueue'[i] \in new

LEMMA StorageAdds ==
  ASSUME TypeOK, NEW b \in StorageBlock, storageQueue' = Append(storageQueue, b)
  PROVE  storageQueue' \in Seq(StorageBlock) /\ StorageMoved(0, {b})
<1>1. storageQueue \in Seq(StorageBlock)
  BY DEF TypeOK, StorageBlock
<1> QED BY <1>1 DEF StorageMoved

LEMMA StorageTakes ==
  ASSUME TypeOK, NEW what, NEW t, TakeStorage(what, t)
  PROVE  /\ 1 \in 1..Len(storageQueue) /\ storageQueue[1] = [what |-> what, task |-> t]
         /\ storageQueue' = Tail(storageQueue) =>
              storageQueue' \in Seq(StorageBlock) /\ StorageMoved(1, {})
<1>1. storageQueue \in Seq(StorageBlock)
  BY DEF TypeOK, StorageBlock
<1> QED BY <1>1 DEF StorageMoved, TakeStorage

LEMMA AtTyped ==
  ASSUME TypeOK, NEW t \in Tasks, NEW a \in {"called", "running", "ended", "failed"},
         fetch' = [fetch EXCEPT ![t].at = a]
  PROVE  fetch' \in [Tasks -> Fetch]
<1>1. fetch \in [Tasks -> Fetch]
  BY DEF TypeOK
<1> QED BY <1>1 DEF Fetch

LEMMA TypeStep == TypeOK /\ [Next]_vars => TypeOK'
<1> SUFFICES ASSUME TypeOK, [Next]_vars PROVE TypeOK'
  OBVIOUS
<1> USE TaskAssumption
<1>1. CASE UNCHANGED vars
  BY <1>1 DEF TypeOK, vars
<1>2. ASSUME NEW t \in Tasks, Call(t) PROVE TypeOK'
  <2>1. storageQueue' \in Seq(StorageBlock)
    BY <1>2, StorageAdds DEF Call, StorageBlock
  <2>2. fetch' \in [Tasks -> Fetch]
    BY <1>2, AtTyped DEF Call
  <2> QED BY <1>2, <2>1, <2>2 DEF Call, TypeOK, StorageBlock
<1>3. ASSUME NEW t \in Tasks, BeginFetch(t) PROVE TypeOK'
  <2>1. storageQueue' \in Seq(StorageBlock)
    BY <1>3, StorageTakes DEF BeginFetch
  <2>2. fetch' \in [Tasks -> Fetch]
    BY <1>3, AtTyped DEF BeginFetch
  <2> QED BY <1>3, <2>1, <2>2 DEF BeginFetch, TypeOK, StorageBlock
<1>4. ASSUME NEW t \in Tasks, Receive(t) PROVE TypeOK'
  <2>1. mainQueue' \in Seq(Block)
    BY <1>4, ReceiveMoves
  <2>2. fetch' \in [Tasks -> Fetch]
    <3>1. fetch \in [Tasks -> Fetch] /\ fetch' = [fetch EXCEPT ![t].got = fetch[t].got + 1]
      BY <1>4 DEF Receive, TypeOK
    <3>2. fetch[t] \in Fetch
      BY <3>1
    <3>3. fetch[t].got + 1 \in Nat
      BY <3>2 DEF Fetch
    <3> QED BY <3>1, <3>3 DEF Fetch
  <2> QED BY <1>4, <2>1, <2>2 DEF Receive, TypeOK
<1>5. ASSUME NEW t \in Tasks, End(t) PROVE TypeOK'
  <2>1. mainQueue' \in Seq(Block)
    BY <1>5, EndMoves
  <2>2. fetch' \in [Tasks -> Fetch]
    BY <1>5, AtTyped DEF End
  <2> QED BY <1>5, <2>1, <2>2 DEF End, TypeOK
<1>6. ASSUME NEW t \in Tasks, RunReceived(t) PROVE TypeOK'
  <2>1. mainQueue' \in Seq(Block)
    BY <1>6, RunReceivedMoves
  <2>2. Head(mainQueue).n \in Nat
    BY <1>6, HeadTaken DEF RunReceived, Block
  <2> QED BY <1>6, <2>1, <2>2 DEF RunReceived, TypeOK
<1>7. ASSUME NEW t \in Tasks, BeginFinish(t) PROVE TypeOK'
  <2>1. mainQueue' \in Seq(Block)
    BY <1>7, BeginFinishMoves
  <2>2. finishing' \in [task: Tasks \cup {NoTask}, fired: BOOLEAN]
    <3>1. finishing' = finishing \/ finishing' = [task |-> t, fired |-> FALSE]
      BY <1>7 DEF BeginFinish
    <3>2. finishing \in [task: Tasks \cup {NoTask}, fired: BOOLEAN]
      BY DEF TypeOK
    <3>3. CASE finishing' = finishing
      BY <3>2, <3>3
    <3>4. CASE finishing' = [task |-> t, fired |-> FALSE]
      BY <3>4
    <3> QED BY <3>1, <3>3, <3>4
  <2>3. UNCHANGED <<storageQueue, fetch, stopped, progress, observed, cancelling, completed, answers>>
    BY <1>7 DEF BeginFinish
  <2> QED BY <2>1, <2>2, <2>3 DEF TypeOK
<1>8. ASSUME NEW t \in Tasks, FireEnd(t) PROVE TypeOK'
  <2>1. mainQueue' \in Seq(Block)
    BY <1>8, FireEndMoves
  <2>2. answers' \in [Tasks -> Seq({"data", "error"})]
    BY <1>8, TellTyped DEF FireEnd, TypeOK
  <2> QED BY <1>8, <2>1, <2>2 DEF FireEnd, TypeOK
<1>9. ASSUME NEW t \in Tasks, EndFinish(t) PROVE TypeOK'
  BY <1>9 DEF EndFinish, Idle, TypeOK
<1>10. ASSUME NEW t \in Tasks, RunProgress(t) PROVE TypeOK'
  <2>1. mainQueue' \in Seq(Block)
    BY <1>10, HeadTaken, TakenMoves DEF RunProgress
  <2>2. storageQueue' \in Seq(StorageBlock)
    BY <1>10, StorageAdds DEF RunProgress, StorageBlock, TypeOK
  <2> QED BY <1>10, <2>1, <2>2 DEF RunProgress, TypeOK, StorageBlock
<1>11. ASSUME NEW t \in Tasks, RunHandler(t) PROVE TypeOK'
  <2>1. mainQueue' \in Seq(Block)
    BY <1>11, RunHandlerMoves
  <2>2. answers' \in [Tasks -> Seq({"data", "error"})]
    BY <1>11, TellTyped DEF RunHandler, TypeOK
  <2> QED BY <1>11, <2>1, <2>2 DEF RunHandler, TypeOK
<1>12. ASSUME NEW t \in Tasks, RunCompletion(t) PROVE TypeOK'
  <2>1. mainQueue' \in Seq(Block) /\ Head(mainQueue).what \in {"data", "error"}
    BY <1>12, HeadTaken, TakenMoves DEF RunCompletion
  <2>2. answers' \in [Tasks -> Seq({"data", "error"})]
    BY <1>12, <2>1, TellTyped DEF RunCompletion, TypeOK
  <2> QED BY <1>12, <2>1, <2>2 DEF RunCompletion, TypeOK
<1>13. ASSUME NEW t \in Tasks, StopFetching(t) PROVE TypeOK'
  BY <1>13 DEF StopFetching, TypeOK
<1>14. ASSUME NEW t \in Tasks, FireCancelled(t) PROVE TypeOK'
  <2>1. mainQueue' \in Seq(Block)
    BY <1>14, FireMoves DEF FireCancelled
  <2>2. storageQueue' \in Seq(StorageBlock)
    BY <1>14, StorageTakes DEF FireCancelled
  <2> QED BY <1>14, <2>1, <2>2 DEF FireCancelled, TypeOK, StorageBlock
<1> QED
  BY <1>1, <1>2, <1>3, <1>4, <1>5, <1>6, <1>7, <1>8, <1>9, <1>10, <1>11, <1>12, <1>13, <1>14
  DEF Next, MainStep, StorageStep

-----------------------------------------------------------------------------
\* What a step keeps of each part of the invariant

\* The end of a fetch is not undone.
Stable == \A u \in Tasks : Over(u) => fetch'[u].at = fetch[u].at

LEMMA SoundMoved ==
  ASSUME TypeOK, QueueSound, Stable, NEW k \in {0, 1}, NEW new,
         Moved(k, new), \A b \in new : Sound(b)'
  PROVE  QueueSound'
<1>1. ASSUME NEW b \in Block, Sound(b) PROVE Sound(b)'
  <2>1. b.task \in Tasks
    BY DEF Block
  <2> QED BY <1>1, <2>1 DEF Sound, Stable, Over, Cause
<1>2. \A i \in 1..Len(mainQueue) : mainQueue[i] \in Block /\ Sound(mainQueue[i])
  BY DEF TypeOK, QueueSound
<1>3. ASSUME NEW i \in 1..Len(mainQueue') PROVE Sound(mainQueue[i])'
  <2>1. CASE mainQueue'[i] \in new
    BY <2>1
  <2>2. CASE i + k \in 1..Len(mainQueue) /\ mainQueue'[i] = mainQueue[i + k]
    BY <1>1, <1>2, <2>2
  <2> QED BY <2>1, <2>2 DEF Moved
<1> QED BY <1>3 DEF QueueSound

LEMMA QueuedMoved ==
  ASSUME NEW k, NEW new, Moved(k, new), NEW what, NEW t, Queued(what, t)'
  PROVE  Queued(what, t) \/ \E b \in new : b.what = what /\ b.task = t
BY DEF Queued, Moved

LEMMA OnceMoved ==
  ASSUME TypeOK, QueueOnce, NEW k \in {0, 1}, NEW new, Moved(k, new), mainQueue' \in Seq(Block),
         \A b \in new : b.what \in {"ended", "success"} => ~Queued(b.what, b.task)
  PROVE  QueueOnce'
<1> SUFFICES ASSUME NEW i \in 1..Len(mainQueue'), NEW j \in 1..Len(mainQueue'),
                    mainQueue'[i].what \in {"ended", "success"},
                    mainQueue'[i].what = mainQueue'[j].what,
                    mainQueue'[i].task = mainQueue'[j].task
             PROVE  i = j
  BY DEF QueueOnce
<1>1. CASE /\ i + k \in 1..Len(mainQueue) /\ mainQueue'[i] = mainQueue[i + k]
           /\ j + k \in 1..Len(mainQueue) /\ mainQueue'[j] = mainQueue[j + k]
  <2>1. i + k = j + k
    BY <1>1 DEF QueueOnce
  <2> QED BY <2>1
<1>2. CASE mainQueue'[i] \in new /\ j + k \in 1..Len(mainQueue) /\ mainQueue'[j] = mainQueue[j + k]
  BY <1>2 DEF Queued
<1>3. CASE mainQueue'[j] \in new /\ i + k \in 1..Len(mainQueue) /\ mainQueue'[i] = mainQueue[i + k]
  BY <1>3 DEF Queued
<1> QED BY <1>1, <1>2, <1>3 DEF Moved

\* The block taken was the only one of its kind.
LEMMA TakenOnce ==
  ASSUME TypeOK, QueueOnce, NEW what \in {"ended", "success"}, NEW t, Take(what, t),
         NEW new, Moved(1, new), \A b \in new : b.what # what
  PROVE  ~Queued(what, t)'
<1> SUFFICES ASSUME NEW i \in 1..Len(mainQueue'), mainQueue'[i].what = what, mainQueue'[i].task = t
             PROVE  FALSE
  BY DEF Queued
<1>1. i + 1 \in 1..Len(mainQueue) /\ mainQueue'[i] = mainQueue[i + 1]
  BY DEF Moved
<1>2. 1 \in 1..Len(mainQueue) /\ mainQueue[1].what = what /\ mainQueue[1].task = t
  BY HeadTaken
<1>3. 1 = i + 1
  BY <1>1, <1>2 DEF QueueOnce
<1> QED BY <1>3

LEMMA EndKept ==
  ASSUME EndOnce, NEW k, NEW new, Moved(k, new),
         \A b \in new : b.what \notin {"ended", "success"},
         UNCHANGED finishing,
         \A u \in Tasks : Over(u)' <=> Over(u),
         \A u \in Tasks : Untold(u) => Untold(u)'
  PROVE  EndOnce'
<1>1. \A u \in Tasks, what \in {"ended", "success"} : Queued(what, u)' => Queued(what, u)
  BY QueuedMoved
<1> QED BY <1>1 DEF EndOnce, Unfired

LEMMA AnswersKept ==
  ASSUME AnswerSound, Stable, UNCHANGED answers, completed \subseteq completed'
  PROVE  AnswerSound'
BY DEF AnswerSound, Stable, Cause, Over

LEMMA StorageTasks ==
  ASSUME TypeOK
  PROVE  \A i \in 1..Len(storageQueue) :
           storageQueue[i].what \in {"enqueue", "cancel"} /\ storageQueue[i].task \in Tasks
<1>1. storageQueue \in Seq(StorageBlock)
  BY DEF TypeOK, StorageBlock
<1>2. \A i \in 1..Len(storageQueue) : storageQueue[i] \in StorageBlock
  BY <1>1
<1> QED BY <1>2 DEF StorageBlock

LEMMA StorageKept ==
  ASSUME TypeOK, StorageSound, UNCHANGED storageQueue,
         \A u \in Tasks : fetch[u].at = "called" => fetch'[u].at = "called"
  PROVE  StorageSound'
BY StorageTasks DEF StorageSound

\* A cancellation that is added is of a download too large; what is begun was called.
LEMMA StorageSoundMoved ==
  ASSUME TypeOK, StorageSound, NEW k \in {0, 1}, NEW new, StorageMoved(k, new),
         storageQueue' \in Seq(StorageBlock),
         \A b \in new : b.what = "enqueue" =>
           /\ fetch'[b.task].at = "called"
           /\ \A i \in 1..Len(storageQueue) : storageQueue[i] # b,
         \A b \in new : b.what = "cancel" => Kind[b.task] = "get" /\ Size[b.task] > Limit,
         new \subseteq StorageBlock,
         \A i \in 1..Len(storageQueue) :
           i > k /\ storageQueue[i].what = "enqueue" => fetch'[storageQueue[i].task].at = "called"
  PROVE  StorageSound'
<1>1. storageQueue \in Seq(StorageBlock)
  BY DEF TypeOK, StorageBlock
<1>2. ASSUME NEW i \in 1..Len(storageQueue')
      PROVE  /\ storageQueue'[i].what = "enqueue" => fetch'[storageQueue'[i].task].at = "called"
             /\ storageQueue'[i].what = "cancel" =>
                  Kind[storageQueue'[i].task] = "get" /\ Size[storageQueue'[i].task] > Limit
  <2>1. CASE storageQueue'[i] \in new
    BY <2>1
  <2>2. CASE i + k \in 1..Len(storageQueue) /\ storageQueue'[i] = storageQueue[i + k]
    BY <2>2 DEF StorageSound
  <2> QED BY <2>1, <2>2 DEF StorageMoved
<1>3. ASSUME NEW i \in 1..Len(storageQueue'), NEW j \in 1..Len(storageQueue'),
             storageQueue'[i].what = "enqueue", storageQueue'[j].what = "enqueue",
             storageQueue'[i].task = storageQueue'[j].task
      PROVE  i = j
  <2>1. storageQueue'[i] = storageQueue'[j]
    <3>1. storageQueue'[i] \in StorageBlock /\ storageQueue'[j] \in StorageBlock
      OBVIOUS
    <3> QED BY <1>3, <3>1 DEF StorageBlock
  <2>2. CASE /\ i + k \in 1..Len(storageQueue) /\ storageQueue'[i] = storageQueue[i + k]
             /\ j + k \in 1..Len(storageQueue) /\ storageQueue'[j] = storageQueue[j + k]
    <3>1. i + k = j + k
      BY <1>3, <2>2 DEF StorageSound
    <3> QED BY <3>1
  <2>3. CASE storageQueue'[i] \in new /\ j + k \in 1..Len(storageQueue) /\ storageQueue'[j] = storageQueue[j + k]
    BY <1>3, <2>1, <2>3
  <2>4. CASE storageQueue'[j] \in new /\ i + k \in 1..Len(storageQueue) /\ storageQueue'[i] = storageQueue[i + k]
    BY <1>3, <2>1, <2>4
  <2> QED BY <2>2, <2>3, <2>4 DEF StorageMoved
<1> QED BY <1>2, <1>3 DEF StorageSound

LEMMA SeqLens ==
  ASSUME TypeOK, TypeOK'
  PROVE  /\ mainQueue \in Seq(Block) /\ mainQueue' \in Seq(Block)
         /\ storageQueue \in Seq(StorageBlock) /\ storageQueue' \in Seq(StorageBlock)
BY DEF TypeOK, StorageBlock

-----------------------------------------------------------------------------
\* The call and the network

LEMMA CallStep ==
  ASSUME IInv, TypeOK', NEW t \in Tasks, Call(t)
  PROVE  IInv'
<1> USE TaskAssumption DEF IInv
<1>0. Moved(0, {})
  BY StaysMoved DEF Call
<1>1. \A u \in Tasks : fetch'[u] = IF u = t THEN [fetch[t] EXCEPT !.at = "called"] ELSE fetch[u]
  BY DEF Call, TypeOK
<1>2. /\ fetch[t] \in Fetch /\ fetch'[t].at = "called" /\ fetch'[t].got = fetch[t].got
      /\ fetch[t].at = "uncalled"
  BY <1>1 DEF Call, TypeOK, Fetch
<1>3. Stable /\ \A u \in Tasks : Over(u)' <=> Over(u)
  BY <1>1, <1>2 DEF Stable, Over
<1>4. QueueSound'
  BY <1>0, <1>3, SoundMoved
<1>5. QueueOnce'
  BY <1>0, OnceMoved, SeqLens
<1>6. EndOnce'
  BY <1>0, <1>3, EndKept DEF Call, Untold
<1>7. FetchSound'
  BY <1>1, <1>2 DEF FetchSound, Call
<1>8. StorageSound'
  <2> DEFINE b == [what |-> "enqueue", task |-> t]
  <2>1. b \in StorageBlock /\ StorageMoved(0, {b})
    BY StorageAdds DEF Call, StorageBlock
  <2>2. \A i \in 1..Len(storageQueue) :
          storageQueue[i].what = "enqueue" => /\ fetch[storageQueue[i].task].at = "called"
                                              /\ storageQueue[i].task \in Tasks
    BY StorageTasks DEF StorageSound
  <2>3. \A i \in 1..Len(storageQueue) :
          storageQueue[i].what = "enqueue" => /\ fetch'[storageQueue[i].task].at = "called"
                                              /\ storageQueue[i].task # t
    BY <2>2, <1>1, <1>2
  <2>4. b.what = "enqueue" /\ b.task = t
    OBVIOUS
  <2> HIDE DEF b
  <2>5. \A i \in 1..Len(storageQueue) : storageQueue[i] # b
    BY <2>3, <2>4
  <2>6. fetch'[b.task].at = "called"
    BY <1>2, <2>4
  <2>7. storageQueue' \in Seq(StorageBlock) /\ {b} \subseteq StorageBlock
    BY <2>1, SeqLens
  <2>8. \A i \in 1..Len(storageQueue) :
          i > 0 /\ storageQueue[i].what = "enqueue" => fetch'[storageQueue[i].task].at = "called"
    BY <2>3
  <2>9. TypeOK /\ StorageSound
    OBVIOUS
  <2> HIDE DEF IInv
  <2> QED BY <2>1, <2>4, <2>5, <2>6, <2>7, <2>8, <2>9, StorageSoundMoved
<1>9. AnswerSound'
  BY <1>3, AnswersKept DEF Call
<1> QED BY <1>4, <1>5, <1>6, <1>7, <1>8, <1>9

LEMMA BeginFetchStep ==
  ASSUME IInv, TypeOK', NEW t \in Tasks, BeginFetch(t)
  PROVE  IInv'
<1> USE TaskAssumption DEF IInv
<1>0. Moved(0, {})
  BY StaysMoved DEF BeginFetch
<1>a. 1 \in 1..Len(storageQueue) /\ storageQueue[1].what = "enqueue" /\ storageQueue[1].task = t
  <2>1. TakeStorage("enqueue", t)
    BY DEF BeginFetch
  <2>2. 1 \in 1..Len(storageQueue) /\ storageQueue[1] = [what |-> "enqueue", task |-> t]
    BY <2>1, StorageTakes
  <2> QED BY <2>2
<1>1. \A u \in Tasks : fetch'[u] = IF u = t THEN [fetch[t] EXCEPT !.at = "running"] ELSE fetch[u]
  BY DEF BeginFetch, TypeOK
<1>2. /\ fetch[t] \in Fetch /\ fetch'[t].at = "running" /\ fetch'[t].got = fetch[t].got
      /\ fetch[t].at = "called"
  <2>1. fetch[t].at = "called"
    BY <1>a DEF StorageSound
  <2> QED BY <1>1, <2>1 DEF TypeOK, Fetch
<1>3. Stable /\ \A u \in Tasks : Over(u)' <=> Over(u)
  BY <1>1, <1>2 DEF Stable, Over
<1>4. QueueSound'
  BY <1>0, <1>3, SoundMoved
<1>5. QueueOnce'
  BY <1>0, OnceMoved, SeqLens
<1>6. EndOnce'
  BY <1>0, <1>3, EndKept DEF BeginFetch, Untold
<1>7. FetchSound'
  BY <1>1, <1>2 DEF FetchSound, BeginFetch
<1>8. StorageSound'
  <2>1. StorageMoved(1, {})
    BY StorageTakes DEF BeginFetch
  <2>2. \A i \in 1..Len(storageQueue) :
          storageQueue[i].what = "enqueue" => /\ fetch[storageQueue[i].task].at = "called"
                                              /\ storageQueue[i].task \in Tasks
                                              /\ storageQueue[i].task = t => i = 1
    BY StorageTasks, <1>a DEF StorageSound
  <2>3. \A i \in 1..Len(storageQueue) :
          i > 1 /\ storageQueue[i].what = "enqueue" => fetch'[storageQueue[i].task].at = "called"
    BY <2>2, <1>1, <1>2
  <2>4. storageQueue' \in Seq(StorageBlock)
    BY SeqLens
  <2>5. TypeOK /\ StorageSound
    OBVIOUS
  <2> HIDE DEF IInv
  <2> QED BY <2>1, <2>3, <2>4, <2>5, StorageSoundMoved
<1>9. AnswerSound'
  BY <1>3, AnswersKept DEF BeginFetch
<1> QED BY <1>4, <1>5, <1>6, <1>7, <1>8, <1>9

LEMMA ReceiveStep ==
  ASSUME IInv, TypeOK', NEW t \in Tasks, Receive(t)
  PROVE  IInv'
<1> USE TaskAssumption DEF IInv
<1> DEFINE new == {b \in {[what |-> "received", task |-> t, n |-> fetch[t].got + 1]} : Kind[t] = "get"}
<1>0. Moved(0, new)
  BY ReceiveMoves
<1>1. \A u \in Tasks : fetch'[u] = IF u = t THEN [fetch[t] EXCEPT !.got = @ + 1] ELSE fetch[u]
  BY DEF Receive, TypeOK
<1>2. /\ fetch[t] \in Fetch /\ fetch'[t].at = "running" /\ fetch'[t].got = fetch[t].got + 1
      /\ fetch[t].at = "running" /\ fetch[t].got < Size[t]
  BY <1>1 DEF Receive, TypeOK, Fetch
<1>3. Stable /\ \A u \in Tasks : Over(u)' <=> Over(u)
  BY <1>1, <1>2 DEF Stable, Over
<1>s. fetch[t].got \in Nat /\ Size[t] \in Nat
  BY <1>2 DEF Fetch
<1>4. QueueSound'
  <2>1. \A b \in new : Sound(b)'
    BY <1>2, <1>s DEF Sound
  <2> HIDE DEF new
  <2> QED BY <1>0, <1>3, <2>1, SoundMoved
<1>n. \A b \in new : b.what \notin {"ended", "success"}
  OBVIOUS
<1> HIDE DEF new
<1>5. QueueOnce'
  BY <1>0, <1>n, OnceMoved, SeqLens
<1>6. EndOnce'
  BY <1>0, <1>3, <1>n, EndKept DEF Receive, Untold
<1>7. FetchSound'
  BY <1>1, <1>2, <1>s DEF FetchSound, Receive
<1>8. StorageSound'
  BY <1>1, <1>2, StorageKept DEF Receive
<1>9. AnswerSound'
  BY <1>3, AnswersKept DEF Receive
<1> QED BY <1>4, <1>5, <1>6, <1>7, <1>8, <1>9

\* The end is queued by a fetch that is not over, so for the first time.
LEMMA EndStep ==
  ASSUME IInv, TypeOK', NEW t \in Tasks, End(t)
  PROVE  IInv'
<1> USE TaskAssumption DEF IInv
<1>0. Moved(0, {B("ended", t)})
  BY EndMoves
<1>1. \A u \in Tasks : u # t => fetch'[u] = fetch[u]
  BY DEF End, TypeOK
<1>2. /\ fetch[t] \in Fetch /\ fetch'[t].at \in {"ended", "failed"} /\ fetch'[t].got = fetch[t].got
      /\ fetch[t].at = "running"
      /\ fetch'[t].at = "ended" => fetch[t].got = Size[t]
  BY DEF End, TypeOK, Fetch
<1>3. Stable /\ ~Over(t) /\ Over(t)' /\ \A u \in Tasks : u # t => (Over(u)' <=> Over(u))
  BY <1>1, <1>2 DEF Stable, Over
<1>n. B("ended", t).what = "ended" /\ B("ended", t).task = t
  BY DEF B
<1>4. QueueSound'
  <2>1. Sound(B("ended", t))'
    BY <1>3 DEF Sound, B
  <2> QED BY <1>0, <1>3, <2>1, SoundMoved
<1>q. ~Queued("ended", t)
  <2>1. \A i \in 1..Len(mainQueue) : mainQueue[i].what = "ended" => Over(mainQueue[i].task)
    BY DEF QueueSound, Sound
  <2> QED BY <1>3, <2>1 DEF Queued
<1>5. QueueOnce'
  BY <1>0, <1>n, <1>q, OnceMoved, SeqLens
<1>6. EndOnce'
  <2>1. \A u \in Tasks : /\ Queued("ended", u)' => u = t \/ Queued("ended", u)
                         /\ Queued("success", u)' => Queued("success", u)
    BY <1>0, <1>n, QueuedMoved
  <2>2. \A u \in Tasks : Unfired(u)' => Unfired(u)
    BY <1>3, <2>1 DEF Unfired, End
  <2> QED BY <1>3, <2>1, <2>2 DEF EndOnce, Untold, End
<1>7. FetchSound'
  BY <1>1, <1>2 DEF FetchSound, End
<1>8. StorageSound'
  BY <1>1, <1>2, StorageKept DEF End
<1>9. AnswerSound'
  BY <1>3, AnswersKept DEF End
<1> QED BY <1>4, <1>5, <1>6, <1>7, <1>8, <1>9

-----------------------------------------------------------------------------
\* The main thread

LEMMA SameFetch ==
  ASSUME UNCHANGED fetch
  PROVE  /\ Stable
         /\ \A u \in Tasks : Over(u)' <=> Over(u)
         /\ \A u \in Tasks : fetch[u].at = "called" => fetch'[u].at = "called"
BY DEF Stable, Over

\* A block is taken from the main queue: what it told holds.
LEMMA HeadSound ==
  ASSUME TypeOK, QueueSound, NEW t, NEW what, Take(what, t)
  PROVE  /\ Sound(mainQueue[1]) /\ mainQueue[1] \in Block
         /\ mainQueue[1] = Head(mainQueue)
         /\ mainQueue[1].what = what /\ mainQueue[1].task = t
         /\ Queued(what, t)
BY HeadTaken DEF QueueSound, Queued

LEMMA RunReceivedStep ==
  ASSUME IInv, TypeOK', NEW t \in Tasks, RunReceived(t)
  PROVE  IInv'
<1> USE TaskAssumption DEF IInv
<1>0. Moved(1, {B("progress", t)})
  BY RunReceivedMoves
<1>1. UNCHANGED <<fetch, finishing, answers, completed, storageQueue>>
  BY DEF RunReceived
<1>2. Kind[t] = "get" /\ Head(mainQueue).n <= Size[t]
  BY HeadSound DEF RunReceived, Sound
<1>n. B("progress", t).what = "progress" /\ B("progress", t).task = t
  BY DEF B
<1>3. Stable
  BY <1>1, SameFetch
<1>4. QueueSound'
  <2>1. Sound(B("progress", t))'
    BY <1>2 DEF Sound, B
  <2> QED BY <1>0, <1>3, <2>1, SoundMoved
<1>5. QueueOnce'
  BY <1>0, <1>n, OnceMoved, SeqLens
<1>6. EndOnce'
  BY <1>0, <1>1, <1>n, SameFetch, EndKept DEF Untold
<1>7. FetchSound'
  <2>1. \A u \in Tasks : progress'[u] = progress[u] \/ (u = t /\ progress'[u] = Head(mainQueue).n)
    BY DEF RunReceived, TypeOK
  <2> QED BY <1>1, <1>2, <2>1 DEF FetchSound
<1>8. StorageSound'
  BY <1>1, SameFetch, StorageKept
<1>9. AnswerSound'
  BY <1>1, <1>3, AnswersKept
<1> QED BY <1>4, <1>5, <1>6, <1>7, <1>8, <1>9

\* The end leaves the queue when the completion begins: it is the only one.
LEMMA BeginFinishStep ==
  ASSUME IInv, TypeOK', NEW t \in Tasks, BeginFinish(t)
  PROVE  IInv'
<1> USE TaskAssumption DEF IInv
<1> DEFINE new == {b \in {B("progress", t)} : Kind[t] = "get"}
<1>0. Moved(1, new)
  BY BeginFinishMoves
<1>1. UNCHANGED <<fetch, answers, completed, storageQueue, progress>>
  BY DEF BeginFinish
<1>n. \A b \in new : b.what = "progress" /\ b.task = t /\ Kind[t] = "get"
  BY DEF B
<1> HIDE DEF new
<1>2. Take("ended", t)
  BY DEF BeginFinish
<1>3. Stable
  BY <1>1, SameFetch
<1>4. QueueSound'
  <2>1. \A b \in new : Sound(b)'
    BY <1>n DEF Sound
  <2> QED BY <1>0, <1>3, <2>1, SoundMoved
<1>5. QueueOnce'
  BY <1>0, <1>n, OnceMoved, SeqLens
<1>6. EndOnce'
  <2>1. \A u \in Tasks, what \in {"ended", "success"} : Queued(what, u)' => Queued(what, u)
    BY <1>0, <1>n, QueuedMoved
  <2>2. ~Queued("ended", t)'
    BY <1>0, <1>2, <1>n, TakenOnce
  <2>3. Over(t) /\ Queued("ended", t) /\ finishing = Idle
    BY <1>2, HeadSound, HeadTaken DEF Sound
  <2>4. finishing' = Idle \/ finishing' = [task |-> t, fired |-> FALSE]
    BY <2>3 DEF BeginFinish
  <2>5. \A u \in Tasks : finishing'.task = u => u = t
    BY <2>4 DEF Idle
  <2>6. \A u \in Tasks : (finishing' = [task |-> u, fired |-> FALSE]) => u = t
    BY <2>4 DEF Idle
  <2>7. \A u \in Tasks : Unfired(u)' => Unfired(u)
    BY <1>1, <2>1, <2>3, <2>6, SameFetch DEF Unfired
  <2>8. \A u \in Tasks : Over(u)' <=> Over(u)
    BY <1>1, SameFetch
  <2>9. \A u \in Tasks : Untold(u)' <=> Untold(u)
    BY <1>1 DEF Untold
  <2> QED BY <2>1, <2>2, <2>3, <2>5, <2>7, <2>8, <2>9 DEF EndOnce
<1>7. FetchSound'
  BY <1>1 DEF FetchSound
<1>8. StorageSound'
  BY <1>1, SameFetch, StorageKept
<1>9. AnswerSound'
  BY <1>1, <1>3, AnswersKept
<1> QED BY <1>4, <1>5, <1>6, <1>7, <1>8, <1>9

LEMMA FireEndStep ==
  ASSUME IInv, TypeOK', NEW t \in Tasks, FireEnd(t)
  PROVE  IInv'
<1> USE TaskAssumption DEF IInv
<1>1. UNCHANGED <<fetch, completed, storageQueue, progress>>
  BY DEF FireEnd
<1>2. finishing = [task |-> t, fired |-> FALSE] /\ finishing' = [task |-> t, fired |-> TRUE]
  BY DEF FireEnd
<1>3. Over(t) /\ Untold(t) /\ ~Queued("success", t) /\ ~Queued("ended", t)
  BY <1>2 DEF EndOnce, Unfired
<1>s. Stable
  BY <1>1, SameFetch
<1>n. /\ B("success", t).what = "success" /\ B("success", t).task = t
      /\ B("failure", t).what = "failure" /\ B("failure", t).task = t
  BY DEF B
<1>m. PICK new \in SUBSET {B("success", t), B("failure", t)} :
        /\ Moved(0, new)
        /\ B("success", t) \in new => Kind[t] # "delete" /\ fetch[t].at = "ended"
        /\ B("failure", t) \in new => Kind[t] = "get" /\ fetch[t].at = "failed"
  <2>1. fetch[t].at # "ended" => fetch[t].at = "failed"
    BY <1>3 DEF Over
  <2>2. B("success", t) # B("failure", t)
    BY <1>n
  <2>3. CASE Moved(0, {})
    BY <2>3
  <2>4. CASE Kind[t] # "delete" /\ fetch[t].at = "ended" /\ Moved(0, {B("success", t)})
    BY <2>2, <2>4
  <2>5. CASE Kind[t] = "get" /\ fetch[t].at # "ended" /\ Moved(0, {B("failure", t)})
    BY <2>1, <2>2, <2>5
  <2> QED BY <2>3, <2>4, <2>5, FireEndMoves
<1>4. QueueSound'
  <2>1. \A b \in new : Sound(b)'
    BY <1>1, <1>m, <1>n DEF Sound, Cause
  <2> QED BY <1>m, <1>s, <2>1, SoundMoved
<1>5. QueueOnce'
  BY <1>3, <1>m, <1>n, OnceMoved, SeqLens
<1>a. \/ UNCHANGED answers
      \/ Kind[t] = "delete" /\ Tell(t, IF fetch[t].at = "failed" THEN "error" ELSE "data")
  BY DEF FireEnd
<1>b. \A u \in Tasks : u # t => answers'[u] = answers[u]
  BY <1>a DEF Tell, TypeOK
<1>6. EndOnce'
  <2>1. \A u \in Tasks : /\ Queued("ended", u)' => Queued("ended", u)
                         /\ Queued("success", u)' => Queued("success", u) \/ (u = t /\ B("success", t) \in new)
    BY <1>m, <1>n, QueuedMoved
  <2>2. finishing'.task = t /\ \A u \in Tasks : finishing' # [task |-> u, fired |-> FALSE]
    BY <1>2
  <2>3. \A u \in Tasks : Over(u)' <=> Over(u)
    BY <1>1, SameFetch
  <2>4. \A u \in Tasks : Unfired(u)' => u # t /\ Unfired(u)
    BY <1>3, <2>1, <2>2, <2>3 DEF Unfired
  <2>5. \A u \in Tasks : u # t => (Untold(u)' <=> Untold(u))
    BY <1>b DEF Untold
  <2>6. B("success", t) \in new => Untold(t)'
    BY <1>3, <1>a, <1>m DEF Untold
  <2>7. \A u \in Tasks : u # t =>
          /\ finishing'.task # u
          /\ Unfired(u)' => Untold(u)' /\ ~Queued("success", u)'
          /\ Queued("success", u)' => Untold(u)'
    BY <2>1, <2>2, <2>4, <2>5 DEF EndOnce
  <2>8. /\ finishing'.task = t => Over(t)'
        /\ ~Queued("ended", t)' /\ ~Unfired(t)'
        /\ Queued("success", t)' => Untold(t)'
    BY <1>3, <2>1, <2>3, <2>4, <2>6
  <2> QED BY <2>7, <2>8 DEF EndOnce
<1>7. FetchSound'
  BY <1>1 DEF FetchSound
<1>8. StorageSound'
  BY <1>1, SameFetch, StorageKept
<1>9. AnswerSound'
  <2>1. CASE UNCHANGED answers
    BY <1>1, <1>s, <2>1, AnswersKept
  <2>2. CASE Kind[t] = "delete" /\ Tell(t, IF fetch[t].at = "failed" THEN "error" ELSE "data")
    <3>1. answers[t] = <<>>
      BY <1>3, <2>2 DEF Untold
    <3>2. answers'[t] = <<IF fetch[t].at = "failed" THEN "error" ELSE "data">>
      BY <2>2, <3>1 DEF Tell, TypeOK
    <3>3. /\ answers'[t] = <<"data">> \/ answers'[t] = <<"error">>
          /\ answers'[t] = <<"data">> => fetch[t].at = "ended"
          /\ answers'[t] = <<"error">> => fetch[t].at = "failed"
      BY <1>3, <3>2 DEF Over
    <3> QED BY <1>1, <1>b, <2>2, <3>3 DEF AnswerSound, Cause
  <2> QED BY <1>a, <2>1, <2>2
<1> QED BY <1>4, <1>5, <1>6, <1>7, <1>8, <1>9

LEMMA EndFinishStep ==
  ASSUME IInv, TypeOK', NEW t \in Tasks, EndFinish(t)
  PROVE  IInv'
<1> USE TaskAssumption DEF IInv
<1>0. Moved(0, {})
  BY StaysMoved DEF EndFinish
<1>1. UNCHANGED <<fetch, answers, completed, storageQueue, progress>>
  BY DEF EndFinish
<1>3. Stable
  BY <1>1, SameFetch
<1>4. QueueSound'
  BY <1>0, <1>3, SoundMoved
<1>5. QueueOnce'
  BY <1>0, OnceMoved, SeqLens
<1>6. EndOnce'
  <2>1. \A u \in Tasks, what \in {"ended", "success"} : Queued(what, u)' => Queued(what, u)
    BY <1>0, QueuedMoved
  <2>2. \A u \in Tasks : finishing'.task # u
    BY DEF EndFinish, Idle
  <2>3. \A u \in Tasks : (Over(u)' <=> Over(u)) /\ (Untold(u)' <=> Untold(u))
    BY <1>1, SameFetch DEF Untold
  <2>4. \A u \in Tasks : finishing' # [task |-> u, fired |-> FALSE]
    BY <2>2
  <2>5. \A u \in Tasks : Unfired(u)' => Unfired(u)
    BY <2>1, <2>3, <2>4 DEF Unfired
  <2> QED BY <2>1, <2>2, <2>3, <2>5 DEF EndOnce
<1>7. FetchSound'
  BY <1>1 DEF FetchSound
<1>8. StorageSound'
  BY <1>1, SameFetch, StorageKept
<1>9. AnswerSound'
  BY <1>1, <1>3, AnswersKept
<1> QED BY <1>4, <1>5, <1>6, <1>7, <1>8, <1>9

-----------------------------------------------------------------------------
\* The handlers

\* Only a download that is too large is cancelled.
LEMMA RunProgressStep ==
  ASSUME IInv, TypeOK', NEW t \in Tasks, RunProgress(t)
  PROVE  IInv'
<1> USE TaskAssumption DEF IInv
<1>0. Moved(1, {})
  BY HeadTaken, TakenMoves DEF RunProgress
<1>1. UNCHANGED <<fetch, answers, completed, finishing, progress>>
  BY DEF RunProgress
<1>2. Kind[t] = "get" /\ progress[t] <= Size[t]
  BY HeadSound DEF RunProgress, Sound, FetchSound
<1>3. Stable
  BY <1>1, SameFetch
<1>4. QueueSound'
  BY <1>0, <1>3, SoundMoved
<1>5. QueueOnce'
  BY <1>0, OnceMoved, SeqLens
<1>6. EndOnce'
  BY <1>0, <1>1, SameFetch, EndKept DEF Untold
<1>7. FetchSound'
  BY <1>1 DEF FetchSound
<1>8. StorageSound'
  <2> DEFINE b == [what |-> "cancel", task |-> t]
  <2>1. CASE UNCHANGED storageQueue
    BY <1>1, <2>1, SameFetch, StorageKept
  <2>2. CASE (progress[t] > Limit \/ Size[t] > Limit) /\ storageQueue' = Append(storageQueue, b)
    <3>1. Size[t] > Limit
      <4>1. progress[t] \in Nat /\ Size[t] \in Nat
        BY DEF TypeOK
      <4> QED BY <1>2, <2>2, <4>1
    <3>2. b \in StorageBlock /\ StorageMoved(0, {b})
      BY <2>2, StorageAdds DEF StorageBlock
    <3>3. \A i \in 1..Len(storageQueue) :
            storageQueue[i].what = "enqueue" => fetch'[storageQueue[i].task].at = "called"
      BY <1>1 DEF StorageSound
    <3>4. b.what = "cancel" /\ b.task = t
      OBVIOUS
    <3> HIDE DEF b
    <3>5. storageQueue' \in Seq(StorageBlock) /\ {b} \subseteq StorageBlock
      BY <3>2, SeqLens
    <3>6. \A c \in {b} : c.what # "enqueue" /\ Kind[c.task] = "get" /\ Size[c.task] > Limit
      BY <1>2, <3>1, <3>4
    <3> QED BY <3>2, <3>3, <3>5, <3>6, StorageSoundMoved
  <2> QED BY <2>1, <2>2 DEF RunProgress
<1>9. AnswerSound'
  BY <1>1, <1>3, AnswersKept
<1> QED BY <1>4, <1>5, <1>6, <1>7, <1>8, <1>9

\* Of an upload the success is told when it leaves the queue, the only one.
LEMMA RunHandlerStep ==
  ASSUME IInv, TypeOK', NEW t \in Tasks, RunHandler(t)
  PROVE  IInv'
<1> USE TaskAssumption DEF IInv
<1>1. UNCHANGED <<fetch, completed, storageQueue, progress, finishing>>
  BY DEF RunHandler
<1>3. Stable
  BY <1>1, SameFetch
<1>n. /\ B("data", t).what = "data" /\ B("data", t).task = t
      /\ B("error", t).what = "error" /\ B("error", t).task = t
  BY DEF B
<1>7. FetchSound'
  BY <1>1 DEF FetchSound
<1>8. StorageSound'
  BY <1>1, SameFetch, StorageKept
<1>a. ASSUME NEW b \in Block, Moved(1, {b}), b.what \in {"data", "error"}, Sound(b)', UNCHANGED answers
      PROVE  IInv'
  <2>4. QueueSound'
    BY <1>a, <1>3, SoundMoved
  <2>5. QueueOnce'
    BY <1>a, OnceMoved, SeqLens
  <2>6. EndOnce'
    BY <1>a, <1>1, SameFetch, EndKept DEF Untold
  <2>9. AnswerSound'
    BY <1>a, <1>1, <1>3, AnswersKept
  <2> QED BY <2>4, <2>5, <2>6, <2>9, <1>7, <1>8
<1>b. CASE Take("success", t) /\ Kind[t] = "put" /\ Tell(t, "data") /\ Moved(1, {})
  <2>1. fetch[t].at = "ended" /\ Queued("success", t)
    BY <1>b, HeadSound DEF Sound
  <2>2. Untold(t) /\ ~Unfired(t)
    BY <2>1 DEF EndOnce
  <2>3. ~Queued("success", t)'
    BY <1>b, TakenOnce
  <2>4. QueueSound'
    BY <1>b, <1>3, SoundMoved
  <2>5. QueueOnce'
    BY <1>b, OnceMoved, SeqLens
  <2>a. answers[t] = <<>>
    BY <1>b, <2>2 DEF Untold
  <2>b. answers'[t] = <<"data">>
    BY <1>b, <2>a DEF Tell, TypeOK
  <2>c. \A u \in Tasks : u # t => answers'[u] = answers[u]
    BY <1>b DEF Tell, TypeOK
  <2>6. EndOnce'
    <3>1. \A u \in Tasks, what \in {"ended", "success"} : Queued(what, u)' => Queued(what, u)
      BY <1>b, QueuedMoved
    <3>2. \A u \in Tasks : Over(u)' <=> Over(u)
      BY <1>1, SameFetch
    <3>3. \A u \in Tasks : Unfired(u)' => u # t /\ Unfired(u)
      BY <1>1, <2>2, <3>1, <3>2 DEF Unfired
    <3>4. \A u \in Tasks : u # t => (Untold(u)' <=> Untold(u))
      BY <2>c DEF Untold
    <3> QED BY <1>1, <2>3, <3>1, <3>2, <3>3, <3>4 DEF EndOnce
  <2>9. AnswerSound'
    BY <1>1, <1>b, <2>1, <2>b, <2>c DEF AnswerSound, Cause
  <2> QED BY <2>4, <2>5, <2>6, <2>9, <1>7, <1>8
<1>c. CASE Take("success", t) /\ Kind[t] = "get" /\ UNCHANGED answers /\ Moved(1, {B("data", t)})
  <2>1. fetch[t].at = "ended"
    BY <1>c, HeadSound DEF Sound
  <2>2. Sound(B("data", t))'
    BY <1>1, <1>c, <2>1 DEF Sound, B
  <2>3. B("data", t) \in Block
    BY DEF B, Block
  <2> QED BY <1>a, <1>c, <1>n, <2>2, <2>3
<1>d. CASE Take("failure", t) /\ UNCHANGED answers /\ Moved(1, {B("error", t)})
  <2>1. Kind[t] = "get" /\ Cause(t)
    BY <1>d, HeadSound DEF Sound
  <2>2. Sound(B("error", t))'
    BY <1>1, <2>1 DEF Sound, Cause, B
  <2>3. B("error", t) \in Block
    BY DEF B, Block
  <2> QED BY <1>a, <1>d, <1>n, <2>2, <2>3
<1> QED BY <1>b, <1>c, <1>d, RunHandlerMoves

\* Of a download the first completion is told, and the flag is set.
LEMMA RunCompletionStep ==
  ASSUME IInv, TypeOK', NEW t \in Tasks, RunCompletion(t)
  PROVE  IInv'
<1> USE TaskAssumption DEF IInv
<1>0. Moved(1, {})
  BY HeadTaken, TakenMoves DEF RunCompletion
<1>1. UNCHANGED <<fetch, storageQueue, progress, finishing>>
  BY DEF RunCompletion
<1> DEFINE told == Head(mainQueue).what
<1>2. /\ Kind[t] = "get"
      /\ told \in {"data", "error"}
      /\ told = "data" => fetch[t].at = "ended"
      /\ told = "error" => Cause(t)
  <2>1. CASE Take("data", t)
    BY <2>1, HeadSound DEF Sound
  <2>2. CASE Take("error", t)
    BY <2>2, HeadSound DEF Sound
  <2> QED BY <2>1, <2>2 DEF RunCompletion
<1>a. /\ completed' = completed \cup {t}
      /\ IF t \in completed THEN UNCHANGED answers ELSE Tell(t, told)
  BY DEF RunCompletion
<1> HIDE DEF told
<1>b. \A u \in Tasks : u # t => answers'[u] = answers[u]
  BY <1>a DEF Tell, TypeOK
<1>c. t \notin completed => answers'[t] = <<told>>
  <2>1. t \notin completed => answers[t] = <<>>
    BY <1>2 DEF AnswerSound
  <2> QED BY <1>a, <2>1 DEF Tell, TypeOK
<1>3. Stable
  BY <1>1, SameFetch
<1>4. QueueSound'
  BY <1>0, <1>3, SoundMoved
<1>5. QueueOnce'
  BY <1>0, OnceMoved, SeqLens
<1>6. EndOnce'
  <2>1. \A u \in Tasks : Untold(u) => Untold(u)'
    BY <1>2, <1>b DEF Untold
  <2> QED BY <1>0, <1>1, <2>1, SameFetch, EndKept
<1>7. FetchSound'
  BY <1>1 DEF FetchSound
<1>8. StorageSound'
  BY <1>1, SameFetch, StorageKept
<1>9. AnswerSound'
  <2>1. CASE t \in completed
    BY <1>1, <1>3, <1>a, <2>1, AnswersKept
  <2>2. CASE t \notin completed
    <3>1. /\ answers'[t] = <<"data">> \/ answers'[t] = <<"error">>
          /\ answers'[t] = <<"data">> => fetch[t].at = "ended"
          /\ answers'[t] = <<"error">> => Cause(t)
          /\ t \in completed'
      BY <1>2, <1>a, <1>c, <2>2
    <3> QED BY <1>1, <1>a, <1>b, <3>1 DEF AnswerSound, Cause
  <2> QED BY <2>1, <2>2
<1> QED BY <1>4, <1>5, <1>6, <1>7, <1>8, <1>9

-----------------------------------------------------------------------------
\* The cancellation

LEMMA StopFetchingStep ==
  ASSUME IInv, TypeOK', NEW t \in Tasks, StopFetching(t)
  PROVE  IInv'
<1> USE TaskAssumption DEF IInv
<1>0. Moved(0, {})
  BY StaysMoved DEF StopFetching
<1>1. UNCHANGED <<fetch, answers, completed, storageQueue, progress, finishing>>
  BY DEF StopFetching
<1>3. Stable
  BY <1>1, SameFetch
<1>4. QueueSound'
  BY <1>0, <1>3, SoundMoved
<1>5. QueueOnce'
  BY <1>0, OnceMoved, SeqLens
<1>6. EndOnce'
  BY <1>0, <1>1, SameFetch, EndKept DEF Untold
<1>7. FetchSound'
  BY <1>1 DEF FetchSound
<1>8. StorageSound'
  BY <1>1, SameFetch, StorageKept
<1>9. AnswerSound'
  BY <1>1, <1>3, AnswersKept
<1> QED BY <1>4, <1>5, <1>6, <1>7, <1>8, <1>9

LEMMA FireCancelledStep ==
  ASSUME IInv, TypeOK', NEW t \in Tasks, FireCancelled(t)
  PROVE  IInv'
<1> USE TaskAssumption DEF IInv
<1>0. Moved(0, {B("failure", t)})
  BY FireMoves DEF FireCancelled
<1>1. UNCHANGED <<fetch, answers, completed, progress, finishing>>
  BY DEF FireCancelled
<1>n. B("failure", t).what = "failure" /\ B("failure", t).task = t
  BY DEF B
<1>t. TakeStorage("cancel", t) /\ storageQueue' = Tail(storageQueue)
  BY DEF FireCancelled
<1>2. Kind[t] = "get" /\ Size[t] > Limit
  <2>1. 1 \in 1..Len(storageQueue) /\ storageQueue[1] = [what |-> "cancel", task |-> t]
    BY <1>t, StorageTakes
  <2>2. storageQueue[1].what = "cancel" /\ storageQueue[1].task = t
    BY <2>1
  <2> QED BY <2>1, <2>2 DEF StorageSound
<1>3. Stable
  BY <1>1, SameFetch
<1>4. QueueSound'
  <2>1. Sound(B("failure", t))'
    BY <1>2 DEF Sound, Cause, B
  <2> QED BY <1>0, <1>3, <2>1, SoundMoved
<1>5. QueueOnce'
  BY <1>0, <1>n, OnceMoved, SeqLens
<1>6. EndOnce'
  BY <1>0, <1>1, <1>n, SameFetch, EndKept DEF Untold
<1>7. FetchSound'
  BY <1>1 DEF FetchSound
<1>8. StorageSound'
  <2>1. StorageMoved(1, {})
    BY <1>t, StorageTakes
  <2>2. \A i \in 1..Len(storageQueue) :
          storageQueue[i].what = "enqueue" => fetch'[storageQueue[i].task].at = "called"
    BY <1>1 DEF StorageSound
  <2> QED BY <2>1, <2>2, StorageSoundMoved, SeqLens
<1>9. AnswerSound'
  BY <1>1, <1>3, AnswersKept
<1> QED BY <1>4, <1>5, <1>6, <1>7, <1>8, <1>9

-----------------------------------------------------------------------------
\* The theorems

LEMMA InitIInv == Init => IInv
<1> SUFFICES ASSUME Init PROVE IInv
  OBVIOUS
<1> USE TaskAssumption
<1>1. TypeOK
  <2>1. fetch \in [Tasks -> Fetch]
    BY DEF Init, Fetch
  <2>2. answers \in [Tasks -> Seq({"data", "error"})]
    BY DEF Init
  <2>3. mainQueue \in Seq(Block) /\ storageQueue \in Seq([what: {"enqueue", "cancel"}, task: Tasks])
    BY DEF Init
  <2>4. finishing \in [task: Tasks \cup {NoTask}, fired: BOOLEAN]
    BY DEF Init, Idle
  <2> QED BY <2>1, <2>2, <2>3, <2>4 DEF Init, TypeOK
<1>2. \A t \in Tasks : finishing.task # t
  BY DEF Init, Idle
<1>3. \A t \in Tasks : fetch[t].at = "uncalled" /\ fetch[t].got = 0
  BY DEF Init
<1>4. FetchSound
  BY <1>3 DEF Init, FetchSound
<1>5. QueueSound /\ QueueOnce /\ StorageSound
  BY DEF Init, QueueSound, QueueOnce, StorageSound
<1>6. \A t \in Tasks, what \in {"ended", "success"} : ~Queued(what, t)
  BY DEF Init, Queued
<1>7. EndOnce
  BY <1>2, <1>6 DEF Init, EndOnce, Untold
<1>8. AnswerSound
  BY DEF Init, AnswerSound
<1> QED BY <1>1, <1>4, <1>5, <1>7, <1>8 DEF IInv

LEMMA IInvStep == IInv /\ [Next]_vars => IInv'
<1> SUFFICES ASSUME IInv, [Next]_vars PROVE IInv'
  OBVIOUS
<1>1. TypeOK'
  BY TypeStep DEF IInv
<1>2. CASE UNCHANGED vars
  <2>1. UNCHANGED fetch /\ UNCHANGED mainQueue /\ UNCHANGED finishing /\ UNCHANGED answers
    BY <1>2 DEF vars
  <2>2. QueueSound' /\ QueueOnce'
    BY <1>2 DEF IInv, vars, QueueSound, QueueOnce, Sound, Over, Cause
  <2>3. EndOnce'
    BY <2>1 DEF IInv, EndOnce, Over, Unfired, Untold, Queued
  <2>4. FetchSound' /\ StorageSound' /\ AnswerSound'
    BY <1>2 DEF IInv, vars, FetchSound, StorageSound, AnswerSound, Cause
  <2> QED BY <1>1, <2>2, <2>3, <2>4 DEF IInv
<1> QED
  BY <1>1, <1>2, CallStep, BeginFetchStep, ReceiveStep, EndStep, RunReceivedStep, BeginFinishStep,
     FireEndStep, EndFinishStep, RunProgressStep, RunHandlerStep, RunCompletionStep,
     StopFetchingStep, FireCancelledStep
  DEF Next, MainStep, StorageStep

LEMMA Invariance == Spec => []IInv
BY InitIInv, IInvStep, PTL DEF Spec

\* The variables of StorageTask keep their types, for any calls, sizes and limit.
THEOREM TypeCorrect == Spec => []TypeOK
<1>1. IInv => TypeOK
  BY DEF IInv
<1> QED BY <1>1, Invariance, PTL

\* dataWithMaxSize, putData and delete: no call is answered twice, however the
\* cancellation of a download crosses its end.
THEOREM NoneAnsweredTwice == Spec => []AnsweredOnce
<1>1. IInv => AnsweredOnce
  <2> SUFFICES ASSUME IInv, NEW t \in Tasks PROVE Len(answers[t]) <= 1
    BY DEF AnsweredOnce
  <2>1. CASE answers[t] = <<>>
    BY <2>1
  <2>2. CASE answers[t] = <<"data">>
    BY <2>2
  <2>3. CASE answers[t] = <<"error">>
    BY <2>3
  <2> QED BY <2>1, <2>2, <2>3 DEF IInv, AnswerSound
<1> QED BY <1>1, Invariance, PTL

\* dataWithMaxSize and putData: what is delivered as data is whole.
THEOREM DeliveredIsWhole == Spec => []DataIsWhole
<1>1. IInv => DataIsWhole
  BY DEF IInv, AnswerSound, FetchSound, DataIsWhole
<1> QED BY <1>1, Invariance, PTL

\* dataWithMaxSize and delete: an error is told only of a transfer that failed
\* or of a download that was too large.
THEOREM ErrorsHaveCauses == Spec => []ErrorHasCause
<1>1. IInv => ErrorHasCause
  BY DEF IInv, AnswerSound, Cause, ErrorHasCause
<1> QED BY <1>1, Invariance, PTL

=============================================================================
