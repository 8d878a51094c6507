---------------------------- MODULE StorageTask ----------------------------
(***************************************************************************)
(* The calls of Storage that the application makes: getData, putData with  *)
(* an observer of success, and delete.  A call registers its handlers on   *)
(* the main thread and queues itself on Storage's serial queue, where the  *)
(* fetch is begun.  The fetcher reports on the main thread: bytes that     *)
(* came, and the end.  Handlers are queued on the main thread in turn, and *)
(* getData's queue the completion once more.  The handler of progress      *)
(* cancels a download that is too large, again through Storage's queue: a  *)
(* cancellation and the end of the fetch can cross at every line.          *)
(***************************************************************************)
EXTENDS Naturals, Sequences, FiniteSets

CONSTANTS
  Tasks,   \* calls, each made once
  Kind,    \* of each: "get", "put" or "delete"
  Size,    \* chunks of the object, as the server sends them
  Limit,   \* getData's maxSize, in chunks
  NoTask,
  MaxBusy  \* a bound on the calls under way at once

ASSUME TaskAssumption ==
  /\ NoTask \notin Tasks
  /\ Kind \in [Tasks -> {"get", "put", "delete"}]
  /\ Size \in [Tasks -> Nat]
  /\ Limit \in Nat
  /\ MaxBusy \in Nat

VARIABLES
  mainQueue,     \* blocks waiting for the main thread
  storageQueue,  \* blocks waiting for Storage's serial queue
  fetch,         \* where each fetch is
  stopped,       \* the fetchers that stopFetching was called on
  progress,      \* the chunks each task knows of
  observed,      \* the tasks whose handlers are registered
  finishing,     \* the completion that the main thread is inside of
  cancelling,    \* Storage's queue is inside a cancellation, past stopFetching
  completed,     \* the tasks whose completion ran
  answers        \* what each call was told, in order

vars == <<mainQueue, storageQueue, fetch, stopped, progress, observed,
          finishing, cancelling, completed, answers>>

-----------------------------------------------------------------------------
\* Types

\* n: the chunks a report of bytes tells of; no other block has a number.
Block == [what: {"received", "ended", "progress", "success", "failure", "data", "error"},
          task: Tasks, n: Nat]

Fetch == [at: {"uncalled", "called", "running", "ended", "failed"}, got: Nat]

TypeOK ==
  /\ mainQueue \in Seq(Block)
  /\ storageQueue \in Seq([what: {"enqueue", "cancel"}, task: Tasks])
  /\ fetch \in [Tasks -> Fetch]
  /\ stopped \subseteq Tasks
  /\ progress \in [Tasks -> Nat]
  /\ observed \subseteq Tasks
  /\ finishing \in [task: Tasks \cup {NoTask}, fired: BOOLEAN]
  /\ cancelling \in BOOLEAN
  /\ completed \subseteq Tasks
  /\ answers \in [Tasks -> Seq({"data", "error"})]

-----------------------------------------------------------------------------
B(what, t) == [what |-> what, task |-> t, n |-> 0]

Idle == [task |-> NoTask, fired |-> FALSE]

\* The main thread takes the next block; it is inside no completion.
Take(what, t) ==
  /\ finishing = Idle
  /\ mainQueue # <<>>
  /\ Head(mainQueue).what = what
  /\ Head(mainQueue).task = t

TakeStorage(what, t) ==
  /\ storageQueue # <<>>
  /\ Head(storageQueue) = [what |-> what, task |-> t]

\* Handlers that are registered are queued, not called.
Fire(what, t) == IF t \in observed THEN <<B(what, t)>> ELSE <<>>

Busy ==
  observed \cup {mainQueue[i].task : i \in DOMAIN mainQueue}
           \cup {storageQueue[i].task : i \in DOMAIN storageQueue}

Tell(t, answer) == answers' = [answers EXCEPT ![t] = Append(@, answer)]

-----------------------------------------------------------------------------
\* The call, and the network

\* The end is told on the main thread, so not before the handlers are there,
\* putData's too, which is queued before its observer is added.
Call(t) ==
  /\ finishing = Idle
  /\ fetch[t].at = "uncalled"
  /\ Cardinality(Busy) < MaxBusy
  /\ fetch' = [fetch EXCEPT ![t].at = "called"]
  /\ observed' = observed \cup {t}
  /\ storageQueue' = Append(storageQueue, [what |-> "enqueue", task |-> t])
  /\ UNCHANGED <<mainQueue, stopped, progress, finishing, cancelling, completed, answers>>

BeginFetch(t) ==
  /\ TakeStorage("enqueue", t)
  /\ fetch' = [fetch EXCEPT ![t].at = "running"]
  /\ storageQueue' = Tail(storageQueue)
  /\ UNCHANGED <<mainQueue, stopped, progress, observed, finishing, cancelling, completed, answers>>

\* Only a download reports the bytes it received.
Receive(t) ==
  /\ fetch[t].at = "running"
  /\ t \notin stopped
  /\ fetch[t].got < Size[t]
  /\ fetch' = [fetch EXCEPT ![t].got = @ + 1]
  /\ mainQueue' = IF Kind[t] = "get"
                    THEN Append(mainQueue, [what |-> "received", task |-> t, n |-> fetch[t].got + 1])
                    ELSE mainQueue
  /\ UNCHANGED <<storageQueue, stopped, progress, observed, finishing, cancelling, completed, answers>>

\* The transfer is over, or failed for good.
End(t) ==
  /\ fetch[t].at = "running"
  /\ t \notin stopped
  /\ \/ fetch[t].got = Size[t] /\ fetch' = [fetch EXCEPT ![t].at = "ended"]
     \/ fetch' = [fetch EXCEPT ![t].at = "failed"]
  /\ mainQueue' = Append(mainQueue, B("ended", t))
  /\ UNCHANGED <<storageQueue, stopped, progress, observed, finishing, cancelling, completed, answers>>

-----------------------------------------------------------------------------
\* The fetcher's blocks on the main thread, skipped once it was stopped

RunReceived(t) ==
  /\ Take("received", t)
  /\ \/ /\ t \in stopped
        /\ mainQueue' = Tail(mainQueue)
        /\ UNCHANGED progress
     \/ /\ t \notin stopped
        /\ progress' = [progress EXCEPT ![t] = Head(mainQueue).n]
        /\ mainQueue' = Tail(mainQueue) \o Fire("progress", t)
  /\ UNCHANGED <<storageQueue, fetch, stopped, observed, finishing, cancelling, completed, answers>>

\* The completion first fires the last progress.
BeginFinish(t) ==
  /\ Take("ended", t)
  /\ \/ /\ t \in stopped
        /\ mainQueue' = Tail(mainQueue)
        /\ UNCHANGED finishing
     \/ /\ t \notin stopped
        /\ finishing' = [task |-> t, fired |-> FALSE]
        /\ mainQueue' = Tail(mainQueue) \o (IF Kind[t] = "get" THEN Fire("progress", t) ELSE <<>>)
  /\ UNCHANGED <<storageQueue, fetch, stopped, progress, observed, cancelling, completed, answers>>

\* Mutant: the error is not looked at.
FireSuccess(t) ==
  /\ finishing = [task |-> t, fired |-> FALSE]
  /\ finishing' = [task |-> t, fired |-> TRUE]
  /\ Kind[t] # "delete"
  /\ mainQueue' = mainQueue \o Fire("success", t)
  /\ UNCHANGED <<storageQueue, fetch, stopped, progress, observed, cancelling, completed, answers>>

\* Then success or failure; an upload has an observer of success only, and a
\* delete calls back at once.
FireEnd(t) ==
  /\ finishing = [task |-> t, fired |-> FALSE]
  /\ finishing' = [task |-> t, fired |-> TRUE]
  /\ \/ /\ Kind[t] = "delete"
        /\ Tell(t, IF fetch[t].at = "failed" THEN "error" ELSE "data")
        /\ UNCHANGED mainQueue
     \/ /\ Kind[t] # "delete"
        /\ mainQueue' = mainQueue \o
             (IF fetch[t].at = "ended" THEN Fire("success", t)
              ELSE IF Kind[t] = "get" THEN Fire("failure", t) ELSE <<>>)
        /\ UNCHANGED answers
  /\ UNCHANGED <<storageQueue, fetch, stopped, progress, observed, cancelling, completed>>

\* And removes the observers.
EndFinish(t) ==
  /\ finishing = [task |-> t, fired |-> TRUE]
  /\ finishing' = Idle
  /\ observed' = observed \ {t}
  /\ UNCHANGED <<mainQueue, storageQueue, fetch, stopped, progress, cancelling, completed, answers>>

-----------------------------------------------------------------------------
\* The handlers

\* Mutant: off by one, a download of the size allowed is cancelled.
RunProgressAtLimit(t) ==
  /\ Take("progress", t)
  /\ mainQueue' = Tail(mainQueue)
  /\ \/ /\ progress[t] >= Limit
        /\ storageQueue' = Append(storageQueue, [what |-> "cancel", task |-> t])
     \/ progress[t] < Limit /\ UNCHANGED storageQueue
  /\ UNCHANGED <<fetch, stopped, progress, observed, finishing, cancelling, completed, answers>>

\* What came, or the size that the response announced, if it did.
RunProgress(t) ==
  /\ Take("progress", t)
  /\ mainQueue' = Tail(mainQueue)
  /\ \/ /\ progress[t] > Limit \/ (progress[t] > 0 /\ Size[t] > Limit)
        /\ storageQueue' = Append(storageQueue, [what |-> "cancel", task |-> t])
     \/ progress[t] <= Limit /\ UNCHANGED storageQueue
  /\ UNCHANGED <<fetch, stopped, progress, observed, finishing, cancelling, completed, answers>>

\* getData's handlers queue the completion; putData's observer is called.
RunHandler(t) ==
  /\ \/ /\ Take("success", t) /\ Kind[t] = "put"
        /\ mainQueue' = Tail(mainQueue)
        /\ Tell(t, "data")
     \/ /\ Take("success", t) /\ Kind[t] = "get"
        /\ mainQueue' = Append(Tail(mainQueue), B("data", t))
        /\ UNCHANGED answers
     \/ /\ Take("failure", t)
        /\ mainQueue' = Append(Tail(mainQueue), B("error", t))
        /\ UNCHANGED answers
  /\ UNCHANGED <<storageQueue, fetch, stopped, progress, observed, finishing, cancelling, completed>>

\* Mutant: no flag guards the completion.
RunCompletionAgain(t) ==
  /\ Take("data", t) \/ Take("error", t)
  /\ mainQueue' = Tail(mainQueue)
  /\ completed' = completed \cup {t}
  /\ Tell(t, Head(mainQueue).what)
  /\ UNCHANGED <<storageQueue, fetch, stopped, progress, observed, finishing, cancelling>>

RunCompletion(t) ==
  /\ Take("data", t) \/ Take("error", t)
  /\ mainQueue' = Tail(mainQueue)
  /\ completed' = completed \cup {t}
  /\ IF t \in completed THEN UNCHANGED answers ELSE Tell(t, Head(mainQueue).what)
  /\ UNCHANGED <<storageQueue, fetch, stopped, progress, observed, finishing, cancelling>>

-----------------------------------------------------------------------------
\* cancelWithError, on Storage's queue

StopFetching(t) ==
  /\ TakeStorage("cancel", t)
  /\ ~cancelling
  /\ cancelling' = TRUE
  /\ stopped' = stopped \cup {t}
  /\ UNCHANGED <<mainQueue, storageQueue, fetch, progress, observed, finishing, completed, answers>>

\* Mutant: the fetch is stopped and nobody is told.
CancelSilently(t) ==
  /\ TakeStorage("cancel", t)
  /\ cancelling
  /\ cancelling' = FALSE
  /\ storageQueue' = Tail(storageQueue)
  /\ UNCHANGED <<mainQueue, fetch, stopped, progress, observed, finishing, completed, answers>>

FireCancelled(t) ==
  /\ TakeStorage("cancel", t)
  /\ cancelling
  /\ cancelling' = FALSE
  /\ storageQueue' = Tail(storageQueue)
  /\ mainQueue' = mainQueue \o Fire("failure", t)
  /\ UNCHANGED <<fetch, stopped, progress, observed, finishing, completed, answers>>

-----------------------------------------------------------------------------
Init ==
  /\ mainQueue = <<>>
  /\ storageQueue = <<>>
  /\ fetch = [t \in Tasks |-> [at |-> "uncalled", got |-> 0]]
  /\ stopped = {}
  /\ progress = [t \in Tasks |-> 0]
  /\ observed = {}
  /\ finishing = Idle
  /\ cancelling = FALSE
  /\ completed = {}
  /\ answers = [t \in Tasks |-> <<>>]

MainStep(t) ==
  \/ RunReceived(t) \/ BeginFinish(t) \/ FireEnd(t) \/ EndFinish(t)
  \/ RunProgress(t) \/ RunHandler(t) \/ RunCompletion(t)

StorageStep(t) == BeginFetch(t) \/ StopFetching(t) \/ FireCancelled(t)

Next == \E t \in Tasks : Call(t) \/ Receive(t) \/ End(t) \/ MainStep(t) \/ StorageStep(t)

Spec == Init /\ [][Next]_vars

\* Both queues run their blocks, and a transfer ends: with what the server
\* sends, or with an error when the time for retries is over.
Fairness ==
  /\ WF_vars(\E t \in Tasks : MainStep(t))
  /\ WF_vars(\E t \in Tasks : StorageStep(t))
  /\ \A t \in Tasks : WF_vars(Receive(t) \/ End(t))

FairSpec == Spec /\ Fairness

-----------------------------------------------------------------------------
\* Properties

\* No call is answered twice, however a cancellation and the end cross.  The
\* application saves a document, and appends a row, per answer.
AnsweredOnce == \A t \in Tasks : Len(answers[t]) <= 1

\* What is delivered as data came whole, and from a transfer that did not fail.
DataIsWhole ==
  \A t \in Tasks : answers[t] = <<"data">> => fetch[t].at = "ended" /\ fetch[t].got = Size[t]

\* An error is told only of a transfer that failed or was too large.  A
\* download too large may all the same be told as data: the success of one
\* that ended is queued before the handler of progress looks at the size.
ErrorHasCause ==
  \A t \in Tasks : answers[t] = <<"error">> =>
    fetch[t].at = "failed" \/ (Kind[t] = "get" /\ Size[t] > Limit)

\* Every call is answered, but for an upload that failed.
CallsAnswered ==
  \A t \in Tasks : fetch[t].at = "called" ~>
    answers[t] # <<>> \/ (Kind[t] = "put" /\ fetch[t].at = "failed")

=============================================================================
