----------------------------- MODULE WriteQueue -----------------------------
(***************************************************************************)
(* What Firestore promises of the writes of a device: those of each user   *)
(* settle one by one, in the order of the calls, while the user is signed  *)
(* in; the server may apply one several times before it settles; a         *)
(* callback is told once that its write was applied or refused, unless the *)
(* process ended; a process that ends while a write settles may leave a    *)
(* write in the queue that was told, or take one out that was not.         *)
(***************************************************************************)
EXTENDS Sequences

CONSTANTS Users, Writes

VARIABLES
  user,     \* who is signed in
  queue,    \* of each user, the writes that have not settled
  applied,  \* the writes that the server applied
  waiting,  \* the writes whose callback is waiting
  told      \* what each callback was told: "", "ok" or "refused"

vars == <<user, queue, applied, waiting, told>>

Init ==
  /\ user \in Users
  /\ queue = [u \in Users |-> <<>>]
  /\ applied = {}
  /\ waiting = {}
  /\ told = [w \in Writes |-> ""]

Issue(w) ==
  /\ \A u \in Users : \A i \in DOMAIN queue[u] : queue[u][i] # w
  /\ w \notin applied \cup waiting /\ told[w] = ""
  /\ queue' = [queue EXCEPT ![user] = Append(@, w)]
  /\ waiting' = waiting \cup {w}
  /\ UNCHANGED <<user, applied, told>>

Apply(w) ==
  /\ \E i \in DOMAIN queue[user] : queue[user][i] = w
  /\ applied' = applied \cup {w}
  /\ UNCHANGED <<user, queue, waiting, told>>

Settle(what) ==
  /\ queue[user] # <<>>
  /\ what = "ok" => Head(queue[user]) \in applied
  /\ queue' = [queue EXCEPT ![user] = Tail(@)]
  /\ waiting' = waiting \ {Head(queue[user])}
  /\ told' = IF Head(queue[user]) \in waiting
               THEN [told EXCEPT ![Head(queue[user])] = what]
               ELSE told
  /\ UNCHANGED <<user, applied>>

ChangeUser(u) ==
  /\ user' = u
  /\ UNCHANGED <<queue, applied, waiting, told>>

\* The process ends: the queues are kept, the callbacks are not.
Restart ==
  /\ waiting' = {}
  /\ UNCHANGED <<user, queue, applied, told>>

\* It ends after the first write was said to be done, which it is, and stays.
RestartTold ==
  /\ queue[user] # <<>>
  /\ Head(queue[user]) \in applied \cap waiting
  /\ told' = [told EXCEPT ![Head(queue[user])] = "ok"]
  /\ waiting' = {}
  /\ UNCHANGED <<user, queue, applied>>

\* It ends after the first write was taken out as refused, and nobody was told.
RestartUntold ==
  /\ queue[user] # <<>>
  /\ queue' = [queue EXCEPT ![user] = Tail(@)]
  /\ waiting' = {}
  /\ UNCHANGED <<user, applied, told>>

Next ==
  \/ \E w \in Writes : Issue(w) \/ Apply(w)
  \/ Settle("ok") \/ Settle("refused")
  \/ \E u \in Users : ChangeUser(u)
  \/ Restart \/ RestartTold \/ RestartUntold

Spec == Init /\ [][Next]_vars

-----------------------------------------------------------------------------
\* What a callback was told is not told again, and nothing else instead.
ToldOnce == [][\A w \in Writes : told[w] # "" => told'[w] = told[w]]_vars

\* A write is said to be done only if the server applied it.
OkWasApplied == \A w \in Writes : told[w] = "ok" => w \in applied

=============================================================================
