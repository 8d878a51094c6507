------------------------ MODULE WritePipelineProofs ------------------------
(***************************************************************************)
(* Proofs about WritePipeline: what is in the pipeline and on the stream,  *)
(* that no write overtakes another or is dropped, and that the pipeline    *)
(* implements WriteQueue.                                                  *)
(***************************************************************************)
EXTENDS WritePipeline, SequenceTheorems, WellFoundedInduction, TLAPS

-----------------------------------------------------------------------------
\* The inductive invariant

\* p is as much of the beginning of the queue q as there is room for.
Fills(p, q) ==
  /\ p \in Seq(Batch)
  /\ Len(p) = IF Len(q) < MaxPending THEN Len(q) ELSE MaxPending
  /\ \A i \in 1..Len(p) : p[i] = q[i]

Filled == Fills(pipeline, queue[user])

Increasing(q) == \A i, j \in 1..Len(q) : i < j => q[i].id < q[j].id

\* Ids increase, and the next one is above those of all users.
Ids == \A u \in Users :
  /\ Increasing(queue[u])
  /\ \A i \in 1..Len(queue[u]) : queue[u][i].id < nextId

\* A write is in one place of one queue.
Distinct == \A u, v \in Users : \A i \in 1..Len(queue[u]), j \in 1..Len(queue[v]) :
  queue[u][i].write = queue[v][j].write => u = v /\ i = j

\* What is in a queue or was applied is of a call.
Called ==
  /\ \A u \in Users : \A i \in 1..Len(queue[u]) : queue[u][i].write <= calls
  /\ \A n \in 1..Len(log) : log[n] <= calls

\* A callback is that of a write in a queue.
CallbackQueued == \A c \in callbacks :
  \E i \in 1..Len(queue[c.user]) : queue[c.user][i] = [id |-> c.id, write |-> c.write]

\* What is on its way, answers first, is what is in the pipeline.
Sent ==
  /\ Len(responses) + Len(requests) = Len(pipeline)
  /\ \A i \in 1..Len(responses) : responses[i] = pipeline[i].write
  /\ \A i \in 1..Len(requests) : requests[i] = pipeline[Len(responses) + i].write

\* Nothing is on its way but on a stream that is open, and before the handshake
\* nothing but that.
Wire ==
  /\ handshake => stream = "open" /\ Sent
  /\ ~handshake /\ stream = "open" =>
       \/ requests = <<Hello>> /\ responses = <<>>
       \/ requests = <<>> /\ responses = <<Hello>>
  /\ stream # "open" => requests = <<>> /\ responses = <<>>
  /\ refusing => handshake /\ requests # <<>> /\ Head(requests) \in Bad

\* An answer says that the server applied the write.
Answered == \A i \in 1..Len(responses) :
  responses[i] # Hello => \E n \in 1..Len(log) : log[n] = responses[i]

\* NoOvertaking, by places.
Ordered ==
  \A u \in Users : \A i, j \in 1..Len(queue[u]) : \A n \in 1..Len(log) :
    j < i /\ log[n] = queue[u][i].write =>
      queue[u][j].write \in Bad \/ \E m \in 1..(n - 1) : log[m] = queue[u][j].write

\* NoneDropped, by places.
Queued(w) == \E u \in Users : \E i \in 1..Len(queue[u]) : queue[u][i].write = w
InLog(w) == \E n \in 1..Len(log) : log[n] = w

Kept == \A w \in Writes \ Bad : w <= calls => Queued(w) \/ InLog(w)

\* What a callback was told was of a call, and it is there no more; success was
\* of what was applied.
Heard ==
  /\ \A w \in Writes : told[w] # "" => w <= calls /\ \A c \in callbacks : c.write # w
  /\ \A w \in Writes : told[w] = "ok" => \E n \in 1..Len(log) : log[n] = w

StoreInv == Ids /\ Distinct /\ Called /\ CallbackQueued
StreamInv == Filled /\ Wire /\ StreamAsNeeded
LogInv == Answered /\ Ordered /\ Kept /\ Heard

IInv == TypeOK /\ StoreInv /\ StreamInv /\ LogInv

-----------------------------------------------------------------------------
\* Lemmas about the operators of the model

LEMMA CallsInNat ==
  ASSUME TypeOK
  PROVE  calls \in Nat
<1>1. calls \in 0..MaxWrites
  BY DEF TypeOK
<1> QED
  BY <1>1, PipelineAssumption

LEMMA QueueFacts ==
  ASSUME NEW q \in Seq(Batch)
  PROVE  /\ Len(q) \in Nat /\ DOMAIN q = 1..Len(q) /\ (q = <<>> <=> Len(q) = 0)
         /\ \A i \in 1..Len(q) : q[i] \in Batch /\ q[i].id \in Nat /\ q[i].write \in Writes
<1>1. Len(q) \in Nat /\ DOMAIN q = 1..Len(q) /\ (q = <<>> <=> Len(q) = 0)
  BY LenProperties, EmptySeq
<1>2. \A i \in 1..Len(q) : q[i] \in Batch
  BY ElementOfSeq
<1>3. \A b \in Batch : b.id \in Nat /\ b.write \in Writes
  BY DEF Batch
<1> QED
  BY <1>1, <1>2, <1>3

LEMMA MinIs ==
  ASSUME NEW S, S \subseteq Int, NEW x \in S, \A y \in S : x <= y
  PROVE  Min(S) = x
<1>1. Min(S) \in S /\ \A y \in S : Min(S) <= y
  BY DEF Min
<1> DEFINE m == Min(S)
<1>2. m \in Int /\ x \in Int /\ m <= x /\ x <= m
  BY <1>1
<1> HIDE DEF m
<1>3. m = x
  BY <1>2
<1> QED
  BY <1>3 DEF m

\* The first batch above the last of a beginning of the queue comes next.
LEMMA NextAfterIs ==
  ASSUME NEW q \in Seq(Batch), Increasing(q), NEW n \in 0..Len(q), NEW id \in Int,
         \A i \in 1..n : q[i].id <= id, \A i \in (n + 1)..Len(q) : q[i].id > id
  PROVE  NextAfter(id, q) = IF n = Len(q) THEN 0 ELSE n + 1
<1> DEFINE I == {i \in 1..Len(q) : q[i].id > id}
<1>1. NextAfter(id, q) = IF I # {} THEN Min(I) ELSE 0
  BY DEF NextAfter, SelectInSeq
<1>2. Len(q) \in Nat /\ \A i \in 1..Len(q) : q[i].id \in Nat
  BY QueueFacts
<1>3. \A i \in I : i > n
  BY <1>2
<1>4. CASE n = Len(q)
  BY <1>1, <1>2, <1>3, <1>4
<1>5. CASE n # Len(q)
  <2>1. n + 1 \in 1..Len(q) /\ q[n + 1].id > id
    BY <1>2, <1>5
  <2>2. n + 1 \in I /\ I \subseteq Int /\ \A i \in I : n + 1 <= i
    BY <1>2, <1>3, <2>1
  <2>3. Min(I) = n + 1
    <3> HIDE DEF I
    <3> QED
      BY <2>2, MinIs
  <2> QED
    BY <1>1, <1>5, <2>2, <2>3
<1> QED
  BY <1>4, <1>5

\* The pipeline is filled from where it ends.
LEMMA FillFills ==
  ASSUME NEW q \in Seq(Batch), Increasing(q), NEW p \in Seq(Batch),
         Len(p) <= MaxPending, Len(p) <= Len(q), \A i \in 1..Len(p) : p[i] = q[i]
  PROVE  Fills(Fill(p, q), q)
<1> DEFINE id == IF p = <<>> THEN -1 ELSE Last(p).id
           n == Len(p)
           next == NextAfter(id, q)
           end == next + MaxPending - n - 1
           last == IF Len(q) < end THEN Len(q) ELSE end
           room == IF Len(q) < MaxPending THEN Len(q) ELSE MaxPending
<1>1. Fill(p, q) = IF next = 0 THEN p ELSE p \o SubSeq(q, next, last)
  BY DEF Fill
<1>2. /\ Len(q) \in Nat /\ n \in Nat /\ n <= Len(q) /\ MaxPending \in Nat
      /\ (p = <<>> <=> n = 0)
      /\ \A i \in 1..Len(q) : q[i] \in Batch /\ q[i].id \in Nat
  BY QueueFacts, PipelineAssumption
<1>3. id = IF n = 0 THEN -1 ELSE q[n].id
  BY <1>2 DEF Last
<1>4. next = IF n = Len(q) THEN 0 ELSE n + 1
  <2>1. id \in Int
    BY <1>2, <1>3
  <2>2. \A i \in 1..n : q[i].id <= id
    <3> TAKE i \in 1..n
    <3>1. n # 0 /\ id = q[n].id /\ i \in 1..Len(q) /\ n \in 1..Len(q)
      BY <1>2, <1>3
    <3>2. i = n \/ q[i].id < q[n].id
      BY <1>2, <3>1 DEF Increasing
    <3> QED
      BY <1>2, <3>1, <3>2
  <2>3. \A i \in (n + 1)..Len(q) : q[i].id > id
    <3> TAKE i \in (n + 1)..Len(q)
    <3>1. i \in 1..Len(q) /\ q[i].id \in Nat
      BY <1>2
    <3>2. CASE n = 0
      BY <1>3, <3>1, <3>2
    <3>3. CASE n # 0
      BY <1>2, <1>3, <3>1, <3>3 DEF Increasing
    <3> QED
      BY <3>2, <3>3
  <2>4. n \in 0..Len(q)
    BY <1>2
  <2> HIDE DEF id, n
  <2> QED
    BY <2>1, <2>2, <2>3, <2>4, NextAfterIs
<1> HIDE DEF id, next
<1>5. CASE n = Len(q)
  BY <1>1, <1>2, <1>4, <1>5 DEF Fills
<1>6. CASE n # Len(q)
  <2>1. next = n + 1 /\ next # 0 /\ last = room /\ room \in Int /\ n <= room /\ room <= Len(q)
    BY <1>2, <1>4, <1>6
  <2> DEFINE s == SubSeq(q, n + 1, room)
  <2>2. s \in Seq(Batch) /\ Len(s) = room - n /\ \A i \in 1..(room - n) : s[i] = q[n + i]
    <3> HIDE DEF room, n
    <3>1. n + 1 \in Int /\ \A i \in (n + 1)..room : q[i] \in Batch
      BY <1>2, <2>1
    <3>2. /\ s \in Seq(Batch)
          /\ Len(s) = IF n + 1 <= room THEN room - (n + 1) + 1 ELSE 0
          /\ \A i \in 1..(room - (n + 1) + 1) : s[i] = q[n + 1 + i - 1]
      BY <2>1, <3>1, SubSeqProperties
    <3> QED
      BY <1>2, <2>1, <3>2
  <2> HIDE DEF s
  <2>3. /\ p \o s \in Seq(Batch)
        /\ Len(p \o s) = n + Len(s)
        /\ \A i \in 1..(n + Len(s)) : (p \o s)[i] = IF i <= n THEN p[i] ELSE s[i - n]
    BY <2>2, ConcatProperties
  <2>4. Fill(p, q) = p \o s
    BY <1>1, <2>1 DEF s
  <2>5. \A i \in 1..Len(p \o s) : (p \o s)[i] = q[i]
    <3> HIDE DEF room
    <3> TAKE i \in 1..Len(p \o s)
    <3>1. CASE i <= n
      BY <1>2, <2>1, <2>2, <2>3, <3>1
    <3>2. CASE ~(i <= n)
      <4>1. i - n \in 1..(room - n) /\ n + (i - n) = i
        BY <1>2, <2>1, <2>2, <2>3, <3>2
      <4>2. (p \o s)[i] = s[i - n] /\ s[i - n] = q[n + (i - n)]
        BY <1>2, <2>1, <2>2, <2>3, <3>2, <4>1
      <4> QED
        BY <4>1, <4>2
    <3> QED
      BY <3>1, <3>2
  <2>6. Len(p \o s) = room
    BY <1>2, <2>1, <2>2, <2>3
  <2> QED
    BY <2>3, <2>4, <2>5, <2>6 DEF Fills
<1> QED
  BY <1>5, <1>6

\* The batch that settles is the first of its queue.
LEMMA HeadIsRemoved ==
  ASSUME NEW q \in Seq(Batch), Increasing(q), q # <<>>
  PROVE  RemoveFirstMatch(q, LAMBDA b : b.id = Head(q).id) = Tail(q)
<1> DEFINE I == {i \in 1..Len(q) : q[i].id = Head(q).id}
<1>1. 1 \in 1..Len(q) /\ q[1] = Head(q)
  BY QueueFacts
<1>2. Min(I) = 1
  <2>1. 1 \in I /\ I \subseteq Int /\ \A i \in I : 1 <= i
    BY <1>1
  <2> HIDE DEF I
  <2> QED
    BY <2>1, MinIs
<1>3. RemoveFirstMatch(q, LAMBDA b : b.id = Head(q).id) = RemoveAt(q, 1)
  BY <1>1, <1>2 DEF RemoveFirstMatch, SelectInSeq
<1>4. SubSeq(q, 1, 0) = <<>>
  BY SubSeqEmpty
<1>5. Tail(q) = SubSeq(q, 2, Len(q)) /\ Tail(q) \in Seq(Batch)
  BY TailIsSubSeq, HeadTailProperties
<1>6. <<>> \o Tail(q) = Tail(q)
  BY <1>5, ConcatEmptySeq
<1>7. 1 - 1 = 0 /\ 1 + 1 = 2
  OBVIOUS
<1>8. RemoveAt(q, 1) = Tail(q)
  BY <1>4, <1>5, <1>6, <1>7 DEF RemoveAt
<1> QED
  BY <1>3, <1>8

\* A set of natural numbers below a bound has a largest one.
LEMMA MaxIs ==
  ASSUME NEW S \in SUBSET Nat, S # {}, NEW n \in Nat, \A x \in S : x <= n
  PROVE  Max(S) \in S /\ \A x \in S : x <= Max(S)
<1> DEFINE T == {k \in Nat : \A x \in S : x <= k}
<1>1. PICK k \in T : \A y \in T : ~(<<y, k>> \in OpToRel(<, Nat))
  <2>1. T \subseteq Nat /\ n \in T
    OBVIOUS
  <2> HIDE DEF T
  <2> QED
    BY <2>1, NatLessThanWellFounded, WFMin
<1>2. \A y \in T : ~(y < k)
  BY <1>1 DEF OpToRel
<1>3. k \in S
  <2> SUFFICES ASSUME k \notin S PROVE FALSE
    OBVIOUS
  <2>1. k \in Nat /\ \A x \in S : x \in Nat /\ x <= k /\ x # k
    BY <1>1
  <2>2. \A x \in S : x <= k - 1
    BY <2>1
  <2>3. k - 1 \in T
    <3>1. PICK x \in S : TRUE
      OBVIOUS
    <3>2. k - 1 \in Nat
      BY <2>1, <2>2, <3>1
    <3> QED
      BY <2>2, <3>2
  <2> QED
    BY <1>2, <2>1, <2>3
<1>4. \E x \in S : \A y \in S : x >= y
  BY <1>1, <1>3
<1>5. Max(S) \in S /\ \A y \in S : Max(S) >= y
  BY <1>4 DEF Max
<1> DEFINE m == Max(S)
<1>6. m \in Nat /\ \A y \in S : y \in Nat /\ m >= y
  BY <1>5
<1> HIDE DEF m
<1>7. \A y \in S : y <= m
  BY <1>6
<1> QED
  BY <1>5, <1>7 DEF m

\* LoadNextBatchIdFromDb gives an id above those of every queue.
LEMMA FirstIdAbove ==
  ASSUME NEW q \in [Users -> Seq(Batch)], NEW top \in Nat,
         \A u \in Users : \A i \in 1..Len(q[u]) : q[u][i].id < top
  PROVE  /\ FirstId(q) \in Nat
         /\ \A u \in Users : \A i \in 1..Len(q[u]) : q[u][i].id < FirstId(q)
<1> DEFINE S == {0} \cup UNION {{q[u][i].id : i \in DOMAIN q[u]} : u \in Users}
<1>1. \A u \in Users : DOMAIN q[u] = 1..Len(q[u])
  BY QueueFacts
<1>2. \A u \in Users : \A i \in 1..Len(q[u]) : q[u][i].id \in Nat
  BY QueueFacts
<1>3. \A u \in Users : \A i \in 1..Len(q[u]) : q[u][i].id <= top
  BY <1>2
<1>4. S \subseteq Nat /\ 0 \in S /\ \A x \in S : x <= top
  BY <1>1, <1>2, <1>3
<1>5. \A u \in Users : \A i \in 1..Len(q[u]) : q[u][i].id \in S
  BY <1>1
<1>6. FirstId(q) = 1 + Max(S)
  BY DEF FirstId
<1> HIDE DEF S
<1>7. Max(S) \in S /\ \A x \in S : x <= Max(S)
  BY <1>4, MaxIs
<1> DEFINE m == Max(S)
<1>8. m \in Nat /\ FirstId(q) = 1 + m /\ \A x \in S : x <= m
  BY <1>4, <1>6, <1>7
<1> HIDE DEF m
<1>9. FirstId(q) \in Nat /\ m < FirstId(q)
  BY <1>8
<1> QED
  BY <1>2, <1>5, <1>8, <1>9

\* When a batch leaves, the queue of the user signed in is one shorter.
Gone(u) == IF u = user THEN 1 ELSE 0

\* Where a batch that is not the first one is then.
LEMMA PlaceThen ==
  ASSUME NEW n \in Nat, NEW g \in {0, 1}, NEW i \in 1..n, g = 1 => i # 1
  PROVE  i - g \in 1..(n - g) /\ (i - g) + g = i
<1>1. CASE g = 0
  BY <1>1
<1>2. CASE g = 1
  BY <1>2
<1> QED
  BY <1>1, <1>2

\* Taking the first batch out of a queue takes that one, and no other.
LEMMA SettleQueue ==
  ASSUME TypeOK, Ids, queue[user] # <<>>, queue' = Without(Head(queue[user]))
  PROVE  /\ queue' = [queue EXCEPT ![user] = Tail(queue[user])]
         /\ queue' \in [Users -> Seq(Batch)]
         /\ \A u \in Users : Len(queue'[u]) = Len(queue[u]) - Gone(u)
         /\ \A u \in Users : \A i \in 1..Len(queue'[u]) : queue'[u][i] = queue[u][i + Gone(u)]
<1>1. queue \in [Users -> Seq(Batch)] /\ user \in Users
  BY DEF TypeOK
<1>2. queue[user] \in Seq(Batch) /\ Increasing(queue[user])
  BY <1>1 DEF Ids
<1>3. queue' = [queue EXCEPT ![user] = Tail(queue[user])]
  BY <1>1, <1>2, HeadIsRemoved DEF Without
<1>4. /\ Tail(queue[user]) \in Seq(Batch)
      /\ Len(Tail(queue[user])) = Len(queue[user]) - 1
      /\ \A i \in 1..Len(Tail(queue[user])) : Tail(queue[user])[i] = queue[user][i + 1]
  BY <1>2, HeadTailProperties
<1>5. queue' \in [Users -> Seq(Batch)]
  BY <1>1, <1>3, <1>4
<1>6. ASSUME NEW u \in Users
      PROVE  /\ Len(queue'[u]) = Len(queue[u]) - Gone(u)
             /\ \A i \in 1..Len(queue'[u]) : queue'[u][i] = queue[u][i + Gone(u)]
  <2>1. CASE u = user
    BY <1>1, <1>3, <1>4, <2>1 DEF Gone
  <2>2. CASE u # user
    <3>1. queue'[u] = queue[u] /\ queue[u] \in Seq(Batch) /\ Gone(u) = 0
      BY <1>1, <1>3, <2>2 DEF Gone
    <3>2. Len(queue[u]) \in Nat
      BY <3>1, QueueFacts
    <3> QED
      BY <3>1, <3>2
  <2> QED
    BY <2>1, <2>2
<1> QED
  BY <1>3, <1>5, <1>6

\* Taking the first batch out keeps the ids, the writes and the callbacks in
\* order, in this process or the next.
LEMMA SettleStore ==
  ASSUME TypeOK, StoreInv, queue[user] # <<>>, queue' = Without(Head(queue[user])),
         nextId' \in {nextId, FirstId(queue')},
         callbacks' \in {callbacks \ Mine(Head(queue[user])), {}},
         UNCHANGED <<user, calls, log>>
  PROVE  StoreInv' /\ nextId' \in Nat
<1>1. /\ \A u \in Users : Len(queue'[u]) = Len(queue[u]) - Gone(u)
      /\ \A u \in Users : \A i \in 1..Len(queue'[u]) : queue'[u][i] = queue[u][i + Gone(u)]
  BY SettleQueue DEF StoreInv
<1>2. \A u \in Users : queue[u] \in Seq(Batch)
  BY DEF TypeOK
<1>3. \A u \in Users : Len(queue[u]) \in Nat /\ Gone(u) \in {0, 1}
  BY <1>2, QueueFacts DEF Gone
<1>4. \A u \in Users : \A i \in 1..Len(queue'[u]) : i + Gone(u) \in 1..Len(queue[u])
  BY <1>1, <1>3
<1>9. nextId' \in Nat /\ \A u \in Users : \A i \in 1..Len(queue'[u]) : queue'[u][i].id < nextId'
  <2>1. nextId \in Nat /\ \A u \in Users : \A i \in 1..Len(queue'[u]) : queue'[u][i].id < nextId
    BY <1>1, <1>4 DEF TypeOK, StoreInv, Ids
  <2>2. queue' \in [Users -> Seq(Batch)]
    BY SettleQueue DEF StoreInv
  <2>3. /\ FirstId(queue') \in Nat
        /\ \A u \in Users : \A i \in 1..Len(queue'[u]) : queue'[u][i].id < FirstId(queue')
    BY <2>1, <2>2, FirstIdAbove
  <2> QED
    BY <2>1, <2>3
<1>5. Ids'
  <2> SUFFICES ASSUME NEW u \in Users
               PROVE  /\ Increasing(queue'[u])
                      /\ \A i \in 1..Len(queue'[u]) : queue'[u][i].id < nextId'
    BY DEF Ids
  <2>1. \A i, j \in 1..Len(queue'[u]) : i < j => i + Gone(u) < j + Gone(u)
    BY <1>1, <1>3
  <2>2. Increasing(queue'[u])
    BY <1>1, <1>4, <2>1 DEF StoreInv, Ids, Increasing
  <2> QED
    BY <1>9, <2>2
<1>6. Distinct'
  <2> SUFFICES ASSUME NEW u \in Users, NEW v \in Users,
                      NEW i \in 1..Len(queue'[u]), NEW j \in 1..Len(queue'[v]),
                      queue'[u][i].write = queue'[v][j].write
               PROVE  u = v /\ i = j
    BY DEF Distinct
  <2>1. queue[u][i + Gone(u)].write = queue[v][j + Gone(v)].write
    BY <1>1
  <2>2. i + Gone(u) \in 1..Len(queue[u]) /\ j + Gone(v) \in 1..Len(queue[v])
    BY <1>4
  <2>3. u = v /\ i + Gone(u) = j + Gone(v)
    BY <2>1, <2>2 DEF StoreInv, Distinct
  <2> QED
    BY <1>3, <2>3
<1>7. Called'
  BY <1>1, <1>4 DEF StoreInv, Called
<1>8. CallbackQueued'
  <2> DEFINE mine == {c \in callbacks : c.user = user /\ c.id = Head(queue[user]).id}
  <2>1. callbacks' \subseteq callbacks \ mine
    BY DEF Mine
  <2> SUFFICES ASSUME NEW c \in callbacks, c \notin mine
               PROVE  \E i \in 1..Len(queue'[c.user]) :
                        queue'[c.user][i] = [id |-> c.id, write |-> c.write]
    BY <2>1 DEF CallbackQueued
  <2>2. c.user \in Users
    BY DEF TypeOK
  <2>3. PICK i \in 1..Len(queue[c.user]) : queue[c.user][i] = [id |-> c.id, write |-> c.write]
    BY DEF StoreInv, CallbackQueued
  <2>4. c.user = user => i # 1
    <3>1. c.user = user => c.id # Head(queue[user]).id
      OBVIOUS
    <3>2. Head(queue[user]) = queue[user][1]
      <4>1. queue[user] \in Seq(Batch)
        BY <1>2 DEF TypeOK
      <4> QED
        BY <4>1
    <3> QED
      BY <2>3, <3>1, <3>2
  <2>5. i - Gone(c.user) \in 1..Len(queue'[c.user]) /\ (i - Gone(c.user)) + Gone(c.user) = i
    <3> DEFINE u == c.user
    <3>1. u \in Users /\ i \in 1..Len(queue[u]) /\ (u = user => i # 1)
      BY <2>2, <2>4
    <3> HIDE DEF u
    <3>2. Len(queue[u]) \in Nat /\ Len(queue'[u]) = Len(queue[u]) - Gone(u)
      BY <1>1, <1>3, <3>1
    <3>3. Gone(u) \in {0, 1} /\ (Gone(u) = 1 => i # 1)
      BY <3>1 DEF Gone
    <3>4. i - Gone(u) \in 1..Len(queue'[u]) /\ (i - Gone(u)) + Gone(u) = i
      BY <3>1, <3>2, <3>3, PlaceThen
    <3> QED
      BY <3>4 DEF u
  <2> QED
    BY <1>1, <2>2, <2>3, <2>5
<1> QED
  BY <1>5, <1>6, <1>7, <1>8, <1>9 DEF StoreInv

-----------------------------------------------------------------------------
\* Issue

\* The queue of the user signed in is one longer when a write is called.
Added(u) == IF u = user THEN 1 ELSE 0

\* A call adds one batch at the end of the queue of its user.
LEMMA IssueQueue ==
  ASSUME TypeOK, NEW w \in Writes, Issue(w)
  PROVE  /\ [id |-> nextId, write |-> w] \in Batch
         /\ queue' \in [Users -> Seq(Batch)]
         /\ queue' = [queue EXCEPT ![user] = Append(queue[user], [id |-> nextId, write |-> w])]
         /\ \A u \in Users : Len(queue'[u]) = Len(queue[u]) + Added(u)
         /\ \A u \in Users : \A i \in 1..Len(queue[u]) : queue'[u][i] = queue[u][i]
         /\ queue'[user][Len(queue[user]) + 1] = [id |-> nextId, write |-> w]
<1> DEFINE b == [id |-> nextId, write |-> w]
<1>1. queue \in [Users -> Seq(Batch)] /\ user \in Users /\ nextId \in Nat
  BY DEF TypeOK
<1>2. b \in Batch
  BY <1>1 DEF Batch
<1>3. queue' = [queue EXCEPT ![user] = Append(queue[user], b)]
  BY DEF Issue
<1> HIDE DEF b
<1>4. /\ Append(queue[user], b) \in Seq(Batch)
      /\ Len(Append(queue[user], b)) = Len(queue[user]) + 1
      /\ \A i \in 1..Len(queue[user]) : Append(queue[user], b)[i] = queue[user][i]
      /\ Append(queue[user], b)[Len(queue[user]) + 1] = b
  BY <1>1, <1>2, AppendProperties
<1>5. queue' \in [Users -> Seq(Batch)] /\ queue'[user] = Append(queue[user], b)
  BY <1>1, <1>3, <1>4
<1>6. ASSUME NEW u \in Users
      PROVE  /\ Len(queue'[u]) = Len(queue[u]) + Added(u)
             /\ \A i \in 1..Len(queue[u]) : queue'[u][i] = queue[u][i]
  <2>1. CASE u = user
    BY <1>4, <1>5, <2>1 DEF Added
  <2>2. CASE u # user
    <3>1. queue'[u] = queue[u] /\ queue[u] \in Seq(Batch) /\ Added(u) = 0
      BY <1>1, <1>3, <2>2 DEF Added
    <3>2. Len(queue[u]) \in Nat
      BY <3>1, QueueFacts
    <3> QED
      BY <3>1, <3>2
  <2> QED
    BY <2>1, <2>2
<1> QED
  BY <1>2, <1>3, <1>4, <1>5, <1>6 DEF b

\* The id of a call is above those before it, and its write is in no queue.
LEMMA IssueStore ==
  ASSUME TypeOK, StoreInv, NEW w \in Writes, Issue(w)
  PROVE  StoreInv'
<1> DEFINE b == [id |-> nextId, write |-> w]
<1>1. /\ \A u \in Users : Len(queue'[u]) = Len(queue[u]) + Added(u)
      /\ \A u \in Users : \A i \in 1..Len(queue[u]) : queue'[u][i] = queue[u][i]
      /\ queue'[user][Len(queue[user]) + 1] = b
  BY IssueQueue
<1>2. \A u \in Users : queue[u] \in Seq(Batch)
  BY DEF TypeOK
<1>3. \A u \in Users : Len(queue[u]) \in Nat
  BY <1>2, QueueFacts
<1>4. \A u \in Users : \A i \in 1..Len(queue[u]) : queue[u][i].id \in Nat /\ queue[u][i].write \in Writes
  BY <1>2, QueueFacts
<1>5. b.id = nextId /\ b.write = w /\ w = calls + 1 /\ calls' = w /\ nextId' = nextId + 1
  BY DEF Issue
<1>6. nextId \in Nat /\ calls \in Nat /\ user \in Users
  BY CallsInNat DEF TypeOK
<1> HIDE DEF b
\* A place in a queue is an old one, or the last of the queue of the user.
<1>7. \A u \in Users : \A i \in 1..Len(queue'[u]) :
        \/ i \in 1..Len(queue[u]) /\ queue'[u][i] = queue[u][i]
        \/ u = user /\ i = Len(queue[u]) + 1 /\ queue'[u][i] = b
  <2> TAKE u \in Users
  <2> TAKE i \in 1..Len(queue'[u])
  <2>1. CASE u = user
    <3>1. Len(queue'[u]) = Len(queue[u]) + 1
      BY <1>1, <2>1 DEF Added
    <3>2. i \in 1..Len(queue[u]) \/ i = Len(queue[u]) + 1
      BY <1>3, <3>1
    <3> QED
      BY <1>1, <2>1, <3>2
  <2>2. CASE u # user
    <3>1. Len(queue'[u]) = Len(queue[u])
      <4>1. Added(u) = 0 /\ Len(queue'[u]) = Len(queue[u]) + Added(u) /\ Len(queue[u]) \in Nat
        BY <1>1, <1>3, <2>2 DEF Added
      <4> QED
        BY <4>1
    <3> QED
      BY <1>1, <3>1
  <2> QED
    BY <2>1, <2>2
\* No place is lost.
<1>13. \A u \in Users : \A i \in 1..Len(queue[u]) : i \in 1..Len(queue'[u])
  <2> TAKE u \in Users
  <2>1. Len(queue[u]) \in Nat /\ Added(u) \in {0, 1} /\ Len(queue'[u]) = Len(queue[u]) + Added(u)
    BY <1>1, <1>3 DEF Added
  <2> QED
    BY <2>1
<1>8. Ids'
  <2> SUFFICES ASSUME NEW u \in Users
               PROVE  /\ Increasing(queue'[u])
                      /\ \A i \in 1..Len(queue'[u]) : queue'[u][i].id < nextId'
    BY DEF Ids
  <2>1. \A i \in 1..Len(queue[u]) : queue[u][i].id < nextId
    BY DEF StoreInv, Ids
  <2>2. Increasing(queue'[u])
    <3> SUFFICES ASSUME NEW i \in 1..Len(queue'[u]), NEW j \in 1..Len(queue'[u]), i < j
                 PROVE  queue'[u][i].id < queue'[u][j].id
      BY DEF Increasing
    <3>1. i \in 1..Len(queue[u]) /\ queue'[u][i] = queue[u][i]
      BY <1>1, <1>3, <1>7 DEF Added
    <3>2. CASE j \in 1..Len(queue[u]) /\ queue'[u][j] = queue[u][j]
      BY <3>1, <3>2 DEF StoreInv, Ids, Increasing
    <3>3. CASE queue'[u][j] = b
      BY <1>5, <2>1, <3>1, <3>3
    <3> QED
      BY <1>7, <3>2, <3>3
  <2>3. \A i \in 1..Len(queue'[u]) : queue'[u][i].id < nextId'
    <3> TAKE i \in 1..Len(queue'[u])
    <3>1. CASE i \in 1..Len(queue[u]) /\ queue'[u][i] = queue[u][i]
      BY <1>4, <1>5, <1>6, <2>1, <3>1
    <3>2. CASE queue'[u][i] = b
      BY <1>5, <1>6, <3>2
    <3> QED
      BY <1>7, <3>1, <3>2
  <2> QED
    BY <2>2, <2>3
<1>9. \A u \in Users : \A i \in 1..Len(queue[u]) : queue[u][i].write <= calls /\ queue[u][i].write # w
  <2>1. \A u \in Users : \A i \in 1..Len(queue[u]) : queue[u][i].write <= calls
    BY DEF StoreInv, Called
  <2>2. \A x : x <= calls /\ x = w => FALSE
    BY <1>5, <1>6
  <2> QED
    BY <2>1, <2>2
<1>10. Distinct'
  <2> SUFFICES ASSUME NEW u \in Users, NEW v \in Users,
                      NEW i \in 1..Len(queue'[u]), NEW j \in 1..Len(queue'[v]),
                      queue'[u][i].write = queue'[v][j].write
               PROVE  u = v /\ i = j
    BY DEF Distinct
  <2>1. \/ i \in 1..Len(queue[u]) /\ queue'[u][i] = queue[u][i]
        \/ u = user /\ i = Len(queue[u]) + 1 /\ queue'[u][i] = b
    BY <1>7
  <2>2. \/ j \in 1..Len(queue[v]) /\ queue'[v][j] = queue[v][j]
        \/ v = user /\ j = Len(queue[v]) + 1 /\ queue'[v][j] = b
    BY <1>7
  <2>3. CASE i \in 1..Len(queue[u]) /\ j \in 1..Len(queue[v])
    <3>1. queue[u][i].write = queue[v][j].write
      BY <1>1, <2>3
    <3> QED
      BY <2>3, <3>1 DEF StoreInv, Distinct
  <2>4. CASE i \in 1..Len(queue[u]) /\ queue'[v][j] = b
    BY <1>1, <1>5, <1>9, <2>4
  <2>5. CASE queue'[u][i] = b /\ j \in 1..Len(queue[v])
    BY <1>1, <1>5, <1>9, <2>5
  <2> QED
    BY <2>1, <2>2, <2>3, <2>4, <2>5
<1>11. Called'
  <2>1. \A u \in Users : \A i \in 1..Len(queue'[u]) : queue'[u][i].write <= calls'
    <3> TAKE u \in Users
    <3> TAKE i \in 1..Len(queue'[u])
    <3>1. CASE i \in 1..Len(queue[u]) /\ queue'[u][i] = queue[u][i]
      <4> DEFINE x == queue[u][i].write
      <4>1. x \in Int /\ x <= calls
        BY <1>4, <1>9, <3>1, PipelineAssumption DEF Writes
      <4> HIDE DEF x
      <4>2. x <= calls'
        BY <1>5, <1>6, <4>1
      <4> QED
        BY <3>1, <4>2 DEF x
    <3>2. CASE queue'[u][i] = b
      BY <1>5, <1>6, <3>2
    <3> QED
      BY <1>7, <3>1, <3>2
  <2>2. \A n \in 1..Len(log') : log'[n] <= calls'
    <3>1. log' = log /\ log \in Seq(Writes)
      BY DEF Issue, TypeOK
    <3>2. \A n \in 1..Len(log) : log[n] \in Int
      BY <3>1, ElementOfSeq, PipelineAssumption DEF Writes
    <3>3. \A n \in 1..Len(log) : log[n] <= calls
      BY DEF StoreInv, Called
    <3> QED
      BY <1>5, <1>6, <3>1, <3>2, <3>3
  <2> QED
    BY <2>1, <2>2 DEF Called
<1>12. CallbackQueued'
  <2>1. callbacks' = callbacks \cup {[user |-> user, id |-> nextId, write |-> w]}
    BY DEF Issue
  <2> SUFFICES ASSUME NEW c \in callbacks'
               PROVE  \E i \in 1..Len(queue'[c.user]) :
                        queue'[c.user][i] = [id |-> c.id, write |-> c.write]
    BY DEF CallbackQueued
  <2>2. CASE c \in callbacks
    <3>1. c.user \in Users
      BY <2>2 DEF TypeOK
    <3>2. PICK i \in 1..Len(queue[c.user]) : queue[c.user][i] = [id |-> c.id, write |-> c.write]
      BY <2>2 DEF StoreInv, CallbackQueued
    <3>3. i \in 1..Len(queue'[c.user])
      BY <1>13, <3>1
    <3> QED
      BY <1>1, <3>1, <3>2, <3>3
  <2>3. CASE c = [user |-> user, id |-> nextId, write |-> w]
    <3>1. Len(queue[user]) + 1 \in 1..Len(queue'[user])
      <4>1. Len(queue'[user]) = Len(queue[user]) + 1 /\ Len(queue[user]) \in Nat
        BY <1>1, <1>3, <1>6 DEF Added
      <4> QED
        BY <4>1
    <3>2. c.user = user /\ c.id = nextId /\ c.write = w
      BY <2>3
    <3> QED
      BY <1>1, <3>1, <3>2 DEF b
  <2> QED
    BY <2>1, <2>2, <2>3
<1> QED
  BY <1>8, <1>10, <1>11, <1>12 DEF StoreInv

-----------------------------------------------------------------------------
\* The pipeline

\* Two pipelines that are filled from one queue are the same.
LEMMA FillsSame ==
  ASSUME NEW q, NEW p, NEW r, Fills(p, q), Fills(r, q)
  PROVE  p = r
<1>1. p \in Seq(Batch) /\ r \in Seq(Batch) /\ Len(p) = Len(r) /\ \A i \in 1..Len(p) : p[i] = r[i]
  BY DEF Fills
<1> QED
  BY <1>1, SeqEqual

\* Sizes of a pipeline and its queue.
LEMMA FillsSizes ==
  ASSUME NEW q \in Seq(Batch), NEW p, Fills(p, q)
  PROVE  /\ Len(p) \in Nat /\ Len(q) \in Nat /\ MaxPending \in Nat
         /\ Len(p) <= Len(q) /\ Len(p) <= MaxPending
         /\ (p = <<>> <=> Len(p) = 0) /\ (q = <<>> <=> Len(q) = 0)
         /\ (p = <<>> <=> q = <<>>)
         /\ Len(p) < Len(q) => Len(p) = MaxPending
         /\ \A i \in 1..Len(p) : i \in 1..Len(q) /\ p[i] = q[i]
         /\ p # <<>> => Head(p) = p[1] /\ Head(p) = q[1] /\ Head(p) = Head(q)
<1>1. p \in Seq(Batch) /\ Len(p) \in Nat /\ Len(q) \in Nat
  BY QueueFacts DEF Fills
<1>2. MaxPending \in Nat /\ MaxPending > 0
  BY PipelineAssumption
<1>3. Len(p) = IF Len(q) < MaxPending THEN Len(q) ELSE MaxPending
  BY DEF Fills
<1>4. /\ Len(p) <= Len(q) /\ Len(p) <= MaxPending
      /\ (Len(p) = 0 <=> Len(q) = 0)
      /\ Len(p) < Len(q) => Len(p) = MaxPending
  BY <1>1, <1>2, <1>3
<1>5. (p = <<>> <=> Len(p) = 0) /\ (q = <<>> <=> Len(q) = 0)
  BY <1>1, QueueFacts
<1>6. \A i \in 1..Len(p) : i \in 1..Len(q) /\ p[i] = q[i]
  BY <1>1, <1>4 DEF Fills
<1>7. p # <<>> => Head(p) = p[1] /\ Head(p) = q[1] /\ Head(p) = Head(q)
  <2> SUFFICES ASSUME p # <<>> PROVE Head(p) = p[1] /\ Head(p) = q[1] /\ Head(p) = Head(q)
    OBVIOUS
  <2>1. 1 \in 1..Len(p)
    BY <1>1, <1>5
  <2>2. Head(p) = p[1] /\ Head(q) = q[1]
    BY <1>1
  <2> QED
    BY <1>6, <2>1, <2>2
<1> QED
  BY <1>1, <1>2, <1>4, <1>5, <1>6, <1>7

\* The same, of the pipeline.
LEMMA PipelineSizes ==
  ASSUME TypeOK, Filled
  PROVE  /\ Len(pipeline) \in Nat /\ Len(queue[user]) \in Nat /\ MaxPending \in Nat
         /\ Len(pipeline) <= Len(queue[user]) /\ Len(pipeline) <= MaxPending
         /\ (pipeline = <<>> <=> Len(pipeline) = 0)
         /\ (queue[user] = <<>> <=> Len(queue[user]) = 0)
         /\ (pipeline = <<>> <=> queue[user] = <<>>)
         /\ Len(pipeline) < Len(queue[user]) => Len(pipeline) = MaxPending
         /\ \A i \in 1..Len(pipeline) : i \in 1..Len(queue[user]) /\ pipeline[i] = queue[user][i]
         /\ pipeline # <<>> =>
              Head(pipeline) = pipeline[1] /\ Head(pipeline) = queue[user][1] /\ Head(pipeline) = Head(queue[user])
<1>1. queue[user] \in Seq(Batch)
  BY DEF TypeOK
<1> QED
  BY <1>1, FillsSizes DEF Filled

\* A stream that starts fills its pipeline from the queue of its user.
LEMMA BeginFills ==
  ASSUME NEW q \in Seq(Batch), Increasing(q)
  PROVE  Fills(Fill(<<>>, q), q)
<1>1. <<>> \in Seq(Batch) /\ Len(<<>>) = 0
  BY EmptySeq
<1>2. 0 <= MaxPending /\ 0 <= Len(q)
  BY QueueFacts, PipelineAssumption
<1>3. \A i \in 1..Len(<<>>) : <<>>[i] = q[i]
  BY <1>1
<1> QED
  BY <1>1, <1>2, <1>3, FillFills

\* A write that is called enters the pipeline if there is room.
LEMMA IssueFills ==
  ASSUME TypeOK, StoreInv, Filled, NEW w \in Writes, Issue(w)
  PROVE  /\ Filled'
         /\ \/ Len(pipeline) < MaxPending /\ pipeline' = Append(pipeline, [id |-> nextId, write |-> w])
            \/ Len(pipeline) = MaxPending /\ pipeline' = pipeline
<1> DEFINE b == [id |-> nextId, write |-> w]
           q == queue'[user]
           n == Len(queue[user])
<1>1. /\ b \in Batch /\ queue' \in [Users -> Seq(Batch)]
      /\ \A u \in Users : Len(queue'[u]) = Len(queue[u]) + Added(u)
      /\ \A u \in Users : \A i \in 1..Len(queue[u]) : queue'[u][i] = queue[u][i]
      /\ q[n + 1] = b
  BY IssueQueue
<1>2. user \in Users /\ pipeline \in Seq(Batch)
  BY DEF TypeOK
<1>3. q \in Seq(Batch)
  BY <1>1, <1>2
<1>4. Increasing(q)
  BY <1>2, IssueStore DEF StoreInv, Ids
<1>5. /\ Len(pipeline) \in Nat /\ n \in Nat /\ MaxPending \in Nat
      /\ Len(pipeline) <= n /\ Len(pipeline) <= MaxPending
      /\ Len(pipeline) < n => Len(pipeline) = MaxPending
      /\ \A i \in 1..Len(pipeline) : i \in 1..n /\ pipeline[i] = queue[user][i]
  BY PipelineSizes
<1>6. Added(user) = 1
  BY DEF Added
<1> HIDE DEF b
<1>7. Len(q) = n + 1 /\ \A i \in 1..n : q[i] = queue[user][i]
  BY <1>1, <1>2, <1>6
<1> HIDE DEF q, n
<1>8. Len(pipeline) <= Len(q) /\ \A i \in 1..Len(pipeline) : pipeline[i] = q[i]
  BY <1>5, <1>7
<1>9. Fills(Fill(pipeline, q), q)
  BY <1>2, <1>3, <1>4, <1>5, <1>8, FillFills
<1>10. pipeline' = Fill(pipeline, q) /\ user' = user
  BY DEF Issue, q
<1>11. Filled'
  BY <1>9, <1>10 DEF Filled, q
<1>12. CASE Len(pipeline) < MaxPending
  <2>1. Len(pipeline) = n /\ n + 1 <= MaxPending
    BY <1>5, <1>12
  <2>2. /\ Append(pipeline, b) \in Seq(Batch)
        /\ Len(Append(pipeline, b)) = n + 1
        /\ \A i \in 1..n : Append(pipeline, b)[i] = pipeline[i]
        /\ Append(pipeline, b)[n + 1] = b
    BY <1>1, <1>2, <2>1, AppendProperties
  <2>3. \A i \in 1..(n + 1) : Append(pipeline, b)[i] = q[i]
    <3> TAKE i \in 1..(n + 1)
    <3>1. i \in 1..n \/ i = n + 1
      BY <1>5
    <3>2. q[n + 1] = b
      BY <1>1 DEF q, n
    <3> QED
      BY <1>8, <2>1, <2>2, <3>1, <3>2
  <2>4. n + 1 = IF Len(q) < MaxPending THEN Len(q) ELSE MaxPending
    BY <1>5, <1>7, <2>1
  <2>5. Fills(Append(pipeline, b), q)
    BY <2>2, <2>3, <2>4 DEF Fills
  <2> QED
    BY <1>9, <1>10, <1>11, <1>12, <2>5, FillsSame DEF b
<1>13. CASE Len(pipeline) = MaxPending
  <2>1. MaxPending = IF Len(q) < MaxPending THEN Len(q) ELSE MaxPending
    BY <1>5, <1>7, <1>13
  <2>2. Fills(pipeline, q)
    BY <1>2, <1>8, <1>13, <2>1 DEF Fills
  <2> QED
    BY <1>9, <1>10, <1>11, <1>13, <2>2, FillsSame
<1> QED
  BY <1>5, <1>12, <1>13

\* The place of a write that settles is taken by the next one.
LEMMA SettleFills ==
  ASSUME TypeOK, StoreInv, Filled, pipeline # <<>>, NEW what, Settle(Head(pipeline), what),
         UNCHANGED <<user, nextId, calls, log>>, pipeline' = Fill(Tail(pipeline), queue'[user])
  PROVE  /\ Filled'
         /\ Len(pipeline') \in Nat /\ Len(pipeline') >= Len(pipeline) - 1
         /\ \A i \in 1..(Len(pipeline) - 1) : pipeline'[i] = pipeline[i + 1]
<1> DEFINE q == queue'[user]
           t == Tail(pipeline)
<1>1. /\ Head(pipeline) = Head(queue[user]) /\ queue[user] # <<>>
      /\ Len(pipeline) \in Nat /\ Len(queue[user]) \in Nat /\ Len(pipeline) <= Len(queue[user])
      /\ Len(pipeline) <= MaxPending /\ MaxPending \in Nat
      /\ \A i \in 1..Len(pipeline) : i \in 1..Len(queue[user]) /\ pipeline[i] = queue[user][i]
  BY PipelineSizes
<1>2. /\ queue' = Without(Head(queue[user]))
      /\ callbacks' = callbacks \ Mine(Head(queue[user]))
  BY <1>1 DEF Settle
<1>3. /\ queue' \in [Users -> Seq(Batch)]
      /\ \A u \in Users : Len(queue'[u]) = Len(queue[u]) - Gone(u)
      /\ \A u \in Users : \A i \in 1..Len(queue'[u]) : queue'[u][i] = queue[u][i + Gone(u)]
  BY <1>1, <1>2, SettleQueue DEF StoreInv
<1>4. user \in Users /\ pipeline \in Seq(Batch) /\ Gone(user) = 1
  BY DEF TypeOK, Gone
<1>5. StoreInv'
  BY <1>1, <1>2, SettleStore
<1>6. q \in Seq(Batch) /\ Increasing(q)
  BY <1>3, <1>4, <1>5 DEF StoreInv, Ids
<1>7. Len(q) = Len(queue[user]) - 1 /\ \A i \in 1..Len(q) : q[i] = queue[user][i + 1]
  BY <1>3, <1>4
<1>8. /\ t \in Seq(Batch) /\ Len(t) = Len(pipeline) - 1
      /\ \A i \in 1..Len(t) : t[i] = pipeline[i + 1]
  BY <1>4, HeadTailProperties
<1>9. pipeline' = Fill(t, q) /\ user' = user
  OBVIOUS
<1> HIDE DEF q, t
<1>10. /\ Len(t) <= Len(q) /\ Len(t) <= MaxPending
       /\ \A i \in 1..Len(t) : i + 1 \in 1..Len(pipeline) /\ i \in 1..Len(q)
  BY <1>1, <1>7, <1>8
<1>11. \A i \in 1..Len(t) : t[i] = q[i]
  BY <1>1, <1>7, <1>8, <1>10
<1>12. Fills(pipeline', q)
  BY <1>6, <1>8, <1>9, <1>10, <1>11, FillFills
<1>13. Filled'
  BY <1>9, <1>12 DEF Filled, q
<1>14. /\ Len(pipeline') \in Nat
       /\ Len(pipeline') = IF Len(q) < MaxPending THEN Len(q) ELSE MaxPending
       /\ \A i \in 1..Len(pipeline') : pipeline'[i] = q[i]
  BY <1>6, <1>12, FillsSizes DEF Fills
<1>15. Len(pipeline') >= Len(t)
  BY <1>1, <1>7, <1>10, <1>14
<1>16. \A i \in 1..Len(t) : pipeline'[i] = pipeline[i + 1]
  <2> TAKE i \in 1..Len(t)
  <2>1. i \in 1..Len(pipeline')
    BY <1>1, <1>8, <1>14, <1>15
  <2> QED
    BY <1>8, <1>11, <1>14, <2>1
<1> QED
  BY <1>8, <1>13, <1>14, <1>15, <1>16

-----------------------------------------------------------------------------
\* What is on the stream

LEMMA WireFacts ==
  ASSUME TypeOK
  PROVE  /\ Len(requests) \in Nat /\ Len(responses) \in Nat
         /\ (requests = <<>> <=> Len(requests) = 0) /\ (responses = <<>> <=> Len(responses) = 0)
         /\ requests # <<>> => Head(requests) = requests[1]
         /\ responses # <<>> => Head(responses) = responses[1]
         /\ \A i \in 1..Len(requests) : requests[i] \in Writes \cup {Hello}
         /\ \A i \in 1..Len(responses) : responses[i] \in Writes \cup {Hello}
         /\ \A i \in 1..Len(pipeline) : pipeline[i].write \in Writes
         /\ pipeline \in Seq(Batch) /\ Len(pipeline) \in Nat
<1>1. /\ requests \in Seq(Writes \cup {Hello}) /\ responses \in Seq(Writes \cup {Hello})
      /\ pipeline \in Seq(Batch)
  BY DEF TypeOK
<1>2. /\ Len(requests) \in Nat /\ Len(responses) \in Nat
      /\ (requests = <<>> <=> Len(requests) = 0) /\ (responses = <<>> <=> Len(responses) = 0)
  BY <1>1, LenProperties, EmptySeq
<1>3. /\ requests # <<>> => Head(requests) = requests[1]
      /\ responses # <<>> => Head(responses) = responses[1]
  BY <1>1
<1>4. /\ \A i \in 1..Len(requests) : requests[i] \in Writes \cup {Hello}
      /\ \A i \in 1..Len(responses) : responses[i] \in Writes \cup {Hello}
  BY <1>1, ElementOfSeq
<1>5. Len(pipeline) \in Nat /\ \A i \in 1..Len(pipeline) : pipeline[i].write \in Writes
  BY <1>1, QueueFacts
<1> QED
  BY <1>1, <1>2, <1>3, <1>4, <1>5

\* An answer to a write is to the first of the pipeline.
LEMMA Answering ==
  ASSUME TypeOK, Filled, Wire, responses # <<>>, Head(responses) # Hello
  PROVE  /\ handshake /\ stream = "open" /\ Sent
         /\ pipeline # <<>> /\ queue[user] # <<>> /\ Head(pipeline) = Head(queue[user])
         /\ Head(pipeline) = queue[user][1]
         /\ Head(responses) = Head(pipeline).write
<1>1. stream = "open"
  BY DEF Wire
<1>2. handshake
  <2>1. responses = <<Hello>> => Head(responses) = Hello
    OBVIOUS
  <2> QED
    BY <1>1, <2>1 DEF Wire
<1>3. Sent
  BY <1>2 DEF Wire
<1>4. 1 \in 1..Len(responses) /\ Head(responses) = responses[1]
  BY WireFacts
<1>5. pipeline # <<>> /\ responses[1] = pipeline[1].write
  <2>1. Len(pipeline) # 0
    BY <1>3, <1>4, WireFacts DEF Sent
  <2> QED
    BY <1>3, <1>4, <2>1, PipelineSizes DEF Sent
<1> QED
  BY <1>1, <1>2, <1>3, <1>4, <1>5, PipelineSizes

\* A write that is read by the server is one of the pipeline.
LEMMA Sending ==
  ASSUME TypeOK, Filled, Wire, requests # <<>>, Head(requests) # Hello
  PROVE  /\ handshake /\ stream = "open" /\ Sent
         /\ Len(responses) + 1 \in 1..Len(pipeline) /\ Len(responses) + 1 \in 1..Len(queue[user])
         /\ Head(requests) = pipeline[Len(responses) + 1].write
         /\ Head(requests) = queue[user][Len(responses) + 1].write
         /\ pipeline # <<>> /\ queue[user] # <<>>
<1>1. stream = "open"
  BY DEF Wire
<1>2. handshake
  <2>1. requests = <<Hello>> => Head(requests) = Hello
    OBVIOUS
  <2> QED
    BY <1>1, <2>1 DEF Wire
<1>3. Sent
  BY <1>2 DEF Wire
<1>4. 1 \in 1..Len(requests) /\ Head(requests) = requests[1]
  BY WireFacts
<1>5. requests[1] = pipeline[Len(responses) + 1].write
  BY <1>3, <1>4 DEF Sent
<1>6. Len(responses) + 1 \in 1..Len(pipeline) /\ Len(pipeline) # 0
  BY <1>3, <1>4, WireFacts DEF Sent
<1>7. pipeline[Len(responses) + 1] = queue[user][Len(responses) + 1] /\ Len(responses) + 1 \in 1..Len(queue[user])
  BY <1>6, PipelineSizes
<1>8. pipeline # <<>> /\ queue[user] # <<>>
  BY <1>6, PipelineSizes
<1> QED
  BY <1>1, <1>2, <1>3, <1>4, <1>5, <1>6, <1>7, <1>8

\* The write that the server refuses is the first that it did not answer, so that
\* there is a first write to take for the refused one.
LEMMA Refusing ==
  ASSUME TypeOK, Filled, Wire, refusing
  PROVE  /\ handshake /\ stream = "open" /\ Sent
         /\ requests # <<>> /\ Head(requests) \in Bad
         /\ pipeline # <<>> /\ queue[user] # <<>> /\ Head(pipeline) = Head(queue[user])
<1>1. requests # <<>> /\ Head(requests) \in Bad
  BY DEF Wire
<1>2. Head(requests) # Hello
  BY <1>1, PipelineAssumption
<1> QED
  BY <1>1, <1>2, Sending, PipelineSizes

-----------------------------------------------------------------------------
\* The queues, at each step

LEMMA StoreSame ==
  ASSUME StoreInv, UNCHANGED <<queue, nextId, callbacks, calls, log>>
  PROVE  StoreInv'
<1>1. Ids'
  BY DEF StoreInv, Ids, Increasing
<1>2. Distinct'
  BY DEF StoreInv, Distinct
<1>3. Called'
  BY DEF StoreInv, Called
<1>4. CallbackQueued'
  BY DEF StoreInv, CallbackQueued
<1> QED
  BY <1>1, <1>2, <1>3, <1>4 DEF StoreInv

\* Ids begin again above those on disk; callbacks may be lost.
LEMMA StoreAgain ==
  ASSUME TypeOK, StoreInv, UNCHANGED <<queue, calls, log>>,
         nextId' \in {nextId, FirstId(queue)}, callbacks' \in {callbacks, {}}
  PROVE  StoreInv' /\ nextId' \in Nat
<1>1. /\ FirstId(queue) \in Nat
      /\ \A u \in Users : \A i \in 1..Len(queue[u]) : queue[u][i].id < FirstId(queue)
  BY FirstIdAbove DEF TypeOK, StoreInv, Ids
<1>2. nextId \in Nat /\ \A u \in Users : \A i \in 1..Len(queue[u]) : queue[u][i].id < nextId
  BY DEF TypeOK, StoreInv, Ids
<1>3. nextId' \in Nat /\ \A u \in Users : \A i \in 1..Len(queue[u]) : queue[u][i].id < nextId'
  BY <1>1, <1>2
<1>4. Ids'
  <2>1. \A u \in Users : Increasing(queue'[u])
    BY DEF StoreInv, Ids
  <2> QED
    BY <1>3, <2>1 DEF Ids
<1>5. Distinct'
  BY DEF StoreInv, Distinct
<1>6. Called'
  BY DEF StoreInv, Called
<1>7. CallbackQueued'
  BY DEF StoreInv, CallbackQueued
<1> QED
  BY <1>3, <1>4, <1>5, <1>6, <1>7 DEF StoreInv

\* The process ends: the first batch of the queue may be gone or not.
Ends == Crash \/ CrashTold \/ CrashUntold

LEMMA EndIs ==
  ASSUME Filled, TypeOK, Ends
  PROVE  /\ Start
         /\ \/ queue' = queue
            \/ queue[user] # <<>> /\ queue' = Without(Head(queue[user]))
<1>1. CASE Crash
  BY <1>1 DEF Crash
<1>2. CASE CrashTold
  BY <1>2 DEF CrashTold
<1>3. CASE CrashUntold
  <2>1. pipeline # <<>> /\ queue' = Without(Head(pipeline)) /\ Start
    BY <1>3 DEF CrashUntold
  <2>2. Head(pipeline) = Head(queue[user]) /\ queue[user] # <<>>
    BY <2>1, PipelineSizes
  <2> QED
    BY <2>1, <2>2
<1> QED
  BY <1>1, <1>2, <1>3 DEF Ends

\* What a new process finds on disk is in order.
LEMMA EndStore ==
  ASSUME TypeOK, StoreInv, Filled, Ends
  PROVE  /\ StoreInv' /\ nextId' \in Nat /\ queue' \in [Users -> Seq(Batch)]
         /\ UNCHANGED <<user, calls, log>> /\ callbacks' = {}
<1>1. UNCHANGED <<user, calls, log>> /\ callbacks' = {} /\ nextId' = FirstId(queue')
  BY EndIs DEF Start
<1>2. CASE queue' = queue
  <2>1. nextId' \in {nextId, FirstId(queue)}
    BY <1>1, <1>2
  <2> QED
    BY <1>1, <1>2, <2>1, StoreAgain DEF TypeOK
<1>3. CASE queue[user] # <<>> /\ queue' = Without(Head(queue[user]))
  <2>1. queue' \in [Users -> Seq(Batch)]
    BY <1>3, SettleQueue DEF StoreInv
  <2> QED
    BY <1>1, <1>3, <2>1, SettleStore
<1> QED
  BY <1>2, <1>3, EndIs

\* What the server applies was called.
LEMMA ServeStore ==
  ASSUME TypeOK, StoreInv, Filled, Wire, ServeWrite
  PROVE  StoreInv'
<1>1. UNCHANGED <<queue, nextId, callbacks, calls>> /\ log' = Append(log, Head(requests))
  BY DEF ServeWrite, storeVars
<1>2. requests # <<>> /\ Head(requests) \in Writes /\ Head(requests) # Hello
  BY PipelineAssumption DEF ServeWrite
<1>3. Len(responses) + 1 \in 1..Len(queue[user]) /\ Head(requests) = queue[user][Len(responses) + 1].write
  BY <1>2, Sending
<1>4. Head(requests) <= calls
  BY <1>3 DEF TypeOK, StoreInv, Called
<1>5. log \in Seq(Writes)
  BY DEF TypeOK
<1>6. /\ Len(log') = Len(log) + 1 /\ Len(log) \in Nat
      /\ \A n \in 1..Len(log) : log'[n] = log[n]
      /\ log'[Len(log) + 1] = Head(requests)
  BY <1>1, <1>2, <1>5, AppendProperties, LenProperties
<1>7. \A n \in 1..Len(log') : log'[n] <= calls
  <2> TAKE n \in 1..Len(log')
  <2>1. n \in 1..Len(log) \/ n = Len(log) + 1
    BY <1>6
  <2> QED
    BY <1>4, <1>6, <2>1 DEF StoreInv, Called
<1>8. Ids'
  BY <1>1 DEF StoreInv, Ids, Increasing
<1>9. Distinct'
  BY <1>1 DEF StoreInv, Distinct
<1>10. Called'
  BY <1>1, <1>7 DEF StoreInv, Called
<1>11. CallbackQueued'
  BY <1>1 DEF StoreInv, CallbackQueued
<1> QED
  BY <1>8, <1>9, <1>10, <1>11 DEF StoreInv

LEMMA StoreNext ==
  ASSUME TypeOK, StoreInv, StreamInv, [Next]_vars
  PROVE  StoreInv'
<1>1. Filled /\ Wire
  BY DEF StreamInv
<1>2. ASSUME NEW w \in Writes, Issue(w) PROVE StoreInv'
  BY <1>2, IssueStore
<1>3. ASSUME NEW u \in Users, ChangeCredentials(u) PROVE StoreInv'
  <2>1. /\ UNCHANGED <<queue, calls, log>> /\ nextId' \in {nextId, FirstId(queue)}
        /\ callbacks' \in {callbacks, {}}
    BY <1>3 DEF ChangeCredentials
  <2> QED
    BY <2>1, StoreAgain
<1>4. CASE Ends
  BY <1>1, <1>4, EndStore
<1>5. CASE BackoffElapsed \/ IdleTimeout \/ StreamFails \/ StreamOpens \/ HearHello \/ ServeHello
           \/ ServeRefusal \/ UNCHANGED vars
  <2>1. UNCHANGED <<queue, nextId, callbacks, calls, log>>
    BY <1>5 DEF BackoffElapsed, IdleTimeout, StreamFails, StreamOpens, HearHello, ServeHello,
                ServeRefusal, vars, storeVars
  <2> QED
    BY <2>1, StoreSame
<1>6. CASE StreamRefused
  <2>1. /\ Settle(Head(pipeline), "refused") /\ pipeline # <<>>
        /\ UNCHANGED <<user, nextId, calls, log>>
    BY <1>6 DEF StreamRefused
  <2>2. Head(pipeline) = Head(queue[user]) /\ queue[user] # <<>>
    BY <1>1, <2>1, PipelineSizes
  <2>3. /\ queue' = Without(Head(queue[user]))
        /\ callbacks' = callbacks \ Mine(Head(queue[user]))
    BY <2>1, <2>2 DEF Settle
  <2> QED
    BY <2>1, <2>2, <2>3, SettleStore
<1>7. CASE HearResult
  <2>1. /\ Settle(Head(pipeline), "ok") /\ responses # <<>> /\ Head(responses) # Hello
        /\ UNCHANGED <<user, nextId, calls, log>>
    BY <1>7 DEF HearResult
  <2>2. Head(pipeline) = Head(queue[user]) /\ queue[user] # <<>>
    BY <1>1, <2>1, Answering
  <2>3. /\ queue' = Without(Head(queue[user]))
        /\ callbacks' = callbacks \ Mine(Head(queue[user]))
    BY <2>1, <2>2 DEF Settle
  <2> QED
    BY <2>1, <2>2, <2>3, SettleStore
<1>8. CASE ServeWrite
  BY <1>1, <1>8, ServeStore
<1> QED
  BY <1>2, <1>3, <1>4, <1>5, <1>6, <1>7, <1>8 DEF Next, NetworkStep, Ends

LEMMA FilledNext ==
  ASSUME TypeOK, StoreInv, StreamInv, [Next]_vars
  PROVE  Filled'
<1>1. Filled /\ Wire
  BY DEF StreamInv
<1>2. ASSUME NEW w \in Writes, Issue(w) PROVE Filled'
  BY <1>1, <1>2, IssueFills
<1>3. ASSUME NEW u \in Users, ChangeCredentials(u) PROVE Filled'
  <2>1. pipeline' = Fill(<<>>, queue[u]) /\ queue' = queue /\ user' = u
    BY <1>3 DEF ChangeCredentials, Begin
  <2>2. queue[u] \in Seq(Batch) /\ Increasing(queue[u])
    BY DEF TypeOK, StoreInv, Ids
  <2> QED
    BY <2>1, <2>2, BeginFills DEF Filled
<1>4. CASE Ends
  <2>1. pipeline' = Fill(<<>>, queue'[user]) /\ user' = user /\ user \in Users
    BY <1>1, <1>4, EndIs DEF Start, Begin, TypeOK
  <2>2. queue'[user] \in Seq(Batch) /\ Increasing(queue'[user])
    BY <1>1, <1>4, <2>1, EndStore DEF StoreInv, Ids
  <2> QED
    BY <2>1, <2>2, BeginFills DEF Filled
<1>5. CASE BackoffElapsed \/ IdleTimeout \/ StreamFails \/ StreamOpens \/ HearHello \/ ServeHello
           \/ ServeRefusal \/ ServeWrite \/ UNCHANGED vars
  <2>1. UNCHANGED <<queue, user, pipeline>>
    BY <1>5 DEF BackoffElapsed, IdleTimeout, StreamFails, StreamOpens, HearHello, ServeHello,
                ServeRefusal, ServeWrite, vars, storeVars, streamVars
  <2> QED
    BY <1>1, <2>1 DEF Filled
<1>6. CASE StreamRefused
  <2>1. /\ Settle(Head(pipeline), "refused") /\ pipeline # <<>>
        /\ UNCHANGED <<user, nextId, calls, log>> /\ pipeline' = Fill(Tail(pipeline), queue'[user])
    BY <1>6 DEF StreamRefused
  <2> QED
    BY <1>1, <2>1, SettleFills
<1>7. CASE HearResult
  <2>1. /\ Settle(Head(pipeline), "ok") /\ responses # <<>> /\ Head(responses) # Hello
        /\ UNCHANGED <<user, nextId, calls, log>> /\ pipeline' = Fill(Tail(pipeline), queue'[user])
    BY <1>7 DEF HearResult
  <2>2. pipeline # <<>>
    BY <1>1, <2>1, Answering
  <2> QED
    BY <1>1, <2>1, <2>2, SettleFills
<1> QED
  BY <1>2, <1>3, <1>4, <1>5, <1>6, <1>7 DEF Next, NetworkStep, Ends

-----------------------------------------------------------------------------
\* Types

\* What a batch that settles leaves of the types of the queues.
LEMMA SettleTypes ==
  ASSUME TypeOK, StoreInv, Filled, pipeline # <<>>, NEW what \in {"ok", "refused"},
         Settle(Head(pipeline), what)
  PROVE  /\ queue' \in [Users -> Seq(Batch)]
         /\ callbacks' \subseteq [user: Users, id: Nat, write: Writes]
         /\ told' \in [Writes -> {"", "ok", "refused"}]
<1>1. Head(pipeline) = Head(queue[user]) /\ queue[user] # <<>>
  BY PipelineSizes
<1>2. queue' = Without(Head(queue[user]))
  BY <1>1 DEF Settle
<1>3. queue' \in [Users -> Seq(Batch)]
  BY <1>1, <1>2, SettleQueue DEF StoreInv
<1>4. callbacks' \subseteq callbacks /\ callbacks \subseteq [user: Users, id: Nat, write: Writes]
  BY DEF Settle, TypeOK
<1>5. told \in [Writes -> {"", "ok", "refused"}]
  BY DEF TypeOK
<1>6. told' \in [Writes -> {"", "ok", "refused"}]
  BY <1>5 DEF Settle, Notified
<1> QED
  BY <1>3, <1>4, <1>6

\* The parts of TypeOK.
StoreTyped ==
  /\ user \in Users
  /\ queue \in [Users -> Seq(Batch)]
  /\ nextId \in Nat
  /\ callbacks \subseteq [user: Users, id: Nat, write: Writes]
  /\ told \in [Writes -> {"", "ok", "refused"}]

StreamTyped ==
  /\ pipeline \in Seq(Batch)
  /\ stream \in {"initial", "starting", "open", "error", "backoff"}
  /\ handshake \in BOOLEAN
  /\ idle \in BOOLEAN

WireTyped ==
  /\ requests \in Seq(Writes \cup {Hello})
  /\ responses \in Seq(Writes \cup {Hello})
  /\ refusing \in BOOLEAN

RestTyped ==
  /\ log \in Seq(Writes)
  /\ calls \in 0..MaxWrites
  /\ spent \in [breaks: Nat, restarts: Nat]

LEMMA TypeParts == TypeOK <=> StoreTyped /\ StreamTyped /\ WireTyped /\ RestTyped
BY DEF TypeOK, StoreTyped, StreamTyped, WireTyped, RestTyped

LEMMA WritesTyped ==
  ASSUME NEW p \in Seq(Batch)
  PROVE  /\ WritesOf(p) \in Seq(Writes \cup {Hello}) /\ Len(WritesOf(p)) = Len(p)
         /\ \A i \in 1..Len(p) : WritesOf(p)[i] = p[i].write
<1>1. DOMAIN p = 1..Len(p) /\ Len(p) \in Nat /\ \A i \in 1..Len(p) : p[i].write \in Writes
  BY QueueFacts
<1>2. WritesOf(p) = [i \in 1..Len(p) |-> p[i].write]
  BY <1>1 DEF WritesOf
<1> QED
  BY <1>1, <1>2

LEMMA EmptyTyped == <<>> \in Seq(Writes \cup {Hello}) /\ <<Hello>> \in Seq(Writes \cup {Hello})
OBVIOUS

LEMMA StoreTypedNext ==
  ASSUME TypeOK, StoreInv, StreamInv, [Next]_vars
  PROVE  StoreTyped'
<1>1. Filled /\ Wire /\ StoreTyped
  BY TypeParts DEF StreamInv
<1>2. ASSUME NEW w \in Writes, Issue(w) PROVE StoreTyped'
  <2>1. /\ UNCHANGED <<user, told>> /\ nextId' = nextId + 1
        /\ callbacks' = callbacks \cup {[user |-> user, id |-> nextId, write |-> w]}
    BY <1>2 DEF Issue
  <2>2. queue' \in [Users -> Seq(Batch)]
    BY <1>2, IssueQueue
  <2>3. nextId' \in Nat
    <3>1. nextId \in Nat
      BY <1>1 DEF StoreTyped
    <3> QED
      BY <2>1, <3>1
  <2>4. callbacks' \subseteq [user: Users, id: Nat, write: Writes]
    <3>1. [user |-> user, id |-> nextId, write |-> w] \in [user: Users, id: Nat, write: Writes]
      BY <1>1 DEF StoreTyped
    <3> QED
      BY <1>1, <2>1, <3>1 DEF StoreTyped
  <2> QED
    BY <1>1, <2>1, <2>2, <2>3, <2>4 DEF StoreTyped
<1>3. ASSUME NEW u \in Users, ChangeCredentials(u) PROVE StoreTyped'
  <2>1. /\ UNCHANGED <<queue, calls, log, told>> /\ nextId' \in {nextId, FirstId(queue)}
        /\ callbacks' = callbacks /\ user' = u
    BY <1>3 DEF ChangeCredentials
  <2>2. nextId' \in Nat
    BY <2>1, StoreAgain
  <2> QED
    BY <1>1, <2>1, <2>2 DEF StoreTyped
<1>4. CASE Ends
  <2>1. /\ nextId' \in Nat /\ queue' \in [Users -> Seq(Batch)]
        /\ callbacks' = {} /\ user' = user
    BY <1>1, <1>4, EndStore
  <2>2. told' = told \/ \E b : told' = Notified(b, "ok")
    BY <1>4 DEF Ends, Crash, CrashTold, CrashUntold
  <2>3. told' \in [Writes -> {"", "ok", "refused"}]
    BY <1>1, <2>2 DEF StoreTyped, Notified
  <2> QED
    BY <1>1, <2>1, <2>3 DEF StoreTyped
<1>5. CASE BackoffElapsed \/ IdleTimeout \/ StreamFails \/ StreamOpens \/ HearHello \/ ServeHello
           \/ ServeRefusal \/ ServeWrite \/ UNCHANGED vars
  <2>1. UNCHANGED storeVars
    BY <1>5 DEF BackoffElapsed, IdleTimeout, StreamFails, StreamOpens, HearHello, ServeHello,
                ServeRefusal, ServeWrite, vars
  <2> QED
    BY <1>1, <2>1 DEF StoreTyped, storeVars
<1>6. CASE StreamRefused
  <2>1. Settle(Head(pipeline), "refused") /\ pipeline # <<>> /\ UNCHANGED <<user, nextId>>
    BY <1>6 DEF StreamRefused
  <2> QED
    BY <1>1, <2>1, SettleTypes DEF StoreTyped
<1>7. CASE HearResult
  <2>1. /\ Settle(Head(pipeline), "ok") /\ responses # <<>> /\ Head(responses) # Hello
        /\ UNCHANGED <<user, nextId>>
    BY <1>7 DEF HearResult
  <2>2. pipeline # <<>>
    BY <1>1, <2>1, Answering
  <2> QED
    BY <1>1, <2>1, <2>2, SettleTypes DEF StoreTyped
<1> QED
  BY <1>2, <1>3, <1>4, <1>5, <1>6, <1>7 DEF Next, NetworkStep, Ends

LEMMA StreamTypedNext ==
  ASSUME TypeOK, StoreInv, StreamInv, [Next]_vars
  PROVE  StreamTyped'
<1>1. StreamTyped
  BY TypeParts
<1>2. pipeline' \in Seq(Batch)
  BY FilledNext DEF Filled, Fills
<1> DEFINE Rest ==
      /\ stream' \in {"initial", "starting", "open", "error", "backoff"}
      /\ handshake' \in BOOLEAN /\ idle' \in BOOLEAN
<1> SUFFICES Rest
  BY <1>2 DEF StreamTyped
<1>3. ASSUME NEW w \in Writes, Issue(w) PROVE Rest
  BY <1>1, <1>3 DEF Issue, StreamTyped
<1>4. ASSUME NEW u \in Users, ChangeCredentials(u) PROVE Rest
  BY <1>1, <1>4 DEF ChangeCredentials, Begin, StreamTyped
<1>5. CASE Ends
  BY <1>1, <1>5 DEF Ends, Crash, CrashTold, CrashUntold, Start, Begin, StreamTyped
<1>6. CASE BackoffElapsed \/ IdleTimeout \/ StreamFails \/ StreamOpens \/ StreamRefused
  BY <1>1, <1>6 DEF BackoffElapsed, IdleTimeout, StreamFails, StreamOpens, StreamRefused, StreamTyped
<1>7. CASE HearHello \/ HearResult
  BY <1>1, <1>7 DEF HearHello, HearResult, StreamTyped
<1>8. CASE ServeHello \/ ServeRefusal \/ ServeWrite \/ UNCHANGED vars
  BY <1>1, <1>8 DEF ServeHello, ServeRefusal, ServeWrite, vars, streamVars, StreamTyped
<1> QED
  BY <1>3, <1>4, <1>5, <1>6, <1>7, <1>8 DEF Next, NetworkStep, Ends

LEMMA WireTypedNext ==
  ASSUME TypeOK, StoreInv, StreamInv, [Next]_vars
  PROVE  WireTyped'
<1>1. WireTyped /\ Filled /\ Wire /\ pipeline \in Seq(Batch)
  BY TypeParts DEF StreamInv, StreamTyped
<1>2. ASSUME NEW w \in Writes, Issue(w) PROVE WireTyped'
  <2>1. requests' \in {requests, Append(requests, w)} /\ UNCHANGED <<responses, refusing>>
    BY <1>2 DEF Issue
  <2>2. Append(requests, w) \in Seq(Writes \cup {Hello})
    BY <1>1, AppendProperties DEF WireTyped
  <2> QED
    BY <1>1, <2>1, <2>2 DEF WireTyped
<1>3. ASSUME DropWire PROVE WireTyped'
  BY <1>3, EmptyTyped DEF DropWire, WireTyped
<1>4. CASE (\E u \in Users : ChangeCredentials(u)) \/ Ends \/ IdleTimeout \/ StreamFails \/ StreamRefused
  <2>1. DropWire
    BY <1>4 DEF ChangeCredentials, Ends, Crash, CrashTold, CrashUntold, Start, Begin, IdleTimeout, StreamFails, StreamRefused
  <2> QED
    BY <1>3, <2>1
<1>5. CASE BackoffElapsed \/ UNCHANGED vars
  BY <1>1, <1>5 DEF BackoffElapsed, vars, wireVars, WireTyped
<1>6. CASE StreamOpens
  BY <1>1, <1>6, EmptyTyped DEF StreamOpens, WireTyped
<1>7. CASE HearHello
  <2>1. /\ responses # <<>> /\ responses' = Tail(responses) /\ refusing' = refusing
        /\ requests' = requests \o WritesOf(pipeline)
    BY <1>7 DEF HearHello
  <2>2. Tail(responses) \in Seq(Writes \cup {Hello})
    BY <1>1, <2>1, HeadTailProperties DEF WireTyped
  <2>3. requests \o WritesOf(pipeline) \in Seq(Writes \cup {Hello})
    BY <1>1, WritesTyped, ConcatProperties DEF WireTyped
  <2> QED
    BY <1>1, <2>1, <2>2, <2>3 DEF WireTyped
<1>8. CASE HearResult
  <2> DEFINE added == SubSeq(pipeline', Len(pipeline), Len(pipeline'))
  <2>1. /\ responses # <<>> /\ responses' = Tail(responses) /\ refusing' = refusing
        /\ Head(responses) # Hello /\ requests' = requests \o WritesOf(added)
    BY <1>8 DEF HearResult
  <2>2. Tail(responses) \in Seq(Writes \cup {Hello})
    BY <1>1, <2>1, HeadTailProperties DEF WireTyped
  <2>3. pipeline # <<>>
    BY <1>1, <2>1, Answering
  <2>4. pipeline' \in Seq(Batch)
    BY FilledNext DEF Filled, Fills
  <2>5. added \in Seq(Batch)
    <3>1. Len(pipeline) \in Nat \ {0} /\ Len(pipeline') \in Nat
      BY <1>1, <2>3, <2>4, QueueFacts
    <3>2. \A i \in Len(pipeline)..Len(pipeline') : pipeline'[i] \in Batch
      BY <2>4, <3>1, ElementOfSeq
    <3> QED
      BY <3>1, <3>2, SubSeqProperties
  <2> HIDE DEF added
  <2>6. requests \o WritesOf(added) \in Seq(Writes \cup {Hello})
    BY <1>1, <2>5, WritesTyped, ConcatProperties DEF WireTyped
  <2> QED
    BY <1>1, <2>1, <2>2, <2>6 DEF WireTyped
<1>9. CASE ServeHello \/ ServeWrite
  <2>1. /\ requests # <<>> /\ requests' = Tail(requests) /\ refusing' = refusing
        /\ \E x \in Writes \cup {Hello} : responses' = Append(responses, x)
    BY <1>9 DEF ServeHello, ServeWrite
  <2>2. Tail(requests) \in Seq(Writes \cup {Hello})
    BY <1>1, <2>1, HeadTailProperties DEF WireTyped
  <2>3. responses' \in Seq(Writes \cup {Hello})
    BY <1>1, <2>1, AppendProperties DEF WireTyped
  <2> QED
    BY <1>1, <2>1, <2>2, <2>3 DEF WireTyped
<1>10. CASE ServeRefusal
  BY <1>1, <1>10 DEF ServeRefusal, WireTyped
<1> QED
  BY <1>2, <1>4, <1>5, <1>6, <1>7, <1>8, <1>9, <1>10 DEF Next, NetworkStep, Ends

LEMMA SpentTyped ==
  ASSUME RestTyped
  PROVE  /\ [spent EXCEPT !.restarts = @ + 1] \in [breaks: Nat, restarts: Nat]
         /\ [spent EXCEPT !.breaks = @ + 1] \in [breaks: Nat, restarts: Nat]
<1>1. spent \in [breaks: Nat, restarts: Nat]
  BY DEF RestTyped
<1> QED
  BY <1>1

LEMMA RestTypedNext ==
  ASSUME TypeOK, StoreInv, StreamInv, [Next]_vars
  PROVE  RestTyped'
<1>1. RestTyped
  BY TypeParts
<1>2. ASSUME NEW w \in Writes, Issue(w) PROVE RestTyped'
  <2>1. calls' = w /\ UNCHANGED <<log, spent>>
    BY <1>2 DEF Issue
  <2>2. w \in 0..MaxWrites
    BY PipelineAssumption DEF Writes
  <2> QED
    BY <1>1, <2>1, <2>2 DEF RestTyped
<1>3. CASE (\E u \in Users : ChangeCredentials(u)) \/ Ends \/ StreamFails
  <2>1. /\ spent' \in {[spent EXCEPT !.restarts = @ + 1], [spent EXCEPT !.breaks = @ + 1]}
        /\ UNCHANGED <<log, calls>>
    BY <1>3 DEF ChangeCredentials, Ends, Crash, CrashTold, CrashUntold, Start, StreamFails
  <2>2. spent' \in [breaks: Nat, restarts: Nat]
    BY <1>1, <2>1, SpentTyped
  <2> QED
    BY <1>1, <2>1, <2>2 DEF RestTyped
<1>4. CASE BackoffElapsed \/ IdleTimeout \/ StreamOpens \/ StreamRefused \/ HearHello \/ HearResult
           \/ ServeHello \/ ServeRefusal \/ UNCHANGED vars
  <2>1. UNCHANGED <<log, calls, spent>>
    BY <1>4 DEF BackoffElapsed, IdleTimeout, StreamOpens, StreamRefused, HearHello, HearResult,
                ServeHello, ServeRefusal, vars
  <2> QED
    BY <1>1, <2>1 DEF RestTyped
<1>5. CASE ServeWrite
  <2>1. log' = Append(log, Head(requests)) /\ Head(requests) \in Writes /\ UNCHANGED <<calls, spent>>
    BY <1>5 DEF ServeWrite
  <2>2. log' \in Seq(Writes)
    BY <1>1, <2>1, AppendProperties DEF RestTyped
  <2> QED
    BY <1>1, <2>1, <2>2 DEF RestTyped
<1> QED
  BY <1>2, <1>3, <1>4, <1>5 DEF Next, NetworkStep, Ends

LEMMA TypeNext ==
  ASSUME TypeOK, StoreInv, StreamInv, [Next]_vars
  PROVE  TypeOK'
<1>1. TypeOK' <=> StoreTyped' /\ StreamTyped' /\ WireTyped' /\ RestTyped'
  BY DEF TypeOK, StoreTyped, StreamTyped, WireTyped, RestTyped
<1> QED
  BY <1>1, StoreTypedNext, StreamTypedNext, WireTypedNext, RestTypedNext

-----------------------------------------------------------------------------
\* The stream, at each step

\* What a call adds to the pipeline is sent after what is on its way.
LEMMA IssueWire ==
  ASSUME TypeOK, StoreInv, Filled, Wire, NEW w \in Writes, Issue(w)
  PROVE  Wire'
<1> DEFINE b == [id |-> nextId, write |-> w]
<1>1. \/ pipeline' = Append(pipeline, b)
      \/ pipeline' = pipeline
  BY IssueFills
<1>2. UNCHANGED <<handshake, responses, refusing>>
  BY DEF Issue
<1>3. b \in Batch /\ b.write = w
  BY IssueQueue
<1> HIDE DEF b
<1>4. /\ pipeline \in Seq(Batch) /\ requests \in Seq(Writes \cup {Hello})
      /\ Len(requests) \in Nat /\ Len(responses) \in Nat /\ Len(pipeline) \in Nat
  BY WireFacts DEF TypeOK
<1>5. CASE stream = "open" /\ handshake /\ pipeline' # pipeline
  <2>1. requests' = Append(requests, w) /\ stream' = "open"
    BY <1>5 DEF Issue
  <2>2. Sent
    BY <1>5 DEF Wire
  <2>3. /\ Len(requests') = Len(requests) + 1
        /\ \A i \in 1..Len(requests) : requests'[i] = requests[i]
        /\ requests'[Len(requests) + 1] = w
    BY <1>4, <2>1, AppendProperties
  <2>4. /\ Len(pipeline') = Len(pipeline) + 1
        /\ \A i \in 1..Len(pipeline) : pipeline'[i] = pipeline[i]
        /\ pipeline'[Len(pipeline) + 1] = b
    BY <1>1, <1>3, <1>4, <1>5, AppendProperties
  <2>5. Len(responses) + Len(requests) = Len(pipeline)
    BY <2>2 DEF Sent
  <2>6. \A i \in 1..Len(responses) : responses'[i] = pipeline'[i].write
    <3> TAKE i \in 1..Len(responses)
    <3>1. i \in 1..Len(pipeline)
      BY <1>4, <2>5
    <3> QED
      BY <1>2, <2>2, <2>4, <3>1 DEF Sent
  <2>7. \A i \in 1..Len(requests') : requests'[i] = pipeline'[Len(responses) + i].write
    <3> TAKE i \in 1..Len(requests')
    <3>1. CASE i \in 1..Len(requests)
      <4>1. Len(responses) + i \in 1..Len(pipeline)
        BY <1>4, <2>5, <3>1
      <4> QED
        BY <2>2, <2>3, <2>4, <3>1, <4>1 DEF Sent
    <3>2. CASE i = Len(requests) + 1
      <4>1. Len(responses) + i = Len(pipeline) + 1
        BY <1>4, <2>5, <3>2
      <4> QED
        BY <1>3, <2>3, <2>4, <3>2, <4>1
    <3> QED
      BY <1>4, <2>3, <3>1, <3>2
  <2>8. Len(responses') + Len(requests') = Len(pipeline')
    BY <1>2, <1>4, <2>3, <2>4, <2>5
  <2>9. Sent'
    BY <1>2, <2>6, <2>7, <2>8 DEF Sent
  <2>10. refusing => requests' # <<>> /\ Head(requests') \in Bad
    <3>1. requests # <<>> => requests' # <<>> /\ Head(requests') = Head(requests)
      BY <1>4, <2>1, HeadTailAppend, AppendProperties
    <3> QED
      BY <3>1 DEF Wire
  <2> QED
    BY <1>2, <1>5, <2>1, <2>9, <2>10 DEF Wire
<1>6. CASE ~(stream = "open" /\ handshake /\ pipeline' # pipeline)
  <2>1. requests' = requests /\ (stream = "open" <=> stream' = "open")
    BY <1>6 DEF Issue
  <2>2. handshake => pipeline' = pipeline
    BY <1>6 DEF Wire
  <2>3. handshake => Sent'
    BY <1>2, <2>1, <2>2 DEF Wire, Sent
  <2> QED
    BY <1>2, <2>1, <2>3 DEF Wire
<1> QED
  BY <1>5, <1>6

\* A stream that is not open has no wire.
LEMMA DroppedWire ==
  ASSUME DropWire, handshake' = FALSE, stream' # "open"
  PROVE  Wire'
BY DEF DropWire, Wire

LEMMA OpensWire ==
  ASSUME TypeOK, Wire, StreamOpens
  PROVE  Wire'
<1>1. /\ stream = "starting" /\ stream' = "open" /\ requests' = <<Hello>>
      /\ UNCHANGED <<pipeline, handshake, responses, refusing>>
  BY DEF StreamOpens
<1>2. ~handshake /\ responses = <<>> /\ ~refusing
  BY <1>1 DEF Wire
<1> QED
  BY <1>1, <1>2 DEF Wire

\* The handshake alone is on a stream where it has not been heard.
LEMMA Shaking ==
  ASSUME TypeOK, Wire,
         (responses # <<>> /\ Head(responses) = Hello) \/ (requests # <<>> /\ Head(requests) = Hello)
  PROVE  /\ ~handshake /\ stream = "open" /\ ~refusing
         /\ responses # <<>> /\ Head(responses) = Hello => responses = <<Hello>> /\ requests = <<>>
         /\ requests # <<>> /\ Head(requests) = Hello => requests = <<Hello>> /\ responses = <<>>
<1>1. stream = "open"
  BY DEF Wire
<1>2. ~handshake
  <2> SUFFICES ASSUME handshake PROVE FALSE
    OBVIOUS
  <2>1. Sent
    BY DEF Wire
  <2>2. responses # <<>> => responses[1] \in Writes
    <3>1. responses # <<>> => 1 \in 1..Len(responses) /\ 1 \in 1..Len(pipeline)
      BY <2>1, WireFacts DEF Sent
    <3> QED
      BY <2>1, <3>1, WireFacts DEF Sent
  <2>3. requests # <<>> => requests[1] \in Writes
    <3>1. requests # <<>> => 1 \in 1..Len(requests) /\ Len(responses) + 1 \in 1..Len(pipeline)
      BY <2>1, WireFacts DEF Sent
    <3> QED
      BY <2>1, <3>1, WireFacts DEF Sent
  <2> QED
    BY <2>2, <2>3, WireFacts, PipelineAssumption
<1> QED
  BY <1>1, <1>2 DEF Wire

\* After the handshake the whole pipeline is on its way.
LEMMA HelloWire ==
  ASSUME TypeOK, Wire, HearHello
  PROVE  Wire'
<1>1. /\ responses # <<>> /\ Head(responses) = Hello /\ responses' = Tail(responses)
      /\ requests' = requests \o WritesOf(pipeline) /\ handshake' = TRUE
      /\ UNCHANGED <<pipeline, stream, refusing>>
  BY DEF HearHello
<1>2. stream = "open" /\ ~refusing /\ responses = <<Hello>> /\ requests = <<>>
  BY <1>1, Shaking
<1>3. responses' = <<>> /\ Len(responses') = 0
  BY <1>1, <1>2
<1>4. requests' = WritesOf(pipeline)
  BY <1>1, <1>2, WireFacts, WritesTyped, ConcatEmptySeq
<1>5. Sent'
  <2>1. /\ Len(requests') = Len(pipeline) /\ Len(pipeline) \in Nat
        /\ \A i \in 1..Len(pipeline) : requests'[i] = pipeline[i].write
    BY <1>4, WireFacts, WritesTyped
  <2>2. \A i \in 1..Len(responses') : responses'[i] = pipeline'[i].write
    BY <1>3
  <2>3. \A i \in 1..Len(requests') : requests'[i] = pipeline'[Len(responses') + i].write
    <3> TAKE i \in 1..Len(requests')
    <3>1. Len(responses') + i = i /\ i \in 1..Len(pipeline)
      BY <1>3, <2>1
    <3> QED
      BY <1>1, <2>1, <3>1
  <2>4. Len(responses') + Len(requests') = Len(pipeline')
    <3>1. Len(responses') = 0 /\ Len(requests') = Len(pipeline') /\ Len(requests') \in Nat
      BY <1>1, <1>3, <2>1
    <3> QED
      BY <3>1
  <2> QED
    BY <2>2, <2>3, <2>4 DEF Sent
<1> QED
  BY <1>1, <1>2, <1>5 DEF Wire

LEMMA ServeHelloWire ==
  ASSUME TypeOK, Wire, ServeHello
  PROVE  Wire'
<1>1. /\ requests # <<>> /\ Head(requests) = Hello /\ requests' = Tail(requests)
      /\ responses' = Append(responses, Hello)
      /\ UNCHANGED <<pipeline, stream, handshake, refusing>>
  BY DEF ServeHello, streamVars
<1>2. ~handshake /\ stream = "open" /\ ~refusing /\ requests = <<Hello>> /\ responses = <<>>
  BY <1>1, Shaking
<1>3. requests' = <<>> /\ responses' = <<Hello>>
  BY <1>1, <1>2
<1> QED
  BY <1>1, <1>2, <1>3 DEF Wire

\* The server answers the writes of a stream in turn.
LEMMA ServeWriteWire ==
  ASSUME TypeOK, Filled, Wire, ServeWrite
  PROVE  Wire'
<1>1. /\ requests # <<>> /\ Head(requests) \in Writes /\ ~refusing /\ Head(requests) # Hello
      /\ requests' = Tail(requests) /\ responses' = Append(responses, Head(requests))
      /\ UNCHANGED <<pipeline, stream, handshake, refusing>>
  BY PipelineAssumption DEF ServeWrite, streamVars
<1>2. handshake /\ stream = "open" /\ Sent /\ Head(requests) = pipeline[Len(responses) + 1].write
  BY <1>1, Sending
<1>3. requests \in Seq(Writes \cup {Hello}) /\ responses \in Seq(Writes \cup {Hello})
  BY DEF TypeOK
<1>4. /\ Len(requests') = Len(requests) - 1
      /\ \A i \in 1..Len(requests') : requests'[i] = requests[i + 1]
  BY <1>1, <1>3, HeadTailProperties
<1>5. /\ Len(responses') = Len(responses) + 1
      /\ \A i \in 1..Len(responses) : responses'[i] = responses[i]
      /\ responses'[Len(responses) + 1] = Head(requests)
  BY <1>1, <1>3, AppendProperties
<1>6. Len(requests) \in Nat /\ Len(responses) \in Nat /\ Len(responses) + Len(requests) = Len(pipeline)
  BY <1>2, WireFacts DEF Sent
<1>7. Len(responses') + Len(requests') = Len(pipeline')
  BY <1>1, <1>4, <1>5, <1>6
<1>8. \A i \in 1..Len(responses') : responses'[i] = pipeline[i].write
  <2> TAKE i \in 1..Len(responses')
  <2>1. i \in 1..Len(responses) \/ i = Len(responses) + 1
    BY <1>5, <1>6
  <2> QED
    BY <1>2, <1>5, <2>1 DEF Sent
<1>9. \A i \in 1..Len(requests') : requests'[i] = pipeline[Len(responses') + i].write
  <2> TAKE i \in 1..Len(requests')
  <2>1. i + 1 \in 1..Len(requests) /\ Len(responses) + (i + 1) = Len(responses') + i
    BY <1>4, <1>5, <1>6
  <2>2. requests[i + 1] = pipeline[Len(responses) + (i + 1)].write
    BY <1>2, <2>1 DEF Sent
  <2> QED
    BY <1>4, <2>1, <2>2
<1>10. Sent'
  BY <1>1, <1>7, <1>8, <1>9 DEF Sent
<1> QED
  BY <1>1, <1>2, <1>10 DEF Wire

\* The answer and the write that it settles leave together, and what enters
\* the pipeline is sent.
LEMMA ResultWire ==
  ASSUME TypeOK, StoreInv, Filled, Wire, HearResult
  PROVE  Wire'
<1> DEFINE added == SubSeq(pipeline', Len(pipeline), Len(pipeline'))
           n == Len(pipeline)
<1>1. /\ responses # <<>> /\ Head(responses) # Hello /\ responses' = Tail(responses)
      /\ Settle(Head(pipeline), "ok") /\ UNCHANGED <<user, nextId, calls, log>>
      /\ pipeline' = Fill(Tail(pipeline), queue'[user])
      /\ requests' = requests \o WritesOf(added)
      /\ UNCHANGED <<stream, handshake, refusing>>
  BY DEF HearResult
<1>2. handshake /\ stream = "open" /\ Sent /\ pipeline # <<>>
  BY <1>1, Answering
<1>3. /\ Filled' /\ Len(pipeline') \in Nat /\ Len(pipeline') >= n - 1
      /\ \A i \in 1..(n - 1) : pipeline'[i] = pipeline[i + 1]
  BY <1>1, <1>2, SettleFills
<1>4. pipeline' \in Seq(Batch)
  BY <1>3 DEF Filled, Fills
<1>5. /\ requests \in Seq(Writes \cup {Hello}) /\ responses \in Seq(Writes \cup {Hello})
      /\ n \in Nat /\ n # 0 /\ Len(requests) \in Nat /\ Len(responses) \in Nat
      /\ Len(responses) # 0 /\ Len(responses) + Len(requests) = n
  <2>1. requests \in Seq(Writes \cup {Hello}) /\ responses \in Seq(Writes \cup {Hello})
    BY DEF TypeOK
  <2>2. n \in Nat /\ n # 0
    BY <1>2, WireFacts, PipelineSizes
  <2>3. Len(responses) + Len(requests) = n
    BY <1>2 DEF Sent
  <2> QED
    BY <1>1, <2>1, <2>2, <2>3, WireFacts
<1>6. /\ added \in Seq(Batch) /\ Len(added) = Len(pipeline') - n + 1
      /\ \A i \in 1..Len(added) : added[i] = pipeline'[n + i - 1]
  <2>1. \A i \in n..Len(pipeline') : pipeline'[i] \in Batch
    BY <1>3, <1>4, <1>5, ElementOfSeq
  <2>2. /\ added \in Seq(Batch)
        /\ Len(added) = IF n <= Len(pipeline') THEN Len(pipeline') - n + 1 ELSE 0
        /\ \A i \in 1..(Len(pipeline') - n + 1) : added[i] = pipeline'[n + i - 1]
    BY <1>3, <1>5, <2>1, SubSeqProperties
  <2>3. Len(added) = Len(pipeline') - n + 1
    BY <1>3, <1>5, <2>2
  <2> QED
    BY <2>2, <2>3
<1> HIDE DEF added
<1>7. /\ WritesOf(added) \in Seq(Writes \cup {Hello}) /\ Len(WritesOf(added)) = Len(added)
      /\ \A i \in 1..Len(added) : WritesOf(added)[i] = added[i].write
  BY <1>6, WritesTyped
<1>8. /\ Len(requests') = Len(requests) + Len(added)
      /\ \A i \in 1..(Len(requests) + Len(added)) :
           requests'[i] = IF i <= Len(requests) THEN requests[i] ELSE WritesOf(added)[i - Len(requests)]
  <2> DEFINE t == WritesOf(added)
  <2>1. t \in Seq(Writes \cup {Hello}) /\ Len(t) = Len(added) /\ requests' = requests \o t
    BY <1>1, <1>7
  <2> HIDE DEF t
  <2>2. /\ Len(requests \o t) = Len(requests) + Len(t)
        /\ \A i \in 1..(Len(requests) + Len(t)) :
             (requests \o t)[i] = IF i <= Len(requests) THEN requests[i] ELSE t[i - Len(requests)]
    <3>1. requests \in Seq(Writes \cup {Hello}) /\ t \in Seq(Writes \cup {Hello})
      BY <1>5, <2>1
    <3> QED
      BY <3>1, ConcatProperties
  <2>3. /\ Len(requests') = Len(requests) + Len(added)
        /\ \A i \in 1..(Len(requests) + Len(added)) :
             requests'[i] = IF i <= Len(requests) THEN requests[i] ELSE t[i - Len(requests)]
    BY <2>1, <2>2
  <2> QED
    BY <2>3 DEF t
<1>9. Len(responses') = Len(responses) - 1 /\ \A i \in 1..Len(responses') : responses'[i] = responses[i + 1]
  BY <1>1, <1>5, HeadTailProperties
<1> HIDE DEF n
<1>10. /\ Len(responses') + Len(requests') = Len(pipeline')
       /\ n \in Nat /\ Len(responses') \in Nat /\ Len(responses') + Len(requests) + 1 = n
  <2>1. n \in Nat /\ Len(requests) \in Nat /\ Len(responses) \in Nat /\ Len(responses) + Len(requests) = n
    BY <1>5
  <2>2. Len(responses') = Len(responses) - 1 /\ Len(responses) # 0
    BY <1>5, <1>9
  <2>3. Len(pipeline') \in Nat /\ Len(added) = Len(pipeline') - n + 1
    BY <1>3, <1>6
  <2>4. Len(requests') = Len(requests) + Len(added)
    BY <1>8
  <2> QED
    BY <2>1, <2>2, <2>3, <2>4
<1>11. \A i \in 1..Len(responses') : responses'[i] = pipeline'[i].write
  <2> TAKE i \in 1..Len(responses')
  <2>1. i + 1 \in 1..Len(responses) /\ i \in 1..(n - 1)
    BY <1>5, <1>9
  <2>2. responses[i + 1] = pipeline[i + 1].write
    BY <1>2, <2>1 DEF Sent
  <2> QED
    BY <1>3, <1>9, <2>1, <2>2
<1>12. \A i \in 1..Len(requests') : requests'[i] = pipeline'[Len(responses') + i].write
  <2> TAKE i \in 1..Len(requests')
  <2>1. CASE i <= Len(requests)
    <3>1. i \in 1..Len(requests) /\ i \in 1..(Len(requests) + Len(added))
      BY <1>3, <1>5, <1>6, <1>8, <2>1
    <3>2. requests'[i] = requests[i]
      BY <1>8, <2>1, <3>1
    <3>3. requests[i] = pipeline[Len(responses) + i].write
      BY <1>2, <3>1 DEF Sent
    <3>4. Len(responses') + i \in 1..(n - 1) /\ (Len(responses') + i) + 1 = Len(responses) + i
      BY <1>5, <1>9, <3>1
    <3>5. pipeline'[Len(responses') + i] = pipeline[(Len(responses') + i) + 1]
      BY <1>3, <3>4
    <3> QED
      BY <3>2, <3>3, <3>4, <3>5
  <2>2. CASE ~(i <= Len(requests))
    <3> DEFINE j == i - Len(requests)
    <3>1. j \in 1..Len(added) /\ i \in 1..(Len(requests) + Len(added))
      BY <1>3, <1>5, <1>6, <1>8, <2>2
    <3>2. requests'[i] = WritesOf(added)[j]
      BY <1>8, <2>2, <3>1
    <3>3. n + j - 1 = Len(responses') + i
      <4>1. Len(requests) \in Nat
        BY <1>5
      <4>2. i \in Int
        BY <3>1, <4>1
      <4> QED
        BY <1>10, <4>1, <4>2
    <3> HIDE DEF j
    <3>4. requests'[i] = pipeline'[n + j - 1].write
      BY <1>6, <1>7, <3>1, <3>2
    <3> QED
      BY <3>3, <3>4
  <2> QED
    BY <2>1, <2>2
<1>13. Sent'
  BY <1>10, <1>11, <1>12 DEF Sent
<1>14. refusing => requests' # <<>> /\ Head(requests') \in Bad
  <2> SUFFICES ASSUME refusing PROVE requests' # <<>> /\ Head(requests') \in Bad
    OBVIOUS
  <2>1. requests # <<>> /\ Head(requests) \in Bad /\ Head(requests) = requests[1] /\ Len(requests) # 0
    BY WireFacts DEF Wire
  <2>2. 1 <= Len(requests) /\ 1 \in 1..(Len(requests) + Len(added)) /\ Len(added) \in Nat
    BY <1>3, <1>5, <1>6, <2>1
  <2>3. requests'[1] = requests[1]
    BY <1>8, <2>2
  <2>4. requests' \in Seq(Writes \cup {Hello})
    BY <1>1, <1>5, <1>7, ConcatProperties
  <2>5. requests' # <<>>
    <3>1. Len(requests') # 0
      BY <1>5, <1>8, <2>1, <2>2
    <3> QED
      BY <3>1
  <2> QED
    BY <2>1, <2>3, <2>4, <2>5
<1> QED
  BY <1>1, <1>2, <1>13, <1>14 DEF Wire

LEMMA WireNext ==
  ASSUME TypeOK, StoreInv, StreamInv, [Next]_vars
  PROVE  Wire'
<1>1. Filled /\ Wire
  BY DEF StreamInv
<1>2. ASSUME NEW w \in Writes, Issue(w) PROVE Wire'
  BY <1>1, <1>2, IssueWire
<1>3. CASE (\E u \in Users : ChangeCredentials(u)) \/ Ends
  <2>1. DropWire /\ handshake' = FALSE /\ stream' # "open"
    BY <1>3 DEF ChangeCredentials, Ends, Crash, CrashTold, CrashUntold, Start, Begin
  <2> QED
    BY <2>1, DroppedWire
<1>4. CASE IdleTimeout \/ StreamFails \/ StreamRefused
  <2>1. DropWire /\ handshake' = FALSE /\ stream' # "open"
    BY <1>4 DEF IdleTimeout, StreamFails, StreamRefused
  <2> QED
    BY <2>1, DroppedWire
<1>5. CASE BackoffElapsed
  <2>1. /\ stream # "open" /\ stream' # "open"
        /\ UNCHANGED <<handshake, requests, responses, refusing>>
    BY <1>5 DEF BackoffElapsed, wireVars
  <2> QED
    BY <1>1, <2>1 DEF Wire
<1>6. CASE StreamOpens
  BY <1>1, <1>6, OpensWire
<1>7. CASE HearHello
  BY <1>1, <1>7, HelloWire
<1>8. CASE HearResult
  BY <1>1, <1>8, ResultWire
<1>9. CASE ServeHello
  BY <1>1, <1>9, ServeHelloWire
<1>10. CASE ServeWrite
  BY <1>1, <1>10, ServeWriteWire
<1>11. CASE ServeRefusal
  <2>1. /\ requests # <<>> /\ Head(requests) \in Bad /\ Head(requests) # Hello
        /\ UNCHANGED <<stream, handshake, requests, responses, pipeline>>
    BY <1>11, PipelineAssumption DEF ServeRefusal, streamVars
  <2>2. handshake
    BY <1>1, <2>1, Sending
  <2> QED
    BY <1>1, <2>1, <2>2 DEF Wire, Sent
<1>12. CASE UNCHANGED vars
  BY <1>1, <1>12 DEF vars, wireVars, streamVars, Wire, Sent
<1> QED
  BY <1>2, <1>3, <1>4, <1>5, <1>6, <1>7, <1>8, <1>9, <1>10, <1>11, <1>12 DEF Next, NetworkStep, Ends

\* A stream goes idle only when no write waits, and is there while one does.
LEMMA NeededNext ==
  ASSUME TypeOK, StoreInv, StreamInv, [Next]_vars
  PROVE  StreamAsNeeded'
<1>1. Filled /\ Wire /\ StreamAsNeeded
  BY DEF StreamInv
<1>2. Filled' /\ TypeOK'
  BY FilledNext, TypeNext
<1>3. /\ pipeline = <<>> <=> queue[user] = <<>>
      /\ pipeline' = <<>> <=> queue'[user'] = <<>>
  <2>1. pipeline' = <<>> <=> queue'[user'] = <<>>
    <3>1. queue'[user'] \in Seq(Batch) /\ Fills(pipeline', queue'[user'])
      BY <1>2 DEF TypeOK, Filled
    <3> QED
      BY <3>1, FillsSizes
  <2> QED
    BY <1>1, <2>1, PipelineSizes
<1>4. ASSUME NEW w \in Writes, Issue(w) PROVE StreamAsNeeded'
  <2>1. CASE stream = "open" /\ handshake /\ pipeline' # pipeline
    <3>1. idle' = FALSE /\ stream' = "open"
      BY <1>4, <2>1 DEF Issue
    <3> QED
      BY <3>1 DEF StreamAsNeeded, Started
  <2>2. CASE ~(stream = "open" /\ handshake /\ pipeline' # pipeline)
    <3>1. /\ stream' = IF stream = "error" THEN "backoff"
                       ELSE IF stream = "initial" THEN "starting" ELSE stream
          /\ idle' = idle
      BY <1>4, <2>2 DEF Issue
    <3>2. Started'
      <4>1. stream \in {"initial", "starting", "open", "error", "backoff"}
        BY DEF TypeOK
      <4> QED
        BY <3>1, <4>1 DEF Started
    <3>3. ~idle
      <4> SUFFICES ASSUME idle PROVE FALSE
        OBVIOUS
      <4>1. stream = "open" /\ handshake /\ queue[user] = <<>>
        BY <1>1 DEF StreamAsNeeded
      <4>2. pipeline' = pipeline /\ pipeline = <<>> /\ Len(pipeline) = 0
        BY <1>3, <2>2, <4>1
      <4>3. MaxPending # 0
        BY PipelineAssumption
      <4>4. pipeline' # <<>>
        <5>1. pipeline' = Append(pipeline, [id |-> nextId, write |-> w])
          BY <1>1, <1>4, <4>2, <4>3, IssueFills
        <5>2. [id |-> nextId, write |-> w] \in Batch /\ pipeline \in Seq(Batch)
          BY <1>4, IssueQueue DEF TypeOK
        <5> QED
          BY <5>1, <5>2, AppendProperties
      <4> QED
        BY <4>2, <4>4
    <3> QED
      BY <3>1, <3>2, <3>3 DEF StreamAsNeeded
  <2> QED
    BY <2>1, <2>2
<1>5. ASSUME NEW u \in Users, ChangeCredentials(u) PROVE StreamAsNeeded'
  <2>1. /\ idle' = FALSE /\ queue' = queue /\ user' = u
        /\ stream' = IF queue[u] = <<>> THEN "initial" ELSE "starting"
    BY <1>5 DEF ChangeCredentials, Begin
  <2> QED
    BY <2>1 DEF StreamAsNeeded, Started
<1>6. CASE Ends
  <2>1. /\ idle' = FALSE /\ user' = user
        /\ stream' = IF queue'[user] = <<>> THEN "initial" ELSE "starting"
    BY <1>6 DEF Ends, Crash, CrashTold, CrashUntold, Start, Begin
  <2> QED
    BY <2>1 DEF StreamAsNeeded, Started
<1>7. CASE BackoffElapsed \/ StreamOpens
  <2>1. /\ stream' \in {"starting", "open"} /\ stream # "open" /\ UNCHANGED <<queue, user, idle>>
    BY <1>7 DEF BackoffElapsed, StreamOpens, storeVars
  <2> QED
    BY <1>1, <2>1 DEF StreamAsNeeded, Started
<1>8. CASE IdleTimeout
  <2>1. idle /\ idle' = FALSE /\ UNCHANGED <<queue, user>>
    BY <1>8 DEF IdleTimeout, storeVars
  <2> QED
    BY <1>1, <2>1 DEF StreamAsNeeded
<1>9. CASE StreamFails
  <2>1. /\ idle' = FALSE /\ UNCHANGED <<queue, user>>
        /\ stream' = IF pipeline = <<>> THEN "error" ELSE "backoff"
    BY <1>9 DEF StreamFails, storeVars
  <2> QED
    BY <1>3, <2>1 DEF StreamAsNeeded, Started
<1>10. CASE StreamRefused
  <2>1. /\ refusing /\ idle' = idle
        /\ stream' = IF pipeline' = <<>> THEN "initial" ELSE "starting"
    BY <1>10 DEF StreamRefused
  <2>2. queue[user] # <<>>
    BY <1>1, <2>1, Refusing
  <2>3. ~idle
    BY <1>1, <2>2 DEF StreamAsNeeded
  <2> QED
    BY <1>3, <2>1, <2>3 DEF StreamAsNeeded, Started
<1>11. CASE HearHello
  <2>1. /\ responses # <<>> /\ Head(responses) = Hello /\ handshake' = TRUE
        /\ UNCHANGED <<queue, user, stream, idle>>
    BY <1>11 DEF HearHello, storeVars
  <2>2. stream = "open"
    BY <1>1, <2>1, Shaking
  <2> QED
    BY <1>1, <2>1, <2>2 DEF StreamAsNeeded, Started
<1>12. CASE HearResult
  <2>1. /\ responses # <<>> /\ Head(responses) # Hello /\ UNCHANGED <<stream, handshake>>
        /\ idle' = (pipeline' = <<>>)
    BY <1>12 DEF HearResult
  <2>2. stream = "open" /\ handshake
    BY <1>1, <2>1, Answering
  <2>3. idle' => queue'[user'] = <<>>
    BY <1>3, <2>1
  <2> QED
    BY <2>1, <2>2, <2>3 DEF StreamAsNeeded, Started
<1>13. CASE ServeHello \/ ServeRefusal \/ ServeWrite \/ UNCHANGED vars
  <2>1. UNCHANGED <<queue, user, stream, handshake, idle>>
    BY <1>13 DEF ServeHello, ServeRefusal, ServeWrite, vars, storeVars, streamVars
  <2> QED
    BY <1>1, <2>1 DEF StreamAsNeeded, Started
<1> QED
  BY <1>4, <1>5, <1>6, <1>7, <1>8, <1>9, <1>10, <1>11, <1>12, <1>13 DEF Next, NetworkStep, Ends

-----------------------------------------------------------------------------
\* What the server applied, at each step

\* The log does not change but by a write that is appended.
LEMMA ServeLog ==
  ASSUME TypeOK, ServeWrite
  PROVE  /\ Len(log) \in Nat /\ Len(log') = Len(log) + 1
         /\ \A n \in 1..Len(log) : log'[n] = log[n] /\ n \in 1..Len(log')
         /\ log'[Len(log) + 1] = Head(requests) /\ Len(log) + 1 \in 1..Len(log')
         /\ \A n \in 1..Len(log') : n \in 1..Len(log) \/ n = Len(log) + 1
<1>1. log \in Seq(Writes) /\ log' = Append(log, Head(requests)) /\ Head(requests) \in Writes
  BY DEF TypeOK, ServeWrite
<1>2. /\ Len(log) \in Nat /\ Len(log') = Len(log) + 1
      /\ \A n \in 1..Len(log) : log'[n] = log[n]
      /\ log'[Len(log) + 1] = Head(requests)
  BY <1>1, AppendProperties, LenProperties
<1> QED
  BY <1>2

LEMMA AnsweredTail ==
  ASSUME TypeOK, Answered, responses # <<>>, responses' = Tail(responses), log' = log
  PROVE  Answered'
<1>1. responses \in Seq(Writes \cup {Hello}) /\ Len(responses) \in Nat
  BY WireFacts DEF TypeOK
<1>2. /\ Len(responses') = Len(responses) - 1
      /\ \A i \in 1..Len(responses') : responses'[i] = responses[i + 1]
  BY <1>1, HeadTailProperties
<1>3. \A i \in 1..Len(responses') : i + 1 \in 1..Len(responses)
  BY <1>1, <1>2
<1> QED
  BY <1>2, <1>3 DEF Answered

\* An answer is of a write that was applied, until it is read or lost.
LEMMA AnsweredNext ==
  ASSUME TypeOK, Answered, [Next]_vars
  PROVE  Answered'
<1>1. CASE (\E w \in Writes : Issue(w)) \/ BackoffElapsed \/ StreamOpens \/ ServeRefusal \/ UNCHANGED vars
  <2>1. UNCHANGED <<responses, log>>
    BY <1>1 DEF Issue, BackoffElapsed, StreamOpens, ServeRefusal, vars, wireVars
  <2> QED
    BY <2>1 DEF Answered
<1>2. CASE (\E u \in Users : ChangeCredentials(u)) \/ Ends \/ IdleTimeout \/ StreamFails \/ StreamRefused
  <2>1. responses' = <<>>
    BY <1>2 DEF ChangeCredentials, Ends, Crash, CrashTold, CrashUntold, Start, Begin, IdleTimeout,
                StreamFails, StreamRefused, DropWire
  <2>2. Len(responses') = 0
    BY <2>1
  <2> QED
    BY <2>2 DEF Answered
<1>3. CASE HearHello \/ HearResult
  <2>1. responses # <<>> /\ responses' = Tail(responses) /\ log' = log
    BY <1>3 DEF HearHello, HearResult
  <2> QED
    BY <2>1, AnsweredTail
<1>4. ASSUME NEW x \in Writes \cup {Hello}, responses' = Append(responses, x),
             \A n \in 1..Len(log) : log'[n] = log[n] /\ n \in 1..Len(log'),
             x # Hello => \E n \in 1..Len(log') : log'[n] = x
      PROVE  Answered'
  <2>1. responses \in Seq(Writes \cup {Hello}) /\ Len(responses) \in Nat
    BY WireFacts DEF TypeOK
  <2>2. /\ Len(responses') = Len(responses) + 1
        /\ \A i \in 1..Len(responses) : responses'[i] = responses[i]
        /\ responses'[Len(responses) + 1] = x
    BY <1>4, <2>1, AppendProperties
  <2> SUFFICES ASSUME NEW i \in 1..Len(responses'), responses'[i] # Hello
               PROVE  \E n \in 1..Len(log') : log'[n] = responses'[i]
    BY DEF Answered
  <2>3. CASE i \in 1..Len(responses)
    <3>1. PICK n \in 1..Len(log) : log[n] = responses[i]
      BY <2>2, <2>3 DEF Answered
    <3> QED
      BY <1>4, <2>2, <2>3, <3>1
  <2>4. CASE i = Len(responses) + 1
    BY <1>4, <2>2, <2>4
  <2> QED
    BY <2>1, <2>2, <2>3, <2>4
<1>5. CASE ServeHello
  <2>1. responses' = Append(responses, Hello) /\ log' = log
    BY <1>5 DEF ServeHello
  <2> QED
    BY <1>4, <2>1
<1>6. CASE ServeWrite
  <2>1. responses' = Append(responses, Head(requests)) /\ Head(requests) \in Writes
    BY <1>6 DEF ServeWrite
  <2>2. \E n \in 1..Len(log') : log'[n] = Head(requests)
    BY <1>6, ServeLog
  <2>3. \A n \in 1..Len(log) : log'[n] = log[n] /\ n \in 1..Len(log')
    BY <1>6, ServeLog
  <2> QED
    BY <1>4, <2>1, <2>2, <2>3
<1> QED
  BY <1>1, <1>2, <1>3, <1>5, <1>6 DEF Next, NetworkStep, Ends

\* A batch that settles leaves the others in their order.
LEMMA SettleOrdered ==
  ASSUME TypeOK, StoreInv, Ordered, queue[user] # <<>>, queue' = Without(Head(queue[user])),
         log' = log
  PROVE  Ordered'
<1>1. /\ \A u \in Users : Len(queue'[u]) = Len(queue[u]) - Gone(u)
      /\ \A u \in Users : \A i \in 1..Len(queue'[u]) : queue'[u][i] = queue[u][i + Gone(u)]
  BY SettleQueue DEF StoreInv
<1>2. \A u \in Users : Len(queue[u]) \in Nat /\ Gone(u) \in {0, 1}
  BY QueueFacts DEF Gone, TypeOK
<1>3. \A u \in Users : \A i \in 1..Len(queue'[u]) : i + Gone(u) \in 1..Len(queue[u])
  BY <1>1, <1>2
<1> SUFFICES ASSUME NEW u \in Users, NEW i \in 1..Len(queue'[u]), NEW j \in 1..Len(queue'[u]),
                    NEW n \in 1..Len(log), j < i, log[n] = queue'[u][i].write
             PROVE  \/ queue'[u][j].write \in Bad
                    \/ \E m \in 1..(n - 1) : log[m] = queue'[u][j].write
  BY DEF Ordered
<1>4. i + Gone(u) \in 1..Len(queue[u]) /\ j + Gone(u) \in 1..Len(queue[u])
  BY <1>3
<1>5. j + Gone(u) < i + Gone(u)
  BY <1>2
<1>6. queue'[u][i] = queue[u][i + Gone(u)] /\ queue'[u][j] = queue[u][j + Gone(u)]
  BY <1>1
<1>7. log[n] = queue[u][i + Gone(u)].write
  BY <1>6
<1>8. \/ queue[u][j + Gone(u)].write \in Bad
      \/ \E m \in 1..(n - 1) : log[m] = queue[u][j + Gone(u)].write
  BY <1>4, <1>5, <1>7 DEF Ordered
<1> QED
  BY <1>6, <1>8

\* A new write is after all that the server applied.
LEMMA IssueOrdered ==
  ASSUME TypeOK, StoreInv, Ordered, NEW w \in Writes, Issue(w)
  PROVE  Ordered'
<1>1. /\ \A u \in Users : Len(queue'[u]) = Len(queue[u]) + Added(u)
      /\ \A u \in Users : \A i \in 1..Len(queue[u]) : queue'[u][i] = queue[u][i]
      /\ queue'[user][Len(queue[user]) + 1] = [id |-> nextId, write |-> w]
  BY IssueQueue
<1>2. \A u \in Users : Len(queue[u]) \in Nat
  BY QueueFacts DEF TypeOK
<1>3. log' = log /\ w = calls + 1 /\ calls \in Nat
  BY CallsInNat DEF Issue
<1>4. \A n \in 1..Len(log) : log[n] # w
  <2>1. \A n \in 1..Len(log) : log[n] <= calls
    BY DEF StoreInv, Called
  <2>2. \A x : x <= calls /\ x = w => FALSE
    BY <1>3
  <2> QED
    BY <2>1, <2>2
<1> SUFFICES ASSUME NEW u \in Users, NEW i \in 1..Len(queue'[u]), NEW j \in 1..Len(queue'[u]),
                    NEW n \in 1..Len(log'), j < i, log'[n] = queue'[u][i].write
             PROVE  \/ queue'[u][j].write \in Bad
                    \/ \E m \in 1..(n - 1) : log'[m] = queue'[u][j].write
  BY DEF Ordered
<1>8. n \in 1..Len(log) /\ log[n] = queue'[u][i].write
  BY <1>3
<1>5. i \in 1..Len(queue[u]) \/ (u = user /\ i = Len(queue[u]) + 1)
  <2>1. Len(queue[u]) \in Nat /\ Len(queue'[u]) = Len(queue[u]) + Added(u)
    BY <1>1, <1>2
  <2>2. CASE u = user
    <3>1. Added(u) = 1
      BY <2>2 DEF Added
    <3> QED
      BY <2>1, <2>2, <3>1
  <2>3. CASE u # user
    <3>1. Added(u) = 0
      BY <2>3 DEF Added
    <3> QED
      BY <2>1, <3>1
  <2> QED
    BY <2>2, <2>3
<1>6. CASE u = user /\ i = Len(queue[u]) + 1
  <2>1. queue'[u][i].write = w
    BY <1>1, <1>6
  <2> QED
    BY <1>4, <1>8, <2>1
<1>7. CASE i \in 1..Len(queue[u])
  <2>1. j \in 1..Len(queue[u])
    BY <1>2, <1>7
  <2>2. queue'[u][i] = queue[u][i] /\ queue'[u][j] = queue[u][j]
    BY <1>1, <1>7, <2>1
  <2>3. log[n] = queue[u][i].write
    BY <1>8, <2>2
  <2>4. queue[u][j].write \in Bad \/ \E m \in 1..(n - 1) : log[m] = queue[u][j].write
    BY <1>7, <1>8, <2>1, <2>3 DEF Ordered
  <2> QED
    BY <1>3, <2>2, <2>4
<1> QED
  BY <1>5, <1>6, <1>7

\* The server applies a write after it has answered those sent before it.
LEMMA ServeOrdered ==
  ASSUME TypeOK, StoreInv, Filled, Wire, Answered, Ordered, ServeWrite
  PROVE  Ordered'
<1>1. /\ requests # <<>> /\ Head(requests) \in Writes /\ Head(requests) # Hello /\ queue' = queue
  BY PipelineAssumption DEF ServeWrite, storeVars
<1>2. /\ Sent /\ Len(responses) + 1 \in 1..Len(queue[user])
      /\ Head(requests) = queue[user][Len(responses) + 1].write
      /\ Len(responses) + 1 \in 1..Len(pipeline)
  BY <1>1, Sending
<1>3. /\ Len(log) \in Nat /\ Len(log') = Len(log) + 1
      /\ \A n \in 1..Len(log) : log'[n] = log[n] /\ n \in 1..Len(log')
      /\ log'[Len(log) + 1] = Head(requests)
      /\ \A n \in 1..Len(log') : n \in 1..Len(log) \/ n = Len(log) + 1
  BY ServeLog
<1>4. user \in Users /\ Len(responses) \in Nat
  BY WireFacts DEF TypeOK
<1> SUFFICES ASSUME NEW u \in Users, NEW i \in 1..Len(queue[u]), NEW j \in 1..Len(queue[u]),
                    NEW n \in 1..Len(log'), j < i, log'[n] = queue[u][i].write
             PROVE  \/ queue[u][j].write \in Bad
                    \/ \E m \in 1..(n - 1) : log'[m] = queue[u][j].write
  BY <1>1 DEF Ordered
<1>5. CASE n \in 1..Len(log)
  <2>1. log[n] = queue[u][i].write
    BY <1>3, <1>5
  <2>2. queue[u][j].write \in Bad \/ \E m \in 1..(n - 1) : log[m] = queue[u][j].write
    BY <1>5, <2>1 DEF Ordered
  <2>3. \A m \in 1..(n - 1) : log'[m] = log[m]
    <3>1. \A m \in 1..(n - 1) : m \in 1..Len(log)
      BY <1>3, <1>5
    <3> QED
      BY <1>3, <3>1
  <2> QED
    BY <2>2, <2>3
<1>6. CASE n = Len(log) + 1
  <2>1. queue[u][i].write = queue[user][Len(responses) + 1].write
    BY <1>2, <1>3, <1>6
  <2>2. u = user /\ i = Len(responses) + 1
    BY <1>2, <1>4, <2>1 DEF StoreInv, Distinct
  <2>3. j \in 1..Len(responses) /\ j \in 1..Len(pipeline)
    <3>1. j \in 1..Len(responses)
      BY <1>4, <2>2
    <3>2. Len(pipeline) \in Nat
      BY WireFacts
    <3> QED
      BY <1>2, <1>4, <3>1, <3>2
  <2>4. responses[j] = queue[user][j].write
    <3>1. responses[j] = pipeline[j].write
      BY <1>2, <2>3 DEF Sent
    <3> QED
      BY <2>3, <3>1, PipelineSizes
  <2>5. responses[j] # Hello
    BY <2>3, <2>4, WireFacts, PipelineSizes, PipelineAssumption
  <2>6. PICK m \in 1..Len(log) : log[m] = responses[j]
    BY <2>3, <2>5 DEF Answered
  <2>7. m \in 1..(n - 1) /\ log'[m] = log[m]
    BY <1>3, <1>6
  <2> QED
    BY <2>2, <2>4, <2>6, <2>7
<1> QED
  BY <1>3, <1>5, <1>6

\* A write that is sent again is sent after those before it.
LEMMA OrderedNext ==
  ASSUME TypeOK, StoreInv, StreamInv, Answered, Ordered, [Next]_vars
  PROVE  Ordered'
<1>1. Filled /\ Wire
  BY DEF StreamInv
<1>2. ASSUME NEW w \in Writes, Issue(w) PROVE Ordered'
  BY <1>2, IssueOrdered
<1>3. CASE StreamRefused
  <2>1. Settle(Head(pipeline), "refused") /\ pipeline # <<>> /\ log' = log
    BY <1>3 DEF StreamRefused
  <2>2. Head(pipeline) = Head(queue[user]) /\ queue[user] # <<>>
    BY <1>1, <2>1, PipelineSizes
  <2>3. queue' = Without(Head(queue[user]))
    BY <2>1, <2>2 DEF Settle
  <2> QED
    BY <2>1, <2>2, <2>3, SettleOrdered
<1>4. CASE HearResult
  <2>1. Settle(Head(pipeline), "ok") /\ responses # <<>> /\ Head(responses) # Hello /\ log' = log
    BY <1>4 DEF HearResult
  <2>2. Head(pipeline) = Head(queue[user]) /\ queue[user] # <<>>
    BY <1>1, <2>1, Answering
  <2>3. queue' = Without(Head(queue[user]))
    BY <2>1, <2>2 DEF Settle
  <2> QED
    BY <2>1, <2>2, <2>3, SettleOrdered
<1>5. CASE ServeWrite
  BY <1>1, <1>5, ServeOrdered
<1>7. CASE Ends
  <2>1. /\ log' = log
        /\ queue' = queue \/ (queue[user] # <<>> /\ queue' = Without(Head(queue[user])))
    BY <1>1, <1>7, EndIs DEF Start
  <2>2. CASE queue' = queue
    BY <2>1, <2>2 DEF Ordered
  <2> QED
    BY <2>1, <2>2, SettleOrdered
<1>6. CASE (\E u \in Users : ChangeCredentials(u)) \/ BackoffElapsed \/ IdleTimeout \/ StreamFails
           \/ StreamOpens \/ HearHello \/ ServeHello \/ ServeRefusal \/ UNCHANGED vars
  <2>1. UNCHANGED <<queue, log>>
    BY <1>6 DEF ChangeCredentials, BackoffElapsed, IdleTimeout, StreamFails, StreamOpens,
                HearHello, ServeHello, ServeRefusal, vars, storeVars
  <2> QED
    BY <2>1 DEF Ordered
<1> QED
  BY <1>2, <1>3, <1>4, <1>5, <1>6, <1>7 DEF Next, NetworkStep, Ends

\* The callback of the batch that settles is that of its write.
LEMMA MineIsHead ==
  ASSUME TypeOK, StoreInv, queue[user] # <<>>,
         NEW c \in callbacks, c.user = user, c.id = Head(queue[user]).id
  PROVE  c.write = Head(queue[user]).write
<1>1. queue[user] \in Seq(Batch) /\ Increasing(queue[user]) /\ user \in Users
  BY DEF TypeOK, StoreInv, Ids
<1>2. PICK i \in 1..Len(queue[user]) : queue[user][i] = [id |-> c.id, write |-> c.write]
  BY DEF StoreInv, CallbackQueued
<1>3. 1 \in 1..Len(queue[user]) /\ Head(queue[user]) = queue[user][1]
  BY <1>1, QueueFacts
<1>4. queue[user][i].id = queue[user][1].id
  BY <1>2, <1>3
<1>5. queue[user][1].id \in Nat /\ queue[user][i].id \in Nat
  BY <1>1, <1>3, QueueFacts
<1>6. i = 1
  <2> SUFFICES ASSUME i # 1 PROVE FALSE
    OBVIOUS
  <2>1. 1 < i
    OBVIOUS
  <2>2. queue[user][1].id < queue[user][i].id
    BY <1>1, <1>3, <2>1 DEF Increasing
  <2> QED
    BY <1>4, <1>5, <2>2
<1> QED
  BY <1>2, <1>3, <1>6

\* The callback of a write in a queue is that of its batch.
LEMMA WaitingIsMine ==
  ASSUME TypeOK, StoreInv, queue[user] # <<>>, NEW c \in callbacks,
         c.write = Head(queue[user]).write
  PROVE  c.user = user /\ c.id = Head(queue[user]).id
<1>1. c.user \in Users /\ user \in Users /\ queue[user] \in Seq(Batch)
  BY DEF TypeOK
<1>2. PICK i \in 1..Len(queue[c.user]) : queue[c.user][i] = [id |-> c.id, write |-> c.write]
  BY DEF StoreInv, CallbackQueued
<1>3. 1 \in 1..Len(queue[user]) /\ Head(queue[user]) = queue[user][1]
  BY <1>1, QueueFacts
<1>4. queue[c.user][i].write = queue[user][1].write
  BY <1>2, <1>3
<1>5. c.user = user /\ i = 1
  BY <1>1, <1>3, <1>4 DEF StoreInv, Distinct
<1> QED
  BY <1>2, <1>3, <1>5

\* An answer is that of the first batch of the queue, which was applied.
LEMMA AnsweredHead ==
  ASSUME TypeOK, Filled, Wire, Answered, responses # <<>>, Head(responses) # Hello
  PROVE  /\ Head(pipeline) = Head(queue[user]) /\ queue[user] # <<>>
         /\ InLog(Head(queue[user]).write)
<1>1. /\ Head(pipeline) = Head(queue[user]) /\ queue[user] # <<>>
      /\ Head(responses) = Head(pipeline).write
  BY Answering
<1>2. 1 \in 1..Len(responses) /\ Head(responses) = responses[1]
  BY WireFacts
<1>3. \E n \in 1..Len(log) : log[n] = responses[1]
  BY <1>2 DEF Answered
<1> QED
  BY <1>1, <1>2, <1>3 DEF InLog

\* The batch that is taken for the refused one is, or was applied.
LEMMA RefusedHead ==
  ASSUME TypeOK, Filled, Wire, Answered, refusing, StreamIsRead
  PROVE  /\ Head(pipeline) = Head(queue[user]) /\ queue[user] # <<>>
         /\ Head(queue[user]).write \in Bad \/ InLog(Head(queue[user]).write)
<1>1. /\ requests # <<>> /\ Head(requests) \in Bad /\ Head(requests) # Hello
      /\ pipeline # <<>> /\ queue[user] # <<>> /\ Head(pipeline) = Head(queue[user])
  BY Refusing, PipelineAssumption
<1>2. CASE responses = <<>>
  <2>1. Len(responses) = 0
    BY <1>2
  <2>2. Head(requests) = pipeline[1].write
    BY <1>1, <2>1, Sending
  <2>3. Head(pipeline) = pipeline[1]
    BY <1>1, PipelineSizes
  <2> QED
    BY <1>1, <2>2, <2>3
<1>3. CASE responses # <<>>
  <2>1. Head(responses) # Hello
    BY <1>3, Shaking
  <2> QED
    BY <1>1, <1>3, <2>1, AnsweredHead
<1> QED
  BY <1>2, <1>3

\* A batch may leave its queue if the server refuses it or applied it.
LEMMA GoneKept ==
  ASSUME TypeOK, StoreInv, Kept, queue[user] # <<>>, queue' = Without(Head(queue[user])),
         UNCHANGED <<log, calls>>,
         Head(queue[user]).write \in Bad \/ InLog(Head(queue[user]).write)
  PROVE  Kept'
<1>1. /\ \A u \in Users : Len(queue'[u]) = Len(queue[u]) - Gone(u)
      /\ \A u \in Users : \A i \in 1..Len(queue'[u]) : queue'[u][i] = queue[u][i + Gone(u)]
  BY SettleQueue DEF StoreInv
<1>2. \A u \in Users : Len(queue[u]) \in Nat /\ queue[u] \in Seq(Batch)
  BY QueueFacts DEF TypeOK
<1>3. Head(queue[user]) = queue[user][1]
  <2>1. queue[user] \in Seq(Batch)
    BY <1>2 DEF TypeOK
  <2> QED
    BY <2>1
<1> SUFFICES ASSUME NEW w \in Writes \ Bad, w <= calls, ~InLog(w)
             PROVE  \E u \in Users : \E i \in 1..Len(queue'[u]) : queue'[u][i].write = w
  BY DEF Kept, Queued, InLog
<1>4. w # queue[user][1].write
  BY <1>3
<1>5. PICK u \in Users : \E i \in 1..Len(queue[u]) : queue[u][i].write = w
  BY DEF Kept, Queued
<1> PICK i \in 1..Len(queue[u]) : queue[u][i].write = w
  BY <1>5
<1>6. u = user => i # 1
  BY <1>4
<1>7. i - Gone(u) \in 1..Len(queue'[u]) /\ (i - Gone(u)) + Gone(u) = i
  <2>1. Len(queue'[u]) = Len(queue[u]) - Gone(u) /\ Len(queue[u]) \in Nat
    BY <1>1, <1>2
  <2>2. Gone(u) \in {0, 1} /\ (Gone(u) = 1 => i # 1)
    BY <1>6 DEF Gone
  <2> QED
    BY <2>1, <2>2, PlaceThen
<1>8. queue'[u][i - Gone(u)] = queue[u][i]
  BY <1>1, <1>7
<1> QED
  BY <1>7, <1>8

\* A new write is in a queue, and the others stay.
LEMMA IssueKept ==
  ASSUME TypeOK, Kept, NEW v \in Writes, Issue(v)
  PROVE  Kept'
<1>1. /\ \A u \in Users : Len(queue'[u]) = Len(queue[u]) + Added(u)
      /\ \A u \in Users : \A i \in 1..Len(queue[u]) : queue'[u][i] = queue[u][i]
      /\ queue'[user][Len(queue[user]) + 1] = [id |-> nextId, write |-> v]
  BY IssueQueue
<1>2. \A u \in Users : Len(queue[u]) \in Nat /\ Added(u) = IF u = user THEN 1 ELSE 0
  BY QueueFacts DEF TypeOK, Added
<1>3. log' = log /\ v = calls + 1 /\ calls' = v /\ calls \in Nat /\ user \in Users
  BY CallsInNat DEF Issue, TypeOK
<1> SUFFICES ASSUME NEW w \in Writes \ Bad, w <= calls'
             PROVE  \/ \E u \in Users : \E i \in 1..Len(queue'[u]) : queue'[u][i].write = w
                    \/ InLog(w)
  BY <1>3 DEF Kept, Queued, InLog
<1>4. w <= calls \/ w = v
  BY <1>3 DEF Writes
<1>5. CASE w = v
  <2>1. Len(queue[user]) + 1 \in 1..Len(queue'[user])
    BY <1>1, <1>2, <1>3
  <2>2. queue'[user][Len(queue[user]) + 1].write = w
    BY <1>1, <1>5
  <2> QED
    BY <1>3, <2>1, <2>2
<1>6. CASE w <= calls /\ ~InLog(w)
  <2>1. PICK u \in Users : \E i \in 1..Len(queue[u]) : queue[u][i].write = w
    BY <1>6 DEF Kept, Queued
  <2> PICK i \in 1..Len(queue[u]) : queue[u][i].write = w
    BY <2>1
  <2>2. i \in 1..Len(queue'[u]) /\ queue'[u][i] = queue[u][i]
    BY <1>1, <1>2
  <2> QED
    BY <2>2
<1> QED
  BY <1>4, <1>5, <1>6

\* A write leaves its queue when it was applied or is refused.
LEMMA KeptNext ==
  ASSUME TypeOK, StoreInv, StreamInv, Answered, Kept, [Next]_vars
  PROVE  Kept'
<1>1. Filled /\ Wire
  BY DEF StreamInv
<1>2. ASSUME NEW v \in Writes, Issue(v) PROVE Kept'
  BY <1>2, IssueKept
<1>3. CASE StreamRefused \/ CrashUntold
  <2>1. /\ refusing /\ StreamIsRead /\ queue' = Without(Head(pipeline))
        /\ UNCHANGED <<log, calls>>
    BY <1>3 DEF StreamRefused, CrashUntold, Settle, Start
  <2> QED
    BY <1>1, <2>1, RefusedHead, GoneKept
<1>4. CASE HearResult
  <2>1. /\ responses # <<>> /\ Head(responses) # Hello /\ queue' = Without(Head(pipeline))
        /\ UNCHANGED <<log, calls>>
    BY <1>4 DEF HearResult, Settle
  <2> QED
    BY <1>1, <2>1, AnsweredHead, GoneKept
<1>5. CASE ServeWrite
  <2>1. UNCHANGED <<queue, calls>>
    BY <1>5 DEF ServeWrite, storeVars
  <2>2. \A n \in 1..Len(log) : log'[n] = log[n] /\ n \in 1..Len(log')
    BY <1>5, ServeLog
  <2> QED
    BY <2>1, <2>2 DEF Kept, Queued, InLog
<1>6. CASE (\E u \in Users : ChangeCredentials(u)) \/ Crash \/ CrashTold
           \/ BackoffElapsed \/ IdleTimeout \/ StreamFails \/ StreamOpens \/ HearHello
           \/ ServeHello \/ ServeRefusal \/ UNCHANGED vars
  <2>1. UNCHANGED <<queue, log, calls>>
    BY <1>6 DEF ChangeCredentials, Crash, CrashTold, Start, BackoffElapsed, IdleTimeout, StreamFails,
                StreamOpens, HearHello, ServeHello, ServeRefusal, vars, storeVars
  <2> QED
    BY <2>1 DEF Kept, Queued, InLog
<1> QED
  BY <1>2, <1>3, <1>4, <1>5, <1>6 DEF Next, NetworkStep

\* What the callback of the first batch of the queue is told, it is not told
\* again, and no other callback is told anything.
LEMMA NotifiedHead ==
  ASSUME TypeOK, StoreInv, queue[user] # <<>>, NEW what
  PROVE  /\ \A c \in callbacks : c \in Mine(Head(queue[user])) <=> c.write = Head(queue[user]).write
         /\ Mine(Head(queue[user])) \subseteq callbacks
         /\ Notified(Head(queue[user]), what) =
              IF Head(queue[user]).write \in {c.write : c \in callbacks}
                THEN [told EXCEPT ![Head(queue[user]).write] = what]
                ELSE told
<1> DEFINE mine == Mine(Head(queue[user]))
           h == Head(queue[user]).write
           waiting == {c.write : c \in callbacks}
<1>1. told \in [Writes -> {"", "ok", "refused"}]
  BY DEF TypeOK
<1>2. \A c \in callbacks : c \in mine <=> c.write = h
  BY MineIsHead, WaitingIsMine DEF Mine
<1>3. mine \subseteq callbacks
  BY DEF Mine
<1>4. Notified(Head(queue[user]), what) =
        [w \in Writes |-> IF \E c \in mine : c.write = w THEN what ELSE told[w]]
  BY DEF Notified
<1> HIDE DEF mine, h
<1>5. \A w \in Writes : (\E c \in mine : c.write = w) <=> (w = h /\ h \in waiting)
  BY <1>2, <1>3
<1> HIDE DEF waiting
<1>6. Notified(Head(queue[user]), what) =
        [w \in Writes |-> IF w = h /\ h \in waiting THEN what ELSE told[w]]
  BY <1>4, <1>5
<1>7. Notified(Head(queue[user]), what) = IF h \in waiting THEN [told EXCEPT ![h] = what] ELSE told
  BY <1>1, <1>6
<1> QED
  BY <1>2, <1>3, <1>7 DEF mine, h, waiting

\* What is told keeps Heard, when the callback is there no more.
LEMMA NotifiedHeard ==
  ASSUME TypeOK, StoreInv, Heard, queue[user] # <<>>, NEW what,
         told' = Notified(Head(queue[user]), what),
         callbacks' \in {callbacks \ Mine(Head(queue[user])), {}},
         UNCHANGED <<log, calls>>,
         what = "ok" => InLog(Head(queue[user]).write)
  PROVE  Heard'
<1> DEFINE h == Head(queue[user]).write
           waiting == {c.write : c \in callbacks}
<1>1. told' = IF h \in waiting THEN [told EXCEPT ![h] = what] ELSE told
  BY NotifiedHead
<1>2. \A c \in callbacks' : c \in callbacks /\ c.write # h
  BY NotifiedHead
<1>3. h <= calls
  <2>1. user \in Users /\ queue[user] \in Seq(Batch)
    BY DEF TypeOK
  <2>2. 1 \in 1..Len(queue[user]) /\ Head(queue[user]) = queue[user][1]
    BY <2>1, QueueFacts
  <2> QED
    BY <2>1, <2>2 DEF StoreInv, Called
<1>4. what = "ok" => \E n \in 1..Len(log) : log[n] = h
  BY DEF InLog
<1>5. told \in [Writes -> {"", "ok", "refused"}]
  BY DEF TypeOK
<1> HIDE DEF h, waiting
<1>6. ASSUME NEW w \in Writes
      PROVE  /\ told'[w] # "" => w <= calls' /\ \A c \in callbacks' : c.write # w
             /\ told'[w] = "ok" => \E n \in 1..Len(log') : log'[n] = w
  <2>1. CASE w # h
    <3>1. told'[w] = told[w]
      BY <1>1, <1>5, <2>1
    <3> QED
      BY <1>2, <3>1 DEF Heard
  <2>2. CASE w = h
    <3>1. \A c \in callbacks' : c.write # w
      BY <1>2, <2>2
    <3>2. told'[w] = what \/ told'[w] = told[w]
      BY <1>1, <1>5, <2>2
    <3>3. told'[w] = "ok" => \E n \in 1..Len(log') : log'[n] = w
      BY <1>4, <2>2, <3>2 DEF Heard
    <3> QED
      BY <1>3, <2>2, <3>1, <3>3
  <2> QED
    BY <2>1, <2>2
<1> QED
  BY <1>6 DEF Heard

\* What was told has no callback left to be told again.
LEMMA NotifiedOnce ==
  ASSUME TypeOK, Heard, NEW batch, NEW what, told' = Notified(batch, what),
         NEW w \in Writes, told[w] # ""
  PROVE  told'[w] = told[w]
<1>1. \A c \in Mine(batch) : c.write # w
  BY DEF Heard, Mine
<1> QED
  BY <1>1 DEF Notified

\* Every step keeps Heard.
LEMMA HeardNext ==
  ASSUME TypeOK, StoreInv, StreamInv, Answered, Heard, [Next]_vars
  PROVE  Heard'
<1>1. Filled /\ Wire
  BY DEF StreamInv
<1>2. CASE StreamRefused
  <2>1. /\ refusing /\ StreamIsRead /\ told' = Notified(Head(pipeline), "refused")
        /\ callbacks' = callbacks \ Mine(Head(pipeline)) /\ UNCHANGED <<log, calls>>
    BY <1>2 DEF StreamRefused, Settle
  <2> QED
    BY <1>1, <2>1, RefusedHead, NotifiedHeard
<1>3. CASE HearResult \/ CrashTold
  <2>1. /\ responses # <<>> /\ Head(responses) # Hello
        /\ told' = Notified(Head(pipeline), "ok")
        /\ callbacks' \in {callbacks \ Mine(Head(pipeline)), {}} /\ UNCHANGED <<log, calls>>
    BY <1>3 DEF HearResult, Settle, CrashTold, Start
  <2> QED
    BY <1>1, <2>1, AnsweredHead, NotifiedHeard
<1>4. CASE ServeWrite
  <2>1. UNCHANGED <<told, callbacks, calls>>
    BY <1>4 DEF ServeWrite, storeVars
  <2>2. \A n \in 1..Len(log) : log'[n] = log[n] /\ n \in 1..Len(log')
    BY <1>4, ServeLog
  <2> QED
    BY <2>1, <2>2 DEF Heard
<1>5. ASSUME NEW v \in Writes, Issue(v) PROVE Heard'
  <2>1. /\ UNCHANGED <<told, log>> /\ v = calls + 1 /\ calls' = v /\ calls \in Nat
        /\ callbacks' = callbacks \cup {[user |-> user, id |-> nextId, write |-> v]}
    BY <1>5, CallsInNat DEF Issue
  <2>2. \A c \in callbacks' : c \in callbacks \/ c.write = v
    BY <2>1
  <2>3. \A w \in Writes : w <= calls => w <= calls' /\ w # v
    BY <2>1 DEF Writes
  <2> QED
    BY <2>1, <2>2, <2>3 DEF Heard
<1>6. CASE (\E u \in Users : ChangeCredentials(u)) \/ Crash \/ CrashUntold
           \/ BackoffElapsed \/ IdleTimeout \/ StreamFails \/ StreamOpens \/ HearHello
           \/ ServeHello \/ ServeRefusal \/ UNCHANGED vars
  <2>1. UNCHANGED <<told, log, calls>> /\ (callbacks' = callbacks \/ callbacks' = {})
    BY <1>6 DEF ChangeCredentials, Crash, CrashUntold, Start, BackoffElapsed, IdleTimeout, StreamFails,
                StreamOpens, HearHello, ServeHello, ServeRefusal, vars, storeVars
  <2> QED
    BY <2>1 DEF Heard
<1> QED
  BY <1>2, <1>3, <1>4, <1>5, <1>6 DEF Next, NetworkStep

-----------------------------------------------------------------------------
\* The invariant

\* The invariant holds at first.
LEMMA InitIInv == Init => IInv
<1> SUFFICES ASSUME Init PROVE IInv
  OBVIOUS
<1>1. \A u \in Users : queue[u] = <<>>
  BY DEF Init
<1>2. Len(<<>>) = 0 /\ <<>> \in Seq(Batch)
  BY EmptySeq
<1>3. \A u \in Users : Len(queue[u]) = 0
  BY <1>1, <1>2
<1>4. user \in Users /\ pipeline = <<>> /\ log = <<>> /\ callbacks = {} /\ responses = <<>>
  BY DEF Init
<1>5. Len(log) = 0 /\ Len(responses) = 0
  BY <1>4, <1>2
<1>6. TypeOK
  <2>1. StoreTyped
    BY <1>2 DEF Init, StoreTyped
  <2>2. StreamTyped
    BY <1>2 DEF Init, StreamTyped
  <2>3. WireTyped
    BY EmptyTyped DEF Init, WireTyped
  <2>4. RestTyped
    <3>1. <<>> \in Seq(Writes) /\ 0 \in 0..MaxWrites
      BY EmptySeq, PipelineAssumption
    <3> QED
      BY <3>1 DEF Init, RestTyped
  <2> QED
    BY <2>1, <2>2, <2>3, <2>4, TypeParts
<1>7. Ids
  BY <1>3 DEF Ids, Increasing
<1>8. Distinct
  BY <1>3 DEF Distinct
<1>9. Called
  BY <1>3, <1>5 DEF Called
<1>10. CallbackQueued
  BY <1>4 DEF CallbackQueued
<1>11. Filled
  <2>1. Len(pipeline) = IF Len(queue[user]) < MaxPending THEN Len(queue[user]) ELSE MaxPending
    BY <1>2, <1>3, <1>4, PipelineAssumption
  <2>2. Len(pipeline) = 0
    BY <1>2, <1>4
  <2> QED
    BY <1>2, <1>4, <2>1, <2>2 DEF Filled, Fills
<1>12. Wire
  BY DEF Init, Wire
<1>13. StreamAsNeeded
  BY <1>1, <1>4 DEF Init, StreamAsNeeded
<1>14. Answered
  BY <1>5 DEF Answered
<1>15. Ordered
  BY <1>3 DEF Ordered
<1>16. Kept
  <2>1. calls = 0
    BY DEF Init
  <2>2. \A w \in Writes : w \in Int /\ 1 <= w
    BY PipelineAssumption DEF Writes
  <2>3. \A w \in Writes : ~(w <= calls)
    BY <2>1, <2>2
  <2> QED
    BY <2>3 DEF Kept
<1>17. Heard
  BY DEF Init, Heard
<1> QED
  BY <1>6, <1>7, <1>8, <1>9, <1>10, <1>11, <1>12, <1>13, <1>14, <1>15, <1>16, <1>17
  DEF IInv, StoreInv, StreamInv, LogInv

\* No step breaks the invariant.
LEMMA NextIInv == IInv /\ [Next]_vars => IInv'
<1> SUFFICES ASSUME IInv, [Next]_vars PROVE IInv'
  OBVIOUS
<1>1. TypeOK /\ StoreInv /\ StreamInv /\ Answered /\ Ordered /\ Kept /\ Heard
  BY DEF IInv, LogInv
<1>2. TypeOK'
  BY <1>1, TypeNext
<1>3. StoreInv'
  BY <1>1, StoreNext
<1>4. StreamInv'
  BY <1>1, FilledNext, WireNext, NeededNext DEF StreamInv
<1>5. LogInv'
  BY <1>1, AnsweredNext, OrderedNext, KeptNext, HeardNext DEF LogInv
<1> QED
  BY <1>2, <1>3, <1>4, <1>5 DEF IInv

\* The invariant of the pipeline holds of every state: the queues and their
\* callbacks, the pipeline, the two directions of the stream and what the server
\* applied agree, whatever breaks or ends.
THEOREM Invariance == Spec => []IInv
<1> QED
  BY InitIInv, NextIInv, PTL DEF Spec

-----------------------------------------------------------------------------
\* Theorems

\* The variables keep their types.
THEOREM TypeCorrect == Spec => []TypeOK
<1>1. IInv => TypeOK
  BY DEF IInv
<1> QED
  BY <1>1, Invariance, PTL

\* The pipeline is the beginning of the queue of the user signed in, however
\* writes settle, users change and the process ends; ids increase.
THEOREM PipelineStaysPrefix == Spec => []PipelineIsPrefix
<1>1. ASSUME IInv PROVE PipelineIsPrefix
  <2>1. TypeOK /\ Ids /\ Filled
    BY <1>1 DEF IInv, StoreInv, StreamInv
  <2>2. /\ pipeline \in Seq(Batch) /\ queue[user] \in Seq(Batch)
        /\ \A u \in Users : DOMAIN queue[u] = 1..Len(queue[u])
    BY <2>1, QueueFacts DEF TypeOK
  <2> DEFINE n == Len(pipeline)
             q == queue[user]
  <2>3. /\ n \in Nat /\ Len(q) \in Nat /\ n <= Len(q) /\ n <= MaxPending
        /\ \A i \in 1..n : i \in 1..Len(q) /\ pipeline[i] = q[i]
    BY <2>1, PipelineSizes
  <2>4. SubSeq(pipeline, 1, n) = pipeline
    BY <2>2, SubSeqFull
  <2> HIDE DEF n, q
  <2>5. SubSeq(q, 1, n) = pipeline
    <3>1. \A i \in 1..n : q[i] \in Batch
      BY <2>2, <2>3, ElementOfSeq DEF q
    <3>2. /\ SubSeq(q, 1, n) \in Seq(Batch)
          /\ Len(SubSeq(q, 1, n)) = IF 1 <= n THEN n - 1 + 1 ELSE 0
          /\ \A i \in 1..(n - 1 + 1) : SubSeq(q, 1, n)[i] = q[1 + i - 1]
      BY <2>3, <3>1, SubSeqProperties
    <3>3. Len(SubSeq(q, 1, n)) = n
      BY <2>3, <3>2
    <3>4. \A i \in 1..n : SubSeq(q, 1, n)[i] = pipeline[i]
      <4> TAKE i \in 1..n
      <4>1. i \in 1..(n - 1 + 1) /\ 1 + i - 1 = i
        BY <2>3
      <4> QED
        BY <2>3, <3>2, <4>1
    <3>5. Len(pipeline) = n
      BY DEF n
    <3> QED
      BY <2>2, <3>2, <3>3, <3>4, <3>5, SeqEqual
  <2>6. IsPrefix(pipeline, queue[user])
    BY <2>3, <2>4, <2>5 DEF IsPrefix, n, q
  <2>7. Len(pipeline) <= MaxPending
    BY <2>3 DEF n
  <2> QED
    BY <2>1, <2>2, <2>6, <2>7 DEF PipelineIsPrefix, Ids, Increasing
<1> QED
  BY <1>1, Invariance, PTL

\* What was sent and is not answered is the pipeline, through every break,
\* refusal, refill and change of user.
THEOREM SentStaysPipeline == Spec => []SentIsPipeline
<1>1. ASSUME IInv PROVE SentIsPipeline
  <2>1. TypeOK /\ Wire
    BY <1>1 DEF IInv, StreamInv
  <2>2. /\ Len(requests) \in Nat /\ Len(responses) \in Nat
        /\ requests \in Seq(Writes \cup {Hello}) /\ responses \in Seq(Writes \cup {Hello})
    BY <2>1, WireFacts DEF TypeOK
  <2>3. CASE handshake
    <3> DEFINE s == responses \o requests
               t == WritesOf(pipeline)
               p == Len(responses)
    <3>1. Sent
      BY <2>1, <2>3 DEF Wire
    <3>2. /\ s \in Seq(Writes \cup {Hello}) /\ Len(s) = p + Len(requests)
          /\ \A i \in 1..(p + Len(requests)) :
               s[i] = IF i <= p THEN responses[i] ELSE requests[i - p]
      BY <2>2, ConcatProperties
    <3>3. /\ t \in Seq(Writes \cup {Hello}) /\ Len(t) = Len(pipeline)
          /\ \A i \in 1..Len(pipeline) : t[i] = pipeline[i].write
      BY <2>1, WireFacts, WritesTyped
    <3> HIDE DEF s, t
    <3>4. \A i \in 1..Len(s) : s[i] = t[i]
      <4> TAKE i \in 1..Len(s)
      <4>1. i \in 1..(p + Len(requests)) /\ i \in 1..Len(pipeline)
        BY <3>1, <3>2 DEF Sent
      <4>2. CASE i <= p
        <5>1. i \in 1..p
          BY <2>2, <4>1, <4>2
        <5> QED
          BY <3>1, <3>2, <3>3, <4>1, <4>2, <5>1 DEF Sent
      <4>3. CASE ~(i <= p)
        <5>1. i - p \in 1..Len(requests) /\ p + (i - p) = i
          BY <2>2, <4>1, <4>3
        <5>2. requests[i - p] = pipeline[p + (i - p)].write
          BY <3>1, <5>1 DEF Sent
        <5> QED
          BY <3>2, <3>3, <4>1, <4>3, <5>1, <5>2
      <4> QED
        BY <4>2, <4>3
    <3>5. Len(s) = Len(t)
      BY <3>1, <3>2, <3>3 DEF Sent
    <3>6. s = t
      BY <3>2, <3>3, <3>4, <3>5, SeqEqual
    <3> QED
      BY <2>3, <3>6 DEF SentIsPipeline, s, t
  <2>4. CASE ~handshake
    <3>1. \/ requests = <<>> /\ responses = <<>>
          \/ requests = <<Hello>> /\ responses = <<>>
          \/ requests = <<>> /\ responses = <<Hello>>
      BY <2>1, <2>4 DEF Wire
    <3>2. responses \o requests \in {<<>>, <<Hello>>}
      BY <2>2, <3>1, ConcatEmptySeq
    <3> QED
      BY <2>4, <3>2 DEF SentIsPipeline
  <2> QED
    BY <2>3, <2>4
<1> QED
  BY <1>1, Invariance, PTL

\* A stream that is closed as idle is not needed, and one that is needed is there.
THEOREM StreamStaysAsNeeded == Spec => []StreamAsNeeded
<1>1. IInv => StreamAsNeeded
  BY DEF IInv, StreamInv
<1> QED
  BY <1>1, Invariance, PTL

\* No write overtakes another of the same user, however often they are sent.
THEOREM OrderIsKept == Spec => []NoOvertaking
<1>1. ASSUME IInv PROVE NoOvertaking
  <2>1. /\ \A u \in Users : DOMAIN queue[u] = 1..Len(queue[u])
        /\ DOMAIN log = 1..Len(log)
    BY <1>1, QueueFacts, LenProperties DEF IInv, TypeOK
  <2>2. Ordered
    BY <1>1 DEF IInv, LogInv
  <2> QED
    BY <2>1, <2>2 DEF NoOvertaking, Ordered
<1> QED
  BY <1>1, Invariance, PTL

\* No write is dropped: one that was called and that the server does not refuse
\* is in a queue until it was applied, also when a later one ends the stream, the
\* process ends while a write settles, or a new process finds the write on disk.
THEOREM NoWriteIsDropped == Spec => []NoneDropped
<1>1. ASSUME IInv PROVE NoneDropped
  <2>1. DOMAIN log = 1..Len(log)
    BY <1>1, LenProperties DEF IInv, TypeOK
  <2>2. \A u \in Users : DOMAIN queue[u] = 1..Len(queue[u])
    BY <1>1, QueueFacts DEF IInv, TypeOK
  <2>3. Kept
    BY <1>1 DEF IInv, LogInv
  <2> QED
    BY <2>1, <2>2, <2>3 DEF NoneDropped, Kept, Queued, InLog
<1> QED
  BY <1>1, Invariance, PTL

-----------------------------------------------------------------------------
\* The pipeline implements WriteQueue

\* The variables of WriteQueue.
Queues == [u \in Users |-> WritesOf(queue[u])]
Applied == {log[i] : i \in DOMAIN log}
Waiting == {c.write : c \in callbacks}

\* The queues of WriteQueue, by places.
LEMMA QueuesAre ==
  ASSUME TypeOK, NEW u \in Users
  PROVE  /\ Queues[u] \in Seq(Writes \cup {Hello})
         /\ Len(Queues[u]) = Len(queue[u]) /\ DOMAIN Queues[u] = 1..Len(queue[u])
         /\ \A i \in 1..Len(queue[u]) : Queues[u][i] = queue[u][i].write
         /\ queue[u] # <<>> => Queues[u] # <<>> /\ Head(Queues[u]) = Head(queue[u]).write
<1>1. queue[u] \in Seq(Batch) /\ Queues[u] = WritesOf(queue[u])
  BY DEF TypeOK, Queues
<1>2. /\ Queues[u] \in Seq(Writes \cup {Hello}) /\ Len(Queues[u]) = Len(queue[u])
      /\ \A i \in 1..Len(queue[u]) : Queues[u][i] = queue[u][i].write
  BY <1>1, WritesTyped
<1>3. DOMAIN Queues[u] = 1..Len(queue[u])
  BY <1>2, LenProperties
<1>4. queue[u] # <<>> => Queues[u] # <<>> /\ Head(Queues[u]) = Head(queue[u]).write
  <2> SUFFICES ASSUME queue[u] # <<>> PROVE Queues[u] # <<>> /\ Head(Queues[u]) = Head(queue[u]).write
    OBVIOUS
  <2>1. Len(queue[u]) # 0 /\ Len(queue[u]) \in Nat
    BY <1>1, QueueFacts
  <2>2. Queues[u] # <<>>
    BY <1>2, <2>1, EmptySeq
  <2>3. Head(Queues[u]) = Queues[u][1] /\ Head(queue[u]) = queue[u][1]
    BY <1>1, <1>2, <2>2
  <2> QED
    BY <1>2, <2>1, <2>2, <2>3
<1> QED
  BY <1>2, <1>3, <1>4

LEMMA WritesOfTail ==
  ASSUME NEW q \in Seq(Batch), q # <<>>
  PROVE  WritesOf(Tail(q)) = Tail(WritesOf(q))
<1> DEFINE S == Writes \cup {Hello}
<1>1. /\ Tail(q) \in Seq(Batch) /\ Len(Tail(q)) = Len(q) - 1
      /\ \A i \in 1..Len(Tail(q)) : Tail(q)[i] = q[i + 1]
  BY HeadTailProperties
<1>2. /\ WritesOf(q) \in Seq(S) /\ Len(WritesOf(q)) = Len(q)
      /\ \A i \in 1..Len(q) : WritesOf(q)[i] = q[i].write
  BY WritesTyped
<1>3. /\ WritesOf(Tail(q)) \in Seq(S) /\ Len(WritesOf(Tail(q))) = Len(Tail(q))
      /\ \A i \in 1..Len(Tail(q)) : WritesOf(Tail(q))[i] = Tail(q)[i].write
  BY <1>1, WritesTyped
<1>4. Len(q) \in Nat /\ Len(q) # 0
  BY QueueFacts
<1> HIDE DEF S
<1>5. WritesOf(q) # <<>>
  BY <1>2, <1>4, EmptySeq
<1>6. /\ Tail(WritesOf(q)) \in Seq(S) /\ Len(Tail(WritesOf(q))) = Len(q) - 1
      /\ \A i \in 1..Len(Tail(WritesOf(q))) : Tail(WritesOf(q))[i] = WritesOf(q)[i + 1]
  BY <1>2, <1>5, HeadTailProperties
<1>7. \A i \in 1..Len(WritesOf(Tail(q))) : WritesOf(Tail(q))[i] = Tail(WritesOf(q))[i]
  <2> TAKE i \in 1..Len(WritesOf(Tail(q)))
  <2>1. i \in 1..Len(Tail(q)) /\ i \in 1..Len(Tail(WritesOf(q))) /\ i + 1 \in 1..Len(q)
    BY <1>1, <1>3, <1>4, <1>6
  <2> QED
    BY <1>1, <1>2, <1>3, <1>6, <2>1
<1> QED
  BY <1>1, <1>3, <1>6, <1>7, SeqEqual

LEMMA WritesOfAppend ==
  ASSUME NEW q \in Seq(Batch), NEW b \in Batch
  PROVE  WritesOf(Append(q, b)) = Append(WritesOf(q), b.write)
<1> DEFINE S == Writes \cup {Hello}
           a == Append(q, b)
<1>1. /\ a \in Seq(Batch) /\ Len(a) = Len(q) + 1 /\ a[Len(q) + 1] = b
      /\ \A i \in 1..Len(q) : a[i] = q[i]
  BY AppendProperties
<1>2. /\ WritesOf(q) \in Seq(S) /\ Len(WritesOf(q)) = Len(q)
      /\ \A i \in 1..Len(q) : WritesOf(q)[i] = q[i].write
  BY WritesTyped
<1>3. Len(q) \in Nat /\ b.write \in S
  BY QueueFacts DEF Batch
<1> HIDE DEF a
<1>4. /\ WritesOf(a) \in Seq(S) /\ Len(WritesOf(a)) = Len(a)
      /\ \A i \in 1..Len(a) : WritesOf(a)[i] = a[i].write
  BY <1>1, WritesTyped
<1> HIDE DEF S
<1> DEFINE c == Append(WritesOf(q), b.write)
<1>5. /\ c \in Seq(S) /\ Len(c) = Len(q) + 1 /\ c[Len(q) + 1] = b.write
      /\ \A i \in 1..Len(q) : c[i] = WritesOf(q)[i]
  BY <1>2, <1>3, AppendProperties
<1> HIDE DEF c
<1>6. \A i \in 1..Len(WritesOf(a)) : WritesOf(a)[i] = c[i]
  <2> TAKE i \in 1..Len(WritesOf(a))
  <2>1. i \in 1..Len(a) /\ (i \in 1..Len(q) \/ i = Len(q) + 1)
    BY <1>1, <1>3, <1>4
  <2> QED
    BY <1>1, <1>2, <1>4, <1>5, <2>1
<1>7. WritesOf(a) = c
  BY <1>1, <1>4, <1>5, <1>6, SeqEqual
<1> QED
  BY <1>7 DEF a, c

\* A call is a call of WriteQueue.
LEMMA IssuePromised ==
  ASSUME TypeOK, StoreInv, Heard, NEW w \in Writes, Issue(w)
  PROVE  Promise!Issue(w)
<1> DEFINE b == [id |-> nextId, write |-> w]
<1>1. /\ UNCHANGED <<user, told, log>> /\ w = calls + 1 /\ calls \in Nat
      /\ callbacks' = callbacks \cup {[user |-> user, id |-> nextId, write |-> w]}
  BY CallsInNat DEF Issue
<1>2. \A x : x <= calls /\ x = w => FALSE
  BY <1>1
<1>3. \A u \in Users : \A i \in 1..Len(queue[u]) : queue[u][i].write # w
  <2>1. \A u \in Users : \A i \in 1..Len(queue[u]) : queue[u][i].write <= calls
    BY DEF StoreInv, Called
  <2> QED
    BY <1>2, <2>1
<1>4. \A u \in Users : \A i \in DOMAIN Queues[u] : Queues[u][i] # w
  BY <1>3, QueuesAre
<1>5. w \notin Applied
  <2>1. DOMAIN log = 1..Len(log)
    BY LenProperties DEF TypeOK
  <2>2. \A n \in 1..Len(log) : log[n] <= calls
    BY DEF StoreInv, Called
  <2> QED
    BY <1>2, <2>1, <2>2 DEF Applied
<1>6. w \notin Waiting
  <2> SUFFICES ASSUME NEW c \in callbacks, c.write = w PROVE FALSE
    BY DEF Waiting
  <2>1. c.user \in Users
    BY DEF TypeOK
  <2>2. PICK i \in 1..Len(queue[c.user]) : queue[c.user][i] = [id |-> c.id, write |-> c.write]
    BY DEF StoreInv, CallbackQueued
  <2>3. queue[c.user][i].write = w
    BY <2>2
  <2> QED
    BY <1>3, <2>1, <2>3
<1>7. Queues' = [Queues EXCEPT ![user] = Append(Queues[user], w)]
  <2>1. /\ b \in Batch /\ b.write = w
        /\ queue' = [queue EXCEPT ![user] = Append(queue[user], b)]
    BY IssueQueue
  <2>2. user \in Users /\ queue \in [Users -> Seq(Batch)]
    BY DEF TypeOK
  <2> HIDE DEF b
  <2>3. WritesOf(Append(queue[user], b)) = Append(WritesOf(queue[user]), w)
    BY <2>1, <2>2, WritesOfAppend
  <2>4. \A u \in Users : WritesOf(queue'[u]) =
          IF u = user THEN Append(WritesOf(queue[user]), w) ELSE WritesOf(queue[u])
    BY <2>1, <2>2, <2>3
  <2>5. Queues' = [u \in Users |-> WritesOf(queue'[u])]
    BY DEF Queues
  <2>6. Queues = [u \in Users |-> WritesOf(queue[u])]
    BY DEF Queues
  <2> QED
    BY <2>2, <2>4, <2>5, <2>6
<1>8. Waiting' = Waiting \cup {w}
  <2>1. \A x : x \in Waiting' <=> \E c \in callbacks' : c.write = x
    BY DEF Waiting
  <2>2. \A x : x \in Waiting <=> \E c \in callbacks : c.write = x
    BY DEF Waiting
  <2> DEFINE n == [user |-> user, id |-> nextId, write |-> w]
  <2>3. n.write = w /\ callbacks' = callbacks \cup {n}
    BY <1>1
  <2> HIDE DEF n
  <2>4. \A c : c \in callbacks' <=> c \in callbacks \/ c = n
    BY <2>3
  <2>5. \A x : x \in Waiting' <=> x \in Waiting \/ x = w
    BY <2>1, <2>2, <2>3, <2>4
  <2> HIDE DEF Waiting
  <2> QED
    BY <2>5
<1>9. Applied' = Applied
  BY <1>1 DEF Applied
<1>10. told[w] = ""
  BY <1>2 DEF Heard
<1> QED
  BY <1>1, <1>4, <1>5, <1>6, <1>7, <1>8, <1>9, <1>10 DEF Promise!Issue, Queues, Applied, Waiting

\* Without its first batch, the queue is that of WriteQueue without its first write.
LEMMA QueuesTail ==
  ASSUME TypeOK, StoreInv, queue[user] # <<>>, queue' = Without(Head(queue[user]))
  PROVE  Queues' = [Queues EXCEPT ![user] = Tail(Queues[user])]
<1>1. user \in Users /\ queue \in [Users -> Seq(Batch)]
  BY DEF TypeOK
<1>2. queue' = [queue EXCEPT ![user] = Tail(queue[user])]
  BY SettleQueue DEF StoreInv
<1>3. WritesOf(Tail(queue[user])) = Tail(WritesOf(queue[user]))
  BY <1>1, WritesOfTail
<1>4. \A u \in Users : WritesOf(queue'[u]) =
        IF u = user THEN Tail(WritesOf(queue[user])) ELSE WritesOf(queue[u])
  BY <1>1, <1>2, <1>3
<1>5. Queues' = [u \in Users |-> WritesOf(queue'[u])]
  BY DEF Queues
<1>6. Queues = [u \in Users |-> WritesOf(queue[u])]
  BY DEF Queues
<1> QED
  BY <1>1, <1>4, <1>5, <1>6

\* A batch that leaves the queue is a write of WriteQueue that settles.
LEMMA SettlePromised ==
  ASSUME TypeOK, StoreInv, queue[user] # <<>>, NEW what, Settle(Head(queue[user]), what),
         UNCHANGED <<user, log>>,
         what = "ok" => Head(queue[user]).write \in Applied
  PROVE  Promise!Settle(what)
<1> DEFINE h == Head(queue[user]).write
           mine == Mine(Head(queue[user]))
<1>1. user \in Users
  BY DEF TypeOK
<1>2. Queues[user] # <<>> /\ Head(Queues[user]) = h
  BY <1>1, QueuesAre
<1>3. callbacks' = callbacks \ mine /\ \A c \in callbacks : c \in mine <=> c.write = h
  BY NotifiedHead DEF Settle
<1>4. Queues' = [Queues EXCEPT ![user] = Tail(Queues[user])]
  BY QueuesTail DEF Settle
<1>5. told' = IF h \in Waiting THEN [told EXCEPT ![h] = what] ELSE told
  BY NotifiedHead DEF Settle, Waiting
<1> HIDE DEF mine, h
<1>6. Waiting' = Waiting \ {h}
  <2>1. \A c \in callbacks' : c \in callbacks /\ c.write # h
    BY <1>3
  <2>2. \A c \in callbacks : c.write # h => c \in callbacks'
    BY <1>3
  <2>3. \A w : w \in Waiting' <=> \E c \in callbacks' : c.write = w
    BY DEF Waiting
  <2>4. \A w : w \in Waiting <=> \E c \in callbacks : c.write = w
    BY DEF Waiting
  <2>5. \A w : w \in Waiting' <=> w \in Waiting /\ w # h
    BY <2>1, <2>2, <2>3, <2>4
  <2> HIDE DEF Waiting
  <2> QED
    BY <2>5
<1>7. Applied' = Applied
  BY DEF Applied
<1>8. what = "ok" => Head(Queues[user]) \in Applied
  BY <1>2 DEF h
<1> QED
  BY <1>2, <1>4, <1>5, <1>6, <1>7, <1>8 DEF Promise!Settle, Queues, Applied, Waiting

\* An end of the process, wherever it comes in the handling of an answer or a
\* refusal, is one of WriteQueue.
LEMMA EndPromised ==
  ASSUME TypeOK, StoreInv, Filled, Wire, Answered, Ends
  PROVE  Promise!Restart \/ Promise!RestartTold \/ Promise!RestartUntold
<1>1. /\ callbacks' = {} /\ UNCHANGED <<user, log>>
  BY EndIs DEF Start
<1>2. Waiting' = {} /\ Applied' = Applied
  BY <1>1 DEF Waiting, Applied
<1>3. user \in Users
  BY DEF TypeOK
<1>4. UNCHANGED <<queue, told>> => Promise!Restart
  <2> SUFFICES ASSUME UNCHANGED <<queue, told>> PROVE Promise!Restart
    OBVIOUS
  <2>1. Queues' = Queues
    BY DEF Queues
  <2> QED
    BY <1>1, <1>2, <2>1 DEF Promise!Restart, Queues, Waiting, Applied
<1>5. CASE Crash
  BY <1>4, <1>5 DEF Crash
<1>6. CASE CrashTold
  <2>1. /\ responses # <<>> /\ Head(responses) # Hello /\ queue' = queue
        /\ told' = Notified(Head(pipeline), "ok")
    BY <1>6 DEF CrashTold
  <2>2. /\ Head(pipeline) = Head(queue[user]) /\ queue[user] # <<>>
        /\ InLog(Head(queue[user]).write)
    BY <2>1, AnsweredHead
  <2> DEFINE h == Head(queue[user]).write
  <2>3. told' = IF h \in Waiting THEN [told EXCEPT ![h] = "ok"] ELSE told
    BY <2>1, <2>2, NotifiedHead DEF Waiting
  <2>4. h \in Applied
    BY <2>2, LenProperties DEF InLog, Applied, TypeOK
  <2>5. Queues[user] # <<>> /\ Head(Queues[user]) = h /\ Queues' = Queues
    BY <1>3, <2>1, <2>2, QueuesAre DEF Queues
  <2> HIDE DEF h
  <2>6. CASE h \in Waiting
    BY <1>1, <1>2, <2>3, <2>4, <2>5, <2>6 DEF Promise!RestartTold, Queues, Waiting, Applied
  <2>7. CASE h \notin Waiting
    BY <1>4, <2>1, <2>3, <2>7
  <2> QED
    BY <2>6, <2>7
<1>7. CASE CrashUntold
  <2>1. refusing /\ StreamIsRead /\ queue' = Without(Head(pipeline)) /\ told' = told
    BY <1>7 DEF CrashUntold
  <2>2. Head(pipeline) = Head(queue[user]) /\ queue[user] # <<>>
    BY <2>1, RefusedHead
  <2>3. Queues' = [Queues EXCEPT ![user] = Tail(Queues[user])]
    BY <2>1, <2>2, QueuesTail
  <2>4. Queues[user] # <<>>
    BY <1>3, <2>2, QueuesAre
  <2> QED
    BY <1>1, <1>2, <2>1, <2>3, <2>4 DEF Promise!RestartUntold, Queues, Waiting, Applied
<1> QED
  BY <1>5, <1>6, <1>7 DEF Ends

\* What the server applies is a write of the queue of the user signed in.
LEMMA ServePromised ==
  ASSUME TypeOK, Filled, Wire, ServeWrite, NEW w, w = Head(requests)
  PROVE  Promise!Apply(w)
<1>1. /\ requests # <<>> /\ w \in Writes /\ w # Hello
      /\ UNCHANGED <<user, queue, callbacks, told>>
  BY PipelineAssumption DEF ServeWrite, storeVars
<1>2. Len(responses) + 1 \in 1..Len(queue[user]) /\ w = queue[user][Len(responses) + 1].write
  BY <1>1, Sending
<1>3. user \in Users
  BY DEF TypeOK
<1>4. \E i \in DOMAIN Queues[user] : Queues[user][i] = w
  BY <1>2, <1>3, QueuesAre
<1>5. Applied' = Applied \cup {w}
  <2>1. log \in Seq(Writes) /\ log' \in Seq(Writes)
    BY AppendProperties DEF TypeOK, ServeWrite
  <2>2. DOMAIN log = 1..Len(log) /\ DOMAIN log' = 1..Len(log')
    BY <2>1, LenProperties
  <2>3. \A x : x \in Applied <=> \E n \in 1..Len(log) : log[n] = x
    BY <2>2 DEF Applied
  <2>4. \A x : x \in Applied' <=> \E n \in 1..Len(log') : log'[n] = x
    BY <2>2 DEF Applied
  <2>5. /\ \A n \in 1..Len(log) : log'[n] = log[n] /\ n \in 1..Len(log')
        /\ log'[Len(log) + 1] = w /\ Len(log) + 1 \in 1..Len(log')
        /\ \A n \in 1..Len(log') : n \in 1..Len(log) \/ n = Len(log) + 1
    BY ServeLog
  <2>6. \A x : x \in Applied' <=> x \in Applied \/ x = w
    BY <2>3, <2>4, <2>5
  <2> HIDE DEF Applied
  <2> QED
    BY <2>6
<1>6. Queues' = Queues /\ Waiting' = Waiting
  BY <1>1 DEF Queues, Waiting
<1> QED
  BY <1>1, <1>4, <1>5, <1>6 DEF Promise!Apply, Queues, Applied, Waiting

\* Every step is one of WriteQueue, or changes nothing of what it shows.
LEMMA PromisedNext ==
  ASSUME IInv, [Next]_vars
  PROVE  [Promise!Next]_(Promise!vars)
<1>1. TypeOK /\ StoreInv /\ Filled /\ Wire /\ Answered /\ Heard
  BY DEF IInv, StreamInv, LogInv
<1>2. ASSUME NEW w \in Writes, Issue(w) PROVE Promise!Next
  BY <1>1, <1>2, IssuePromised DEF Promise!Next
<1>3. ASSUME NEW u \in Users, ChangeCredentials(u) PROVE Promise!Next
  <2>1. user' = u /\ UNCHANGED <<queue, callbacks, told, log>>
    BY <1>3 DEF ChangeCredentials
  <2>2. Queues' = Queues /\ Waiting' = Waiting /\ Applied' = Applied
    BY <2>1 DEF Queues, Waiting, Applied
  <2>3. Promise!ChangeUser(u)
    BY <2>1, <2>2 DEF Promise!ChangeUser, Queues, Waiting, Applied
  <2> QED
    BY <2>3 DEF Promise!Next
<1>4. CASE Ends
  BY <1>1, <1>4, EndPromised DEF Promise!Next
<1>5. CASE StreamRefused
  <2>1. Settle(Head(pipeline), "refused") /\ refusing /\ StreamIsRead /\ UNCHANGED <<user, log>>
    BY <1>5 DEF StreamRefused
  <2>2. Head(pipeline) = Head(queue[user]) /\ queue[user] # <<>>
    BY <1>1, <2>1, RefusedHead
  <2>3. Promise!Settle("refused")
    BY <1>1, <2>1, <2>2, SettlePromised
  <2> QED
    BY <2>3 DEF Promise!Next
<1>6. CASE HearResult
  <2>1. /\ Settle(Head(pipeline), "ok") /\ responses # <<>> /\ Head(responses) # Hello
        /\ UNCHANGED <<user, log>>
    BY <1>6 DEF HearResult
  <2>2. /\ Head(pipeline) = Head(queue[user]) /\ queue[user] # <<>>
        /\ InLog(Head(queue[user]).write)
    BY <1>1, <2>1, AnsweredHead
  <2>3. Head(queue[user]).write \in Applied
    BY <1>1, <2>2, LenProperties DEF InLog, Applied, TypeOK
  <2>4. Promise!Settle("ok")
    BY <1>1, <2>1, <2>2, <2>3, SettlePromised
  <2> QED
    BY <2>4 DEF Promise!Next
<1>7. CASE ServeWrite
  <2>1. Head(requests) \in Writes
    BY <1>7 DEF ServeWrite
  <2> PICK w \in Writes : w = Head(requests)
    BY <2>1
  <2>2. Promise!Apply(w)
    BY <1>1, <1>7, ServePromised
  <2>3. \E x \in Writes : Promise!Issue(x) \/ Promise!Apply(x)
    BY <2>2
  <2> QED
    BY <2>3 DEF Promise!Next
<1>8. CASE BackoffElapsed \/ IdleTimeout \/ StreamFails \/ StreamOpens \/ HearHello \/ ServeHello
           \/ ServeRefusal \/ UNCHANGED vars
  <2>1. UNCHANGED <<user, queue, callbacks, told, log>>
    BY <1>8 DEF BackoffElapsed, IdleTimeout, StreamFails, StreamOpens, HearHello, ServeHello,
                ServeRefusal, vars, storeVars
  <2>2. Queues' = Queues /\ Waiting' = Waiting /\ Applied' = Applied
    BY <2>1 DEF Queues, Waiting, Applied
  <2> QED
    BY <2>1, <2>2 DEF Promise!vars, Queues, Waiting, Applied
<1> QED
  BY <1>2, <1>3, <1>4, <1>5, <1>6, <1>7, <1>8 DEF Next, NetworkStep, Ends

LEMMA PromisedInit == Init => Promise!Init
<1> SUFFICES ASSUME Init PROVE Promise!Init
  OBVIOUS
<1>1. /\ user \in Users /\ queue = [u \in Users |-> <<>>] /\ callbacks = {} /\ log = <<>>
      /\ told = [w \in Writes |-> ""]
  BY DEF Init
<1>2. WritesOf(<<>>) = <<>>
  <2>1. <<>> \in Seq(Batch) /\ Len(<<>>) = 0
    BY EmptySeq
  <2>2. WritesOf(<<>>) \in Seq(Writes \cup {Hello}) /\ Len(WritesOf(<<>>)) = 0
    BY <2>1, WritesTyped
  <2> QED
    BY <2>2, EmptySeq
<1>3. Queues = [u \in Users |-> <<>>]
  BY <1>1, <1>2 DEF Queues
<1>4. Waiting = {}
  BY <1>1 DEF Waiting
<1>5. Applied = {}
  <2>1. log \in Seq(Writes) /\ Len(log) = 0
    BY <1>1, EmptySeq
  <2>2. DOMAIN log = 1..0
    BY <2>1, LenProperties
  <2>3. \A i \in 1..0 : FALSE
    OBVIOUS
  <2>4. \A i \in DOMAIN log : FALSE
    BY <2>2, <2>3
  <2> QED
    BY <2>4 DEF Applied
<1> QED
  BY <1>1, <1>3, <1>4, <1>5 DEF Promise!Init, Queues, Applied, Waiting

\* The writes of each user settle one by one in the order of the calls, and a
\* callback is told of its own write, through every break, change of user and end
\* of the process.
THEOREM Implements == Spec => ImplementsQueue
<1>1. Init => Promise!Init
  BY PromisedInit
<1>2. IInv /\ [Next]_vars => [Promise!Next]_(Promise!vars)
  BY PromisedNext
<1> QED
  BY <1>1, <1>2, Invariance, PTL DEF Spec, ImplementsQueue, Promise!Spec

\* What a callback was told is not told again, although batch ids are used again
\* after a change of user and callbacks are kept by id.
THEOREM CallbacksToldOnce == Spec => ToldOnce
<1>1. ASSUME IInv, [Next]_vars, NEW w \in Writes, told[w] # ""
      PROVE  told'[w] = told[w]
  <2>1. TypeOK /\ Heard
    BY <1>1 DEF IInv, LogInv
  <2>2. told' = told \/ \E batch, what : told' = Notified(batch, what)
    BY <1>1 DEF Next, NetworkStep, Issue, ChangeCredentials, Crash, CrashTold, CrashUntold,
                BackoffElapsed, IdleTimeout, StreamFails, StreamOpens, StreamRefused, HearHello,
                HearResult, Settle, ServeHello, ServeWrite, ServeRefusal, vars, storeVars
  <2> QED
    BY <1>1, <2>1, <2>2, NotifiedOnce
<1>2. IInv /\ [Next]_vars => [\A w \in Writes : told[w] # "" => told'[w] = told[w]]_(Promise!vars)
  BY <1>1
<1> QED
  BY <1>2, Invariance, PTL DEF Spec, ToldOnce, Promise!ToldOnce

\* A callback is told of success only if the server applied its write.
THEOREM OkIsTrue == Spec => []OkWasApplied
<1>1. ASSUME IInv PROVE OkWasApplied
  <2>1. DOMAIN log = 1..Len(log)
    BY <1>1, LenProperties DEF IInv, TypeOK
  <2>2. Heard
    BY <1>1 DEF IInv, LogInv
  <2> QED
    BY <2>1, <2>2 DEF OkWasApplied, Promise!OkWasApplied, Heard
<1> QED
  BY <1>1, Invariance, PTL

=============================================================================
