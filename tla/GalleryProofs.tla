--------------------------- MODULE GalleryProofs ---------------------------
(***************************************************************************)
(* Proofs about Gallery, for any sets of pictures, users, reloads and      *)
(* saves: the invariants that its runs check on small instances.           *)
(***************************************************************************)
EXTENDS Gallery, TLAPS

-----------------------------------------------------------------------------
\* The inductive invariant

\* What a call has asked for and got comes from the answer to its query, and
\* no image is appended and outstanding at once.
FetchesSound ==
  \A l \in Loads :
    /\ load[l].fetching \cap load[l].got = {}
    /\ load[l].fetching \cup load[l].got \subseteq load[l].found
    /\ load[l].pc # "answered" => load[l].found = {}

\* The call that emptied the array last is past that line.
OwnerHasAsked ==
  \A l \in Loads : owner = l => load[l].pc \in {"asking", "failed", "answered"}

\* The drawing is a prefix of the array until a reload empties the array.
DrawnIsPrefix ==
  ~reset => /\ Len(screen.rows) <= Len(refImagenesUsuario)
            /\ \A i \in 1..Len(screen.rows) : screen.rows[i] = refImagenesUsuario[i]

\* While a call that is still alone runs, no other does; and while the array
\* is the work of a call that was alone, no other can append to it.
SoloIsAlone ==
  \A l, k \in Loads : l # k /\ load[l].solo =>
    /\ Running(l) => ~Running(k)
    /\ owner = l => load[k].fetching = {} /\ load[k].pc # "asking"

SoloRows ==
  \A l \in Loads : owner = l /\ load[l].solo =>
    \A i \in 1..Len(refImagenesUsuario) : refImagenesUsuario[i].from = l

\* A row of a call that was alone is there only while the array is its work.
SoloOwns ==
  /\ \A l \in Loads : load[l].solo /\ (load[l].fetching # {} \/ load[l].pc = "asking") => owner = l
  /\ \A i \in 1..Len(refImagenesUsuario) :
       load[refImagenesUsuario[i].from].solo => owner = refImagenesUsuario[i].from

SoloMarkedEmpty ==
  \A l \in Loads : load[l].solo /\ load[l].pc = "marked" => empty

IInv ==
  /\ TypeOK
  /\ LoadingHasACause
  /\ FetchesSound
  /\ OwnerHasAsked
  /\ ListComplete
  /\ RowsAccountedFor
  /\ DrawnIsPrefix
  /\ SwipeHitsShown
  /\ SoloIsAlone
  /\ SoloRows
  /\ SoloOwns
  /\ SoloMarkedEmpty
  /\ EmptyFlagHonest

-----------------------------------------------------------------------------
\* Type correctness

\* A call begins, or the task of a swipe does.
Calls(l, e) == load[l].pc \in {"unused", "swiped"} /\ load' = Called(l, e)

LEMMA CallType ==
  ASSUME load \in [Loads -> LoadRecord], NEW l \in Loads, NEW e \in Emails, Calls(l, e)
  PROVE  load' \in [Loads -> LoadRecord]
BY DEF Calls, Called, LoadRecord, LoadPc

LEMMA GotoType ==
  ASSUME load \in [Loads -> LoadRecord], NEW l \in Loads, NEW pc \in LoadPc, Goto(l, pc)
  PROVE  load' \in [Loads -> LoadRecord]
BY DEF Goto, LoadRecord

LEMMA FetchedType ==
  ASSUME load \in [Loads -> LoadRecord], NEW l \in Loads, NEW d \in Dates
  PROVE  Fetched(l, d) \in [Loads -> LoadRecord]
BY DEF Fetched, LoadRecord

LEMMA DrawingType ==
  ASSUME TypeOK
  PROVE  Drawing \in Screen
<1>1. refImagenesUsuario \in Seq(UserImage) /\ <<>> \in Seq(UserImage)
  BY DEF TypeOK
<1> QED BY <1>1 DEF Drawing, Screen

LEMMA InitType == Init => TypeOK
<1> SUFFICES ASSUME Init PROVE TypeOK OBVIOUS
<1>1. refImagenesUsuario = <<>> /\ <<>> \in Seq(UserImage)
  BY DEF Init
<1>2. screen \in Screen
  BY <1>1 DEF Init, Drawing, Screen
<1>3. load \in [Loads -> LoadRecord] /\ save \in [Saves -> SaveRecord]
  BY NoneAssumption DEF Init, NoCall, NoUpload, LoadRecord, LoadPc, SaveRecord
<1> QED BY <1>1, <1>2, <1>3 DEF Init, TypeOK

LEMMA NextType == TypeOK /\ [Step]_vars => TypeOK'
<1> SUFFICES ASSUME TypeOK, [Step]_vars PROVE TypeOK' OBVIOUS
<1> USE DEF TypeOK, appVars
<1>1. ASSUME NEW l \in Loads, NEW e \in Emails, Appear(l, e) PROVE TypeOK'
  BY <1>1, CallType DEF Appear, Spawn, Calls
<1>14. ASSUME NEW l \in Loads, NEW e \in Emails, SwipeReload(l, e) PROVE TypeOK'
  BY <1>14, CallType DEF SwipeReload, At, Calls
<1>2. ASSUME NEW l \in Loads, SetLoading(l) PROVE TypeOK'
  BY <1>2, GotoType DEF SetLoading, LoadPc
<1>3. ASSUME NEW l \in Loads, SetEmpty(l) PROVE TypeOK'
  BY <1>3, GotoType DEF SetEmpty, LoadPc
<1>4. ASSUME NEW l \in Loads, ClearAndAsk(l) PROVE TypeOK'
  BY <1>4, GotoType DEF ClearAndAsk, LoadPc
<1>5. ASSUME NEW l \in Loads, QueryFails(l) PROVE TypeOK'
  BY <1>5, GotoType DEF QueryFails, LoadPc
<1>6. ASSUME NEW l \in Loads, NEW files \in FilesSnapshots, QueryAnswers(l, files) PROVE TypeOK'
  <2> DEFINE found == {d \in DOMAIN files : files[d] = load[l].email}
  <2>1. found \subseteq Dates
    BY DEF FilesSnapshots
  <2> HIDE DEF found
  <2>2. load' = [load EXCEPT ![l].pc = "answered", ![l].found = found, ![l].fetching = found]
    BY <1>6 DEF QueryAnswers, found
  <2>3. load' \in [Loads -> LoadRecord]
    <3>1. [load[l] EXCEPT !.pc = "answered", !.found = found, !.fetching = found] \in LoadRecord
      BY <2>1 DEF LoadRecord, LoadPc
    <3>2. load' = [load EXCEPT ![l] =
                    [load[l] EXCEPT !.pc = "answered", !.found = found, !.fetching = found]]
      BY <2>2 DEF LoadRecord
    <3> QED BY <3>1, <3>2
  <2>4. empty' \in BOOLEAN
    BY <1>6 DEF QueryAnswers
  <2> QED BY <1>6, <2>3, <2>4 DEF QueryAnswers
<1>7. ASSUME NEW l \in Loads, NEW d \in Dates, FetchFails(l, d) PROVE TypeOK'
  BY <1>7 DEF FetchFails, LoadRecord
<1>8. ASSUME NEW l \in Loads, NEW d \in Dates, FetchSucceeds(l, d) PROVE TypeOK'
  <2>1. Row(l, d) \in UserImage
    BY DEF Row, UserImage, LoadRecord
  <2>2. refImagenesUsuario' \in Seq(UserImage)
    BY <1>8, <2>1 DEF FetchSucceeds
  <2>3. load' \in [Loads -> LoadRecord]
    BY <1>8, FetchedType DEF FetchSucceeds
  <2> QED BY <1>8, <2>2, <2>3 DEF FetchSucceeds
<1>9. ASSUME NEW l \in Loads, NEW d \in Dates, NEW k \in Loads, FetchRacesClear(l, d, k)
      PROVE  TypeOK'
  <2>1. Row(l, d) \in UserImage
    BY DEF Row, UserImage, LoadRecord
  <2>2. refImagenesUsuario' \in Seq(UserImage)
    BY <1>9, <2>1 DEF FetchRacesClear
  <2>3. load' \in [Loads -> LoadRecord]
    <3>1. Fetched(l, d) \in [Loads -> LoadRecord]
      BY FetchedType
    <3>2. load' = [Fetched(l, d) EXCEPT ![k].pc = "asking"]
      BY <1>9 DEF FetchRacesClear
    <3> QED BY <3>1, <3>2 DEF LoadRecord, LoadPc
  <2> QED BY <1>9, <2>2, <2>3 DEF FetchRacesClear
<1>10. ASSUME NEW s \in Saves, SaveNext(s) PROVE TypeOK'
  <2>1. ASSUME NEW e \in Emails, UploadStorage(s, e) PROVE TypeOK'
    BY <2>1 DEF UploadStorage, SaveRecord
  <2>2. ASSUME PutFails(s) \/ UploadData(s) \/ WriteFails(s) PROVE TypeOK'
    BY <2>2 DEF PutFails, UploadData, WriteFails, SaveRecord
  <2>3. ASSUME NEW l \in Loads, WriteSucceeds(s, l) PROVE TypeOK'
    <3>1. load' \in [Loads -> LoadRecord]
      BY <2>3, CallType DEF WriteSucceeds, Spawn, Calls, SaveRecord
    <3> QED BY <2>3, <3>1 DEF WriteSucceeds, SaveRecord
  <2> QED BY <1>10, <2>1, <2>2, <2>3 DEF SaveNext
<1>11. ASSUME Redraw PROVE TypeOK'
  BY <1>11, DrawingType DEF Redraw
<1>12. ASSUME NEW l \in Loads, NEW i \in DOMAIN screen.rows, DeleteRow(i, l) PROVE TypeOK'
  <2> DEFINE inRange == i \in DOMAIN refImagenesUsuario
  <2> DEFINE hit == IF inRange THEN refImagenesUsuario[i].date ELSE NoDate
  <2>1. screen.rows[i].date \in Dates
    <3>1. screen.rows \in Seq(UserImage)
      BY DEF Screen
    <3>2. screen.rows[i] \in UserImage
      BY <3>1
    <3> QED BY <3>2 DEF UserImage
  <2>2. hit \in Dates \cup {NoDate}
    <3>1. inRange => refImagenesUsuario[i] \in UserImage
      OBVIOUS
    <3> QED BY <3>1 DEF UserImage
  <2>3. deletes' = deletes \cup {[shown |-> screen.rows[i].date, hit |-> hit, reset |-> reset]}
    BY <1>12 DEF DeleteRow
  <2>4. load' \in [Loads -> LoadRecord] /\ crashed' \in BOOLEAN
    BY <1>12 DEF DeleteRow, Goto, LoadRecord, LoadPc
  <2> HIDE DEF hit
  <2>5. deletes' \subseteq [shown: Dates, hit: Dates \cup {NoDate}, reset: BOOLEAN]
    BY <2>1, <2>2, <2>3
  <2> QED BY <1>12, <2>4, <2>5 DEF DeleteRow
<1>13. CASE UNCHANGED vars
  BY <1>13 DEF vars
<1> QED BY <1>1, <1>2, <1>3, <1>4, <1>5, <1>6, <1>7, <1>8, <1>9, <1>10, <1>11, <1>12, <1>13,
        <1>14
        DEF Step, LoadNext

-----------------------------------------------------------------------------
\* How the calls change: what each kind of step does to the field of a call

\* Starting a call leaves the others where they are.
LEMMA CallEffect ==
  ASSUME load \in [Loads -> LoadRecord], NEW l \in Loads, NEW e \in Emails, Calls(l, e)
  PROVE  /\ load[l].pc \in {"unused", "swiped"}
         /\ load'[l].pc = "ready" /\ load'[l].email = e
         /\ load'[l].fetching = {} /\ load'[l].found = {} /\ load'[l].got = {}
         /\ load'[l].solo = \A j \in Loads : ~Running(j)
         /\ \A k \in Loads \ {l} :
              /\ load'[k].pc = load[k].pc /\ load'[k].email = load[k].email
              /\ load'[k].fetching = load[k].fetching
              /\ load'[k].found = load[k].found /\ load'[k].got = load[k].got
              /\ load'[k].solo = (load[k].solo /\ ~Running(k))
BY DEF Calls, Called, LoadRecord

\* An append is the work of one call, and of one it may race with.
LEMMA FetchedEffect ==
  ASSUME load \in [Loads -> LoadRecord], NEW l \in Loads, NEW d \in Dates
  PROVE  LET after == Fetched(l, d) IN
         /\ after[l].pc = load[l].pc /\ after[l].email = load[l].email
         /\ after[l].fetching = load[l].fetching \ {d}
         /\ after[l].found = load[l].found /\ after[l].got = load[l].got \cup {d}
         /\ after[l].solo = load[l].solo
         /\ \A k \in Loads \ {l} : after[k] = load[k]
BY DEF Fetched, LoadRecord

\* A swipe at most queues a task that reloads.
LEMMA SwipeEffect ==
  ASSUME load \in [Loads -> LoadRecord], NEW l \in Loads, NEW i, DeleteRow(i, l)
  PROVE  /\ \A k \in Loads : \/ load'[k].pc = load[k].pc
                             \/ load[k].pc = "unused" /\ load'[k].pc = "swiped"
         /\ \A k \in Loads : /\ load'[k].email = load[k].email
                             /\ load'[k].fetching = load[k].fetching
                             /\ load'[k].found = load[k].found /\ load'[k].got = load[k].got
                             /\ load'[k].solo = load[k].solo
         /\ \A k \in Loads : Running(k)' <=> Running(k)
         /\ UNCHANGED <<appVars, save, screen, owner, reset>>
<1>1. \/ load' = load
      \/ load[l].pc = "unused" /\ load' = [load EXCEPT ![l].pc = "swiped"]
  BY DEF DeleteRow, Goto
<1>2. /\ \A k \in Loads : \/ load'[k].pc = load[k].pc
                          \/ load[k].pc = "unused" /\ load'[k].pc = "swiped"
      /\ \A k \in Loads : /\ load'[k].email = load[k].email
                          /\ load'[k].fetching = load[k].fetching
                          /\ load'[k].found = load[k].found /\ load'[k].got = load[k].got
                          /\ load'[k].solo = load[k].solo
  BY <1>1 DEF LoadRecord
<1>3. \A k \in Loads : Running(k)' <=> Running(k)
  BY <1>2 DEF Running
<1> QED BY <1>2, <1>3 DEF DeleteRow

\* A step of a call that only moves on.
LEMMA GotoEffect ==
  ASSUME load \in [Loads -> LoadRecord], NEW l \in Loads, NEW pc, Goto(l, pc)
  PROVE  /\ load'[l].pc = pc /\ load'[l].email = load[l].email
         /\ load'[l].fetching = load[l].fetching
         /\ load'[l].found = load[l].found /\ load'[l].got = load[l].got
         /\ load'[l].solo = load[l].solo
         /\ \A k \in Loads \ {l} : load'[k] = load[k]
BY DEF Goto, LoadRecord

\* An append that races with the clearing of another call moves both.
LEMMA RaceEffect ==
  ASSUME TypeOK, FetchesSound, NEW l \in Loads, NEW d \in Dates, NEW k \in Loads,
         FetchRacesClear(l, d, k)
  PROVE  /\ l # k /\ d \in load[l].fetching /\ load[k].pc = "marked" /\ load[l].pc = "answered"
         /\ load'[l].pc = load[l].pc /\ load'[l].email = load[l].email
         /\ load'[l].fetching = load[l].fetching \ {d}
         /\ load'[l].found = load[l].found /\ load'[l].got = load[l].got \cup {d}
         /\ load'[l].solo = load[l].solo
         /\ load'[k].pc = "asking" /\ load'[k].email = load[k].email
         /\ load'[k].fetching = load[k].fetching
         /\ load'[k].found = load[k].found /\ load'[k].got = load[k].got
         /\ load'[k].solo = load[k].solo
         /\ \A j \in Loads \ {l, k} : load'[j] = load[j]
<1>0. load \in [Loads -> LoadRecord]
  BY DEF TypeOK
<1>1. d \in load[l].fetching /\ load[k].pc = "marked"
  BY DEF FetchRacesClear
<1>2. load[l].pc = "answered" /\ l # k
  BY <1>1 DEF FetchesSound
<1>3. Fetched(l, d) \in [Loads -> LoadRecord] /\ load' = [Fetched(l, d) EXCEPT ![k].pc = "asking"]
  BY <1>0, FetchedType DEF FetchRacesClear
<1>4. /\ load'[l] = Fetched(l, d)[l]
      /\ load'[k] = [load[k] EXCEPT !.pc = "asking"]
      /\ \A j \in Loads \ {l, k} : load'[j] = load[j]
  BY <1>0, <1>2, <1>3, FetchedEffect
<1> QED BY <1>0, <1>1, <1>2, <1>4, FetchedEffect DEF LoadRecord

\* The answer to a query.
LEMMA AnswerEffect ==
  ASSUME load \in [Loads -> LoadRecord], NEW l \in Loads, NEW files \in FilesSnapshots,
         QueryAnswers(l, files)
  PROVE  /\ load[l].pc = "asking"
         /\ load'[l].pc = "answered" /\ load'[l].email = load[l].email
         /\ load'[l].fetching = load'[l].found
         /\ load'[l].got = load[l].got /\ load'[l].solo = load[l].solo
         /\ empty' = (empty /\ load'[l].found = {})
         /\ \A k \in Loads \ {l} : load'[k] = load[k]
BY DEF QueryAnswers, At, LoadRecord

\* An image that cannot be fetched.
LEMMA FetchFailsEffect ==
  ASSUME load \in [Loads -> LoadRecord], NEW l \in Loads, NEW d \in Dates, FetchFails(l, d)
  PROVE  /\ d \in load[l].fetching
         /\ load'[l].pc = load[l].pc /\ load'[l].email = load[l].email
         /\ load'[l].fetching = load[l].fetching \ {d}
         /\ load'[l].found = load[l].found /\ load'[l].got = load[l].got
         /\ load'[l].solo = load[l].solo
         /\ \A k \in Loads \ {l} : load'[k] = load[k]
BY DEF FetchFails, LoadRecord

-----------------------------------------------------------------------------
\* The spinner

LEMMA LoadingStep == TypeOK /\ LoadingHasACause /\ [Step]_vars => LoadingHasACause'
<1> SUFFICES ASSUME TypeOK, LoadingHasACause, [Step]_vars PROVE LoadingHasACause' OBVIOUS
<1>0. load \in [Loads -> LoadRecord] /\ save \in [Saves -> SaveRecord]
  BY DEF TypeOK
<1> USE DEF LoadingHasACause, appVars
<1>1. ASSUME NEW l \in Loads, NEW e \in Emails, Calls(l, e), loading' = loading, save' = save
      PROVE  LoadingHasACause'
  BY <1>0, <1>1, CallEffect
<1>2. ASSUME NEW l \in Loads, SetLoading(l) PROVE LoadingHasACause'
  BY <1>0, <1>2 DEF SetLoading, At, Goto, LoadRecord
<1>3. ASSUME NEW l \in Loads, SetEmpty(l) PROVE LoadingHasACause'
  BY <1>0, <1>3 DEF SetEmpty, At, Goto, LoadRecord
<1>4. ASSUME NEW l \in Loads, ClearAndAsk(l) PROVE LoadingHasACause'
  BY <1>0, <1>4 DEF ClearAndAsk, At, Goto, LoadRecord
<1>5. ASSUME loading' = FALSE PROVE LoadingHasACause'
  BY <1>5
<1>6. ASSUME NEW l \in Loads, NEW d \in Dates, FetchFails(l, d) PROVE LoadingHasACause'
  BY <1>0, <1>6 DEF FetchFails, LoadRecord
<1>7. ASSUME NEW s \in Saves, SaveNext(s) PROVE LoadingHasACause'
  <2>1. ASSUME NEW e \in Emails, UploadStorage(s, e) PROVE LoadingHasACause'
    BY <1>0, <2>1 DEF UploadStorage, SaveRecord
  <2>2. ASSUME PutFails(s) \/ UploadData(s) PROVE LoadingHasACause'
    BY <1>0, <2>2 DEF PutFails, UploadData, SaveRecord
  <2> QED BY <1>5, <1>7, <2>1, <2>2 DEF SaveNext, WriteFails, WriteSucceeds
<1>8. CASE Redraw
  BY <1>8 DEF Redraw
<1>9. CASE UNCHANGED vars
  BY <1>9 DEF vars
<1>10. ASSUME NEW l \in Loads, NEW i \in DOMAIN screen.rows, DeleteRow(i, l)
       PROVE  LoadingHasACause'
  BY <1>0, <1>10, SwipeEffect
<1>11. ASSUME NEW l \in Loads, LoadNext(l) PROVE LoadingHasACause'
  BY <1>1, <1>2, <1>3, <1>4, <1>5, <1>6, <1>11
     DEF LoadNext, Appear, SwipeReload, Spawn, At, Calls, QueryFails, QueryAnswers, FetchSucceeds, FetchRacesClear
<1> QED BY <1>7, <1>8, <1>9, <1>10, <1>11 DEF Step

-----------------------------------------------------------------------------
\* What is fetched

LEMMA FetchesStep == TypeOK /\ FetchesSound /\ [Step]_vars => FetchesSound'
<1> SUFFICES ASSUME TypeOK, FetchesSound, [Step]_vars PROVE FetchesSound' OBVIOUS
<1>0. load \in [Loads -> LoadRecord] /\ save \in [Saves -> SaveRecord]
  BY DEF TypeOK
<1> USE DEF FetchesSound, appVars
<1>1. ASSUME NEW l \in Loads, NEW e \in Emails, Calls(l, e) PROVE FetchesSound'
  <2> SUFFICES ASSUME NEW k \in Loads
               PROVE  /\ load'[k].fetching \cap load'[k].got = {}
                      /\ load'[k].fetching \cup load'[k].got \subseteq load'[k].found
                      /\ load'[k].pc # "answered" => load'[k].found = {}
    OBVIOUS
  <2>1. CASE k = l
    BY <1>0, <1>1, <2>1, CallEffect
  <2>2. CASE k # l
    <3>1. /\ load'[k].fetching = load[k].fetching /\ load'[k].got = load[k].got
          /\ load'[k].found = load[k].found /\ load'[k].pc = load[k].pc
      <4> HIDE DEF FetchesSound, appVars
      <4>1. k \in Loads \ {l} /\ load \in [Loads -> LoadRecord]
        BY <1>0, <2>2
      <4> QED BY <1>1, <4>1, CallEffect
    <3> QED BY <3>1
  <2> QED BY <2>1, <2>2
<1>2. ASSUME NEW l \in Loads, SetLoading(l) PROVE FetchesSound'
  BY <1>0, <1>2, SMTT(30) DEF SetLoading, At, Goto, LoadRecord
<1>3. ASSUME NEW l \in Loads, SetEmpty(l) PROVE FetchesSound'
  BY <1>0, <1>3 DEF SetEmpty, At, Goto, LoadRecord
<1>4. ASSUME NEW l \in Loads, ClearAndAsk(l) PROVE FetchesSound'
  BY <1>0, <1>4 DEF ClearAndAsk, At, Goto, LoadRecord
<1>5. ASSUME NEW l \in Loads, QueryFails(l) PROVE FetchesSound'
  BY <1>0, <1>5 DEF QueryFails, At, Goto, LoadRecord
<1>6. ASSUME NEW l \in Loads, NEW files \in FilesSnapshots, QueryAnswers(l, files)
      PROVE  FetchesSound'
  BY <1>0, <1>6 DEF QueryAnswers, At, LoadRecord
<1>7. ASSUME NEW l \in Loads, NEW d \in Dates, FetchFails(l, d) PROVE FetchesSound'
  BY <1>0, <1>7 DEF FetchFails, LoadRecord
<1>8. ASSUME NEW l \in Loads, NEW d \in Dates, FetchSucceeds(l, d) PROVE FetchesSound'
  BY <1>0, <1>8, FetchedEffect DEF FetchSucceeds, LoadRecord
<1>9. ASSUME NEW l \in Loads, NEW d \in Dates, NEW k \in Loads, FetchRacesClear(l, d, k)
      PROVE  FetchesSound'
  <2>1. l # k
    BY <1>0, <1>9 DEF FetchRacesClear
  <2>2. load' = [Fetched(l, d) EXCEPT ![k].pc = "asking"]
    BY <1>9 DEF FetchRacesClear
  <2> QED BY <1>0, <1>9, <2>1, <2>2, FetchedEffect, FetchedType DEF FetchRacesClear, LoadRecord
<1>10. ASSUME NEW l \in Loads, LoadNext(l) PROVE FetchesSound'
  BY <1>1, <1>2, <1>3, <1>4, <1>5, <1>6, <1>7, <1>8, <1>9, <1>10 DEF LoadNext, Appear, SwipeReload, Spawn, At, Calls
<1>11. ASSUME load' = load PROVE FetchesSound'
  BY <1>11
<1>12. ASSUME NEW s \in Saves, SaveNext(s) PROVE FetchesSound'
  BY <1>0, <1>1, <1>11, <1>12
     DEF SaveNext, UploadStorage, PutFails, UploadData, WriteFails, WriteSucceeds, Spawn, Calls,
         SaveRecord
<1>D. ASSUME NEW l \in Loads, NEW i \in DOMAIN screen.rows, DeleteRow(i, l) PROVE FetchesSound'
  BY <1>0, <1>D, SwipeEffect
<1> QED BY <1>D, <1>10, <1>11, <1>12 DEF Step, Redraw, vars

-----------------------------------------------------------------------------
\* The rows

LEMMA OwnerStep == TypeOK /\ FetchesSound /\ OwnerHasAsked /\ [Step]_vars => OwnerHasAsked'
<1> SUFFICES ASSUME TypeOK, FetchesSound, OwnerHasAsked, [Step]_vars PROVE OwnerHasAsked' OBVIOUS
<1>0. load \in [Loads -> LoadRecord] /\ save \in [Saves -> SaveRecord]
  BY DEF TypeOK
<1> USE DEF OwnerHasAsked, appVars
<1>1. ASSUME NEW l \in Loads, NEW e \in Emails, Calls(l, e), owner' = owner
      PROVE  OwnerHasAsked'
  BY <1>0, <1>1, CallEffect
<1>2. ASSUME NEW l \in Loads, SetLoading(l) \/ SetEmpty(l) PROVE OwnerHasAsked'
  BY <1>0, <1>2, GotoEffect DEF SetLoading, SetEmpty, At
<1>3. ASSUME NEW l \in Loads, ClearAndAsk(l) \/ QueryFails(l) PROVE OwnerHasAsked'
  BY <1>0, <1>3, GotoEffect DEF ClearAndAsk, QueryFails, At
<1>4. ASSUME NEW l \in Loads, NEW files \in FilesSnapshots, QueryAnswers(l, files)
      PROVE  OwnerHasAsked'
  BY <1>0, <1>4, AnswerEffect DEF QueryAnswers
<1>5. ASSUME NEW l \in Loads, NEW d \in Dates, FetchFails(l, d) PROVE OwnerHasAsked'
  BY <1>0, <1>5, FetchFailsEffect DEF FetchFails
<1>6. ASSUME NEW l \in Loads, NEW d \in Dates, FetchSucceeds(l, d) PROVE OwnerHasAsked'
  BY <1>0, <1>6, FetchedEffect DEF FetchSucceeds
<1>7. ASSUME NEW l \in Loads, NEW d \in Dates, NEW k \in Loads, FetchRacesClear(l, d, k)
      PROVE  OwnerHasAsked'
  <2>1. owner' = k /\ load'[k].pc = "asking"
    BY <1>7, RaceEffect DEF FetchRacesClear
  <2> QED BY <2>1
<1>8. ASSUME NEW l \in Loads, LoadNext(l) PROVE OwnerHasAsked'
  BY <1>1, <1>2, <1>3, <1>4, <1>5, <1>6, <1>7, <1>8 DEF LoadNext, Appear, SwipeReload, Spawn, At, Calls
<1>9. ASSUME load' = load, owner' = owner PROVE OwnerHasAsked'
  BY <1>9
<1>10. ASSUME NEW s \in Saves, SaveNext(s) PROVE OwnerHasAsked'
  BY <1>0, <1>1, <1>9, <1>10
     DEF SaveNext, UploadStorage, PutFails, UploadData, WriteFails, WriteSucceeds, Spawn, Calls,
         SaveRecord
<1>D. ASSUME NEW l \in Loads, NEW i \in DOMAIN screen.rows, DeleteRow(i, l) PROVE OwnerHasAsked'
  BY <1>0, <1>D, SwipeEffect
<1> QED BY <1>D, <1>8, <1>9, <1>10 DEF Step, Redraw, vars

LEMMA ListStep ==
  TypeOK /\ FetchesSound /\ OwnerHasAsked /\ ListComplete /\ [Step]_vars => ListComplete'
<1> SUFFICES ASSUME TypeOK, FetchesSound, OwnerHasAsked, ListComplete, [Step]_vars
             PROVE  ListComplete'
  OBVIOUS
<1>0. /\ load \in [Loads -> LoadRecord] /\ save \in [Saves -> SaveRecord]
      /\ refImagenesUsuario \in Seq(UserImage)
  BY DEF TypeOK
<1> USE DEF ListComplete, appVars
<1>K. ASSUME owner' = owner, refImagenesUsuario' = refImagenesUsuario,
             \A k \in Loads : owner = k => /\ load'[k].email = load[k].email
                                          /\ load'[k].got = load[k].got
      PROVE  ListComplete'
  BY <1>K DEF Row
<1>1. ASSUME NEW l \in Loads, NEW e \in Emails, Calls(l, e), owner' = owner,
             refImagenesUsuario' = refImagenesUsuario
      PROVE  ListComplete'
  <2>1. owner # l
    BY <1>0, <1>1, CallEffect DEF OwnerHasAsked
  <2>2. \A k \in Loads \ {l} : load'[k].email = load[k].email /\ load'[k].got = load[k].got
    BY <1>0, <1>1, CallEffect
  <2> QED BY <1>1, <1>K, <2>1, <2>2
<1>2. ASSUME NEW l \in Loads, SetLoading(l) \/ SetEmpty(l) \/ QueryFails(l) PROVE ListComplete'
  <2>1. \A k \in Loads : load'[k].email = load[k].email /\ load'[k].got = load[k].got
    BY <1>0, <1>2, GotoEffect DEF SetLoading, SetEmpty, QueryFails
  <2> QED BY <1>2, <1>K, <2>1 DEF SetLoading, SetEmpty, QueryFails
<1>3. ASSUME NEW l \in Loads, ClearAndAsk(l) PROVE ListComplete'
  <2>1. owner' = l /\ load'[l].got = {}
    BY <1>0, <1>3, GotoEffect DEF ClearAndAsk, At, FetchesSound
  <2> QED BY <2>1
<1>4. ASSUME NEW l \in Loads, NEW files \in FilesSnapshots, QueryAnswers(l, files)
      PROVE  ListComplete'
  <2>1. \A k \in Loads : load'[k].email = load[k].email /\ load'[k].got = load[k].got
    BY <1>0, <1>4, AnswerEffect
  <2> QED BY <1>4, <1>K, <2>1 DEF QueryAnswers
<1>5. ASSUME NEW l \in Loads, NEW d \in Dates, FetchFails(l, d) PROVE ListComplete'
  <2>1. \A k \in Loads : load'[k].email = load[k].email /\ load'[k].got = load[k].got
    BY <1>0, <1>5, FetchFailsEffect
  <2> QED BY <1>5, <1>K, <2>1 DEF FetchFails
<1>6. ASSUME NEW l \in Loads, NEW d \in Dates, FetchSucceeds(l, d) PROVE ListComplete'
  <2>1. /\ load' = Fetched(l, d) /\ owner' = owner
        /\ refImagenesUsuario' = Append(refImagenesUsuario, Row(l, d))
    BY <1>6 DEF FetchSucceeds
  <2>2. \A k \in Loads, c \in Dates : Row(k, c)' = Row(k, c)
    BY <1>0, <2>1, FetchedEffect DEF Row
  <2>3. \A i \in DOMAIN refImagenesUsuario : /\ i \in DOMAIN refImagenesUsuario'
                                             /\ refImagenesUsuario'[i] = refImagenesUsuario[i]
    BY <1>0, <2>1
  <2>4. \E i \in DOMAIN refImagenesUsuario' : refImagenesUsuario'[i] = Row(l, d)
    <3>1. /\ Len(refImagenesUsuario) + 1 \in DOMAIN refImagenesUsuario'
          /\ refImagenesUsuario'[Len(refImagenesUsuario) + 1] = Row(l, d)
      BY <1>0, <2>1
    <3> QED BY <3>1
  <2>5. \A k \in Loads : \A c \in load'[k].got : c \in load[k].got \/ (k = l /\ c = d)
    BY <1>0, <2>1, FetchedEffect
  <2>6. \A k \in Loads : load'[k].got \subseteq Dates
    BY <1>0, <2>1, FetchedType DEF LoadRecord
  <2>7. SUFFICES ASSUME NEW k \in Loads, owner' = k, NEW c \in load'[k].got
                 PROVE  \E i \in DOMAIN refImagenesUsuario' : refImagenesUsuario'[i] = Row(k, c)
    BY <2>2, <2>6
  <2>8. CASE c \in load[k].got
    <3>1. PICK i \in DOMAIN refImagenesUsuario : refImagenesUsuario[i] = Row(k, c)
      BY <2>1, <2>7, <2>8
    <3> QED BY <2>3, <3>1
  <2>9. CASE k = l /\ c = d
    BY <2>4, <2>9
  <2> QED BY <2>5, <2>8, <2>9
<1>7. ASSUME NEW l \in Loads, NEW d \in Dates, NEW k \in Loads, FetchRacesClear(l, d, k)
      PROVE  ListComplete'
  <2>1. owner' = k
    BY <1>7 DEF FetchRacesClear
  <2>2. load[k].pc = "marked" /\ load'[k].got = load[k].got
    BY <1>7, RaceEffect
  <2>3. load[k].got = {}
    BY <2>2 DEF FetchesSound
  <2> QED BY <2>1, <2>2, <2>3
<1>S. ASSUME load' = load, owner' = owner, refImagenesUsuario' = refImagenesUsuario
      PROVE  ListComplete'
  BY <1>K, <1>S
<1> HIDE DEF ListComplete
<1>8. ASSUME NEW l \in Loads, LoadNext(l) PROVE ListComplete'
  BY <1>1, <1>2, <1>3, <1>4, <1>5, <1>6, <1>7, <1>8 DEF LoadNext, Appear, SwipeReload, Spawn, At, Calls
<1>9. ASSUME NEW s \in Saves, SaveNext(s) PROVE ListComplete'
  BY <1>0, <1>1, <1>9, <1>S
     DEF SaveNext, UploadStorage, PutFails, UploadData, WriteFails, WriteSucceeds, Spawn, Calls,
         SaveRecord
<1>D. ASSUME NEW l \in Loads, NEW i \in DOMAIN screen.rows, DeleteRow(i, l) PROVE ListComplete'
  BY <1>0, <1>D, SwipeEffect, <1>K DEF appVars
<1> QED BY <1>D, <1>8, <1>9, <1>S DEF Step, Redraw, vars

LEMMA RowsTyped ==
  ASSUME TypeOK
  PROVE  \A i \in 1..Len(refImagenesUsuario) : /\ refImagenesUsuario[i].date \in Dates
                                              /\ refImagenesUsuario[i].from \in Loads
<1>1. \A i \in 1..Len(refImagenesUsuario) : refImagenesUsuario[i] \in UserImage
  BY DEF TypeOK
<1> QED BY <1>1 DEF UserImage

\* One row more, of a picture that was outstanding, is accounted for.
LEMMA AppendAccountedFor ==
  ASSUME TypeOK, FetchesSound, RowsAccountedFor, NEW l \in Loads, NEW d \in load[l].fetching,
         load' \in [Loads -> LoadRecord],
         refImagenesUsuario' = Append(refImagenesUsuario, Row(l, d)),
         load'[l].got = load[l].got \cup {d},
         \A k \in Loads \ {l} : load'[k].got = load[k].got,
         \A k \in Loads : load'[k].email = load[k].email
  PROVE  RowsAccountedFor'
<1>0. /\ load \in [Loads -> LoadRecord]
      /\ refImagenesUsuario \in Seq(UserImage)
  BY DEF TypeOK
<1> DEFINE n == Len(refImagenesUsuario)
<1>1. n \in Nat /\ DOMAIN refImagenesUsuario = 1..n
  BY <1>0
<1>2. \A i \in 1..n : refImagenesUsuario[i].from \in Loads
  BY RowsTyped
<1>3. Row(l, d).date = d /\ Row(l, d).email = load[l].email /\ Row(l, d).from = l
  BY DEF Row
<1>4. d \notin load[l].got
  BY DEF FetchesSound
<1>5. /\ Row(l, d) \in UserImage
      /\ d \in Dates
  BY <1>0 DEF Row, UserImage, LoadRecord
<1>6. /\ DOMAIN refImagenesUsuario' = 1..(n + 1)
      /\ refImagenesUsuario'[n + 1] = Row(l, d)
      /\ \A i \in 1..n : refImagenesUsuario'[i] = refImagenesUsuario[i]
  BY <1>0, <1>5
<1>7. \A i \in 1..n : /\ refImagenesUsuario[i].date \in load[refImagenesUsuario[i].from].got
                      /\ refImagenesUsuario[i].email = load[refImagenesUsuario[i].from].email
                      /\ \A j \in (1..n) \ {i} : refImagenesUsuario[j] # refImagenesUsuario[i]
  BY <1>1 DEF RowsAccountedFor
<1>8. \A i \in 1..n : refImagenesUsuario[i] # Row(l, d)
  BY <1>3, <1>4, <1>7
<1> HIDE DEF n
<1>9. ASSUME NEW i \in 1..(n + 1)
      PROVE  /\ refImagenesUsuario'[i].date \in load'[refImagenesUsuario'[i].from].got
             /\ refImagenesUsuario'[i].email = load'[refImagenesUsuario'[i].from].email
  <2>1. CASE i = n + 1
    BY <1>3, <1>6, <2>1
  <2>2. CASE i \in 1..n
    <3> DEFINE row == refImagenesUsuario[i]
    <3>1. refImagenesUsuario'[i] = row /\ row.from \in Loads
      BY <1>2, <1>6, <2>2
    <3>2. row.date \in load[row.from].got /\ row.email = load[row.from].email
      BY <1>7, <2>2
    <3>3. load[row.from].got \subseteq load'[row.from].got /\ load'[row.from].email = load[row.from].email
      BY <3>1
    <3> QED BY <3>1, <3>2, <3>3
  <2> QED BY <1>1, <2>1, <2>2
<1>10. ASSUME NEW i \in 1..(n + 1), NEW j \in (1..(n + 1)) \ {i}
       PROVE  refImagenesUsuario'[j] # refImagenesUsuario'[i]
  <2>1. CASE i = n + 1
    <3>1. j \in 1..n
      BY <1>1, <2>1
    <3> QED BY <1>6, <1>8, <2>1, <3>1
  <2>2. CASE j = n + 1
    <3>1. i \in 1..n
      BY <1>1, <2>2
    <3> QED BY <1>6, <1>8, <2>2, <3>1
  <2>3. CASE i \in 1..n /\ j \in 1..n
    BY <1>6, <1>7, <2>3
  <2> QED BY <1>1, <2>1, <2>2, <2>3
<1> QED BY <1>6, <1>9, <1>10 DEF RowsAccountedFor

LEMMA RowsStep ==
  TypeOK /\ FetchesSound /\ RowsAccountedFor /\ [Step]_vars => RowsAccountedFor'
<1> SUFFICES ASSUME TypeOK, FetchesSound, RowsAccountedFor, [Step]_vars
             PROVE  RowsAccountedFor'
  OBVIOUS
<1>0. /\ load \in [Loads -> LoadRecord] /\ save \in [Saves -> SaveRecord]
      /\ refImagenesUsuario \in Seq(UserImage)
  BY DEF TypeOK
<1>T. load' \in [Loads -> LoadRecord]
  BY NextType DEF TypeOK
<1>K. ASSUME refImagenesUsuario' = refImagenesUsuario,
             \A k \in Loads : load[k].got # {} => /\ load'[k].email = load[k].email
                                                 /\ load'[k].got = load[k].got
      PROVE  RowsAccountedFor'
  <2>1. \A i \in DOMAIN refImagenesUsuario : refImagenesUsuario[i].from \in Loads
    BY <1>0, RowsTyped
  <2> QED BY <1>K, <2>1 DEF RowsAccountedFor
<1>S. ASSUME load' = load, refImagenesUsuario' = refImagenesUsuario PROVE RowsAccountedFor'
  BY <1>K, <1>S
<1>1. ASSUME NEW l \in Loads, NEW e \in Emails, Calls(l, e),
             refImagenesUsuario' = refImagenesUsuario
      PROVE  RowsAccountedFor'
  <2>1. load[l].got = {}
    BY <1>0, <1>1, CallEffect DEF FetchesSound
  <2>2. \A k \in Loads \ {l} : load'[k].email = load[k].email /\ load'[k].got = load[k].got
    BY <1>0, <1>1, CallEffect
  <2> QED BY <1>1, <1>K, <2>1, <2>2
<1>2. ASSUME NEW l \in Loads, SetLoading(l) \/ SetEmpty(l) \/ QueryFails(l)
      PROVE  RowsAccountedFor'
  <2>1. \A k \in Loads : load'[k].email = load[k].email /\ load'[k].got = load[k].got
    BY <1>0, <1>2, GotoEffect DEF SetLoading, SetEmpty, QueryFails
  <2> QED BY <1>2, <1>K, <2>1 DEF SetLoading, SetEmpty, QueryFails
<1>3. ASSUME NEW l \in Loads, ClearAndAsk(l) PROVE RowsAccountedFor'
  BY <1>3 DEF ClearAndAsk, RowsAccountedFor
<1>4. ASSUME NEW l \in Loads, NEW files \in FilesSnapshots, QueryAnswers(l, files)
      PROVE  RowsAccountedFor'
  <2>1. \A k \in Loads : load'[k].email = load[k].email /\ load'[k].got = load[k].got
    BY <1>0, <1>4, AnswerEffect
  <2> QED BY <1>4, <1>K, <2>1 DEF QueryAnswers
<1>5. ASSUME NEW l \in Loads, NEW d \in Dates, FetchFails(l, d) PROVE RowsAccountedFor'
  <2>1. \A k \in Loads : load'[k].email = load[k].email /\ load'[k].got = load[k].got
    BY <1>0, <1>5, FetchFailsEffect
  <2> QED BY <1>5, <1>K, <2>1 DEF FetchFails, appVars
<1>6. ASSUME NEW l \in Loads, NEW d \in Dates, FetchSucceeds(l, d) PROVE RowsAccountedFor'
  <2>1. /\ d \in load[l].fetching /\ load' = Fetched(l, d)
        /\ refImagenesUsuario' = Append(refImagenesUsuario, Row(l, d))
    BY <1>6 DEF FetchSucceeds
  <2>2. /\ load'[l].got = load[l].got \cup {d}
        /\ \A k \in Loads \ {l} : load'[k].got = load[k].got
        /\ \A k \in Loads : load'[k].email = load[k].email
    BY <1>0, <2>1, FetchedEffect
  <2> QED BY <1>T, <2>1, <2>2, AppendAccountedFor
<1>7. ASSUME NEW l \in Loads, NEW d \in Dates, NEW k \in Loads, FetchRacesClear(l, d, k)
      PROVE  RowsAccountedFor'
  <2>1. /\ d \in load[l].fetching
        /\ refImagenesUsuario' = Append(refImagenesUsuario, Row(l, d))
    BY <1>7 DEF FetchRacesClear
  <2>2. /\ load'[l].got = load[l].got \cup {d}
        /\ \A j \in Loads \ {l} : load'[j].got = load[j].got
        /\ \A j \in Loads : load'[j].email = load[j].email
    BY <1>0, <1>7, RaceEffect
  <2> QED BY <1>T, <2>1, <2>2, AppendAccountedFor
<1>8. ASSUME NEW l \in Loads, LoadNext(l) PROVE RowsAccountedFor'
  BY <1>1, <1>2, <1>3, <1>4, <1>5, <1>6, <1>7, <1>8 DEF LoadNext, Appear, SwipeReload, Spawn, At, Calls, appVars
<1>9. ASSUME NEW s \in Saves, SaveNext(s) PROVE RowsAccountedFor'
  BY <1>0, <1>1, <1>9, <1>S
     DEF SaveNext, UploadStorage, PutFails, UploadData, WriteFails, WriteSucceeds, Spawn, Calls,
         SaveRecord, appVars
<1>D. ASSUME NEW l \in Loads, NEW i \in DOMAIN screen.rows, DeleteRow(i, l) PROVE RowsAccountedFor'
  BY <1>0, <1>D, SwipeEffect, <1>K DEF appVars
<1> QED BY <1>D, <1>8, <1>9, <1>S DEF Step, Redraw, vars, appVars

-----------------------------------------------------------------------------
\* The drawing and the swipe

LEMMA DrawnStep == TypeOK /\ DrawnIsPrefix /\ [Step]_vars => DrawnIsPrefix'
<1> SUFFICES ASSUME TypeOK, DrawnIsPrefix, [Step]_vars PROVE DrawnIsPrefix' OBVIOUS
<1>0. /\ load \in [Loads -> LoadRecord]
      /\ refImagenesUsuario \in Seq(UserImage)
      /\ screen.rows \in Seq(UserImage)
  BY DEF TypeOK, Screen
<1>1. ASSUME reset' = reset, screen' = screen, refImagenesUsuario' = refImagenesUsuario
      PROVE  DrawnIsPrefix'
  BY <1>1 DEF DrawnIsPrefix
<1>2. ASSUME reset' = reset, screen' = screen, NEW l \in Loads, NEW d \in Dates,
             refImagenesUsuario' = Append(refImagenesUsuario, Row(l, d))
      PROVE  DrawnIsPrefix'
  <2>1. Row(l, d) \in UserImage
    BY <1>0 DEF Row, UserImage, LoadRecord
  <2>2. /\ Len(refImagenesUsuario') = Len(refImagenesUsuario) + 1
        /\ \A i \in 1..Len(refImagenesUsuario) : refImagenesUsuario'[i] = refImagenesUsuario[i]
    BY <1>0, <1>2, <2>1
  <2> QED BY <1>0, <1>2, <2>2 DEF DrawnIsPrefix
<1>3. ASSUME NEW l \in Loads, ClearAndAsk(l) PROVE DrawnIsPrefix'
  BY <1>3 DEF ClearAndAsk, DrawnIsPrefix
<1>4. CASE Redraw
  <2>1. screen'.rows = <<>> \/ screen'.rows = refImagenesUsuario
    BY <1>4 DEF Redraw, Drawing
  <2>2. refImagenesUsuario' = refImagenesUsuario
    BY <1>4 DEF Redraw, appVars
  <2> QED BY <1>0, <2>1, <2>2 DEF DrawnIsPrefix
<1>5. ASSUME NEW l \in Loads, LoadNext(l) PROVE DrawnIsPrefix'
  BY <1>1, <1>2, <1>3, <1>5
     DEF LoadNext, Appear, SwipeReload, SetLoading, SetEmpty, QueryFails, QueryAnswers, FetchFails,
         FetchSucceeds, FetchRacesClear, appVars
<1>6. ASSUME NEW s \in Saves, SaveNext(s) PROVE DrawnIsPrefix'
  BY <1>1, <1>6
     DEF SaveNext, UploadStorage, PutFails, UploadData, WriteFails, WriteSucceeds, appVars
<1> QED BY <1>1, <1>4, <1>5, <1>6 DEF Step, DeleteRow, vars, appVars

LEMMA SwipeStep == TypeOK /\ DrawnIsPrefix /\ SwipeHitsShown /\ [Step]_vars => SwipeHitsShown'
<1> SUFFICES ASSUME TypeOK, DrawnIsPrefix, SwipeHitsShown, [Step]_vars PROVE SwipeHitsShown'
  OBVIOUS
<1>1. ASSUME deletes' = deletes PROVE SwipeHitsShown'
  BY <1>1 DEF SwipeHitsShown
<1>2. ASSUME NEW l \in Loads, NEW i \in DOMAIN screen.rows, DeleteRow(i, l)
      PROVE  SwipeHitsShown'
  <2> DEFINE hit == IF i \in DOMAIN refImagenesUsuario THEN refImagenesUsuario[i].date ELSE NoDate
  <2>1. deletes' = deletes \cup {[shown |-> screen.rows[i].date, hit |-> hit, reset |-> reset]}
    BY <1>2 DEF DeleteRow
  <2>2. ~reset => hit = screen.rows[i].date
    <3>1. /\ DOMAIN screen.rows = 1..Len(screen.rows) /\ Len(screen.rows) \in Nat
          /\ DOMAIN refImagenesUsuario = 1..Len(refImagenesUsuario)
          /\ Len(refImagenesUsuario) \in Nat
      BY DEF TypeOK, Screen
    <3> QED BY <3>1 DEF DrawnIsPrefix
  <2>3. reset \in BOOLEAN
    BY DEF TypeOK
  <2> HIDE DEF hit
  <2> QED BY <2>1, <2>2, <2>3 DEF SwipeHitsShown
<1> QED BY <1>1, <1>2
        DEF Step, LoadNext, Appear, SwipeReload, SetLoading, SetEmpty, ClearAndAsk, QueryFails, QueryAnswers,
            FetchFails, FetchSucceeds, FetchRacesClear, SaveNext, UploadStorage, PutFails,
            UploadData, WriteFails, WriteSucceeds, Redraw, vars

-----------------------------------------------------------------------------
\* The reload that no other overlaps

LEMMA AloneStep ==
  TypeOK /\ FetchesSound /\ OwnerHasAsked /\ SoloIsAlone /\ [Step]_vars => SoloIsAlone'
<1> SUFFICES ASSUME TypeOK, FetchesSound, OwnerHasAsked, SoloIsAlone, [Step]_vars
             PROVE  SoloIsAlone'
  OBVIOUS
<1>0. load \in [Loads -> LoadRecord] /\ save \in [Saves -> SaveRecord]
  BY DEF TypeOK
\* Nothing starts or empties the array, and no answer comes.
<1>K. ASSUME owner' = owner,
             \A k \in Loads : /\ load'[k].solo = load[k].solo
                              /\ Running(k)' => Running(k)
                              /\ load[k].fetching = {} => load'[k].fetching = {}
                              /\ load[k].pc # "asking" => load'[k].pc # "asking"
      PROVE  SoloIsAlone'
  BY <1>K DEF SoloIsAlone
<1>S. ASSUME load' = load, owner' = owner PROVE SoloIsAlone'
  BY <1>K, <1>S DEF Running
<1>1. ASSUME NEW l \in Loads, NEW e \in Emails, Calls(l, e), owner' = owner PROVE SoloIsAlone'
  <2> SUFFICES ASSUME NEW j \in Loads, NEW k \in Loads, j # k, load'[j].solo
               PROVE  /\ Running(j)' => ~Running(k)'
                      /\ owner' = j => load'[k].fetching = {} /\ load'[k].pc # "asking"
    BY DEF SoloIsAlone
  <2>1. CASE j = l
    <3>1. owner # l
      BY <1>0, <1>1, CallEffect DEF OwnerHasAsked
    <3>2. ~Running(k)
      BY <1>0, <1>1, <2>1, CallEffect
    <3>3. load'[k].pc = load[k].pc /\ load'[k].fetching = load[k].fetching
      BY <1>0, <1>1, <2>1, CallEffect
    <3> QED BY <1>1, <2>1, <3>1, <3>2, <3>3 DEF Running
  <2>2. CASE j # l
    <3>1. /\ load[j].solo /\ ~Running(j)
          /\ load'[j].pc = load[j].pc /\ load'[j].fetching = load[j].fetching
      BY <1>0, <1>1, <2>2, CallEffect
    <3>2. \/ load'[k].fetching = {} /\ load'[k].pc = "ready"
          \/ load'[k].fetching = load[k].fetching /\ load'[k].pc = load[k].pc
      BY <1>0, <1>1, CallEffect
    <3>3. owner = j => load[k].fetching = {} /\ load[k].pc # "asking"
      BY <3>1 DEF SoloIsAlone
    <3> QED BY <1>1, <3>1, <3>2, <3>3 DEF Running
  <2> QED BY <2>1, <2>2
<1>2. ASSUME NEW l \in Loads, SetLoading(l) \/ SetEmpty(l) \/ QueryFails(l) PROVE SoloIsAlone'
  BY <1>0, <1>2, <1>K, GotoEffect DEF SetLoading, SetEmpty, QueryFails, At, Running
<1>3. ASSUME NEW l \in Loads, ClearAndAsk(l) PROVE SoloIsAlone'
  <2>1. /\ load[l].pc = "marked" /\ owner' = l
        /\ \A k \in Loads : /\ load'[k].solo = load[k].solo
                            /\ load'[k].fetching = load[k].fetching
        /\ \A k \in Loads \ {l} : load'[k] = load[k]
    BY <1>0, <1>3, GotoEffect DEF ClearAndAsk, At
  <2>2. \A k \in Loads : Running(k)' => Running(k)
    BY <2>1 DEF Running
  <2>3. Running(l)
    BY <2>1 DEF Running
  <2> QED BY <2>1, <2>2, <2>3 DEF SoloIsAlone, Running
<1>4. ASSUME NEW l \in Loads, NEW files \in FilesSnapshots, QueryAnswers(l, files)
      PROVE  SoloIsAlone'
  <2>1. /\ load[l].pc = "asking" /\ load'[l].pc = "answered" /\ owner' = owner
        /\ \A k \in Loads : load'[k].solo = load[k].solo
        /\ \A k \in Loads \ {l} : load'[k] = load[k]
    BY <1>0, <1>4, AnswerEffect DEF QueryAnswers
  <2>2. \A k \in Loads : Running(k)' => Running(k)
    BY <2>1 DEF Running
  <2> QED BY <2>1, <2>2 DEF SoloIsAlone
<1>5. ASSUME NEW l \in Loads, NEW d \in Dates, FetchFails(l, d) PROVE SoloIsAlone'
  BY <1>0, <1>5, <1>K, FetchFailsEffect DEF FetchFails, Running
<1>6. ASSUME NEW l \in Loads, NEW d \in Dates, FetchSucceeds(l, d) PROVE SoloIsAlone'
  <2>1. /\ d \in load[l].fetching /\ load' = Fetched(l, d) /\ owner' = owner
    BY <1>6 DEF FetchSucceeds
  <2> QED BY <1>0, <1>K, <2>1, FetchedEffect DEF Running
<1>7. ASSUME NEW l \in Loads, NEW d \in Dates, NEW k \in Loads, FetchRacesClear(l, d, k)
      PROVE  SoloIsAlone'
  <2>1. owner' = k
    BY <1>7 DEF FetchRacesClear
  <2>2. Running(k) /\ Running(l) /\ k # l /\ load'[k].solo = load[k].solo
    BY <1>7, RaceEffect DEF Running
  <2>3. ~load'[k].solo
    BY <2>2 DEF SoloIsAlone
  <2>4. \A j \in Loads : load'[j].solo = load[j].solo /\ (Running(j)' => Running(j))
    BY <1>7, RaceEffect DEF Running
  <2> QED BY <2>1, <2>3, <2>4 DEF SoloIsAlone
<1>8. ASSUME NEW l \in Loads, LoadNext(l) PROVE SoloIsAlone'
  BY <1>1, <1>2, <1>3, <1>4, <1>5, <1>6, <1>7, <1>8 DEF LoadNext, Appear, SwipeReload, Spawn, At, Calls
<1>9. ASSUME NEW s \in Saves, SaveNext(s) PROVE SoloIsAlone'
  BY <1>0, <1>1, <1>9, <1>S
     DEF SaveNext, UploadStorage, PutFails, UploadData, WriteFails, WriteSucceeds, Spawn, Calls,
         SaveRecord
<1>D. ASSUME NEW l \in Loads, NEW i \in DOMAIN screen.rows, DeleteRow(i, l) PROVE SoloIsAlone'
  BY <1>0, <1>D, SwipeEffect, <1>K
<1> QED BY <1>D, <1>8, <1>9, <1>S DEF Step, Redraw, vars

LEMMA SoloRowsStep ==
  TypeOK /\ FetchesSound /\ OwnerHasAsked /\ SoloIsAlone /\ SoloRows /\ [Step]_vars => SoloRows'
<1> SUFFICES ASSUME TypeOK, FetchesSound, OwnerHasAsked, SoloIsAlone, SoloRows, [Step]_vars
             PROVE  SoloRows'
  OBVIOUS
<1>0. /\ load \in [Loads -> LoadRecord] /\ save \in [Saves -> SaveRecord]
      /\ refImagenesUsuario \in Seq(UserImage)
  BY DEF TypeOK
<1>K. ASSUME owner' = owner, refImagenesUsuario' = refImagenesUsuario,
             \A k \in Loads : owner = k /\ load'[k].solo => load[k].solo
      PROVE  SoloRows'
  BY <1>K DEF SoloRows
<1>S. ASSUME load' = load, owner' = owner, refImagenesUsuario' = refImagenesUsuario PROVE SoloRows'
  BY <1>K, <1>S
<1>1. ASSUME NEW l \in Loads, NEW e \in Emails, Calls(l, e), owner' = owner,
             refImagenesUsuario' = refImagenesUsuario
      PROVE  SoloRows'
  <2>1. owner # l
    BY <1>0, <1>1, CallEffect DEF OwnerHasAsked
  <2>2. \A k \in Loads \ {l} : load'[k].solo => load[k].solo
    BY <1>0, <1>1, CallEffect
  <2> QED BY <1>1, <1>K, <2>1, <2>2
<1>2. ASSUME NEW l \in Loads, SetLoading(l) \/ SetEmpty(l) \/ QueryFails(l) PROVE SoloRows'
  <2>1. \A k \in Loads : load'[k].solo = load[k].solo
    BY <1>0, <1>2, GotoEffect DEF SetLoading, SetEmpty, QueryFails
  <2> QED BY <1>2, <1>K, <2>1 DEF SetLoading, SetEmpty, QueryFails
<1>3. ASSUME NEW l \in Loads, ClearAndAsk(l) PROVE SoloRows'
  BY <1>3 DEF ClearAndAsk, SoloRows
<1>4. ASSUME NEW l \in Loads, NEW files \in FilesSnapshots, QueryAnswers(l, files)
      PROVE  SoloRows'
  <2>1. \A k \in Loads : load'[k].solo = load[k].solo
    BY <1>0, <1>4, AnswerEffect
  <2> QED BY <1>4, <1>K, <2>1 DEF QueryAnswers
<1>5. ASSUME NEW l \in Loads, NEW d \in Dates, FetchFails(l, d) PROVE SoloRows'
  <2>1. \A k \in Loads : load'[k].solo = load[k].solo
    BY <1>0, <1>5, FetchFailsEffect
  <2> QED BY <1>5, <1>K, <2>1 DEF FetchFails, appVars
<1>6. ASSUME NEW l \in Loads, NEW d \in Dates, FetchSucceeds(l, d) PROVE SoloRows'
  <2>1. /\ d \in load[l].fetching /\ load' = Fetched(l, d) /\ owner' = owner
        /\ refImagenesUsuario' = Append(refImagenesUsuario, Row(l, d))
    BY <1>6 DEF FetchSucceeds
  <2>2. Row(l, d) \in UserImage /\ Row(l, d).from = l
    BY <1>0 DEF Row, UserImage, LoadRecord
  <2>3. \A k \in Loads : load'[k].solo = load[k].solo
    BY <1>0, <2>1, FetchedEffect
  <2>4. \A k \in Loads : owner = k /\ load[k].solo => k = l
    BY <2>1 DEF SoloIsAlone
  <2>5. \A i \in 1..Len(refImagenesUsuario') :
          \/ i \in 1..Len(refImagenesUsuario) /\ refImagenesUsuario'[i] = refImagenesUsuario[i]
          \/ refImagenesUsuario'[i] = Row(l, d)
    BY <1>0, <2>1, <2>2
  <2> QED BY <2>1, <2>2, <2>3, <2>4, <2>5 DEF SoloRows
<1>7. ASSUME NEW l \in Loads, NEW d \in Dates, NEW k \in Loads, FetchRacesClear(l, d, k)
      PROVE  SoloRows'
  <2>1. owner' = k
    BY <1>7 DEF FetchRacesClear
  <2>2. Running(k) /\ Running(l) /\ k # l /\ load'[k].solo = load[k].solo
    BY <1>7, RaceEffect DEF Running
  <2>3. ~load'[k].solo
    BY <2>2 DEF SoloIsAlone
  <2> QED BY <2>1, <2>3 DEF SoloRows
<1>8. ASSUME NEW l \in Loads, LoadNext(l) PROVE SoloRows'
  BY <1>1, <1>2, <1>3, <1>4, <1>5, <1>6, <1>7, <1>8 DEF LoadNext, Appear, SwipeReload, Spawn, At, Calls, appVars
<1>9. ASSUME NEW s \in Saves, SaveNext(s) PROVE SoloRows'
  BY <1>0, <1>1, <1>9, <1>S
     DEF SaveNext, UploadStorage, PutFails, UploadData, WriteFails, WriteSucceeds, Spawn, Calls,
         SaveRecord, appVars
<1>D. ASSUME NEW l \in Loads, NEW i \in DOMAIN screen.rows, DeleteRow(i, l) PROVE SoloRows'
  BY <1>0, <1>D, SwipeEffect, <1>K DEF appVars
<1> QED BY <1>D, <1>8, <1>9, <1>S DEF Step, Redraw, vars, appVars

LEMMA SoloOwnsStep ==
  /\ TypeOK /\ FetchesSound /\ RowsAccountedFor /\ SoloIsAlone /\ SoloOwns /\ [Step]_vars
  => SoloOwns'
<1> SUFFICES ASSUME TypeOK, FetchesSound, RowsAccountedFor, SoloIsAlone, SoloOwns, [Step]_vars
             PROVE  SoloOwns'
  OBVIOUS
<1>0. /\ load \in [Loads -> LoadRecord] /\ save \in [Saves -> SaveRecord]
      /\ refImagenesUsuario \in Seq(UserImage)
      /\ \A i \in 1..Len(refImagenesUsuario) :
           refImagenesUsuario[i] \in UserImage /\ refImagenesUsuario[i].from \in Loads
  <2>1. /\ load \in [Loads -> LoadRecord] /\ save \in [Saves -> SaveRecord]
        /\ refImagenesUsuario \in Seq(UserImage)
    BY DEF TypeOK
  <2>2. \A i \in 1..Len(refImagenesUsuario) : refImagenesUsuario[i] \in UserImage
    BY <2>1
  <2>3. \A row \in UserImage : row.from \in Loads
    BY DEF UserImage
  <2> QED BY <2>1, <2>2, <2>3
<1>K. ASSUME owner' = owner, refImagenesUsuario' = refImagenesUsuario,
             \A k \in Loads : /\ load'[k].solo => load[k].solo
                              /\ load'[k].fetching # {} => load[k].fetching # {} \/ load[k].pc = "asking"
                              /\ load'[k].pc = "asking" => load[k].pc = "asking"
      PROVE  SoloOwns'
  BY <1>0, <1>K DEF SoloOwns
<1>S. ASSUME load' = load, owner' = owner, refImagenesUsuario' = refImagenesUsuario PROVE SoloOwns'
  BY <1>K, <1>S
<1>1. ASSUME NEW l \in Loads, NEW e \in Emails, Calls(l, e), owner' = owner,
             refImagenesUsuario' = refImagenesUsuario
      PROVE  SoloOwns'
  <2>1. \A k \in Loads \ {l} : /\ load'[k].solo => load[k].solo
                               /\ load'[k].fetching = load[k].fetching
                               /\ load'[k].pc = load[k].pc
    BY <1>0, <1>1, CallEffect
  <2>2. load'[l].fetching = {} /\ load'[l].pc = "ready" /\ load[l].got = {}
    BY <1>0, <1>1, CallEffect DEF FetchesSound
  <2>3. \A i \in 1..Len(refImagenesUsuario) : refImagenesUsuario[i].from # l
    BY <1>0, <2>2 DEF RowsAccountedFor
  <2> QED BY <1>0, <1>1, <2>1, <2>2, <2>3 DEF SoloOwns
<1>2. ASSUME NEW l \in Loads, SetLoading(l) \/ SetEmpty(l) \/ QueryFails(l) PROVE SoloOwns'
  BY <1>0, <1>2, <1>K, GotoEffect DEF SetLoading, SetEmpty, QueryFails
<1>3. ASSUME NEW l \in Loads, ClearAndAsk(l) PROVE SoloOwns'
  <2>1. /\ load[l].pc = "marked" /\ owner' = l /\ refImagenesUsuario' = <<>>
        /\ \A k \in Loads : /\ load'[k].solo = load[k].solo
                            /\ load'[k].fetching = load[k].fetching
        /\ \A k \in Loads \ {l} : load'[k].pc = load[k].pc
    BY <1>0, <1>3, GotoEffect DEF ClearAndAsk, At
  <2>2. \A k \in Loads \ {l} : load[k].solo => load[k].fetching = {} /\ load[k].pc # "asking"
    BY <2>1 DEF SoloIsAlone, Running
  <2> QED BY <2>1, <2>2 DEF SoloOwns
<1>4. ASSUME NEW l \in Loads, NEW files \in FilesSnapshots, QueryAnswers(l, files)
      PROVE  SoloOwns'
  BY <1>0, <1>4, <1>K, AnswerEffect DEF QueryAnswers
<1>5. ASSUME NEW l \in Loads, NEW d \in Dates, FetchFails(l, d) PROVE SoloOwns'
  BY <1>0, <1>5, <1>K, FetchFailsEffect DEF FetchFails, appVars
<1>6. ASSUME NEW l \in Loads, NEW d \in Dates, FetchSucceeds(l, d) PROVE SoloOwns'
  <2>1. /\ d \in load[l].fetching /\ load' = Fetched(l, d) /\ owner' = owner
        /\ refImagenesUsuario' = Append(refImagenesUsuario, Row(l, d))
    BY <1>6 DEF FetchSucceeds
  <2>2. Row(l, d) \in UserImage /\ Row(l, d).from = l
    BY <1>0 DEF Row, UserImage, LoadRecord
  <2>3. \A k \in Loads : /\ load'[k].solo = load[k].solo /\ load'[k].pc = load[k].pc
                         /\ load'[k].fetching # {} => load[k].fetching # {}
    BY <1>0, <2>1, FetchedEffect
  <2>4. load[l].solo => owner = l
    BY <2>1 DEF SoloOwns
  <2>5. \A i \in 1..Len(refImagenesUsuario') :
          \/ i \in 1..Len(refImagenesUsuario) /\ refImagenesUsuario'[i] = refImagenesUsuario[i]
          \/ refImagenesUsuario'[i] = Row(l, d)
    BY <1>0, <2>1, <2>2
  <2> QED BY <1>0, <2>1, <2>2, <2>3, <2>4, <2>5 DEF SoloOwns
<1>7. ASSUME NEW l \in Loads, NEW d \in Dates, NEW k \in Loads, FetchRacesClear(l, d, k)
      PROVE  SoloOwns'
  <2>1. owner' = k /\ refImagenesUsuario' = Append(refImagenesUsuario, Row(l, d))
    BY <1>7 DEF FetchRacesClear
  <2>2. Running(k) /\ Running(l) /\ k # l /\ load[l].fetching # {}
    BY <1>7, RaceEffect DEF Running
  <2>3. ~load[k].solo /\ ~load[l].solo
    BY <2>2 DEF SoloIsAlone
  <2>4. \A j \in Loads : load'[j].solo = load[j].solo
    BY <1>7, RaceEffect
  <2>5. \A j \in Loads : load'[j].solo => load'[j].fetching = {} /\ load'[j].pc # "asking"
    <3> SUFFICES ASSUME NEW j \in Loads, load[j].solo
                 PROVE  load'[j].fetching = {} /\ load'[j].pc # "asking"
      BY <2>4
    <3>1. j # k /\ j # l /\ ~Running(j)
      BY <2>2, <2>3 DEF SoloIsAlone
    <3> QED BY <1>7, <3>1, RaceEffect DEF Running
  <2>6. \A i \in 1..Len(refImagenesUsuario) : ~load[refImagenesUsuario[i].from].solo
    BY <1>0, <2>2, <2>3 DEF SoloOwns, SoloIsAlone
  <2>7. Row(l, d) \in UserImage /\ Row(l, d).from = l
    BY <1>0 DEF Row, UserImage, LoadRecord
  <2>8. \A i \in 1..Len(refImagenesUsuario') :
          \/ i \in 1..Len(refImagenesUsuario) /\ refImagenesUsuario'[i] = refImagenesUsuario[i]
          \/ refImagenesUsuario'[i] = Row(l, d)
    BY <1>0, <2>1, <2>7
  <2>9. \A i \in 1..Len(refImagenesUsuario') : ~load'[refImagenesUsuario'[i].from].solo
    BY <1>0, <2>3, <2>4, <2>6, <2>7, <2>8
  <2> QED BY <2>5, <2>9 DEF SoloOwns
<1>8. ASSUME NEW l \in Loads, LoadNext(l) PROVE SoloOwns'
  BY <1>1, <1>2, <1>3, <1>4, <1>5, <1>6, <1>7, <1>8
     DEF LoadNext, Appear, SwipeReload, Spawn, At, Calls, appVars
<1>9. ASSUME NEW s \in Saves, SaveNext(s) PROVE SoloOwns'
  BY <1>0, <1>1, <1>9, <1>S
     DEF SaveNext, UploadStorage, PutFails, UploadData, WriteFails, WriteSucceeds, Spawn, Calls,
         SaveRecord, appVars
<1>D. ASSUME NEW l \in Loads, NEW i \in DOMAIN screen.rows, DeleteRow(i, l) PROVE SoloOwns'
  BY <1>0, <1>D, SwipeEffect, <1>K DEF appVars
<1> QED BY <1>D, <1>8, <1>9, <1>S DEF Step, Redraw, vars, appVars

LEMMA EmptyStep ==
  /\ TypeOK /\ FetchesSound /\ OwnerHasAsked /\ SoloIsAlone
  /\ SoloMarkedEmpty /\ EmptyFlagHonest /\ [Step]_vars
  => SoloMarkedEmpty' /\ EmptyFlagHonest'
<1> SUFFICES ASSUME TypeOK, FetchesSound, OwnerHasAsked, SoloIsAlone,
                    SoloMarkedEmpty, EmptyFlagHonest, [Step]_vars
             PROVE  SoloMarkedEmpty' /\ EmptyFlagHonest'
  OBVIOUS
<1> DEFINE Goal == SoloMarkedEmpty /\ EmptyFlagHonest
<1>0. load \in [Loads -> LoadRecord] /\ save \in [Saves -> SaveRecord] /\ empty \in BOOLEAN
  BY DEF TypeOK
<1>S. ASSUME load' = load, owner' = owner, empty' = empty PROVE Goal'
  BY <1>S DEF SoloMarkedEmpty, EmptyFlagHonest, Running
<1>1. ASSUME NEW l \in Loads, NEW e \in Emails, Calls(l, e), owner' = owner, empty' = empty
      PROVE  Goal'
  <2>1. owner # l /\ Running(l)'
    BY <1>0, <1>1, CallEffect DEF OwnerHasAsked, Running
  <2>2. /\ load'[l].pc = "ready"
        /\ \A k \in Loads \ {l} : load'[k].pc = load[k].pc /\ (load'[k].solo => load[k].solo)
    BY <1>0, <1>1, CallEffect
  <2> QED BY <1>1, <2>1, <2>2 DEF SoloMarkedEmpty, EmptyFlagHonest
<1>2. ASSUME NEW l \in Loads, SetLoading(l) \/ SetEmpty(l) PROVE Goal'
  <2>1. owner # l /\ Running(l)' /\ owner' = owner
    BY <1>0, <1>2, GotoEffect DEF OwnerHasAsked, Running, SetLoading, SetEmpty, At
  <2>2. EmptyFlagHonest'
    BY <2>1 DEF EmptyFlagHonest
  <2>3. SoloMarkedEmpty'
    BY <1>0, <1>2, GotoEffect DEF SoloMarkedEmpty, SetLoading, SetEmpty, At
  <2> QED BY <2>2, <2>3
<1>3. ASSUME NEW l \in Loads, ClearAndAsk(l) PROVE Goal'
  <2>1. /\ owner' = l /\ empty' = empty /\ load[l].pc = "marked" /\ load'[l].pc = "asking"
        /\ load'[l].found = load[l].found /\ load'[l].solo = load[l].solo
        /\ \A k \in Loads \ {l} : load'[k] = load[k]
    BY <1>0, <1>3, GotoEffect DEF ClearAndAsk, At
  <2>2. load[l].found = {}
    BY <2>1 DEF FetchesSound
  <2>3. load[l].solo => empty
    BY <2>1 DEF SoloMarkedEmpty
  <2> QED BY <2>1, <2>2, <2>3 DEF SoloMarkedEmpty, EmptyFlagHonest
<1>4. ASSUME NEW l \in Loads, QueryFails(l) PROVE Goal'
  <2>1. /\ owner' = owner /\ empty' = empty /\ load[l].pc = "asking" /\ load'[l].pc = "failed"
        /\ load'[l].found = load[l].found /\ load'[l].solo = load[l].solo
        /\ \A k \in Loads \ {l} : load'[k] = load[k]
    BY <1>0, <1>4, GotoEffect DEF QueryFails, At
  <2>2. \A k \in Loads : owner = k /\ load[k].solo => k = l
    BY <2>1 DEF SoloIsAlone
  <2>3. \A k \in Loads \ {l} : Running(k)' <=> Running(k)
    BY <2>1 DEF Running
  <2> QED BY <2>1, <2>2, <2>3 DEF SoloMarkedEmpty, EmptyFlagHonest
<1>5. ASSUME NEW l \in Loads, NEW files \in FilesSnapshots, QueryAnswers(l, files) PROVE Goal'
  <2>1. /\ owner' = owner /\ load[l].pc = "asking" /\ load'[l].pc = "answered"
        /\ load'[l].solo = load[l].solo /\ empty' = (empty /\ load'[l].found = {})
        /\ \A k \in Loads \ {l} : load'[k] = load[k]
    BY <1>0, <1>5, AnswerEffect DEF QueryAnswers
  <2>2. \A k \in Loads : owner = k /\ load[k].solo => k = l
    BY <2>1 DEF SoloIsAlone
  <2>3. \A k \in Loads \ {l} : Running(k)' <=> Running(k)
    BY <2>1 DEF Running
  <2>4. load[l].found = {}
    BY <2>1 DEF FetchesSound
  <2>5. EmptyFlagHonest'
    BY <1>0, <2>1, <2>2, <2>3, <2>4 DEF EmptyFlagHonest
  <2>6. SoloMarkedEmpty'
    <3>1. \A k \in Loads \ {l} : load[k].solo => load[k].pc # "marked"
      BY <2>1 DEF SoloIsAlone, Running
    <3> QED BY <2>1, <3>1 DEF SoloMarkedEmpty
  <2> QED BY <2>5, <2>6
<1>6. ASSUME NEW l \in Loads, NEW d \in Dates, FetchFails(l, d) \/ FetchSucceeds(l, d) PROVE Goal'
  <2>1. /\ owner' = owner /\ empty' = empty /\ d \in load[l].fetching
        /\ load'[l].pc = load[l].pc
        /\ load'[l].found = load[l].found /\ load'[l].solo = load[l].solo
        /\ \A k \in Loads \ {l} : load'[k] = load[k]
    BY <1>0, <1>6, FetchFailsEffect, FetchedEffect DEF FetchFails, FetchSucceeds, appVars
  <2>2. \A k \in Loads : owner = k /\ load[k].solo => k = l
    BY <2>1 DEF SoloIsAlone
  <2>3. \A k \in Loads \ {l} : Running(k)' <=> Running(k)
    BY <2>1 DEF Running
  <2> QED BY <2>1, <2>2, <2>3 DEF SoloMarkedEmpty, EmptyFlagHonest
<1>7. ASSUME NEW l \in Loads, NEW d \in Dates, NEW k \in Loads, FetchRacesClear(l, d, k) PROVE Goal'
  <2>1. owner' = k /\ empty' = empty
    BY <1>7 DEF FetchRacesClear
  <2>2. Running(k) /\ Running(l) /\ k # l /\ load'[k].solo = load[k].solo
    BY <1>7, RaceEffect DEF Running
  <2>3. ~load'[k].solo
    BY <2>2 DEF SoloIsAlone
  <2>4. \A j \in Loads : load'[j].solo = load[j].solo /\ (load'[j].pc = "marked" => load[j].pc = "marked")
    BY <1>7, RaceEffect
  <2> QED BY <2>1, <2>3, <2>4 DEF SoloMarkedEmpty, EmptyFlagHonest
<1>D. ASSUME NEW l \in Loads, NEW i \in DOMAIN screen.rows, DeleteRow(i, l) PROVE Goal'
  BY <1>0, <1>D, SwipeEffect DEF SoloMarkedEmpty, EmptyFlagHonest, appVars
<1> HIDE DEF Goal
<1>8. ASSUME NEW l \in Loads, LoadNext(l) PROVE Goal'
  BY <1>1, <1>2, <1>3, <1>4, <1>5, <1>6, <1>7, <1>8 DEF LoadNext, Appear, SwipeReload, Spawn, At, Calls, appVars
<1>9. ASSUME NEW s \in Saves, SaveNext(s) PROVE Goal'
  BY <1>0, <1>1, <1>9, <1>S
     DEF SaveNext, UploadStorage, PutFails, UploadData, WriteFails, WriteSucceeds, Spawn, Calls,
         SaveRecord, appVars
<1>10. Goal'
  BY <1>D, <1>8, <1>9, <1>S DEF Step, Redraw, vars, appVars
<1> QED BY <1>10 DEF Goal

-----------------------------------------------------------------------------
\* The theorems

LEMMA InitIInv == Init => IInv
<1> SUFFICES ASSUME Init PROVE IInv OBVIOUS
<1>1. /\ refImagenesUsuario = <<>> /\ ~loading /\ empty /\ owner = NoLoad /\ deletes = {}
      /\ \A l \in Loads : /\ load[l].pc = "unused" /\ ~load[l].solo
                          /\ load[l].fetching = {} /\ load[l].found = {} /\ load[l].got = {}
  BY DEF Init, NoCall
<1>2. screen.rows = <<>>
  BY <1>1 DEF Init, Drawing
<1>3. FetchesSound /\ OwnerHasAsked /\ SoloIsAlone /\ SoloRows /\ SoloOwns /\ SoloMarkedEmpty
  BY <1>1, NoLoadAssumption
     DEF FetchesSound, OwnerHasAsked, SoloIsAlone, SoloRows, SoloOwns, SoloMarkedEmpty
<1>4. ListComplete /\ RowsAccountedFor /\ DrawnIsPrefix
  BY <1>1, <1>2 DEF ListComplete, RowsAccountedFor, DrawnIsPrefix
<1>5. LoadingHasACause /\ SwipeHitsShown /\ EmptyFlagHonest
  BY <1>1 DEF LoadingHasACause, SwipeHitsShown, EmptyFlagHonest
<1> QED BY InitType, <1>3, <1>4, <1>5 DEF IInv

LEMMA StepIInv == IInv /\ [Step]_vars => IInv'
BY NextType, LoadingStep, FetchesStep, OwnerStep, ListStep, RowsStep, DrawnStep, SwipeStep,
   AloneStep, SoloRowsStep, SoloOwnsStep, EmptyStep
   DEF IInv

LEMMA SoloReloadExactFollows == IInv => SoloReloadExact
<1> SUFFICES ASSUME IInv, NEW l \in Loads, owner = l, load[l].solo
             PROVE  ToSet(refImagenesUsuario) = {Row(l, d) : d \in load[l].got}
  BY DEF SoloReloadExact
<1>1. /\ refImagenesUsuario \in Seq(UserImage)
      /\ \A i \in DOMAIN refImagenesUsuario : refImagenesUsuario[i] \in UserImage
  BY DEF IInv, TypeOK
<1>2. ASSUME NEW d \in load[l].got
      PROVE  \E i \in DOMAIN refImagenesUsuario : refImagenesUsuario[i] = Row(l, d)
  BY DEF IInv, ListComplete
<1>3. ASSUME NEW i \in DOMAIN refImagenesUsuario
      PROVE  \E d \in load[l].got : refImagenesUsuario[i] = Row(l, d)
  <2> DEFINE row == refImagenesUsuario[i]
  <2>1. row.from = l
    BY <1>1 DEF IInv, SoloRows
  <2>2. row.date \in load[l].got /\ row.email = load[l].email
    BY <2>1 DEF IInv, RowsAccountedFor
  <2>3. row = Row(l, row.date)
    BY <1>1, <2>1, <2>2 DEF UserImage, Row
  <2> QED BY <2>2, <2>3
<1> QED BY <1>2, <1>3 DEF ToSet

\* A new process begins as the first one did.
LEMMA RestartIsInit == Restart => Init'
BY DEF Restart, Init, Drawing

LEMMA IInvAlways == Spec => []IInv
<1>1. [Next]_vars => [Step]_vars \/ Init'
  BY RestartIsInit DEF Next
<1> QED BY InitIInv, StepIInv, <1>1, PTL DEF Spec

\* The variables keep their types, whatever the interleaving.
THEOREM TypeCorrect == Spec => []TypeOK
<1>1. IInv => TypeOK
  BY DEF IInv
<1> QED BY <1>1, IInvAlways, PTL

\* Whatever calls of getUserData and uploadStorage overlap, the spinner is on
\* only while some callback that turns it off is still to come.
THEOREM SpinnerHasACause == Spec => []LoadingHasACause
<1>1. IInv => LoadingHasACause
  BY DEF IInv
<1> QED BY <1>1, IInvAlways, PTL

\* The list holds every picture fetched by the reload that emptied it last.
THEOREM NothingFetchedIsLost == Spec => []ListComplete
<1>1. IInv => ListComplete
  BY DEF IInv
<1> QED BY <1>1, IInvAlways, PTL

\* Every row comes from one fetch of one reload, with the email of that reload.
THEOREM NoRowFromNowhere == Spec => []RowsAccountedFor
<1>1. IInv => RowsAccountedFor
  BY DEF IInv
<1> QED BY <1>1, IInvAlways, PTL

\* A reload that nothing overlaps leaves exactly what it fetched.
THEOREM LoneReloadIsExact == Spec => []SoloReloadExact
BY SoloReloadExactFollows, IInvAlways, PTL

\* After a reload that nothing overlaps, the flag empty tells the truth.
THEOREM LoneReloadTellsEmpty == Spec => []EmptyFlagHonest
<1>1. IInv => EmptyFlagHonest
  BY DEF IInv
<1> QED BY <1>1, IInvAlways, PTL

\* A swipe goes wrong only across a reload: it traps, or deletes a picture
\* other than the one under the finger, only after the array was emptied.
THEOREM SwipeIsRightWithoutReload == Spec => []SwipeHitsShown
<1>1. IInv => SwipeHitsShown
  BY DEF IInv
<1> QED BY <1>1, IInvAlways, PTL

=============================================================================
