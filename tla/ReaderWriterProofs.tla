------------------------- MODULE ReaderWriterProofs -------------------------
(***************************************************************************)
(* A reader beside serialised pushes, for every capacity and however its   *)
(* loads interleave with the writer's stores: the indices it takes over    *)
(* and uses unchecked are slots of the array.  And as long as jobs and     *)
(* pushes have excluded each other: a reader pulls events in the order of  *)
(* the pushes, and is told of every event it lost.                         *)
(***************************************************************************)
EXTENDS ReaderWriter, AtomicPushProofs

(* The indices of every state_t, the ones under preparation included, are  *)
(* slots of the array: at most one past the ring.                          *)
IndicesInArray ==
  \A r \in StateId : st[r].top \in 0 .. size /\ st[r].bottom \in 0 .. size

(* A step of the composition is a step of AtomicPush or leaves it alone.   *)
LEMMA WriterRefines == [RNext]_allvars /\ TypeOK => [Next]_vars
<1> SUFFICES ASSUME [RNext]_allvars, TypeOK PROVE [Next]_vars
  OBVIOUS
<1>1. ASSUME NEW w \in Writers, WriterCall(w) PROVE push(w)
  <2>1. Begin(w, [data |-> begun + 1, time |-> 0], TRUE) /\ begun + 1 \in Data
    BY <1>1, NumbersAssumption, MaxPushAssumption DEF WriterCall, Begin, TypeOK
  <2> QED
    BY <2>1 DEF push
<1>2. ASSUME NEW w \in Writers, WriterStep(w) PROVE Step(w)
  BY <1>2 DEF WriterStep
<1>3. CASE ReaderStep
  BY <1>3 DEF ReaderStep, ReadPage, ReadBottom, ReadTop, ReadTs, ReadTsT,
     SyncWrapped, SyncStraight, SyncEmpty, Synchronized, PullNext, PullReturn,
     PopReturn, wvars
<1>4. CASE ReaderCall
  BY <1>4 DEF ReaderCall, BeginJob, EndJob, synchronize, pull, pop, Refuse, wvars
<1>5. CASE UNCHANGED allvars
  BY <1>5 DEF allvars, wvars
<1> QED
  BY <1>1, <1>2, <1>3, <1>4, <1>5 DEF RNext, RStep, Next

(* The composition is a behaviour of AtomicPush.                           *)
LEMMA ReaderWriterSpec == RSpec => Spec /\ []TypeOK
<1>1. RInit => Init
  BY DEF RInit
<1>2. Init => TypeOK
  BY InitType
<1> QED
  BY <1>1, <1>2, WriterRefines, TypeStep, PTL DEF RSpec, Spec

(* A serialised push increments an index only when it is in the ring.      *)
LEMMA IndicesStep ==
  TypeOK /\ SerialInv /\ IndicesInArray /\ [Next]_vars => IndicesInArray'
<1> SUFFICES ASSUME TypeOK, SerialInv, IndicesInArray, [Next]_vars
             PROVE  IndicesInArray'
  OBVIOUS
<1>t. /\ st \in [StateId -> State]
      /\ sref \in [Writers -> StateId]
      /\ cur \in [Writers -> Page]
      /\ pc \in [Writers -> pcs]
      /\ size \in Nat
  BY NAssumption DEF TypeOK, size
<1>c. \A w \in Writers : sref[w] \in StateId /\ cur[w].ref \in StateId
  BY <1>t DEF Page
<1>s. \A r \in StateId : /\ st[r] \in State
                         /\ st[r].top \in 0 .. size
                         /\ st[r].bottom \in 0 .. size
  BY <1>t DEF IndicesInArray
<1>w. \A i \in 0 .. size : Wrapped(i) \in 0 .. size
  BY <1>t DEF Wrapped
<1>1. ASSUME NEW w \in Writers, IncTop(w) PROVE IndicesInArray'
  <2>1. pc[w] = "inctop"
    BY <1>1 DEF IncTop, Prepare, Goto
  <2>2. st[sref[w]].top \in Index
    BY <2>1 DEF SerialInv, PreparedSoFar, PublishedInRing, Preparing
  <2>3. st[sref[w]].top + 1 \in 0 .. size
    BY <2>2, NAssumption DEF Index, size
  <2> QED
    BY <1>1, <1>t, <1>c, <1>s, <2>3 DEF IncTop, IndicesInArray, State
<1>2. ASSUME NEW w \in Writers, IncBottom(w) PROVE IndicesInArray'
  <2>1. pc[w] = "incbottom"
    BY <1>2 DEF IncBottom, Prepare, Goto
  <2>2. st[sref[w]].bottom \in Index
    BY <2>1 DEF SerialInv, PreparedSoFar, PublishedInRing, Preparing
  <2>3. st[sref[w]].bottom + 1 \in 0 .. size
    BY <2>2, NAssumption DEF Index, size
  <2> QED
    BY <1>2, <1>t, <1>c, <1>s, <2>3 DEF IncBottom, IndicesInArray, State
<1>3. ASSUME NEW w \in Writers, WrapTop(w) PROVE IndicesInArray'
  BY <1>3, <1>t, <1>c, <1>s, <1>w DEF WrapTop, IndicesInArray, State
<1>4. ASSUME NEW w \in Writers, WrapBottom(w) PROVE IndicesInArray'
  BY <1>4, <1>t, <1>c, <1>s, <1>w DEF WrapBottom, IndicesInArray, State
<1>5. ASSUME NEW w \in Writers, CopyTop(w) \/ CopyBottom(w) PROVE IndicesInArray'
  BY <1>5, <1>t, <1>c, <1>s DEF CopyTop, CopyBottom, IndicesInArray, State
<1>6. ASSUME NEW w \in Writers, CopyPos(w) \/ CopyEvent(w) PROVE IndicesInArray'
  <2>1. CASE CopyPos(w)
    BY <2>1, <1>t, <1>c, <1>s DEF CopyPos, IndicesInArray, State
  <2>2. CASE CopyEvent(w)
    BY <2>2, <1>t, <1>c, <1>s DEF CopyEvent, IndicesInArray, State
  <2> QED
    BY <1>6, <2>1, <2>2
<1>7. CASE UNCHANGED st
  BY <1>7 DEF IndicesInArray
<1> QED
  BY <1>1, <1>2, <1>3, <1>4, <1>5, <1>6, <1>7
  DEF Next, Step, vars, push, push_all, Begin, Load, ReadSlot, Wait, Choose,
      Publish, Retry, WriteData, WriteTime, Fill

(* The reader's types are inductive, given those of the states and slots.  *)
LEMMA ReaderStepTypes ==
  TypeOK /\ IndicesInArray /\ RTypeOK /\ [RNext]_allvars => RTypeOK'
<1> SUFFICES ASSUME TypeOK, IndicesInArray, RTypeOK, [RNext]_allvars
             PROVE  RTypeOK'
  OBVIOUS
<1>n. N \in Nat \ {0} /\ size = N + 1 /\ MaxPush \in Nat /\ MaxTime \in Nat
  BY NAssumption, MaxPushAssumption, TimeAssumption DEF size
<1>a. \A i \in 0 .. size : array[i] \in Event /\ array[i].time \in Time
  <2>1. \A i \in 0 .. size : array[i] \in Event
    BY <1>n DEF TypeOK, SlotArray
  <2> QED
    BY <2>1 DEF Event
<1>p. page.ref \in StateId
  BY DEF TypeOK, Page
<1>d. \A i \in 0 .. size : Dec(i) \in 0 .. size /\ Inc(i) \in 0 .. size
  BY <1>n DEF Dec, Inc
<1>m. mixed' \in BOOLEAN
  <2>1. CASE RNext
    BY <2>1, Zenon DEF RNext
  <2>2. CASE UNCHANGED allvars
    BY <2>2, Zenon DEF allvars, RTypeOK
  <2> QED
    BY <2>1, <2>2
<1> USE <1>m DEF RTypeOK, rpcs
<1>1. CASE ReadPage
  BY <1>1, <1>p DEF ReadPage, window, told
<1>2. CASE ReadBottom \/ ReadTop
  BY <1>2 DEF ReadBottom, ReadTop, window, told, IndicesInArray
<1>3. CASE ReadTs \/ ReadTsT
  BY <1>3, <1>a DEF ReadTs, ReadTsT, window, told
<1>4. CASE SyncWrapped \/ SyncStraight \/ SyncEmpty
  BY <1>4 DEF SyncWrapped, SyncStraight, SyncEmpty, Synchronized, loaded, window
<1>5. CASE PullNext
  BY <1>5, <1>a DEF PullNext, loaded, told
<1>6. CASE PullReturn
  <2>1. event.data \in 0 .. MaxPush
    BY NumbersAssumption DEF Event
  <2> QED
    BY <1>6, <2>1 DEF PullReturn, window, loaded
<1>7. CASE PopReturn
  BY <1>7 DEF PopReturn, window, loaded
<1>8. CASE pull
  BY <1>8, <1>a, <1>d DEF pull, Refuse, loaded, told, window
<1>9. CASE pop
  BY <1>9, <1>a, <1>d DEF pop, Refuse, loaded, told, window
<1>10. CASE BeginJob \/ EndJob \/ synchronize
  BY <1>10 DEF BeginJob, EndJob, synchronize, window, loaded, told
<1>11. CASE UNCHANGED rvars
  BY <1>11 DEF rvars
<1> QED
  BY <1>1, <1>2, <1>3, <1>4, <1>5, <1>6, <1>7, <1>8, <1>9, <1>10, <1>11
  DEF RNext, RStep, ReaderStep, ReaderCall, WriterCall, WriterStep, allvars

(* Beside serialised pushes, whatever the interleaving of loads and        *)
(* stores, every index a reader uses without a check is a slot.            *)
THEOREM ReaderTypeCorrect ==
  ASSUME Serialised
  PROVE  RSpec => []RTypeOK
<1>1. RInit => RTypeOK
  <2>1. RInit => mixed \in BOOLEAN
    BY Zenon DEF RInit
  <2> QED
    BY <2>1, NAssumption, TimeAssumption, DataAssumption, MaxPushAssumption
    DEF RInit, RTypeOK, rpcs, size, Time, Event, NoEvent, StateId
<1>2. Init => IndicesInArray
  BY NAssumption DEF Init, IndicesInArray, size
<1>3. RInit => Init
  BY DEF RInit
<1>4. Spec => []SerialInv
  BY SerialInvariant
<1> QED
  BY <1>1, <1>2, <1>3, <1>4, ReaderWriterSpec, WriterRefines, IndicesStep,
     ReaderStepTypes, PTL DEF RSpec

-----------------------------------------------------------------------------
(* How many pushes ago slot j was last filled, top being tp: the slot at   *)
(* top is the oldest.                                                      *)
Age(j, tp) == IF j = tp THEN size ELSE Length(j, tp)

(* The number of the event in slot j after n pushes; 0 in an unused slot.  *)
Number(j, tp, n) == IF n < Age(j, tp) THEN 0 ELSE n - Age(j, tp) + 1

(* A push gives the slot at top the next number and leaves the others'.    *)
LEMMA NumberPush ==
  ASSUME NEW j \in Index, NEW tp \in Index, NEW n \in Nat
  PROVE  Number(j, Inc(tp), n + 1) = IF j = tp THEN n + 1 ELSE Number(j, tp, n)
  BY NAssumption DEF Number, Age, Length, Inc, Index, size

(* Numbers go up to n; the one in the slot at top comes size pushes before *)
(* the one that will replace it.                                           *)
LEMMA NumberTop ==
  ASSUME NEW j \in Index, NEW tp \in Index, NEW n \in Nat
  PROVE  /\ Number(j, tp, n) \in Nat /\ Number(j, tp, n) <= n
         /\ Number(tp, tp, n) = IF n < size THEN 0 ELSE n - N
         /\ Number(tp, tp, n) <= Number(j, tp, n)
         /\ n >= N => Number(Inc(tp), tp, n) = n - N + 1
  BY NAssumption DEF Number, Age, Length, Inc, Index, size

(* The slot after a used one, up to top, has the next number.              *)
LEMMA NumberNext ==
  ASSUME NEW j \in Index, NEW tp \in Index, NEW n \in Nat,
         Length(j, tp) > 1, Number(j, tp, n) > 0
  PROVE  Number(Inc(j), tp, n) = Number(j, tp, n) + 1
  BY NAssumption DEF Number, Age, Length, Inc, Index, size

-----------------------------------------------------------------------------
(* The published indices after `moves` pushes: from slot 0 until the ring  *)
(* is full, and full ever after.                                           *)
Shape ==
  \/ moves <= N /\ Published.bottom = 0 /\ Published.top = moves
  \/ moves > N /\ Published.bottom = Inc(Published.top)

(* The ring holds the latest events, in the order of their numbers...      *)
Numbered ==
  \A j \in Index : Ring[j].data = Number(j, Published.top, moves)

(* ... and of their times.                                                 *)
Timed ==
  /\ \A j \in Index : Ring[j].time <= clock
  /\ \A j, k \in Index :
       Ring[j].data <= Ring[k].data => Ring[j].time <= Ring[k].time

(* Where the event of a push has its time.                                 *)
Stamped == {"wraptop", "incbottom", "wrapbottom", "event", "cas"}

(* The event under way has the next number and, once it has its time, a    *)
(* later one than every event of the ring.                                 *)
Fresh ==
  /\ begun = IF Unpublished = {} THEN moves ELSE moves + 1
  /\ \A w \in Writers :
       /\ stamps[w] = TRUE
       /\ w \in Unpublished => ev[w].data = moves + 1
       /\ pc[w] \in Stamped =>
            ev[w].time = clock /\ \A j \in Index : Ring[j].time < clock

(* What the reader finds in the buffer.                                    *)
RingInv == Shape /\ Numbered /\ Timed /\ Fresh

(* A compare-and-swap adds the next event.                                 *)
LEMMA RingInvPublish ==
  ASSUME TypeOK, SerialInv, RingInv, NEW w \in Writers, Publish(w)
  PROVE  RingInv'
<1>t. /\ N \in Nat \ {0} /\ moves \in Nat /\ Published.top \in Index
      /\ Published.bottom \in Index /\ clock \in Nat
  BY NAssumption, RingTypes, TimeAssumption DEF TypeOK, Time
<1>1. /\ ev[w] \in Event /\ Ring'[Published.top] = ev[w]
      /\ \A k \in Index : k # Published.top => Ring'[k] = Ring[k]
      /\ Published'.top = Inc(Published.top)
      /\ Published'.bottom = IF Inc(Published.top) = Published.bottom
                             THEN Inc(Published.bottom) ELSE Published.bottom
  BY RingPublished, NAssumption DEF Index
<1>2. /\ pc[w] = "cas" /\ pc'[w] = "data" /\ moves' = moves + 1
      /\ UNCHANGED <<clock, begun, stamps, ev>>
      /\ \A v \in Writers : v # w => pc'[v] = pc[v] /\ pc[v] = "idle"
  BY OthersIdle DEF Publish, Goto, local, TypeOK
<1>3. /\ ev[w].data = moves + 1 /\ ev[w].time = clock
      /\ \A j \in Index : Ring[j].time < clock
      /\ begun = moves + 1
  <2>1. w \in Unpublished
    BY <1>2 DEF Unpublished, Preparing
  <2> QED
    BY <1>2, <2>1 DEF RingInv, Fresh, Stamped
<1>4. Shape'
  BY <1>t, <1>1, <1>2 DEF RingInv, Shape, Inc, Index, size
<1>5. Numbered'
  <2> SUFFICES ASSUME NEW j \in Index
               PROVE  Ring'[j].data = Number(j, Published'.top, moves')
    BY DEF Numbered
  <2>1. Number(j, Published'.top, moves')
          = IF j = Published.top THEN moves + 1 ELSE Number(j, Published.top, moves)
    BY <1>t, <1>1, <1>2, NumberPush
  <2> QED
    BY <1>1, <1>3, <2>1 DEF RingInv, Numbered
<1>6. Timed'
  <2>1. \A j \in Index : /\ Ring[j] \in Event /\ Ring[j].time \in Nat
                         /\ Ring[j].data \in Nat /\ Ring[j].data <= moves
    <3>1. \A j \in Index : Ring[j] \in Event
      BY RingTypes, NAssumption DEF SlotArray, Index
    <3>2. \A j \in Index : Ring[j].data \in Nat /\ Ring[j].data <= moves
      BY <1>t, NumberTop DEF RingInv, Numbered
    <3> QED
      BY <3>1, <3>2, TimeAssumption DEF Event, Time
  <2>2. \A j \in Index : Ring'[j].time <= clock'
    BY <1>t, <1>1, <1>2, <1>3, <2>1
  <2>3. ASSUME NEW j \in Index, NEW k \in Index, Ring'[j].data <= Ring'[k].data
        PROVE  Ring'[j].time <= Ring'[k].time
    <3>1. CASE k = Published.top
      BY <1>t, <1>1, <1>2, <1>3, <2>2, <3>1
    <3>2. CASE k # Published.top /\ j = Published.top
      BY <1>t, <1>1, <1>3, <2>1, <2>3, <3>2
    <3>3. CASE k # Published.top /\ j # Published.top
      BY <1>1, <2>3, <3>3 DEF RingInv, Timed
    <3> QED
      BY <3>1, <3>2, <3>3
  <2> QED
    BY <2>2, <2>3 DEF Timed
<1>7. Fresh'
  <2>1. Unpublished' = {} /\ \A v \in Writers : pc'[v] \notin Stamped
    BY <1>2 DEF Unpublished, Choosing, Preparing, Stamped
  <2> QED
    BY <1>2, <1>3, <2>1 DEF RingInv, Fresh
<1> QED
  BY <1>4, <1>5, <1>6, <1>7 DEF RingInv

(* A step that leaves the ring, the clock and the events under way alone   *)
(* keeps it.                                                               *)
LEMMA RingInvFrame ==
  ASSUME RingInv, Ring' = Ring, Published' = Published,
         UNCHANGED <<moves, clock, begun, stamps, ev, Unpublished>>,
         \A v \in Writers : pc'[v] \in Stamped => pc[v] \in Stamped
  PROVE  RingInv'
<1>1. Shape' /\ Numbered' /\ Timed'
  BY DEF RingInv, Shape, Numbered, Timed
<1>2. Fresh'
  BY DEF RingInv, Fresh
<1> QED
  BY <1>1, <1>2 DEF RingInv

(* Pushes one at a time, each later than the last, keep the ring in order. *)
LEMMA RingInvStep ==
  ASSUME Serialised, 0 \notin Ticks, TypeOK, SerialInv, RingInv, [RNext]_allvars
  PROVE  RingInv'
<1>n. [Next]_vars
  BY WriterRefines
<1>t. /\ pc \in [Writers -> pcs] /\ ev \in [Writers -> Event]
      /\ stamps \in [Writers -> BOOLEAN]
  BY DEF TypeOK
<1>k. ASSUME \A w \in Writers : ~Publish(w)
      PROVE  Ring' = Ring /\ Published' = Published
  BY <1>n, <1>k, RingKept, PublishedKept
<1>1. ASSUME NEW w \in Writers, Publish(w) PROVE RingInv'
  BY <1>1, RingInvPublish
<1>2. ASSUME NEW w \in Writers, WriterCall(w) PROVE RingInv'
  <2>1. /\ pc[w] = "idle" /\ pc' = [pc EXCEPT ![w] = "load"]
        /\ ev' = [ev EXCEPT ![w] = [data |-> begun + 1, time |-> 0]]
        /\ stamps' = [stamps EXCEPT ![w] = TRUE]
        /\ begun' = begun + 1
        /\ UNCHANGED <<page, st, array, clock, moves>>
    BY <1>2 DEF WriterCall, Begin, Goto
  <2>2. \A v \in Writers : pc[v] = "idle"
    BY <1>2, <2>1 DEF WriterCall, Begin, Serialised
  <2>3. Unpublished = {} /\ Unpublished' = {w}
    BY <1>t, <2>1, <2>2 DEF Unpublished, Choosing, Preparing
  <2>4. Ring' = Ring /\ Published' = Published
    BY <2>1 DEF Ring, Published
  <2>5. Shape' /\ Numbered' /\ Timed'
    BY <2>1, <2>4 DEF RingInv, Shape, Numbered, Timed
  <2>6. begun = moves /\ \A v \in Writers : stamps[v] = TRUE
    BY <2>3 DEF RingInv, Fresh
  <2>7. \A v \in Writers : stamps'[v] = TRUE
    BY <1>t, <2>1, <2>6
  <2>8. ev'[w].data = moves' + 1 /\ begun' = moves' + 1
    BY <1>t, <2>1, <2>6
  <2>9. \A v \in Writers : pc'[v] \notin Stamped
    BY <1>t, <2>1, <2>2 DEF Stamped
  <2>10. Fresh'
    BY <2>3, <2>7, <2>8, <2>9 DEF Fresh
  <2> QED
    BY <2>5, <2>10 DEF RingInv
<1>3. ASSUME NEW w \in Writers, IncTop(w) PROVE RingInv'
  <2>1. /\ pc[w] = "inctop" /\ pc' = [pc EXCEPT ![w] = "wraptop"]
        /\ UNCHANGED <<page, array, moves, begun, stamps>>
    BY <1>3 DEF IncTop, Prepare, Goto
  <2>2. stamps[w] = TRUE
    BY DEF RingInv, Fresh
  <2>3. /\ \E d \in Ticks : clock' = clock + d
        /\ ev' = [ev EXCEPT ![w].time = clock']
    BY <1>3, <2>2 DEF IncTop
  <2>4. clock < clock' /\ clock \in Nat /\ clock' \in Nat
    BY <2>3, TicksAssumption, TimeAssumption DEF TypeOK, Time
  <2>5. ~Publish(w) /\ \A v \in Writers : v # w => pc[v] = "idle"
    BY <2>1, OthersIdle DEF Publish, Goto
  <2>6. \A v \in Writers : ~Publish(v)
    BY <2>5 DEF Publish, Goto
  <2>7. Ring' = Ring /\ Published' = Published
    BY <1>k, <2>6
  <2>8. \A j \in Index : Ring[j].time \in Nat /\ Ring[j].time < clock'
    <3>1. \A j \in Index : Ring[j] \in Event
      BY RingTypes, NAssumption DEF SlotArray, Index
    <3>2. \A j \in Index : Ring[j].time \in Nat
      BY <3>1, TimeAssumption DEF Event, Time
    <3>3. \A j \in Index : Ring[j].time <= clock
      BY DEF RingInv, Timed
    <3> QED
      BY <2>4, <3>2, <3>3
  <2>9. Shape' /\ Numbered'
    BY <2>1, <2>7 DEF RingInv, Shape, Numbered
  <2>10. Timed'
    BY <2>4, <2>7, <2>8 DEF RingInv, Timed
  <2>11. Unpublished' = Unpublished
    BY <1>t, <2>1 DEF Unpublished, Preparing
  <2>12. ev'[w].time = clock' /\ \A v \in Writers : ev'[v].data = ev[v].data
    BY <1>t, <2>3 DEF Event
  <2>13. \A v \in Writers : pc'[v] \in Stamped => v = w
    BY <1>t, <2>1, <2>5 DEF Stamped
  <2>14. Fresh'
    BY <2>1, <2>7, <2>8, <2>11, <2>12, <2>13 DEF RingInv, Fresh
  <2> QED
    BY <2>9, <2>10, <2>14 DEF RingInv
<1>4. ASSUME NEW w \in Writers,
             \/ Load(w)      \/ ReadSlot(w)  \/ Wait(w)       \/ Choose(w)
             \/ CopyBottom(w) \/ CopyTop(w)  \/ CopyPos(w)    \/ WrapTop(w)
             \/ IncBottom(w) \/ WrapBottom(w) \/ CopyEvent(w) \/ Retry(w)
             \/ WriteData(w) \/ WriteTime(w)
      PROVE  RingInv'
  <2>1. UNCHANGED <<moves, clock, begun, stamps, ev>>
    BY <1>4 DEF Load, ReadSlot, Wait, Choose, CopyBottom, CopyTop, CopyPos,
                WrapTop, IncBottom, WrapBottom, CopyEvent, Retry, WriteData,
                WriteTime, Fill, Prepare, local
  <2>2. PICK from, to :
          /\ Goto(w, from, to)
          /\ \/ /\ from \in {"load"} \cup Choosing \cup Preparing
                /\ to \in {"load"} \cup Choosing \cup Preparing
                /\ to \in Stamped => from \in Stamped
             \/ from \in Filling /\ to \in {"time", "idle"}
    BY <1>4 DEF Load, ReadSlot, Wait, Choose, CopyBottom, CopyTop, CopyPos,
                WrapTop, IncBottom, WrapBottom, CopyEvent, Retry, WriteData,
                WriteTime, Fill, Prepare, Choosing, Preparing, Stamped, Filling
  <2>3. Unpublished' = Unpublished
    BY <1>t, <2>2 DEF Goto, Unpublished, Choosing, Preparing, Filling
  <2>4. \A v \in Writers : pc'[v] \in Stamped => pc[v] \in Stamped
    BY <1>t, <2>2 DEF Goto, Stamped, Filling
  <2>5. \A v \in Writers : ~Publish(v)
    BY <2>1 DEF Publish, TypeOK
  <2> QED
    BY <1>k, <2>1, <2>3, <2>4, <2>5, RingInvFrame
<1>5. CASE UNCHANGED vars
  BY <1>5, RingInvFrame DEF vars, Ring, Published, Unpublished
<1>6. CASE ReaderStep
  BY <1>5, <1>6 DEF ReaderStep, ReadPage, ReadBottom, ReadTop, ReadTs, ReadTsT,
     SyncWrapped, SyncStraight, SyncEmpty, Synchronized, PullNext, PullReturn,
     PopReturn, wvars
<1>7. CASE ReaderCall
  BY <1>5, <1>7 DEF ReaderCall, BeginJob, EndJob, synchronize, pull, pop, Refuse,
     wvars
<1>8. CASE UNCHANGED allvars
  BY <1>5, <1>8 DEF allvars, wvars
<1> QED
  BY <1>1, <1>2, <1>3, <1>4, <1>6, <1>7, <1>8 DEF RNext, RStep, WriterStep, Step

(* An empty buffer is in order.                                            *)
LEMMA RingInvInit == Init => RingInv
<1> SUFFICES ASSUME Init PROVE RingInv
  OBVIOUS
<1>1. /\ Published = [top |-> 0, bottom |-> 0, pos |-> 0, event |-> NoEvent]
      /\ moves = 0 /\ begun = 0 /\ clock = 0
  BY DEF Init, Published, StateId
<1>2. \A j \in Index : Ring[j] = NoEvent
  BY <1>1, NAssumption DEF Init, Ring, Index
<1>3. Shape
  BY <1>1, NAssumption DEF Shape
<1>4. \A j \in Index : Number(j, 0, 0) = 0
  BY NAssumption DEF Number, Age, Length, Index, size
<1>5. Numbered
  BY <1>1, <1>2, <1>4 DEF Numbered, NoEvent
<1>6. Timed
  BY <1>1, <1>2 DEF Timed, NoEvent
<1>7. Unpublished = {} /\ \A w \in Writers : pc[w] \notin Stamped /\ stamps[w] = TRUE
  BY DEF Init, Unpublished, Choosing, Preparing, Stamped
<1>8. Fresh
  BY <1>1, <1>7 DEF Fresh
<1> QED
  BY <1>3, <1>5, <1>6, <1>8 DEF RingInv

-----------------------------------------------------------------------------
(* Where the reader is inside pull(), past the copy of the event.          *)
Pulling == {"next", "overflow"}

(* Where a job is between two of its calls.                                *)
Called == {"job", "popped"}

(* A job finds no push under way, and what it loads is the published state.*)
Copied ==
  /\ rpc # "idle" => WriterIdle
  /\ rpc \in {"bottom", "top", "ts", "ts_t", "branch"} => s = page.ref
  /\ rpc \in {"top", "ts", "ts_t", "branch"} => b = Published.bottom
  /\ rpc \in {"ts", "ts_t", "branch"} => t = Published.top
  /\ rpc \in {"ts_t", "branch"} => ts = Ring[b].time
  /\ rpc = "branch" => ts_t = Ring[t].time

(* The reader's window is in the ring, and what it knows is in the past.   *)
Past ==
  /\ top \in Index /\ bottom \in Index
  /\ last <= moves
  /\ timestamp <= clock
  /\ \A w \in Writers : pc[w] \in Stamped => timestamp < clock
  /\ moves = 0 => last = 0 /\ bottom = 0 /\ top = 0

(* The slot at bottom holds an event not pulled yet: the next one, unless  *)
(* a gap was reported or gap() will report one; and if it will, the slot   *)
(* was filled again since.                                                 *)
Upcoming ==
  rpc \notin Pulling =>
    /\ moves = 0 \/ Ring[bottom].data > last
    /\ timestamp < Ring[bottom].time
         => last = 0 \/ Ring[bottom].data > last + size
    /\ ~(timestamp < Ring[bottom].time)
         => moves = 0 \/ Ring[bottom].data = last + 1 \/ warned

(* Between the calls of a job the next event is at bottom or the gap was   *)
(* reported, and the window ends where the ring does or earlier.           *)
InJob ==
  /\ rpc \in Called => moves = 0 \/ Ring[bottom].data = last + 1 \/ warned
  /\ rpc \in Called \cup Pulling =>
       Length(bottom, top) <= Length(bottom, Published.top)

(* An event being pulled is a later one, the next or after a reported gap, *)
(* and the one after it is at bottom.                                      *)
Pulled ==
  /\ rpc \in Pulling =>
       /\ event.data > last
       /\ event.data = last + 1 \/ warned
       /\ Ring[bottom].data = event.data + 1
  /\ rpc = "overflow" => timestamp = Ring[bottom].time

(* What the reader knows when pushes and jobs exclude each other.          *)
ReaderInv == Copied /\ Past /\ Upcoming /\ InJob /\ Pulled

(* A push concerns a reader between its jobs: it makes the slot at bottom  *)
(* newer than the reader knows, if it fills it.                            *)
LEMMA ReaderInvPush ==
  ASSUME Apart', 0 \notin Ticks, TypeOK, SerialInv, RingInv,
         RTypeOK, ReaderInv, [Next]_vars, NEW w \in Writers,
         WriterCall(w) \/ WriterStep(w)
  PROVE  ReaderInv'
<1>t. /\ N \in Nat \ {0} /\ size = N + 1 /\ moves \in Nat /\ clock \in Nat
      /\ Published.top \in Index
      /\ top \in Index /\ bottom \in Index /\ last \in Nat /\ timestamp \in Nat
      /\ pc \in [Writers -> pcs]
  BY NAssumption, TimeAssumption, RingTypes
  DEF TypeOK, RTypeOK, ReaderInv, Past, Time, size
<1>1. rpc = "idle"
  <2>1. CASE WriterCall(w)
    <3>1. pc[w] = "idle" /\ pc' = [pc EXCEPT ![w] = "load"] /\ rpc' = rpc
      BY <2>1 DEF WriterCall, Begin, Goto, rvars
    <3>2. pc'[w] = "load"
      BY <1>t, <3>1
    <3> QED
      BY <3>1, <3>2 DEF Apart, WriterIdle
  <2>2. CASE WriterStep(w)
    <3>1. pc[w] # "idle"
      BY <2>2
      DEF WriterStep, Step, Load, ReadSlot, Wait, Choose, CopyBottom, CopyTop,
          CopyPos, IncTop, WrapTop, IncBottom, WrapBottom, CopyEvent, Prepare,
          Publish, Retry, WriteData, WriteTime, Fill, Goto
    <3> QED
      BY <3>1 DEF ReaderInv, Copied, WriterIdle
  <2> QED
    BY <2>1, <2>2
<1>2. UNCHANGED rvars
  BY DEF WriterCall, WriterStep
<1>3. /\ rpc' = "idle"
      /\ UNCHANGED <<top, bottom, timestamp, last, warned>>
  BY <1>1, <1>2 DEF rvars
<1>4. Copied' /\ InJob' /\ Pulled'
  BY <1>3 DEF Copied, InJob, Pulled, Called, Pulling
<1>5. CASE Publish(w)
  <2>1. /\ Ring'[Published.top] = ev[w]
        /\ \A k \in Index : k # Published.top => Ring'[k] = Ring[k]
    BY <1>5, RingPublished, NAssumption DEF Index
  <2>2. /\ pc[w] = "cas" /\ moves' = moves + 1 /\ clock' = clock
        /\ pc' = [pc EXCEPT ![w] = "data"]
    BY <1>5 DEF Publish, Goto
  <2>3. /\ ev[w].data = moves + 1 /\ ev[w].time = clock /\ timestamp < clock
    <3>1. w \in Unpublished /\ pc[w] \in Stamped
      BY <2>2 DEF Unpublished, Preparing, Stamped
    <3> QED
      BY <3>1 DEF RingInv, Fresh, ReaderInv, Past
  <2>4. Past'
    BY <1>t, <1>3, <2>2, <2>3 DEF ReaderInv, Past, Stamped
  <2>5. /\ last <= moves
        /\ moves = 0 => last = 0
        /\ moves = 0 \/ Ring[bottom].data > last
        /\ timestamp < Ring[bottom].time
             => last = 0 \/ Ring[bottom].data > last + size
        /\ ~(timestamp < Ring[bottom].time)
             => moves = 0 \/ Ring[bottom].data = last + 1 \/ warned
        /\ moves = 0 => bottom = 0
    BY <1>1 DEF ReaderInv, Past, Upcoming, Pulling
  <2>6. CASE bottom = Published.top
    <3>1. Ring[bottom].data = IF moves < size THEN 0 ELSE moves - N
      BY <1>t, <2>6, NumberTop DEF RingInv, Numbered
    <3>2. /\ Ring'[bottom].data = moves + 1 /\ timestamp < Ring'[bottom].time
          /\ last = 0 \/ moves + 1 > last + size
      BY <1>t, <2>1, <2>3, <2>5, <2>6, <3>1
    <3> QED
      BY <1>t, <1>3, <1>4, <2>2, <2>4, <2>5, <3>2 DEF ReaderInv, Upcoming
  <2>7. CASE bottom # Published.top
    <3>1. Ring'[bottom] = Ring[bottom] /\ moves # 0
      <4>1. moves = 0 => Published.top = 0
        BY <1>t DEF RingInv, Shape
      <4> QED
        BY <1>t, <2>1, <2>5, <2>7, <4>1
    <3> QED
      BY <1>t, <1>3, <1>4, <2>2, <2>4, <2>5, <3>1 DEF ReaderInv, Upcoming
  <2> QED
    BY <2>6, <2>7
<1>6. CASE ~Publish(w)
  <2>1. \A v \in Writers : ~Publish(v)
    <3>1. CASE WriterStep(w)
      <4>1. pc[w] # "idle"
        BY <3>1
        DEF WriterStep, Step, Load, ReadSlot, Wait, Choose, CopyBottom, CopyTop,
            CopyPos, IncTop, WrapTop, IncBottom, WrapBottom, CopyEvent, Prepare,
            Publish, Retry, WriteData, WriteTime, Fill, Goto
      <4> QED
        BY <1>6, <4>1, OthersIdle DEF Publish, Goto
    <3>2. CASE WriterCall(w)
      BY <1>t, <3>2 DEF WriterCall, Begin, Publish
    <3> QED
      BY <3>1, <3>2
  <2>2. Ring' = Ring
    BY <2>1, RingKept
  <2>3. moves' = moves
    BY <1>6
    DEF WriterCall, WriterStep, Step, Begin, Load, ReadSlot, Wait, Choose,
        CopyBottom, CopyTop, CopyPos, IncTop, WrapTop, IncBottom, WrapBottom,
        CopyEvent, Prepare, Retry, WriteData, WriteTime, Fill
  <2>4. Upcoming'
    BY <1>1, <1>3, <2>2, <2>3 DEF ReaderInv, Upcoming, Pulling
  <2>5. Past'
    <3>1. CASE IncTop(w)
      <4>1. stamps[w] = TRUE
        BY DEF RingInv, Fresh
      <4>2. \E d \in Ticks : clock' = clock + d
        BY <3>1, <4>1 DEF IncTop
      <4>3. timestamp <= clock /\ clock < clock'
        BY <1>t, <4>2, TicksAssumption DEF ReaderInv, Past
      <4>4. timestamp < clock'
        BY <1>t, <4>2, <4>3, TicksAssumption
      <4> QED
        BY <1>t, <1>3, <2>3, <4>2, <4>4, TicksAssumption DEF ReaderInv, Past
    <3>2. CASE ~IncTop(w)
      <4>1. clock' = clock
        BY <1>6, <3>2
        DEF WriterCall, WriterStep, Step, Begin, Load, ReadSlot, Wait, Choose,
            CopyBottom, CopyTop, CopyPos, WrapTop, IncBottom, WrapBottom,
            CopyEvent, Prepare, Retry, WriteData, WriteTime, Fill
      <4>2. \A v \in Writers : pc'[v] \in Stamped => pc[v] \in Stamped
        BY <1>t, <1>6, <3>2
        DEF WriterCall, WriterStep, Step, Begin, Load, ReadSlot, Wait, Choose,
            CopyBottom, CopyTop, CopyPos, WrapTop, IncBottom, WrapBottom,
            CopyEvent, Prepare, Retry, WriteData, WriteTime, Fill, Goto, Stamped
      <4> QED
        BY <1>3, <2>3, <4>1, <4>2 DEF ReaderInv, Past
    <3> QED
      BY <3>1, <3>2
  <2> QED
    BY <1>4, <2>4, <2>5 DEF ReaderInv
<1> QED
  BY <1>5, <1>6

(* What a step of the reader has before it, in a job that no push          *)
(* disturbs: the slots are the ring, and the ring stays.                   *)
LEMMA ReaderFrame ==
  ASSUME TypeOK, SerialInv, RingInv, RTypeOK, ReaderInv, UNCHANGED wvars
  PROVE  /\ Ring' = Ring /\ Published' = Published /\ WriterIdle' = WriterIdle
         /\ UNCHANGED <<moves, clock, pc, page>>
         /\ rpc # "idle" => array = Ring
         /\ N \in Nat \ {0} /\ size = N + 1 /\ Index = 0 .. N
         /\ Published.top \in Index /\ Published.bottom \in Index
         /\ top \in Index /\ bottom \in Index
         /\ moves \in Nat /\ clock \in Nat /\ last \in Nat /\ timestamp \in Nat
         /\ \A j \in Index : /\ Ring[j] \in Event
                             /\ Ring[j].time \in Nat /\ Ring[j].time <= clock
                             /\ Ring[j].data \in Nat /\ Ring[j].data <= moves
<1>1. /\ Ring' = Ring /\ Published' = Published /\ WriterIdle' = WriterIdle
      /\ UNCHANGED <<moves, clock, pc, page>>
  BY DEF wvars, vars, Ring, Published, WriterIdle
<1>2. rpc # "idle" => array = Ring
  BY RingIsArray DEF ReaderInv, Copied, WriterIdle, Filling
<1>3. /\ N \in Nat \ {0} /\ size = N + 1 /\ Index = 0 .. N
      /\ Published.top \in Index /\ Published.bottom \in Index
      /\ top \in Index /\ bottom \in Index
      /\ moves \in Nat /\ clock \in Nat /\ last \in Nat /\ timestamp \in Nat
  BY NAssumption, TimeAssumption, RingTypes
  DEF TypeOK, RTypeOK, ReaderInv, Past, Time, size, Index
<1>4. \A j \in Index : Ring[j] \in Event
  BY <1>3, RingTypes DEF SlotArray
<1>5. \A j \in Index : Ring[j].time \in Nat /\ Ring[j].time <= clock
  BY <1>4, TimeAssumption DEF Event, Time, RingInv, Timed
<1>6. moves \in Nat /\ Published.top \in Index
  BY <1>3
<1>7. \A j \in Index : Ring[j].data \in Nat /\ Ring[j].data <= moves
  BY <1>6, NumberTop DEF RingInv, Numbered
<1> QED
  BY <1>1, <1>2, <1>3, <1>4, <1>5, <1>7

(* synchronize() up to its decision: the loads.                            *)
LEMMA ReaderInvLoads ==
  ASSUME Apart', TypeOK, SerialInv, RingInv, RTypeOK, ReaderInv,
         \/ BeginJob \/ EndJob \/ synchronize
         \/ ReadPage \/ ReadBottom \/ ReadTop \/ ReadTs \/ ReadTsT
  PROVE  ReaderInv'
<1>1. UNCHANGED <<wvars, window, told>>
  BY DEF BeginJob, EndJob, synchronize, ReadPage, ReadBottom, ReadTop, ReadTs,
         ReadTsT
<1>2. /\ UNCHANGED <<moves, clock, pc, page, top, bottom, timestamp, last, warned>>
      /\ Ring' = Ring /\ Published' = Published /\ WriterIdle' = WriterIdle
      /\ rpc # "idle" => array = Ring
  BY <1>1, ReaderFrame DEF window, told
<1>3. Past'
  BY <1>2 DEF ReaderInv, Past
<1>4. /\ rpc \notin Pulling /\ rpc' \notin Pulling
      /\ rpc' \notin Called
  BY DEF BeginJob, EndJob, synchronize, ReadPage, ReadBottom, ReadTop, ReadTs,
         ReadTsT, Pulling, Called
<1>5. Upcoming' /\ InJob' /\ Pulled'
  BY <1>2, <1>4 DEF ReaderInv, Upcoming, InJob, Pulled, Pulling
<1>6. Copied'
  <2>1. CASE BeginJob \/ EndJob \/ synchronize
    BY <1>2, <2>1 DEF BeginJob, EndJob, synchronize, Apart, ReaderInv, Copied
  <2>2. CASE ReadPage
    BY <1>2, <2>2 DEF ReadPage, ReaderInv, Copied
  <2>3. CASE ReadBottom
    BY <1>2, <2>3 DEF ReadBottom, ReaderInv, Copied, Published
  <2>4. CASE ReadTop
    BY <1>2, <2>4 DEF ReadTop, ReaderInv, Copied, Published
  <2>5. CASE ReadTs
    BY <1>2, <2>5 DEF ReadTs, ReaderInv, Copied
  <2>6. CASE ReadTsT
    BY <1>2, <2>6 DEF ReadTsT, ReaderInv, Copied
  <2> QED
    BY <2>1, <2>2, <2>3, <2>4, <2>5, <2>6
<1> QED
  BY <1>3, <1>5, <1>6 DEF ReaderInv

(* The decision of synchronize().  A wrapped ring is full: if the slot at  *)
(* bottom was filled again, the oldest event is one not pulled yet.  A     *)
(* straight ring starts at slot 0, so that bottom stays, and a gap is      *)
(* reported each time.  An empty ring is one nothing was pushed to.        *)
LEMMA ReaderInvSync ==
  ASSUME TypeOK, SerialInv, RingInv, RTypeOK, ReaderInv,
         SyncWrapped \/ SyncStraight \/ SyncEmpty
  PROVE  ReaderInv'
<1>1. /\ rpc = "branch" /\ rpc' = "job"
      /\ UNCHANGED <<wvars, loaded, event, last>>
  BY DEF SyncWrapped, SyncStraight, SyncEmpty, Synchronized
<1>f. /\ Ring' = Ring /\ Published' = Published /\ WriterIdle' = WriterIdle
      /\ UNCHANGED <<moves, clock, pc, page, last>>
      /\ array = Ring
      /\ N \in Nat \ {0} /\ size = N + 1 /\ Index = 0 .. N
      /\ Published.top \in Index /\ Published.bottom \in Index
      /\ top \in Index /\ bottom \in Index
      /\ moves \in Nat /\ clock \in Nat /\ last \in Nat /\ timestamp \in Nat
      /\ \A j \in Index : /\ Ring[j] \in Event
                          /\ Ring[j].time \in Nat /\ Ring[j].time <= clock
                          /\ Ring[j].data \in Nat /\ Ring[j].data <= moves
  BY <1>1, ReaderFrame
<1>c. /\ WriterIdle /\ b = Published.bottom /\ t = Published.top
      /\ ts = Ring[b].time /\ ts_t = Ring[t].time
  BY <1>1 DEF ReaderInv, Copied
<1>p. /\ last <= moves /\ timestamp <= clock
      /\ moves = 0 => last = 0 /\ bottom = 0 /\ top = 0
      /\ moves = 0 \/ Ring[bottom].data > last
      /\ timestamp < Ring[bottom].time
           => last = 0 \/ Ring[bottom].data > last + size
      /\ ~(timestamp < Ring[bottom].time)
           => moves = 0 \/ Ring[bottom].data = last + 1 \/ warned
  BY <1>1 DEF ReaderInv, Past, Upcoming, Pulling
<1>i. moves \in Nat /\ Published.top \in Index /\ Published.bottom \in Index
  BY <1>f
<1>2. Copied' /\ Pulled'
  BY <1>1, <1>f, <1>c DEF Copied, Pulled, Pulling
<1>s. ASSUME top' = Published.top, bottom' \in Index, timestamp' \in Nat,
             timestamp' <= clock,
             moves = 0 => bottom' = 0,
             moves = 0 \/ Ring[bottom'].data > last,
             timestamp' < Ring[bottom'].time
               => last = 0 \/ Ring[bottom'].data > last + size,
             moves = 0 \/ Ring[bottom'].data = last + 1 \/ warned'
      PROVE  ReaderInv'
  <2>1. Past'
    <3>1. \A w \in Writers : pc[w] \notin Stamped
      BY <1>c DEF WriterIdle, Stamped
    <3>2. moves = 0 => Published.top = 0
      BY <1>f DEF RingInv, Shape
    <3> QED
      BY <1>f, <1>p, <1>s, <3>1, <3>2 DEF Past
  <2>2. Upcoming'
    BY <1>1, <1>f, <1>s DEF Upcoming
  <2>3. Length(bottom', top') <= Length(bottom', Published'.top)
    <3>1. Published'.top = top' /\ top' \in Index /\ bottom' \in Index
      BY <1>f, <1>i, <1>s
    <3>2. Length(bottom', top') \in Nat
      BY <3>1, LengthType
    <3> QED
      BY <3>1, <3>2
  <2>4. InJob'
    BY <1>1, <1>f, <1>s, <2>3 DEF InJob
  <2> QED
    BY <1>2, <2>1, <2>2, <2>4 DEF ReaderInv
<1>3. CASE SyncWrapped
  <2>1. /\ moves > N /\ Published.bottom = Inc(Published.top)
        /\ b \in Index /\ top' = Published.top
    BY <1>f, <1>c, <1>3 DEF SyncWrapped, RingInv, Shape
  <2>2. Ring[b].data = moves - N + 1
    <3>1. Ring[b].data = Number(Inc(Published.top), Published.top, moves)
      BY <1>c, <2>1 DEF RingInv, Numbered
    <3>2. moves >= N
      BY <1>f, <2>1
    <3> QED
      BY <1>i, <3>1, <3>2, NumberTop
  <2>3. gap = "GAP" <=> timestamp < Ring[bottom].time
    BY <1>f DEF gap
  <2>4. CASE gap = "GAP"
    <3>1. bottom' = b /\ timestamp' = ts /\ warned'
      BY <1>3, <2>4 DEF SyncWrapped, Synchronized
    <3>2. last = 0 \/ Ring[bottom].data > last + size
      BY <1>p, <2>3, <2>4
    <3>3. Ring[b].data > last
      BY <1>f, <2>1, <2>2, <3>2
    <3> QED
      BY <1>f, <1>c, <1>s, <2>1, <3>1, <3>3
  <2>5. CASE gap # "GAP"
    <3>1. bottom' = bottom /\ timestamp' = timestamp
      BY <1>3, <2>5 DEF SyncWrapped
    <3>2. warned => warned'
      BY <1>3, <2>5 DEF SyncWrapped, Synchronized
    <3> QED
      BY <1>f, <1>p, <1>s, <2>1, <2>3, <2>5, <3>1, <3>2
  <2> QED
    BY <2>4, <2>5
<1>4. CASE SyncStraight
  <2>1. b = 0 /\ moves # 0 /\ top' = Published.top /\ t \in Index
    BY <1>f, <1>c, <1>4 DEF SyncStraight, RingInv, Shape, Inc
  <2>2. ts_t <= ts
    <3>1. Ring[t].data <= Ring[b].data
      BY <1>i, <1>c, NumberTop DEF RingInv, Numbered
    <3> QED
      BY <1>f, <1>c, <2>1, <3>1 DEF RingInv, Timed
  <2>3. ~(ts < timestamp /\ timestamp < ts_t)
    BY <1>f, <1>c, <2>1, <2>2
  <2>4. /\ bottom' = bottom
        /\ timestamp' = timestamp \/ (bottom = 0 /\ timestamp' = ts)
    BY <1>f, <1>4, <2>1, <2>3 DEF SyncStraight
  <2>5. warned'
    BY <1>4, <2>3 DEF SyncStraight, Synchronized
  <2>6. /\ timestamp' \in Nat /\ timestamp' <= clock
        /\ timestamp' = timestamp \/ timestamp' = Ring[bottom].time
    BY <1>f, <1>c, <1>p, <2>1, <2>4
  <2>7. timestamp' < Ring[bottom'].time
          => last = 0 \/ Ring[bottom'].data > last + size
    BY <1>f, <1>p, <2>4, <2>6
  <2> QED
    BY <1>f, <1>p, <1>s, <2>1, <2>4, <2>5, <2>6, <2>7
<1>5. CASE SyncEmpty
  <2>1. moves = 0
    BY <1>f, <1>c, <1>5 DEF SyncEmpty, RingInv, Shape, Inc
  <2>2. top = 0 /\ bottom = 0 /\ last = 0
    BY <1>p, <2>1
  <2>3. top' = Published.top /\ bottom' = b /\ timestamp' = ts
    BY <1>c, <1>5, <2>2 DEF SyncEmpty
  <2>4. b = 0 /\ b \in Index
    BY <1>f, <1>c, <2>1 DEF RingInv, Shape
  <2> QED
    BY <1>f, <1>c, <1>s, <2>1, <2>2, <2>3, <2>4
<1> QED
  BY <1>3, <1>4, <1>5

(* The calls of a job move the window over a ring that stays, and pull     *)
(* what comes next in it.                                                  *)
LEMMA ReaderInvCalls ==
  ASSUME TypeOK, SerialInv, RingInv, RTypeOK, ReaderInv,
         pull \/ PullNext \/ PullReturn \/ pop \/ PopReturn
  PROVE  ReaderInv'
<1>1. /\ rpc \in Called \cup Pulling /\ rpc' \in Called \cup Pulling
      /\ UNCHANGED <<wvars, loaded>>
  BY DEF pull, PullNext, PullReturn, pop, PopReturn, Refuse, Called, Pulling
<1>f. /\ Ring' = Ring /\ Published' = Published /\ WriterIdle' = WriterIdle
      /\ UNCHANGED <<moves, clock, pc, page>>
      /\ array = Ring
      /\ N \in Nat \ {0} /\ size = N + 1 /\ Index = 0 .. N
      /\ Published.top \in Index /\ Published.bottom \in Index
      /\ top \in Index /\ bottom \in Index
      /\ moves \in Nat /\ clock \in Nat /\ last \in Nat /\ timestamp \in Nat
      /\ \A j \in Index : /\ Ring[j] \in Event
                          /\ Ring[j].time \in Nat /\ Ring[j].time <= clock
                          /\ Ring[j].data \in Nat /\ Ring[j].data <= moves
  BY <1>1, ReaderFrame DEF Called, Pulling
<1>i. /\ top \in Index /\ bottom \in Index /\ Published.top \in Index
      /\ moves \in Nat
  BY <1>f
<1>w. /\ WriterIdle
      /\ \A w \in Writers : pc[w] \notin Stamped
  BY <1>1 DEF ReaderInv, Copied, Called, Pulling, WriterIdle, Stamped
<1>2. Copied'
  BY <1>1, <1>f, <1>w DEF Copied, Called, Pulling
<1>l. /\ Length(bottom, top) <= Length(bottom, Published.top)
      /\ Length(bottom, top) \in Nat /\ Length(bottom, Published.top) \in Nat
  BY <1>1, <1>i, LengthType DEF ReaderInv, InJob
<1>p. /\ last <= moves /\ timestamp <= clock
      /\ moves = 0 => last = 0 /\ bottom = 0 /\ top = 0
  BY DEF ReaderInv, Past
<1>3. CASE UNCHANGED <<rpc, window, last, event, warned>>
  <2>1. UNCHANGED <<top, bottom, timestamp, rpc, last, event, warned>>
    BY <1>3 DEF window
  <2>2. Past'
    BY <1>f, <2>1 DEF ReaderInv, Past
  <2>3. Upcoming' /\ InJob' /\ Pulled'
    BY <1>f, <2>1 DEF ReaderInv, Upcoming, InJob, Pulled
  <2> QED
    BY <1>2, <2>2, <2>3 DEF ReaderInv
<1>4. CASE pull /\ rpc' = "next"
  <2>1. /\ rpc = "job" /\ Length(bottom, top) > 1
        /\ event' = Ring[bottom] /\ bottom' = Inc(bottom)
        /\ UNCHANGED <<top, timestamp, last, warned>>
    BY <1>f, <1>4 DEF pull, Refuse, length, told
  <2>2. moves # 0
    BY <1>f, <1>p, <2>1 DEF Length
  <2>3. /\ Ring[bottom].data > last
        /\ Ring[bottom].data = last + 1 \/ warned
    BY <2>1, <2>2 DEF ReaderInv, Upcoming, InJob, Called, Pulling
  <2>4. Ring[Inc(bottom)].data = Ring[bottom].data + 1
    <3>1. Length(bottom, Published.top) > 1
      BY <1>l, <2>1
    <3>2. Ring[bottom].data = Number(bottom, Published.top, moves)
      BY <1>i DEF RingInv, Numbered
    <3>3. Number(bottom, Published.top, moves) > 0
      BY <1>f, <2>3, <3>2
    <3>4. Ring[Inc(bottom)].data = Number(Inc(bottom), Published.top, moves)
      BY <1>i, IndexTypes DEF RingInv, Numbered
    <3> QED
      BY <1>i, <3>1, <3>2, <3>3, <3>4, NumberNext
  <2>5. /\ Length(Inc(bottom), top) = Length(bottom, top) - 1
        /\ Length(Inc(bottom), Published.top) = Length(bottom, Published.top) - 1
    <3>1. Length(bottom, top) > 0 /\ Length(bottom, Published.top) > 0
      BY <1>l, <2>1
    <3> QED
      BY <1>i, <3>1, LengthShrink
  <2>6. InJob'
    <3>1. Length(bottom', top') <= Length(bottom', Published'.top)
      BY <1>f, <1>l, <2>1, <2>5
    <3> QED
      BY <1>4, <3>1 DEF InJob, Called
  <2>7. Past'
    <3>1. bottom' \in Index
      BY <1>i, <2>1, IndexTypes
    <3> QED
      BY <1>f, <1>p, <1>w, <2>1, <2>2, <3>1 DEF Past
  <2>8. Upcoming' /\ Pulled'
    BY <1>4, <1>f, <2>1, <2>3, <2>4 DEF Upcoming, Pulled, Pulling
  <2> QED
    BY <1>2, <2>6, <2>7, <2>8 DEF ReaderInv
<1>5. CASE PullNext
  <2>1. /\ rpc = "next" /\ rpc' = "overflow" /\ timestamp' = Ring[bottom].time
        /\ UNCHANGED <<top, bottom, event, last, warned>>
    BY <1>f, <1>5 DEF PullNext, told
  <2>2. Past'
    BY <1>f, <1>p, <1>w, <2>1 DEF Past
  <2>3. Upcoming' /\ InJob' /\ Pulled'
    BY <1>f, <2>1 DEF ReaderInv, Upcoming, InJob, Pulled, Pulling, Called
  <2> QED
    BY <1>2, <2>2, <2>3 DEF ReaderInv
<1>6. CASE PullReturn
  <2>1. /\ rpc = "overflow" /\ rpc' = "job"
        /\ UNCHANGED <<top, bottom, timestamp, event>>
    BY <1>6 DEF PullReturn, window
  <2>2. /\ timestamp = Ring[bottom].time
        /\ event.data > last /\ Ring[bottom].data = event.data + 1
    BY <2>1 DEF ReaderInv, Pulled, Pulling
  <2>3. gap = "NO_GAP"
    BY <1>f, <2>2 DEF gap
  <2>4. last' = event.data
    BY <1>6, <2>3 DEF PullReturn
  <2>5. event.data \in Nat
    BY NumbersAssumption, MaxPushAssumption DEF RTypeOK, Event
  <2>6. Ring[bottom].data = last' + 1 /\ Ring[bottom].data > last'
        /\ last' <= moves /\ moves # 0
    BY <1>f, <2>2, <2>4, <2>5
  <2>7. Past'
    BY <1>f, <1>p, <1>w, <2>1, <2>6 DEF Past
  <2>8. Upcoming'
    BY <1>f, <2>1, <2>2, <2>6 DEF Upcoming
  <2>9. InJob' /\ Pulled'
    BY <1>f, <1>l, <2>1, <2>6 DEF InJob, Pulled, Pulling, Called
  <2> QED
    BY <1>2, <2>7, <2>8, <2>9 DEF ReaderInv
<1>7. CASE pop /\ rpc' = "popped"
  <2>1. /\ rpc = "job" /\ Length(bottom, top) > 0 /\ top' = Dec(top)
        /\ UNCHANGED <<bottom, timestamp, last, warned>>
    BY <1>7 DEF pop, Refuse, length, told
  <2>2. top' \in Index /\ Length(bottom, top') = Length(bottom, top) - 1
    BY <1>i, <2>1, IndexTypes, LengthShrink
  <2>3. moves # 0
    BY <1>f, <1>p, <2>1 DEF Length
  <2>4. Past'
    BY <1>f, <1>p, <1>w, <2>1, <2>2, <2>3 DEF Past
  <2>5. Upcoming' /\ Pulled'
    BY <1>7, <1>f, <2>1 DEF ReaderInv, Upcoming, Pulled, Pulling
  <2>6. InJob'
    <3>1. Length(bottom', top') <= Length(bottom', Published'.top)
      BY <1>f, <1>l, <2>1, <2>2
    <3> QED
      BY <1>7, <1>f, <2>1, <3>1 DEF ReaderInv, InJob, Called
  <2> QED
    BY <1>2, <2>4, <2>5, <2>6 DEF ReaderInv
<1>8. CASE PopReturn
  <2>1. /\ rpc = "popped" /\ rpc' = "job"
        /\ UNCHANGED <<top, bottom, timestamp, last>>
    BY <1>8 DEF PopReturn, window
  <2>2. warned => warned'
    BY <1>8 DEF PopReturn
  <2>3. Past'
    BY <1>f, <2>1 DEF ReaderInv, Past
  <2>4. Upcoming' /\ InJob' /\ Pulled'
    BY <1>f, <2>1, <2>2
    DEF ReaderInv, Upcoming, InJob, Pulled, Pulling, Called
  <2> QED
    BY <1>2, <2>3, <2>4 DEF ReaderInv
<1> QED
  BY <1>3, <1>4, <1>5, <1>6, <1>7, <1>8 DEF pull, pop, Refuse

(* The reader's invariant is inductive beside serialised pushes, as long   *)
(* as no push is under way in a job.                                       *)
LEMMA ReaderInvStep ==
  ASSUME 0 \notin Ticks, TypeOK, SerialInv, RingInv, RTypeOK,
         ~mixed => ReaderInv, [RNext]_allvars
  PROVE  ~mixed' => ReaderInv'
<1>6. CASE UNCHANGED allvars
  BY <1>6
  DEF allvars, wvars, vars, rvars, ReaderInv, Copied, Past, Upcoming, InJob,
      Pulled, WriterIdle, Ring, Published
<1>7. SUFFICES ASSUME RNext, ~mixed' PROVE ReaderInv'
  BY <1>6
<1>8. Apart' /\ ReaderInv
  <2>1. ~mixed /\ Apart'
    BY <1>7, Zenon DEF RNext
  <2> QED
    BY <2>1
<1>1. ASSUME NEW w \in Writers, WriterCall(w) \/ WriterStep(w) PROVE ReaderInv'
  BY <1>1, <1>8, ReaderInvPush, WriterRefines
<1>2. CASE \/ BeginJob \/ EndJob \/ synchronize
           \/ ReadPage \/ ReadBottom \/ ReadTop \/ ReadTs \/ ReadTsT
  BY <1>2, <1>8, ReaderInvLoads
<1>3. CASE SyncWrapped \/ SyncStraight \/ SyncEmpty
  BY <1>3, <1>8, ReaderInvSync
<1>4. CASE pull \/ PullNext \/ PullReturn \/ pop \/ PopReturn
  BY <1>4, <1>8, ReaderInvCalls
<1> QED
  BY <1>1, <1>2, <1>3, <1>4, <1>7 DEF RNext, RStep, ReaderStep, ReaderCall

(* A reader that has not started knows nothing.                            *)
LEMMA ReaderInvInit == RInit => ReaderInv
<1> SUFFICES ASSUME RInit PROVE ReaderInv
  OBVIOUS
<1>1. /\ moves = 0 /\ clock = 0 /\ \A w \in Writers : pc[w] = "idle"
  BY DEF RInit, Init
<1>2. Past
  BY <1>1, NAssumption DEF RInit, Past, Index, Stamped
<1>3. Copied /\ InJob /\ Pulled
  BY DEF RInit, Copied, InJob, Pulled, Pulling, Called
<1>4. Upcoming
  BY <1>1 DEF RInit, Upcoming
<1> QED
  BY <1>2, <1>3, <1>4 DEF ReaderInv

(* All that holds beside serialised pushes.                                *)
LEMMA JobsInvariant ==
  ASSUME Serialised, 0 \notin Ticks
  PROVE  RSpec => [](/\ TypeOK /\ SerialInv /\ RingInv /\ RTypeOK
                     /\ (~mixed => ReaderInv))
<1>1. RInit => RingInv /\ ReaderInv
  BY RingInvInit, ReaderInvInit DEF RInit
<1>2. TypeOK /\ SerialInv /\ RingInv /\ [RNext]_allvars => RingInv'
  BY RingInvStep
<1>3. /\ TypeOK /\ SerialInv /\ RingInv /\ RTypeOK /\ (~mixed => ReaderInv)
      /\ [RNext]_allvars
      => (~mixed => ReaderInv)'
  BY ReaderInvStep
<1>4. Spec => []SerialInv
  BY SerialInvariant
<1>5. RSpec => []RTypeOK
  BY ReaderTypeCorrect
<1> QED
  BY <1>1, <1>2, <1>3, <1>4, <1>5, ReaderWriterSpec, PTL DEF RSpec

(* Only the return of a pull changes what was pulled last.                 *)
LEMMA PullOnly ==
  ASSUME ~mixed => ReaderInv, [RNext]_allvars, ~mixed', last' # last
  PROVE  last' > last /\ (last' = last + 1 \/ warned)
<1>1. PullReturn
  BY DEF RNext, RStep, WriterCall, WriterStep, ReaderStep, ReaderCall, ReadPage,
         ReadBottom, ReadTop, ReadTs, ReadTsT, SyncWrapped, SyncStraight,
         SyncEmpty, Synchronized, PullNext, PopReturn, BeginJob, EndJob,
         synchronize, pull, pop, Refuse, rvars, allvars, told
<1>2. rpc = "overflow" /\ last' = event.data
  BY <1>1 DEF PullReturn
<1>3. ~mixed
  BY Zenon DEF RNext, allvars
<1> QED
  BY <1>2, <1>3 DEF ReaderInv, Pulled, Pulling

(* As long as pushes and jobs have excluded each other, for every capacity *)
(* and number of writers, a pull never returns an event older than one it  *)
(* returned.                                                               *)
THEOREM JobsPullInOrder ==
  ASSUME Serialised, 0 \notin Ticks
  PROVE  RSpec => PullsInOrder
<1>1. (~mixed => ReaderInv) /\ [RNext]_allvars
        => [~mixed' /\ last' # last => last' > last]_allvars
  BY PullOnly
<1> QED
  BY <1>1, JobsInvariant, PTL DEF RSpec, PullsInOrder

(* And every event it skips was reported as a gap before.                  *)
THEOREM JobsReportSkips ==
  ASSUME Serialised, 0 \notin Ticks
  PROVE  RSpec => SkipsReported
<1>1. (~mixed => ReaderInv) /\ [RNext]_allvars
        => [~mixed' /\ last' # last => last' = last + 1 \/ warned]_allvars
  BY PullOnly
<1> QED
  BY <1>1, JobsInvariant, PTL DEF RSpec, SkipsReported

=============================================================================
