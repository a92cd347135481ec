-------------------------- MODULE AtomicPushProofs --------------------------
(***************************************************************************)
(* ATOMIC_PUSH for every capacity, set of writers and clock: types and the *)
(* isolation of a writer's own state whatever overlaps; that page repeats  *)
(* under a loaded copy only after whole turns of its counter; and, for     *)
(* pushes that do not overlap, that each is one push of the bounded deque, *)
(* made in a fixed number of steps.                                        *)
(***************************************************************************)
EXTENDS AtomicPush, RingIndexProofs, FiniteSetTheorems

(* The type invariant is inductive, whatever overlaps.                     *)
LEMMA TypeStep == TypeOK /\ [Next]_vars => TypeOK'
<1> SUFFICES ASSUME TypeOK, [Next]_vars PROVE TypeOK'
  OBVIOUS
<1>a. \A r \in StateId : st[r] \in State
  BY DEF TypeOK
<1>b. \A w \in Writers : cur[w] \in Page /\ cur[w].ref \in StateId
  BY DEF TypeOK, Page
<1>c. \A r \in StateId : /\ st[r].top \in Nat
                         /\ st[r].bottom \in Nat
                         /\ st[r].pos \in Nat
                         /\ st[r].event \in Event
  BY <1>a DEF State
<1> USE DEF TypeOK, Goto, pcs
<1>1. ASSUME NEW w \in Writers, push(w) PROVE TypeOK'
  BY <1>1, DataAssumption, TimeAssumption, MaxPushAssumption
  DEF push, Begin, Event, NoEvent, Time
<1>2. ASSUME NEW w \in Writers, push_all(w) PROVE TypeOK'
  BY <1>2, DataAssumption, TimeAssumption, MaxPushAssumption
  DEF push_all, Begin, Event, NoEvent, Time
<1>3. ASSUME NEW w \in Writers, Load(w) PROVE TypeOK'
  BY <1>3 DEF Load
<1>4. ASSUME NEW w \in Writers, ReadSlot(w) PROVE TypeOK'
  BY <1>4, <1>b, <1>c, NAssumption DEF ReadSlot, SlotArray, size
<1>5. ASSUME NEW w \in Writers, Wait(w) \/ Retry(w) PROVE TypeOK'
  BY <1>5 DEF Wait, Retry, local
<1>6. ASSUME NEW w \in Writers, Choose(w) PROVE TypeOK'
  BY <1>6 DEF Choose, StateId
<1>7. ASSUME NEW w \in Writers, CopyBottom(w) PROVE TypeOK'
  <2>1. st' \in [StateId -> State]
    BY <1>7, <1>b, <1>c DEF CopyBottom, State
  <2> QED
    BY <1>7, <2>1 DEF CopyBottom, Prepare
<1>8. ASSUME NEW w \in Writers, CopyTop(w) PROVE TypeOK'
  <2>1. st' \in [StateId -> State]
    BY <1>8, <1>b, <1>c DEF CopyTop, State
  <2> QED
    BY <1>8, <2>1 DEF CopyTop, Prepare
<1>9. ASSUME NEW w \in Writers, CopyPos(w) PROVE TypeOK'
  <2>1. st' \in [StateId -> State]
    BY <1>9, <1>b, <1>c DEF CopyPos, State
  <2> QED
    BY <1>9, <2>1 DEF CopyPos, Prepare
<1>10. ASSUME NEW w \in Writers, IncTop(w) PROVE TypeOK'
  <2>1. clock' \in Time /\ ev' \in [Writers -> Event]
    <3>1. CASE stamps[w]
      <4>1. clock' \in Time /\ ev' = [ev EXCEPT ![w].time = clock']
        BY <1>10, <3>1 DEF IncTop
      <4> QED
        BY <4>1 DEF Event
    <3>2. CASE ~stamps[w]
      BY <1>10, <3>2 DEF IncTop
    <3> QED
      BY <3>1, <3>2
  <2>2. st' \in [StateId -> State]
    BY <1>10, <1>c DEF IncTop, State
  <2> QED
    BY <1>10, <1>c, <2>1, <2>2 DEF IncTop, Prepare
<1>11. ASSUME NEW w \in Writers, WrapTop(w) PROVE TypeOK'
  BY <1>11, <1>b, <1>c DEF WrapTop, Prepare, State, Wrapped, Code
<1>12. ASSUME NEW w \in Writers, IncBottom(w) PROVE TypeOK'
  <2>1. st' \in [StateId -> State]
    BY <1>12, <1>b, <1>c DEF IncBottom, State
  <2> QED
    BY <1>12, <2>1 DEF IncBottom, Prepare
<1>13. ASSUME NEW w \in Writers, WrapBottom(w) PROVE TypeOK'
  <2>1. st' \in [StateId -> State]
    <3>1. sref[w] \in StateId /\ Wrapped(st[sref[w]].bottom) \in Nat
      BY <1>c, NAssumption DEF Wrapped, size
    <3> QED
      BY <1>13, <1>a, <3>1 DEF WrapBottom, State
  <2> QED
    BY <1>13, <2>1 DEF WrapBottom, Prepare
<1>14. ASSUME NEW w \in Writers, CopyEvent(w) PROVE TypeOK'
  <2>1. st' \in [StateId -> State]
    BY <1>14, <1>b, <1>c DEF CopyEvent, State
  <2> QED
    BY <1>14, <2>1 DEF CopyEvent, Prepare
<1>15. ASSUME NEW w \in Writers, Publish(w) PROVE TypeOK'
  BY <1>15, <1>b, CounterAssumption DEF Publish, Page, local
<1>16. ASSUME NEW w \in Writers, WriteData(w) PROVE TypeOK'
  <2>1. array' \in SlotArray(Event)
    <3>1. CASE slot[w] < size
      <4>1. slot[w] \in 0 .. N + 1
        BY <3>1, NAssumption DEF size
      <4>2. array[slot[w]] \in Event /\ ev[w] \in Event
        BY <4>1 DEF SlotArray
      <4>3. [array[slot[w]] EXCEPT !.data = ev[w].data] \in Event
        BY <4>2 DEF Event
      <4>4. array' = [array EXCEPT ![slot[w]] =
                        [array[slot[w]] EXCEPT !.data = ev[w].data]]
        BY <1>16, <3>1 DEF WriteData
      <4> QED
        BY <4>3, <4>4 DEF SlotArray
    <3>2. CASE slot[w] >= size
      BY <1>16, <3>2 DEF WriteData, Fill
    <3> QED
      BY <3>1, <3>2, NAssumption DEF size
  <2> QED
    BY <1>16, <2>1 DEF WriteData, Fill, local
<1>17. ASSUME NEW w \in Writers, WriteTime(w) PROVE TypeOK'
  <2>1. array' \in SlotArray(Event)
    <3>1. CASE slot[w] < size
      <4>1. slot[w] \in 0 .. N + 1
        BY <3>1, NAssumption DEF size
      <4>2. array[slot[w]] \in Event /\ ev[w] \in Event
        BY <4>1 DEF SlotArray
      <4>3. [array[slot[w]] EXCEPT !.time = ev[w].time] \in Event
        BY <4>2 DEF Event
      <4>4. array' = [array EXCEPT ![slot[w]] =
                        [array[slot[w]] EXCEPT !.time = ev[w].time]]
        BY <1>17, <3>1 DEF WriteTime
      <4> QED
        BY <4>3, <4>4 DEF SlotArray
    <3>2. CASE slot[w] >= size
      BY <1>17, <3>2 DEF WriteTime, Fill
    <3> QED
      BY <3>1, <3>2, NAssumption DEF size
  <2> QED
    BY <1>17, <2>1 DEF WriteTime, Fill, local
<1>18. CASE UNCHANGED vars
  BY <1>18 DEF vars
<1> QED
  BY <1>1, <1>2, <1>3, <1>4, <1>5, <1>6, <1>7, <1>8, <1>9, <1>10, <1>11, <1>12,
     <1>13, <1>14, <1>15, <1>16, <1>17, <1>18 DEF Next, Step

(* The initial state has its types.                                        *)
LEMMA InitType == Init => TypeOK
  BY NAssumption, DataAssumption, TimeAssumption, CounterAssumption,
     MaxPushAssumption
  DEF Init, TypeOK, Page, StateId, State, Event, NoEvent, Time, SlotArray, pcs,
      Code

(* The types hold of every behaviour, however pushes overlap.              *)
THEOREM TypeCorrect == Spec => []TypeOK
  BY InitType, TypeStep, PTL DEF Spec

-----------------------------------------------------------------------------
(* A step of one writer changes no other writer's place or choices.        *)
LEMMA OwnStateStep == TypeOK /\ OwnStateInv /\ [Next]_vars => OwnStateInv'
<1> SUFFICES ASSUME TypeOK, OwnStateInv, [Next]_vars PROVE OwnStateInv'
  OBVIOUS
<1> USE DEF OwnStateInv, Choosing, Preparing
<1>t. /\ pc \in [Writers -> pcs]
      /\ cur \in [Writers -> Page]
      /\ sref \in [Writers -> StateId]
      /\ page.ref \in StateId
  BY DEF TypeOK, Page
<1>1. ASSUME NEW w \in Writers, push(w) \/ push_all(w) PROVE OwnStateInv'
  BY <1>1, <1>t DEF push, push_all, Begin, Goto
<1>2. ASSUME NEW w \in Writers, Load(w) PROVE OwnStateInv'
  BY <1>2, <1>t DEF Load, Goto
<1>3. ASSUME NEW w \in Writers, ReadSlot(w) \/ Wait(w) PROVE OwnStateInv'
  BY <1>3, <1>t DEF ReadSlot, Wait, Goto, local
<1>4. ASSUME NEW w \in Writers, Choose(w) PROVE OwnStateInv'
  BY <1>4, <1>t DEF Choose, Goto
<1>5. ASSUME NEW w \in Writers,
             \/ CopyBottom(w) \/ CopyTop(w)   \/ CopyPos(w) \/ IncTop(w)
             \/ WrapTop(w)    \/ IncBottom(w) \/ WrapBottom(w) \/ CopyEvent(w)
      PROVE  OwnStateInv'
  <2>1. /\ UNCHANGED <<page, cur, sref>>
        /\ pc[w] \in Preparing
        /\ \A v \in Writers : v # w => pc'[v] = pc[v]
    BY <1>5, <1>t DEF CopyBottom, CopyTop, CopyPos, IncTop, WrapTop, IncBottom,
                      WrapBottom, CopyEvent, Prepare, Goto
  <2>2. pc'[w] \in Preparing
    BY <1>5, <1>t DEF CopyBottom, CopyTop, CopyPos, IncTop, WrapTop, IncBottom,
                      WrapBottom, CopyEvent, Prepare, Goto
  <2> QED
    BY <2>1, <2>2
<1>6. ASSUME NEW w \in Writers, Publish(w) PROVE OwnStateInv'
  <2>1. /\ page'.ref = sref[w]
        /\ pc'[w] = "data"
        /\ \A v \in Writers : v # w => pc'[v] = pc[v]
        /\ UNCHANGED <<cur, sref>>
    BY <1>6, <1>t DEF Publish, Goto, local
  <2>2. \A v \in Writers : page'.ref = v => v = w
    BY <2>1, WritersAssumption
  <2> QED
    BY <2>1, <2>2
<1>7. ASSUME NEW w \in Writers, Retry(w) PROVE OwnStateInv'
  BY <1>7, <1>t DEF Retry, Goto, local
<1>8. ASSUME NEW w \in Writers, WriteData(w) \/ WriteTime(w) PROVE OwnStateInv'
  BY <1>8, <1>t DEF WriteData, WriteTime, Fill, Goto, local
<1>9. CASE UNCHANGED vars
  BY <1>9 DEF vars
<1> QED
  BY <1>1, <1>2, <1>3, <1>4, <1>5, <1>6, <1>7, <1>8, <1>9 DEF Next, Step

(* However pushes overlap, a writer's own state is not changed while it is *)
(* the published one.                                                      *)
THEOREM OwnStateIsolation == Spec => OwnStateIsolated
<1>1. Init => OwnStateInv
  BY DEF Init, OwnStateInv, Choosing, Preparing
<1>2. TypeOK /\ OwnStateInv /\ [Next]_vars =>
        [\A w \in Writers : page.ref = w => st'[w] = st[w]]_vars
  <2> SUFFICES ASSUME TypeOK, OwnStateInv, Next,
                      NEW v \in Writers, page.ref = v
               PROVE  st'[v] = st[v]
    OBVIOUS
  <2>1. CASE UNCHANGED st
    BY <2>1
  <2>2. ASSUME NEW w \in Writers, pc[w] \in Preparing,
               \A r \in StateId : r # sref[w] => st'[r] = st[r]
        PROVE  st'[v] = st[v]
    <3>1. sref[w] # v
      BY <2>2, WritersAssumption DEF OwnStateInv
    <3> QED
      BY <2>2, <3>1 DEF StateId
  <2>3. ASSUME NEW w \in Writers,
               \/ CopyBottom(w) \/ CopyTop(w)   \/ CopyPos(w) \/ IncTop(w)
               \/ WrapTop(w)    \/ IncBottom(w) \/ WrapBottom(w) \/ CopyEvent(w)
        PROVE  /\ pc[w] \in Preparing
               /\ \A r \in StateId : r # sref[w] => st'[r] = st[r]
    <3>1. pc[w] \in Preparing
      BY <2>3 DEF CopyBottom, CopyTop, CopyPos, IncTop, WrapTop, IncBottom,
                  WrapBottom, CopyEvent, Prepare, Goto, Preparing
    <3>2. \A r \in StateId : r # sref[w] => st'[r] = st[r]
      BY <2>3 DEF CopyBottom, CopyTop, CopyPos, IncTop, WrapTop, IncBottom,
                  WrapBottom, CopyEvent, TypeOK
    <3> QED
      BY <3>1, <3>2
  <2> QED
    BY <2>1, <2>2, <2>3
    DEF Next, Step, push, push_all, Begin, Load, ReadSlot, Wait, Choose,
        Publish, Retry, WriteData, WriteTime, Fill
<1> QED
  BY <1>1, <1>2, OwnStateStep, TypeCorrect, PTL DEF Spec, OwnStateIsolated

-----------------------------------------------------------------------------
(* The writers that have begun a push and not yet published it.            *)
Unpublished == {w \in Writers : pc[w] \in {"load"} \cup Choosing \cup Preparing}

(* n is c counted past CounterMod some number of times.                    *)
Turns(n, c) == \E q \in Nat : n = q * CounterMod + c

(* What the counter of a page says about how often page was swapped.       *)
CounterInv ==
  /\ Turns(moves, page.counter)
  /\ \A w \in Writers : pc[w] \in Choosing \cup Preparing =>
       seen[w] <= moves /\ Turns(seen[w], cur[w].counter)

(* Every swap, past or still to come, belongs to a push that has begun.    *)
SwapsBegun ==
  /\ IsFiniteSet(Unpublished)
  /\ moves + Cardinality(Unpublished) <= begun

(* update(page) counts on, from CounterMod - 1 to 0.                       *)
LEMMA TurnsNext ==
  ASSUME NEW n \in Nat, NEW c \in 0 .. CounterMod - 1, Turns(n, c)
  PROVE  Turns(n + 1, (c + 1) % CounterMod)
<1>1. PICK q \in Nat : n = q * CounterMod + c
  BY DEF Turns
<1>2. q * CounterMod \in Nat /\ (q + 1) * CounterMod = q * CounterMod + CounterMod
  BY CounterAssumption
<1>3. CASE c + 1 < CounterMod
  <2>1. (c + 1) % CounterMod = c + 1
    BY <1>3, CounterAssumption
  <2> QED
    BY <1>1, <1>2, <2>1 DEF Turns
<1>4. CASE c + 1 = CounterMod
  <2>1. (c + 1) % CounterMod = 0
    BY <1>4, CounterAssumption
  <2>2. n + 1 = (q + 1) * CounterMod + 0
    BY <1>1, <1>2, <1>4
  <2> QED
    BY <2>1, <2>2 DEF Turns
<1> QED
  BY <1>3, <1>4, CounterAssumption

(* Two numbers with the same counter differ by whole turns of it.          *)
LEMMA TurnsApart ==
  ASSUME NEW n \in Nat, NEW m \in Nat, NEW c \in 0 .. CounterMod - 1,
         m <= n, Turns(n, c), Turns(m, c)
  PROVE  \E q \in Nat : n = m + q * CounterMod
<1>1. PICK p \in Nat : n = p * CounterMod + c
  BY DEF Turns
<1>2. PICK r \in Nat : m = r * CounterMod + c
  BY DEF Turns
<1>3. p * CounterMod \in Nat /\ r * CounterMod \in Nat
  BY CounterAssumption
<1>4. r <= p
  BY <1>1, <1>2, CounterAssumption
<1>5. p - r \in Nat /\ (p - r) * CounterMod = p * CounterMod - r * CounterMod
  BY <1>4, CounterAssumption
<1>6. n = m + (p - r) * CounterMod
  BY <1>1, <1>2, <1>3, <1>5
<1> QED
  BY <1>5, <1>6

(* Every step begins a push, loads page, publishes, or leaves the number   *)
(* of swaps, what was loaded and the set of unpublished pushes alone.      *)
LEMMA StepKinds ==
  ASSUME TypeOK, [Next]_vars
  PROVE  \/ \E w \in Writers : \E e, b : Begin(w, e, b)
         \/ \E w \in Writers : Load(w) \/ Publish(w)
         \/ /\ UNCHANGED <<page, moves, seen, cur, begun, Unpublished>>
            /\ \A v \in Writers : pc'[v] \in Choosing \cup Preparing
                                    => pc[v] \in Choosing \cup Preparing
<1> DEFINE Rest == /\ UNCHANGED <<page, moves, seen, cur, begun, Unpublished>>
                   /\ \A v \in Writers : pc'[v] \in Choosing \cup Preparing
                                           => pc[v] \in Choosing \cup Preparing
<1>1. ASSUME NEW w \in Writers, NEW from, NEW to, Goto(w, from, to),
             UNCHANGED <<page, moves, seen, cur, begun>>,
             \/ from \in Choosing \cup Preparing
                  /\ to \in {"load"} \cup Choosing \cup Preparing
             \/ from \in Filling /\ to \in {"time", "idle"}
      PROVE  Rest
  <2>1. pc[w] = from /\ pc' = [pc EXCEPT ![w] = to] /\ pc \in [Writers -> pcs]
    BY <1>1 DEF Goto, TypeOK
  <2>2. Unpublished' = Unpublished
    BY <1>1, <2>1 DEF Unpublished, Choosing, Preparing, Filling
  <2> QED
    BY <1>1, <2>1, <2>2 DEF Choosing, Preparing, Filling
<1>2. CASE UNCHANGED vars
  BY <1>2 DEF vars, Unpublished
<1>3. ASSUME NEW w \in Writers,
             \/ ReadSlot(w)  \/ Wait(w)      \/ Choose(w)     \/ CopyBottom(w)
             \/ CopyTop(w)   \/ CopyPos(w)   \/ IncTop(w)     \/ WrapTop(w)
             \/ IncBottom(w) \/ WrapBottom(w) \/ CopyEvent(w) \/ Retry(w)
      PROVE  Rest
  <2>1. UNCHANGED <<page, moves, seen, cur, begun>>
    BY <1>3 DEF ReadSlot, Wait, Choose, CopyBottom, CopyTop, CopyPos, IncTop,
                WrapTop, IncBottom, WrapBottom, CopyEvent, Retry, Prepare, local
  <2>2. \E from \in Choosing \cup Preparing :
          \E to \in {"load"} \cup Choosing \cup Preparing : Goto(w, from, to)
    BY <1>3 DEF ReadSlot, Wait, Choose, CopyBottom, CopyTop, CopyPos, IncTop,
                WrapTop, IncBottom, WrapBottom, CopyEvent, Retry, Prepare,
                Choosing, Preparing
  <2> QED
    BY <1>1, <2>1, <2>2
<1>4. ASSUME NEW w \in Writers, WriteData(w) \/ WriteTime(w) PROVE Rest
  BY <1>1, <1>4 DEF WriteData, WriteTime, Fill, Filling, local
<1> QED
  BY <1>2, <1>3, <1>4 DEF Next, Step, push, push_all

(* The counter keeps telling the number of swaps, however pushes overlap.  *)
LEMMA CounterStep == TypeOK /\ CounterInv /\ [Next]_vars => CounterInv'
<1> SUFFICES ASSUME TypeOK, CounterInv, [Next]_vars PROVE CounterInv'
  OBVIOUS
<1>t. /\ pc \in [Writers -> pcs] /\ cur \in [Writers -> Page]
      /\ seen \in [Writers -> Nat] /\ moves \in Nat
      /\ page.counter \in 0 .. CounterMod - 1
  BY DEF TypeOK, Page
<1>1. ASSUME NEW w \in Writers, NEW e, NEW b, Begin(w, e, b) PROVE CounterInv'
  BY <1>1, <1>t DEF Begin, Goto, CounterInv, Choosing, Preparing
<1>2. ASSUME NEW w \in Writers, Load(w) PROVE CounterInv'
  <2>1. /\ cur'[w] = page /\ seen'[w] = moves
        /\ UNCHANGED <<page, moves>>
        /\ \A v \in Writers : v # w => /\ cur'[v] = cur[v]
                                       /\ seen'[v] = seen[v]
                                       /\ pc'[v] = pc[v]
    BY <1>2, <1>t DEF Load, Goto
  <2> QED
    BY <1>t, <2>1 DEF CounterInv
<1>3. ASSUME NEW w \in Writers, Publish(w) PROVE CounterInv'
  <2>1. /\ page = cur[w]
        /\ page'.counter = (page.counter + 1) % CounterMod
        /\ moves' = moves + 1
        /\ UNCHANGED <<cur, seen>>
        /\ pc'[w] = "data"
        /\ \A v \in Writers : v # w => pc'[v] = pc[v]
    BY <1>3, <1>t DEF Publish, Goto, local
  <2>2. Turns(moves', page'.counter)
    BY <1>t, <2>1, TurnsNext DEF CounterInv
  <2>3. ASSUME NEW v \in Writers, pc'[v] \in Choosing \cup Preparing
        PROVE  seen'[v] <= moves' /\ Turns(seen'[v], cur'[v].counter)
    <3>1. pc[v] \in Choosing \cup Preparing
      BY <2>1, <2>3 DEF Choosing, Preparing
    <3>2. seen[v] <= moves /\ Turns(seen[v], cur[v].counter)
      BY <3>1 DEF CounterInv
    <3> QED
      BY <1>t, <2>1, <3>2
  <2> QED
    BY <2>2, <2>3 DEF CounterInv
<1>4. ASSUME UNCHANGED <<page, moves, seen, cur>>,
             \A v \in Writers : pc'[v] \in Choosing \cup Preparing
                                  => pc[v] \in Choosing \cup Preparing
      PROVE  CounterInv'
  BY <1>4 DEF CounterInv
<1> QED
  BY <1>1, <1>2, <1>3, <1>4, StepKinds

(* A push that begins is one more to publish, one that publishes one less. *)
LEMMA SwapsStep == TypeOK /\ SwapsBegun /\ [Next]_vars => SwapsBegun'
<1> SUFFICES ASSUME TypeOK, SwapsBegun, [Next]_vars PROVE SwapsBegun'
  OBVIOUS
<1>t. /\ pc \in [Writers -> pcs] /\ moves \in Nat /\ begun \in Nat
      /\ IsFiniteSet(Unpublished) /\ Cardinality(Unpublished) \in Nat
      /\ moves + Cardinality(Unpublished) <= begun
  BY FS_CardinalityType, MaxPushAssumption DEF TypeOK, SwapsBegun
<1>1. ASSUME NEW w \in Writers, NEW e, NEW b, Begin(w, e, b) PROVE SwapsBegun'
  <2>1. /\ Unpublished' = Unpublished \cup {w} /\ w \notin Unpublished
        /\ moves' = moves /\ begun' = begun + 1
    BY <1>1, <1>t DEF Begin, Goto, Unpublished, Choosing, Preparing
  <2>2. IsFiniteSet(Unpublished') /\ Cardinality(Unpublished') = Cardinality(Unpublished) + 1
    BY <1>t, <2>1, FS_AddElement
  <2> QED
    BY <1>t, <2>1, <2>2 DEF SwapsBegun
<1>2. ASSUME NEW w \in Writers, Load(w) PROVE SwapsBegun'
  <2>1. Unpublished' = Unpublished
    BY <1>2, <1>t DEF Load, Goto, Unpublished, Choosing, Preparing
  <2> QED
    BY <1>2, <2>1 DEF Load, SwapsBegun
<1>3. ASSUME NEW w \in Writers, Publish(w) PROVE SwapsBegun'
  <2>1. /\ Unpublished' = Unpublished \ {w} /\ w \in Unpublished
        /\ moves' = moves + 1 /\ begun' = begun
    BY <1>3, <1>t DEF Publish, Goto, Unpublished, Choosing, Preparing
  <2>2. IsFiniteSet(Unpublished') /\ Cardinality(Unpublished') = Cardinality(Unpublished) - 1
    BY <1>t, <2>1, FS_RemoveElement
  <2> QED
    BY <1>t, <2>1, <2>2 DEF SwapsBegun
<1>4. CASE UNCHANGED <<moves, begun, Unpublished>>
  BY <1>4 DEF SwapsBegun
<1> QED
  BY <1>1, <1>2, <1>3, <1>4, StepKinds

(* However pushes overlap, a compare-and-swap succeeds only if page was    *)
(* swapped a whole number of turns of the counter since it was loaded.     *)
WholeTurns ==
  [][\A w \in Writers : pc[w] = "cas" /\ pc'[w] = "data" =>
       \E q \in Nat : moves = seen[w] + q * CounterMod]_vars

(* A step to "data" is a successful compare-and-swap.                      *)
LEMMA OnlyPublish ==
  ASSUME TypeOK, Next, NEW v \in Writers, pc[v] = "cas", pc'[v] = "data"
  PROVE  Publish(v)
<1>1. PICK w \in Writers : push(w) \/ push_all(w) \/ Step(w)
  BY DEF Next
<1>2. w = v
  <2>1. PICK from, to : Goto(w, from, to)
    BY <1>1
    DEF Step, push, push_all, Begin, Load, ReadSlot, Wait, Choose, CopyBottom,
        CopyTop, CopyPos, IncTop, WrapTop, IncBottom, WrapBottom, CopyEvent,
        Prepare, Publish, Retry, WriteData, WriteTime, Fill
  <2> QED
    BY <2>1 DEF Goto, TypeOK
<1>3. ~Retry(v)
  BY DEF Retry, Goto, TypeOK
<1> QED
  BY <1>1, <1>2, <1>3
  DEF Step, push, push_all, Begin, Load, ReadSlot, Wait, Choose, CopyBottom,
      CopyTop, CopyPos, IncTop, WrapTop, IncBottom, WrapBottom, CopyEvent,
      Prepare, WriteData, WriteTime, Fill, Goto

(* What a successful compare-and-swap implies about the swaps since.       *)
LEMMA SwapTurns ==
  ASSUME TypeOK, CounterInv, NEW w \in Writers, Publish(w)
  PROVE  seen[w] <= moves /\ \E q \in Nat : moves = seen[w] + q * CounterMod
<1>1. pc[w] = "cas" /\ page = cur[w]
  BY DEF Publish, Goto
<1>2. /\ seen[w] <= moves
      /\ Turns(seen[w], page.counter) /\ Turns(moves, page.counter)
  BY <1>1 DEF CounterInv, Preparing
<1>3. seen[w] \in Nat /\ moves \in Nat /\ page.counter \in 0 .. CounterMod - 1
  BY DEF TypeOK, Page
<1> QED
  BY <1>2, <1>3, TurnsApart

(* The initial state satisfies both invariants.                            *)
LEMMA InitCounters == Init => CounterInv /\ SwapsBegun
<1> SUFFICES ASSUME Init PROVE CounterInv /\ SwapsBegun
  OBVIOUS
<1>1. Turns(moves, page.counter)
  <2>1. 0 = 0 * CounterMod + 0
    BY CounterAssumption
  <2> QED
    BY <2>1 DEF Init, Turns
<1>2. Unpublished = {}
  BY DEF Init, Unpublished, Choosing, Preparing
<1>3. SwapsBegun
  BY <1>2, FS_EmptySet DEF Init, SwapsBegun
<1> QED
  BY <1>1, <1>3 DEF Init, CounterInv, Choosing, Preparing

(* The counter detects every interleaving but whole turns of itself,       *)
(* whatever overlaps.                                                      *)
THEOREM SwapsAfterWholeTurns == Spec => WholeTurns
<1>1. TypeOK /\ CounterInv /\ [Next]_vars =>
        [\A w \in Writers : pc[w] = "cas" /\ pc'[w] = "data" =>
           \E q \in Nat : moves = seen[w] + q * CounterMod]_vars
  BY OnlyPublish, SwapTurns
<1> QED
  BY <1>1, InitCounters, CounterStep, TypeCorrect, PTL DEF Spec, WholeTurns

(* As long as no more pushes are begun than the counter has values (2^64), *)
(* there is no ABA: a compare-and-swap succeeds only if page has not moved *)
(* since the writer loaded it, however pushes overlap.                     *)
THEOREM CounterPreventsABA ==
  ASSUME MaxPush <= CounterMod
  PROVE  Spec => NoABA
<1>1. TypeOK /\ CounterInv /\ SwapsBegun /\ [Next]_vars =>
        [\A w \in Writers : pc[w] = "cas" /\ pc'[w] = "data" => seen[w] = moves]_vars
  <2> SUFFICES ASSUME TypeOK, CounterInv, SwapsBegun, Next, NEW w \in Writers,
                      pc[w] = "cas", pc'[w] = "data"
               PROVE  seen[w] = moves
    OBVIOUS
  <2>1. Publish(w)
    BY OnlyPublish
  <2>2. PICK q \in Nat : moves = seen[w] + q * CounterMod
    BY <2>1, SwapTurns
  <2>3. moves < CounterMod
    <3>1. w \in Unpublished
      BY DEF Unpublished, Preparing
    <3>2. Cardinality(Unpublished) \in Nat /\ Cardinality(Unpublished) # 0
      BY <3>1, FS_CardinalityType, FS_EmptySet DEF SwapsBegun
    <3> QED
      BY <3>2, CounterAssumption, MaxPushAssumption DEF SwapsBegun, TypeOK
  <2>4. seen[w] \in Nat /\ moves \in Nat
    BY DEF TypeOK
  <2>5. CASE q = 0
    BY <2>2, <2>4, <2>5, CounterAssumption
  <2>6. CASE q >= 1
    <3>1. q * CounterMod >= CounterMod
      BY <2>6, CounterAssumption
    <3> QED
      BY <2>2, <2>3, <2>4, <3>1, CounterAssumption
  <2> QED
    BY <2>5, <2>6
<1> QED
  BY <1>1, InitCounters, CounterStep, SwapsStep, TypeCorrect, PTL DEF Spec, NoABA

-----------------------------------------------------------------------------
(* While a serialised writer is in a push, every other one is idle.        *)
LEMMA OthersIdle ==
  ASSUME SerialInv, NEW w \in Writers, pc[w] # "idle", NEW v \in Writers, v # w
  PROVE  pc[v] = "idle"
  BY DEF SerialInv, OneAtATime

(* An idle writer satisfies its part of the invariant.                     *)
LEMMA IdlePart ==
  ASSUME NEW v \in Writers, pc'[v] = "idle"
  PROVE  PreparedSoFar(v)' /\ FillsPublished(v)'
  BY DEF PreparedSoFar, FillsPublished, Choosing, Preparing, Filling

(* A step before publication that keeps the published state and the slots  *)
(* preserves the invariant if it preserves what its writer knows.          *)
LEMMA QuietStep ==
  ASSUME TypeOK, SerialInv, NEW w \in Writers, NEW to \in pcs,
         pc[w] \notin Filling, pc[w] # "idle", to \notin Filling,
         pc' = [pc EXCEPT ![w] = to],
         page' = page, st'[page.ref] = st[page.ref], array' = array,
         PreparedSoFar(w)'
  PROVE  SerialInv'
<1>1. \A v \in Writers : v # w => pc[v] = "idle" /\ pc'[v] = "idle"
  BY OthersIdle DEF TypeOK
<1>2. pc'[w] = to
  BY DEF TypeOK
<1>3. Published' = Published
  BY DEF Published
<1>4. OneAtATime'
  BY <1>1 DEF OneAtATime
<1>5. PublishedInRing'
  BY <1>3 DEF SerialInv, PublishedInRing
<1>6. LastPushComplete'
  <2>1. \A v \in Writers : pc[v] \notin Filling
    BY <1>1 DEF Filling
  <2> QED
    BY <1>3, <2>1 DEF SerialInv, LastPushComplete
<1>7. \A v \in Writers : PreparedSoFar(v)' /\ FillsPublished(v)'
  <2>1. FillsPublished(w)'
    BY <1>2 DEF FillsPublished
  <2> QED
    BY <1>1, <2>1, IdlePart
<1> QED
  BY <1>4, <1>5, <1>6, <1>7 DEF SerialInv

(* Serialised pushes preserve the invariant.                               *)
LEMMA SerialStep ==
  ASSUME TypeOK, Serialised, SerialInv, [Next]_vars
  PROVE  SerialInv'
<1>t. /\ pc \in [Writers -> pcs]
      /\ cur \in [Writers -> Page]
      /\ evt \in [Writers -> Event]
      /\ sref \in [Writers -> StateId]
      /\ slot \in [Writers -> Nat]
      /\ ev \in [Writers -> Event]
      /\ err \in [Writers -> Code]
      /\ page.ref \in StateId
  BY DEF TypeOK, Page
<1>s. st \in [StateId -> State]
  BY DEF TypeOK
<1>p. Published = st[page.ref]
  BY DEF Published
<1>i. \A w \in Writers : PreparedSoFar(w)
  BY DEF SerialInv
<1>r. Published.top \in Index /\ Published.bottom \in Index
  BY DEF SerialInv, PublishedInRing
<1>1. ASSUME NEW w \in Writers, push(w) \/ push_all(w) PROVE SerialInv'
  <2>1. PICK e, b : Begin(w, e, b)
    BY <1>1 DEF push, push_all
  <2>2. \A v \in Writers : v # w => pc[v] = "idle"
    BY <2>1 DEF Begin, Serialised
  <2>3. /\ pc[w] = "idle"
        /\ pc'[w] = "load"
        /\ \A v \in Writers : v # w => pc'[v] = "idle"
        /\ UNCHANGED <<page, st, array>>
    BY <1>t, <2>1, <2>2 DEF Begin, Goto
  <2>4. Published' = Published
    BY <2>3 DEF Published
  <2>5. OneAtATime'
    BY <2>3 DEF OneAtATime
  <2>6. PublishedInRing'
    BY <2>4 DEF SerialInv, PublishedInRing
  <2>7. LastPushComplete'
    <3>1. \A v \in Writers : pc[v] \notin Filling
      BY <2>2, <2>3 DEF Filling
    <3> QED
      BY <2>3, <2>4, <3>1 DEF SerialInv, LastPushComplete
  <2>8. PreparedSoFar(w)' /\ FillsPublished(w)'
    BY <2>3 DEF PreparedSoFar, FillsPublished, Choosing, Preparing, Filling
  <2>9. \A v \in Writers : PreparedSoFar(v)' /\ FillsPublished(v)'
    BY <2>3, <2>8, IdlePart
  <2> QED
    BY <2>5, <2>6, <2>7, <2>9 DEF SerialInv
<1>2. ASSUME NEW w \in Writers, Load(w) \/ Retry(w) PROVE SerialInv'
  <2>1. CASE Load(w)
    <3>1. PreparedSoFar(w)'
      BY <1>t, <2>1 DEF Load, Goto, PreparedSoFar, Choosing, Preparing
    <3> QED
      BY <2>1, <3>1, QuietStep DEF Load, Goto, Filling, pcs
  <2>2. CASE Retry(w)
    BY <1>i, <2>2 DEF Retry, Goto, PreparedSoFar, Preparing
  <2> QED
    BY <1>2, <2>1, <2>2
<1>3. ASSUME NEW w \in Writers, ReadSlot(w) PROVE SerialInv'
  <2>1. cur[w] = page
    BY <1>3, <1>i DEF ReadSlot, Goto, PreparedSoFar, Choosing
  <2>2. \A v \in Writers : pc[v] \notin Filling
    BY <1>3, OthersIdle DEF ReadSlot, Goto, Filling
  <2>3. /\ array[Published.pos] = Published.event
        /\ Published.pos < size
    BY <2>2, NAssumption DEF SerialInv, LastPushComplete, PublishedInRing, Index, size
  <2>4. evt'[w] = Published.event
    BY <1>t, <1>p, <1>3, <2>1, <2>3 DEF ReadSlot
  <2>5. PreparedSoFar(w)'
    BY <1>t, <1>p, <1>3, <2>1, <2>4
    DEF ReadSlot, Goto, PreparedSoFar, Choosing, Preparing, Published
  <2> QED
    BY <1>3, <2>5, QuietStep DEF ReadSlot, Goto, Filling, pcs
<1>4. ASSUME NEW w \in Writers, Wait(w) PROVE SerialInv'
  BY <1>p, <1>i, <1>4 DEF Wait, Goto, PreparedSoFar, Choosing
<1>5. ASSUME NEW w \in Writers, Choose(w) PROVE SerialInv'
  <2>1. cur[w] = page /\ pc[w] = "compare"
    BY <1>5, <1>i DEF Choose, Goto, PreparedSoFar, Choosing
  <2>2. sref'[w] # page.ref
    BY <1>t, <1>5, <2>1, WritersAssumption DEF Choose
  <2>3. PreparedSoFar(w)'
    BY <1>t, <1>5, <2>1, <2>2 DEF Choose, Goto, PreparedSoFar, Choosing, Preparing
  <2> QED
    BY <1>5, <2>3, QuietStep DEF Choose, Goto, Filling, pcs
<1>6. ASSUME NEW w \in Writers, CopyBottom(w) PROVE SerialInv'
  <2>1. /\ cur[w] = page /\ sref[w] # page.ref
        /\ UNCHANGED <<page, array, cur, sref>>
    BY <1>i, <1>6 DEF CopyBottom, Prepare, Goto, PreparedSoFar, Preparing
  <2>2. st'[page.ref] = st[page.ref]
    BY <1>t, <1>s, <1>6, <2>1 DEF CopyBottom
  <2>3. Published' = Published
    BY <2>1, <2>2 DEF Published
  <2>4. PreparedSoFar(w)'
    BY <1>t, <1>s, <1>p, <1>i, <1>r, <1>6, <2>1, <2>3, NAssumption
    DEF CopyBottom, Prepare, Goto, PreparedSoFar, Choosing, Preparing, State, Inc,
        Index
  <2> QED
    BY <1>6, <2>1, <2>2, <2>4, QuietStep
    DEF CopyBottom, Prepare, Goto, Filling, pcs
<1>7. ASSUME NEW w \in Writers, CopyTop(w) PROVE SerialInv'
  <2>1. /\ cur[w] = page /\ sref[w] # page.ref
        /\ UNCHANGED <<page, array, cur, sref>>
    BY <1>i, <1>7 DEF CopyTop, Prepare, Goto, PreparedSoFar, Preparing
  <2>2. st'[page.ref] = st[page.ref]
    BY <1>t, <1>s, <1>7, <2>1 DEF CopyTop
  <2>3. Published' = Published
    BY <2>1, <2>2 DEF Published
  <2>4. PreparedSoFar(w)'
    BY <1>t, <1>s, <1>p, <1>i, <1>r, <1>7, <2>1, <2>3, NAssumption
    DEF CopyTop, Prepare, Goto, PreparedSoFar, Choosing, Preparing, State, Inc,
        Index
  <2> QED
    BY <1>7, <2>1, <2>2, <2>4, QuietStep
    DEF CopyTop, Prepare, Goto, Filling, pcs
<1>8. ASSUME NEW w \in Writers, CopyPos(w) PROVE SerialInv'
  <2>1. /\ cur[w] = page /\ sref[w] # page.ref
        /\ UNCHANGED <<page, array, cur, sref>>
    BY <1>i, <1>8 DEF CopyPos, Prepare, Goto, PreparedSoFar, Preparing
  <2>2. st'[page.ref] = st[page.ref]
    BY <1>t, <1>s, <1>8, <2>1 DEF CopyPos
  <2>3. Published' = Published
    BY <2>1, <2>2 DEF Published
  <2>4. PreparedSoFar(w)'
    BY <1>t, <1>s, <1>p, <1>i, <1>r, <1>8, <2>1, <2>3, NAssumption
    DEF CopyPos, Prepare, Goto, PreparedSoFar, Choosing, Preparing, State, Inc,
        Index
  <2> QED
    BY <1>8, <2>1, <2>2, <2>4, QuietStep
    DEF CopyPos, Prepare, Goto, Filling, pcs
<1>9. ASSUME NEW w \in Writers, IncTop(w) PROVE SerialInv'
  <2>1. /\ cur[w] = page /\ sref[w] # page.ref
        /\ UNCHANGED <<page, array, cur, sref>>
    BY <1>i, <1>9 DEF IncTop, Prepare, Goto, PreparedSoFar, Preparing
  <2>2. st'[page.ref] = st[page.ref]
    BY <1>t, <1>s, <1>9, <2>1 DEF IncTop
  <2>3. Published' = Published
    BY <2>1, <2>2 DEF Published
  <2>4. PreparedSoFar(w)'
    BY <1>t, <1>s, <1>p, <1>i, <1>r, <1>9, <2>1, <2>3, NAssumption
    DEF IncTop, Prepare, Goto, PreparedSoFar, Choosing, Preparing, State, Inc,
        Index
  <2> QED
    BY <1>9, <2>1, <2>2, <2>4, QuietStep
    DEF IncTop, Prepare, Goto, Filling, pcs
<1>10. ASSUME NEW w \in Writers, WrapTop(w) PROVE SerialInv'
  <2>1. /\ cur[w] = page /\ sref[w] # page.ref
        /\ UNCHANGED <<page, array, cur, sref>>
    BY <1>i, <1>10 DEF WrapTop, Prepare, Goto, PreparedSoFar, Preparing
  <2>2. st'[page.ref] = st[page.ref]
    BY <1>t, <1>s, <1>10, <2>1 DEF WrapTop
  <2>3. Published' = Published
    BY <2>1, <2>2 DEF Published
  <2>4. PreparedSoFar(w)'
    BY <1>t, <1>s, <1>p, <1>i, <1>r, <1>10, <2>1, <2>3, NAssumption
    DEF WrapTop, Prepare, Goto, PreparedSoFar, Choosing, Preparing, State, Inc,
        Index, Wrapped, size
  <2> QED
    BY <1>10, <2>1, <2>2, <2>4, QuietStep
    DEF WrapTop, Prepare, Goto, Filling, pcs
<1>11. ASSUME NEW w \in Writers, IncBottom(w) PROVE SerialInv'
  <2>1. /\ cur[w] = page /\ sref[w] # page.ref
        /\ UNCHANGED <<page, array, cur, sref>>
    BY <1>i, <1>11 DEF IncBottom, Prepare, Goto, PreparedSoFar, Preparing
  <2>2. st'[page.ref] = st[page.ref]
    BY <1>t, <1>s, <1>11, <2>1 DEF IncBottom
  <2>3. Published' = Published
    BY <2>1, <2>2 DEF Published
  <2>4. PreparedSoFar(w)'
    BY <1>t, <1>s, <1>p, <1>i, <1>r, <1>11, <2>1, <2>3, NAssumption
    DEF IncBottom, Prepare, Goto, PreparedSoFar, Choosing, Preparing, State, Inc,
        Index
  <2> QED
    BY <1>11, <2>1, <2>2, <2>4, QuietStep
    DEF IncBottom, Prepare, Goto, Filling, pcs
<1>12. ASSUME NEW w \in Writers, WrapBottom(w) PROVE SerialInv'
  <2>1. /\ cur[w] = page /\ sref[w] # page.ref
        /\ UNCHANGED <<page, array, cur, sref>>
    BY <1>i, <1>12 DEF WrapBottom, Prepare, Goto, PreparedSoFar, Preparing
  <2>2. st'[page.ref] = st[page.ref]
    BY <1>t, <1>s, <1>12, <2>1 DEF WrapBottom
  <2>3. Published' = Published
    BY <2>1, <2>2 DEF Published
  <2>4. PreparedSoFar(w)'
    BY <1>t, <1>s, <1>p, <1>i, <1>r, <1>12, <2>1, <2>3, NAssumption
    DEF WrapBottom, Prepare, Goto, PreparedSoFar, Choosing, Preparing, State, Inc,
        Index, Wrapped, size
  <2> QED
    BY <1>12, <2>1, <2>2, <2>4, QuietStep
    DEF WrapBottom, Prepare, Goto, Filling, pcs
<1>13. ASSUME NEW w \in Writers, CopyEvent(w) PROVE SerialInv'
  <2>1. /\ cur[w] = page /\ sref[w] # page.ref
        /\ UNCHANGED <<page, array, cur, sref>>
    BY <1>i, <1>13 DEF CopyEvent, Prepare, Goto, PreparedSoFar, Preparing
  <2>2. st'[page.ref] = st[page.ref]
    BY <1>t, <1>s, <1>13, <2>1 DEF CopyEvent
  <2>3. Published' = Published
    BY <2>1, <2>2 DEF Published
  <2>4. PreparedSoFar(w)'
    BY <1>t, <1>s, <1>p, <1>i, <1>r, <1>13, <2>1, <2>3, NAssumption
    DEF CopyEvent, Prepare, Goto, PreparedSoFar, Choosing, Preparing, State, Inc,
        Index
  <2> QED
    BY <1>13, <2>1, <2>2, <2>4, QuietStep
    DEF CopyEvent, Prepare, Goto, Filling, pcs
<1>14. ASSUME NEW w \in Writers, Publish(w) PROVE SerialInv'
  <2>1. /\ pc[w] = "cas" /\ pc'[w] = "data"
        /\ page'.ref = sref[w]
        /\ UNCHANGED <<st, array, slot, ev>>
    BY <1>t, <1>14 DEF Publish, Goto, local
  <2>2. \A v \in Writers : v # w => pc'[v] = "idle"
    BY <1>t, <1>14, <2>1, OthersIdle DEF Publish, Goto
  <2>3. Published' = st[sref[w]]
    BY <2>1 DEF Published
  <2>4. /\ Published'.pos = Published.top
        /\ Published'.top = Inc(Published.top)
        /\ Published'.bottom \in {Inc(Published.bottom), Published.bottom}
        /\ Published'.event = ev[w]
        /\ slot[w] = Published.top
    BY <1>i, <2>1, <2>3 DEF PreparedSoFar, Preparing
  <2>5. OneAtATime'
    BY <2>2 DEF OneAtATime
  <2>6. PublishedInRing'
    BY <1>r, <2>4, IndexTypes DEF PublishedInRing
  <2>7. LastPushComplete'
    BY <2>1 DEF LastPushComplete, Filling
  <2>8. PreparedSoFar(w)'
    BY <2>1 DEF PreparedSoFar, Choosing, Preparing
  <2>9. FillsPublished(w)'
    BY <2>1, <2>4 DEF FillsPublished
  <2>10. \A v \in Writers : PreparedSoFar(v)' /\ FillsPublished(v)'
    BY <2>2, <2>8, <2>9, IdlePart
  <2> QED
    BY <2>5, <2>6, <2>7, <2>10 DEF SerialInv
<1>15. ASSUME NEW w \in Writers, WriteData(w) \/ WriteTime(w) PROVE SerialInv'
  <2>1. pc[w] \in Filling /\ UNCHANGED <<page, st, slot, ev>>
    BY <1>15 DEF WriteData, WriteTime, Fill, Goto, Filling, local
  <2>2. \A v \in Writers : v # w => pc'[v] = "idle"
    BY <1>t, <1>15, <2>1, OthersIdle DEF WriteData, WriteTime, Fill, Goto, Filling
  <2>3. Published' = Published
    BY <2>1 DEF Published
  <2>4. /\ slot[w] = Published.pos
        /\ ev[w] = Published.event
        /\ Published.pos \in 0 .. N + 1 /\ Published.pos < size
    BY <2>1, NAssumption
    DEF SerialInv, FillsPublished, PublishedInRing, Index, size
  <2>5. /\ array \in [0 .. N + 1 -> Event]
        /\ array[Published.pos] \in Event
        /\ Published.event \in Event
    BY <1>t, <2>4 DEF TypeOK, SlotArray
  <2>6. OneAtATime'
    BY <2>2 DEF OneAtATime
  <2>7. PublishedInRing'
    BY <2>3 DEF SerialInv, PublishedInRing
  <2>8. CASE WriteData(w)
    <3>1. pc'[w] = "time"
      BY <1>t, <2>8 DEF WriteData, Fill, Goto
    <3>2. array'[Published.pos].data = Published.event.data
      <4>1. array'[Published.pos]
              = [array[Published.pos] EXCEPT !.data = Published.event.data]
        BY <2>4, <2>5, <2>8 DEF WriteData
      <4> QED
        BY <2>5, <4>1 DEF Event
    <3>3. PreparedSoFar(w)' /\ FillsPublished(w)'
      BY <2>1, <2>3, <2>4, <3>1, <3>2
      DEF PreparedSoFar, FillsPublished, Choosing, Preparing
    <3>4. LastPushComplete'
      BY <3>1 DEF LastPushComplete, Filling
    <3>5. \A v \in Writers : PreparedSoFar(v)' /\ FillsPublished(v)'
      BY <2>2, <3>3, IdlePart
    <3> QED
      BY <2>6, <2>7, <3>4, <3>5 DEF SerialInv
  <2>9. CASE WriteTime(w)
    <3>1. pc[w] = "time" /\ pc'[w] = "idle"
      BY <1>t, <2>9 DEF WriteTime, Fill, Goto
    <3>2. array[Published.pos].data = Published.event.data
      BY <3>1 DEF SerialInv, FillsPublished, Filling
    <3>3. array'[Published.pos]
            = [array[Published.pos] EXCEPT !.time = Published.event.time]
      BY <2>4, <2>5, <2>9 DEF WriteTime
    <3>4. array'[Published.pos] = Published.event
      BY <2>5, <3>2, <3>3 DEF Event
    <3>5. LastPushComplete'
      BY <2>3, <3>4 DEF LastPushComplete
    <3>6. \A v \in Writers : PreparedSoFar(v)' /\ FillsPublished(v)'
      BY <2>2, <3>1, IdlePart
    <3> QED
      BY <2>6, <2>7, <3>5, <3>6 DEF SerialInv
  <2> QED
    BY <1>15, <2>8, <2>9
<1>16. CASE UNCHANGED vars
  BY <1>16
  DEF vars, SerialInv, OneAtATime, PublishedInRing, LastPushComplete,
      PreparedSoFar, FillsPublished, Published
<1> QED
  BY <1>1, <1>2, <1>3, <1>4, <1>5, <1>6, <1>7, <1>8, <1>9, <1>10, <1>11, <1>12,
     <1>13, <1>14, <1>15, <1>16 DEF Next, Step

(* Serialised pushes leave the ring whole: the invariant holds always.     *)
THEOREM SerialInvariant ==
  ASSUME Serialised
  PROVE  Spec => []SerialInv
<1>1. Init => SerialInv
  <2> SUFFICES ASSUME Init PROVE SerialInv
    OBVIOUS
  <2>1. /\ Published = [top |-> 0, bottom |-> 0, pos |-> 0, event |-> NoEvent]
        /\ array[0] = NoEvent
    BY NAssumption DEF Init, Published, StateId
  <2>2. \A w \in Writers : pc[w] = "idle"
    BY DEF Init
  <2>3. OneAtATime
    BY <2>2 DEF OneAtATime
  <2>4. PublishedInRing
    BY <2>1, NAssumption DEF PublishedInRing, Index
  <2>5. LastPushComplete
    BY <2>1 DEF LastPushComplete
  <2>6. \A w \in Writers : PreparedSoFar(w) /\ FillsPublished(w)
    BY <2>2 DEF PreparedSoFar, FillsPublished, Choosing, Preparing, Filling
  <2> QED
    BY <2>3, <2>4, <2>5, <2>6 DEF SerialInv
<1>2. TypeOK /\ SerialInv /\ [Next]_vars => SerialInv'
  BY SerialStep
<1> QED
  BY <1>1, <1>2, TypeCorrect, PTL DEF Spec

(* A serialised push takes a fixed number of steps: its reads of the last  *)
(* slot find the event, and its compare-and-swap succeeds at once.         *)
THEOREM SerialFixedSteps ==
  ASSUME Serialised
  PROVE  Spec => FixedSteps
<1>1. TypeOK /\ SerialInv /\ [Next]_vars =>
        [\A w \in Writers :
           /\ pc[w] = "compare" => pc'[w] # "read"
           /\ pc[w] = "cas" => pc'[w] # "load"]_vars
  <2> SUFFICES ASSUME TypeOK, SerialInv, Next, NEW v \in Writers
               PROVE  /\ pc[v] = "compare" => pc'[v] # "read"
                      /\ pc[v] = "cas" => pc'[v] # "load"
    OBVIOUS
  <2>1. \A w \in Writers : ~Wait(w) /\ ~Retry(w)
    BY DEF SerialInv, PreparedSoFar, Choosing, Preparing, Published, Wait, Retry,
           Goto
  <2>2. PICK w \in Writers : push(w) \/ push_all(w) \/ Step(w)
    BY DEF Next
  <2>3. PICK from, to : Goto(w, from, to) /\ ~(from = "compare" /\ to = "read")
                                          /\ ~(from = "cas" /\ to = "load")
    BY <2>1, <2>2
    DEF Step, push, push_all, Begin, Load, ReadSlot, Choose, CopyBottom, CopyTop,
        CopyPos, IncTop, WrapTop, IncBottom, WrapBottom, CopyEvent, Prepare,
        Publish, WriteData, WriteTime, Fill
  <2> QED
    BY <2>3 DEF Goto, TypeOK
<1> QED
  BY <1>1, SerialInvariant, TypeCorrect, PTL DEF Spec, FixedSteps

-----------------------------------------------------------------------------
(* A step that neither publishes nor fills a slot keeps the published      *)
(* state and the slots.                                                    *)
LEMMA PublishedKept ==
  ASSUME TypeOK, SerialInv, [Next]_vars, \A w \in Writers : ~Publish(w)
  PROVE  page' = page /\ Published' = Published /\ ret' = ret
<1>1. CASE UNCHANGED <<page, st, ret>>
  BY <1>1 DEF Published
<1>2. ASSUME NEW w \in Writers,
             \/ CopyBottom(w) \/ CopyTop(w)   \/ CopyPos(w) \/ IncTop(w)
             \/ WrapTop(w)    \/ IncBottom(w) \/ WrapBottom(w) \/ CopyEvent(w)
      PROVE  page' = page /\ Published' = Published /\ ret' = ret
  <2>1. pc[w] \in Preparing /\ UNCHANGED <<page, ret>>
    BY <1>2 DEF CopyBottom, CopyTop, CopyPos, IncTop, WrapTop, IncBottom,
                WrapBottom, CopyEvent, Prepare, Goto, Preparing
  <2>2. sref[w] # page.ref /\ page.ref \in StateId
    BY <2>1 DEF SerialInv, PreparedSoFar, TypeOK, Page
  <2>3. st'[page.ref] = st[page.ref]
    BY <1>2, <2>2 DEF CopyBottom, CopyTop, CopyPos, IncTop, WrapTop, IncBottom,
                      WrapBottom, CopyEvent, TypeOK
  <2> QED
    BY <2>1, <2>3 DEF Published
<1> QED
  BY <1>1, <1>2
  DEF Next, Step, vars, push, push_all, Begin, Load, ReadSlot, Wait, Choose,
      Retry, WriteData, WriteTime, Fill

(* Serialised pushes never change the published state in place: a reader   *)
(* that loaded page sees one consistent state until the next publication.  *)
THEOREM SerialPublishedIsolated ==
  ASSUME Serialised
  PROVE  Spec => PublishedStateIsolated
<1>1. TypeOK /\ SerialInv /\ [Next]_vars => [st'[page.ref] = st[page.ref]]_vars
  <2> SUFFICES ASSUME TypeOK, SerialInv, [Next]_vars
               PROVE  st'[page.ref] = st[page.ref]
    OBVIOUS
  <2>1. CASE \E w \in Writers : Publish(w)
    BY <2>1 DEF Publish
  <2>2. CASE \A w \in Writers : ~Publish(w)
    BY <2>2, PublishedKept DEF Published
  <2> QED
    BY <2>1, <2>2
<1> QED
  BY <1>1, SerialInvariant, TypeCorrect, PTL DEF Spec, PublishedStateIsolated

(* The published state and the ring it describes have their types.         *)
LEMMA RingTypes ==
  ASSUME TypeOK, SerialInv
  PROVE  /\ Published.top \in Index
         /\ Published.bottom \in Index
         /\ Published.pos \in 0 .. N + 1 /\ Published.pos \in Index
         /\ Published.event \in Event
         /\ array \in [0 .. N + 1 -> Event]
         /\ Ring \in SlotArray(Event)
<1>1. /\ Published.top \in Index
      /\ Published.bottom \in Index
      /\ Published.pos \in 0 .. N + 1 /\ Published.pos \in Index
      /\ Published.event \in Event
  BY NAssumption
  DEF SerialInv, PublishedInRing, Index, Published, TypeOK, Page, State
<1> QED
  BY <1>1 DEF TypeOK, Ring, SlotArray

(* While nobody fills a slot the ring is what the slots hold.              *)
LEMMA RingIsArray ==
  ASSUME TypeOK, SerialInv, \A w \in Writers : pc[w] \notin Filling
  PROVE  Ring = array
<1>1. array[Published.pos] = Published.event
  BY DEF SerialInv, LastPushComplete
<1> QED
  BY <1>1, RingTypes DEF Ring

(* A serialised compare-and-swap puts the writer's event at top.           *)
LEMMA RingPublished ==
  ASSUME TypeOK, SerialInv, NEW w \in Writers, Publish(w)
  PROVE  /\ Ring' \in SlotArray(Event)
         /\ ev[w] \in Event /\ Ring'[Published.top] = ev[w]
         /\ \A k \in 0 .. N + 1 : k # Published.top => Ring'[k] = Ring[k]
         /\ Published'.top = Inc(Published.top)
         /\ Published'.bottom = IF Inc(Published.top) = Published.bottom
                                THEN Inc(Published.bottom) ELSE Published.bottom
         /\ ret' = IF Inc(Published.top) = Published.bottom
                   THEN "BUFFER_OVERFLOW" ELSE "OK"
<1>1. /\ pc[w] = "cas" /\ page'.ref = sref[w]
      /\ UNCHANGED <<st, array>>
      /\ ret' = err[w]
  BY DEF Publish, Goto
<1>2. Published' = st[sref[w]]
  BY <1>1 DEF Published
<1>3. /\ Published'.pos = Published.top
      /\ Published'.top = Inc(Published.top)
      /\ Published'.bottom = IF Inc(Published.top) = Published.bottom
                             THEN Inc(Published.bottom) ELSE Published.bottom
      /\ Published'.event = ev[w]
      /\ ret' = IF Inc(Published.top) = Published.bottom
                THEN "BUFFER_OVERFLOW" ELSE "OK"
  BY <1>1, <1>2 DEF SerialInv, PreparedSoFar, Preparing
<1>4. Ring = array
  <2>1. \A v \in Writers : pc[v] \notin Filling
    BY <1>1, OthersIdle DEF Filling
  <2> QED
    BY <2>1, RingIsArray
<1>5. ev[w] \in Event
  BY DEF TypeOK
<1>6. Ring' = [array EXCEPT ![Published.top] = ev[w]]
  BY <1>1, <1>3 DEF Ring
<1>7. /\ Ring' \in SlotArray(Event)
      /\ Ring'[Published.top] = ev[w]
      /\ \A k \in 0 .. N + 1 : k # Published.top => Ring'[k] = Ring[k]
  BY <1>4, <1>5, <1>6, RingTypes, NAssumption DEF SlotArray, Index
<1> QED
  BY <1>3, <1>5, <1>7

(* Every other step, the filling of the slot included, leaves the ring as  *)
(* it is.                                                                  *)
LEMMA RingKept ==
  ASSUME TypeOK, SerialInv, [Next]_vars, \A w \in Writers : ~Publish(w)
  PROVE  Ring' = Ring
<1>1. Published' = Published
  BY PublishedKept
<1>2. CASE UNCHANGED array
  BY <1>1, <1>2 DEF Ring
<1>3. ASSUME NEW w \in Writers, WriteData(w) \/ WriteTime(w)
      PROVE  Ring' = Ring
  <2>1. slot[w] = Published.pos
    BY <1>3 DEF WriteData, WriteTime, Fill, Goto, SerialInv, FillsPublished,
                Filling
  <2>2. array' \in [0 .. N + 1 -> Event]
    BY TypeStep DEF TypeOK, SlotArray
  <2>3. \A k \in 0 .. N + 1 : k # Published.pos => array'[k] = array[k]
    <3>1. slot[w] < size
      BY <2>1, RingTypes, NAssumption DEF Index, size
    <3> QED
      BY <1>3, <2>1, <3>1, RingTypes DEF WriteData, WriteTime
  <2> QED
    BY <1>1, <2>2, <2>3, RingTypes DEF Ring
<1> QED
  BY <1>2, <1>3
  DEF Next, Step, vars, push, push_all, Begin, Load, ReadSlot, Wait, Choose,
      CopyBottom, CopyTop, CopyPos, IncTop, WrapTop, IncBottom, WrapBottom,
      CopyEvent, Prepare, Retry

(* Seen through Content, a serialised step is a push of the deque, at the  *)
(* compare-and-swap, or a stutter.                                         *)
LEMMA DequeStep ==
  ASSUME TypeOK, SerialInv, [Next]_vars
  PROVE  [Deque!Next]_(Deque!bdvars)
<1>1. ASSUME NEW w \in Writers, Publish(w) PROVE \E e \in Event : Deque!Push(e)
  <2> DEFINE t == Published.top
             b == Published.bottom
             e == ev[w]
  <2>1. /\ Ring' \in SlotArray(Event)
        /\ e \in Event /\ Ring'[t] = e
        /\ \A k \in 0 .. N + 1 : k # t => Ring'[k] = Ring[k]
        /\ Published'.top = Inc(t)
        /\ Published'.bottom = IF Inc(t) = b THEN Inc(b) ELSE b
        /\ ret' = IF Inc(t) = b THEN "BUFFER_OVERFLOW" ELSE "OK"
    BY <1>1, RingPublished
  <2>2. t \in Index /\ b \in Index /\ Ring \in SlotArray(Event)
    BY RingTypes
  <2> HIDE DEF e, t, b
  <2>3. /\ Inc(t) # b => Held(Ring', b, Inc(t)) = Append(Held(Ring, b, t), e)
        /\ Inc(t) = b => Held(Ring', Inc(b), Inc(t))
                           = Append(Tail(Held(Ring, b, t)), e)
    BY <2>1, <2>2, HeldPush
  <2>4. Content = Held(Ring, b, t) /\ Len(Content) = Length(b, t)
    BY <2>2, HeldSeq DEF Content, b, t
  <2>5. CASE Inc(t) = b
    <3>1. Content' = Append(Tail(Content), e)
      BY <2>1, <2>3, <2>4, <2>5 DEF Content
    <3>2. Len(Content) = N
      BY <2>2, <2>4, <2>5, LengthIncTop
    <3> QED
      BY <2>1, <2>5, <3>1, <3>2 DEF Deque!Push, NoEvent
  <2>6. CASE Inc(t) # b
    <3>1. Content' = Append(Content, e)
      BY <2>1, <2>3, <2>4, <2>6 DEF Content
    <3>2. Len(Content) < N
      BY <2>2, <2>4, <2>6, LengthIncTop, LengthType, NAssumption
    <3> QED
      BY <2>1, <2>6, <3>1, <3>2 DEF Deque!Push, NoEvent
  <2> QED
    BY <2>5, <2>6
<1>2. ASSUME \A w \in Writers : ~Publish(w) PROVE UNCHANGED Deque!bdvars
  BY <1>2, PublishedKept, RingKept DEF Content, Deque!bdvars
<1> QED
  BY <1>1, <1>2 DEF Deque!Next

(* For every capacity and any number of writers, serialised pushes make    *)
(* the buffer a bounded deque: each takes effect, whole, at its            *)
(* compare-and-swap, and returns BUFFER_OVERFLOW exactly when it discards  *)
(* the oldest event.                                                       *)
THEOREM SerialPushImplementsDeque ==
  ASSUME Serialised
  PROVE  Spec => ImplementsDeque
<1>1. Init => Deque!Init
  <2> SUFFICES ASSUME Init PROVE Deque!Init
    OBVIOUS
  <2>1. Published = [top |-> 0, bottom |-> 0, pos |-> 0, event |-> NoEvent]
    BY DEF Init, Published, StateId
  <2>2. Length(Published.bottom, Published.top) = 0
    BY <2>1 DEF Length
  <2>3. Content = << >>
    BY <2>2 DEF Content, Held
  <2> QED
    BY <2>3 DEF Init, Deque!Init
<1>2. TypeOK /\ SerialInv /\ [Next]_vars => [Deque!Next]_(Deque!bdvars)
  BY DequeStep
<1> QED
  BY <1>1, <1>2, SerialInvariant, TypeCorrect, PTL
  DEF Spec, ImplementsDeque, Deque!Spec

=============================================================================
