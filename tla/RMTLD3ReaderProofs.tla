------------------------- MODULE RMTLD3ReaderProofs -------------------------
(***************************************************************************)
(* The cursor of an RMTLD3_reader, for every capacity, clock and width of  *)
(* size_t: it stays in the ring and in the window, consumed() tells where  *)
(* it is although it wraps, set() searches a whole straight window, and    *)
(* its two loops end where their conditions first fail.                    *)
(***************************************************************************)
EXTENDS RMTLD3Reader, RingIndexProofs, WellFoundedInduction

(* The cursor's moves stay in the ring.                                    *)
LEMMA MovesInRing ==
  ASSUME NEW c \in Index, top \in Index, bottom \in Index
  PROVE  Incremented(c) \in Index /\ Decremented(c) \in Index
  BY IndexTypes DEF Incremented, Decremented

(* Every slot of the ring holds an event.                                  *)
LEMMA SlotTimes ==
  ASSUME TypeOK
  PROVE  \A i \in Index : array[i] \in Event /\ time(i) \in Time
<1>1. \A i \in Index : array[i] \in Event
  BY NAssumption DEF TypeOK, SlotArray, Index
<1> QED
  BY <1>1 DEF Event, time

(* The type invariant is inductive.                                        *)
LEMMA TypeStep == TypeOK /\ [Next]_vars => TypeOK'
<1> SUFFICES ASSUME TypeOK, [Next]_vars PROVE TypeOK'
  OBVIOUS
<1>a. \A i \in Index : time(i) \in Time /\ Inc(i) \in Index
  BY SlotTimes, IndexTypes
<1>m. Incremented(cursor) \in Index /\ Decremented(cursor) \in Index
  BY MovesInRing DEF TypeOK
<1> USE DEF TypeOK, buffer, window
<1>1. ASSUME NEW d \in Data, NEW tick \in Ticks, push(d, tick) PROVE TypeOK'
  <2>1. [data |-> d, time |-> clock + tick] \in Event
    BY <1>1 DEF push, Event
  <2>2. array' \in SlotArray(Event)
    BY <1>1, <2>1 DEF push, SlotArray
  <2> QED
    BY <1>1, <1>a, <2>2 DEF push
<1>2. CASE synchronize
  BY <1>2, <1>a DEF synchronize
<1>3. ASSUME NEW c \in Index, MoveTo(c) PROVE TypeOK'
  BY <1>3 DEF MoveTo
<1>4. CASE reset \/ increment_cursor \/ decrement_cursor \/ pull
  BY <1>3, <1>4, <1>m DEF reset, increment_cursor, decrement_cursor, pull
<1>5. ASSUME NEW c \in Index, set_cursor(c) PROVE TypeOK'
  BY <1>3, <1>5 DEF set_cursor
<1>6. ASSUME NEW t \in Goals, set(t) PROVE TypeOK'
  BY <1>6, GoalsAssumption DEF set
<1>7. CASE SetStep
  BY <1>7, <1>m DEF SetStep, SetBack, SetTurn, SetForward, SetMissed
<1>8. CASE UNCHANGED vars
  BY <1>8 DEF vars, search
<1> QED
  BY <1>1, <1>2, <1>4, <1>5, <1>6, <1>7, <1>8 DEF Next, Call

(* However pushes, re-synchronisations and searches follow each other,     *)
(* every index is one that read() accepts.                                 *)
THEOREM TypeCorrect == Spec => []TypeOK
<1>1. ASSUME Init PROVE TypeOK
  <2>1. calm \in BOOLEAN
    BY <1>1, Zenon DEF Init
  <2>2. array \in SlotArray(Event) /\ clock \in Time /\ 0 \in Index
    BY <1>1, NAssumption, DataAssumption, MaxTimeAssumption
    DEF Init, SlotArray, Event, NoEvent, Time, Index
  <2> QED
    BY <1>1, <2>1, <2>2 DEF Init, TypeOK
<1> QED
  BY <1>1, TypeStep, PTL DEF Spec

-----------------------------------------------------------------------------
(* The unsigned difference wraps to something positive.                    *)
THEOREM ConsumedIsRight == Spec => []ConsumedTells
<1>1. TypeOK => ConsumedTells
  BY NAssumption, SizeTAssumption
  DEF TypeOK, ConsumedTells, consumed, length, Length, Index, size
<1> QED
  BY <1>1, TypeCorrect, PTL

(* A move of a cursor in the window leaves it in the window.               *)
LEMMA MovesInWindow ==
  ASSUME NEW c \in Index, top \in Index, bottom \in Index, Between(c)
  PROVE  Between(Incremented(c)) /\ Between(Decremented(c))
  BY NAssumption
  DEF Between, Incremented, Decremented, Inc, Dec, Length, Index, size

(* Only synchronize() can take the cursor out of the window.               *)
THEOREM CursorInWindow == Spec => CursorStays
<1>1. TypeOK /\ [Next]_vars
        => [UNCHANGED window /\ Between(cursor) => Between(cursor')]_vars
  <2> SUFFICES ASSUME TypeOK, Next, Between(cursor)
               PROVE  Between(cursor')
    BY DEF vars
  <2>m. Between(Incremented(cursor)) /\ Between(Decremented(cursor))
    BY MovesInWindow DEF TypeOK
  <2>1. CASE cursor' = cursor
    BY <2>1
  <2>2. CASE reset
    BY <2>2, NAssumption
    DEF reset, MoveTo, TypeOK, Between, Length, Index, size
  <2>3. CASE increment_cursor \/ decrement_cursor \/ pull
    BY <2>3, <2>m DEF increment_cursor, decrement_cursor, pull, MoveTo
  <2>4. ASSUME NEW c \in Index, set_cursor(c) PROVE Between(cursor')
    BY <2>4 DEF set_cursor, MoveTo
  <2>5. CASE SetBack \/ SetForward
    BY <2>5, <2>m DEF SetBack, SetForward
  <2> QED
    BY <2>1, <2>2, <2>3, <2>4, <2>5
    DEF Next, Call, SetStep, push, synchronize, set, SetTurn, SetMissed
<1> QED
  BY <1>1, TypeCorrect, PTL DEF Spec, CursorStays

-----------------------------------------------------------------------------
(* What set() knows in a window that does not reach past the last slot: it *)
(* has not left the window and, on its way forward, no event behind the    *)
(* cursor was in force.                                                    *)
Searched ==
  calm /\ bottom <= from /\ from <= top =>
    /\ pc \in {"back", "forward"} => bottom <= cursor /\ cursor <= top
    /\ pc = "forward" =>
         \A i \in Index : bottom <= i /\ i < cursor => ~InForce(i, i + 1, goal)
    /\ pc = "missed" =>
         \A i \in Index : bottom <= i /\ i + 1 < top => ~InForce(i, i + 1, goal)

(* set() keeps it, turn by turn.                                           *)
LEMMA SearchedStep == TypeOK /\ Searched /\ [Next]_vars => Searched'
<1> SUFFICES ASSUME TypeOK, Searched, [Next]_vars PROVE Searched'
  OBVIOUS
<1>t. /\ N \in Nat \ {0} /\ size = N + 1 /\ Index = 0 .. N
      /\ top \in Index /\ bottom \in Index /\ cursor \in Index /\ from \in Index
  BY NAssumption DEF TypeOK, size, Index
<1>c. ConsumedTells
  BY NAssumption, SizeTAssumption
  DEF TypeOK, ConsumedTells, consumed, length, Length, Index, size
<1>1. CASE pc' = "idle" \/ pc' = "found" \/ ~calm'
  BY <1>1 DEF Searched
<1>2. ASSUME NEW t \in Goals, set(t) PROVE Searched'
  BY <1>2 DEF set, Searched, window
<1>3. CASE SetBack /\ pc' = "back"
  <2>1. /\ cursor' = Decremented(cursor) /\ HasPrevious(cursor) /\ pc = "back"
        /\ UNCHANGED <<bottom, top, from, calm>>
    BY <1>3 DEF SetBack, window
  <2>2. cursor # 0 /\ cursor # bottom /\ cursor' = cursor - 1
    BY <2>1, <1>t DEF HasPrevious, Decremented, Dec
  <2> QED
    BY <1>3, <1>t, <2>1, <2>2 DEF Searched
<1>4. CASE SetTurn
  <2>1. /\ pc = "back" /\ pc' = "forward" /\ ~HasPrevious(cursor)
        /\ UNCHANGED <<bottom, top, cursor, from, goal, calm>>
    BY <1>4 DEF SetTurn, window
  <2>2. bottom <= cursor => cursor = bottom
    BY <1>t, <1>c, <2>1 DEF HasPrevious, ConsumedTells
  <2>3. calm /\ bottom <= from /\ from <= top => bottom <= cursor /\ cursor <= top
    BY <2>1 DEF Searched
  <2> QED
    BY <1>t, <2>1, <2>2, <2>3 DEF Searched
<1>5. CASE SetForward /\ pc' = "forward"
  <2>1. /\ cursor' = Incremented(cursor) /\ HasNext(cursor) /\ pc = "forward"
        /\ ~InForce(cursor, Inc(cursor), goal)
        /\ UNCHANGED <<bottom, top, from, goal, array, calm>>
    BY <1>5 DEF SetForward, window, buffer
  <2>2. cursor <= top => cursor < top /\ cursor' = cursor + 1 /\ Inc(cursor) = cursor + 1
    BY <2>1, <1>t DEF HasNext, Incremented, Inc
  <2>3. \A i, j \in Int : InForce(i, j, goal)' = InForce(i, j, goal)
    BY <2>1 DEF InForce, time
  <2> QED
    BY <1>5, <1>t, <2>1, <2>2, <2>3 DEF Searched
<1>6. CASE SetMissed
  <2>1. /\ pc = "forward" /\ pc' = "missed" /\ ~HasNext(cursor)
        /\ UNCHANGED <<bottom, top, cursor, from, goal, array, calm>>
    BY <1>6 DEF SetMissed, window, buffer
  <2>2. cursor <= top => top - cursor <= 1
    BY <2>1, <1>t DEF HasNext, length, Length
  <2>3. \A i, j \in Int : InForce(i, j, goal)' = InForce(i, j, goal)
    BY <2>1 DEF InForce, time
  <2> QED
    BY <1>t, <2>1, <2>2, <2>3 DEF Searched
<1>7. CASE UNCHANGED vars
  BY <1>7 DEF vars, buffer, window, search, Searched, InForce, time
<1> QED
  BY <1>1, <1>2, <1>3, <1>4, <1>5, <1>6, <1>7
  DEF Next, Call, SetStep, push, synchronize, reset, increment_cursor,
      decrement_cursor, pull, set_cursor, MoveTo, SetBack, SetForward

(* In a window that does not reach past the last slot, an undisturbed      *)
(* set(t) misses no event in force at t, wherever in the window the cursor *)
(* was.                                                                    *)
THEOREM StraightSearch == Spec => []SetMissesNothingStraight
<1>1. Init => Searched
  BY DEF Init, Searched
<1>2. TypeOK /\ Searched => SetMissesNothingStraight
  <2> SUFFICES ASSUME TypeOK, Searched, calm, pc = "missed", bottom <= from,
                      from <= top, NEW i \in 1 .. Length(bottom, top) - 1,
                      InForce(Slot(bottom, i), Slot(bottom, i + 1), goal)
               PROVE  FALSE
    BY DEF SetMissesNothingStraight, Present
  <2>1. /\ Slot(bottom, i) \in Index
        /\ bottom <= Slot(bottom, i) /\ Slot(bottom, i) + 1 < top
        /\ Slot(bottom, i + 1) = Slot(bottom, i) + 1
    BY NAssumption DEF TypeOK, Slot, Length, Index, size
  <2> QED
    BY <2>1 DEF Searched
<1> QED
  BY <1>1, <1>2, SearchedStep, TypeCorrect, PTL DEF Spec

-----------------------------------------------------------------------------
(* Slot c holds one of the buffer's events.                                *)
InBuffer(c) == Length(bufbottom, c) < Length(bufbottom, buftop)

(* The buffer's events are in the order of their times.                    *)
Sorted ==
  \A c \in Index : InBuffer(c) =>
    /\ time(c) <= clock
    /\ InBuffer(Inc(c)) => time(c) <= time(Inc(c))

(* A push fills the slot at top; of the other slots it may drop the oldest.*)
LEMMA PushInBuffer ==
  ASSUME TypeOK, NEW d \in Data, NEW tick \in Ticks, push(d, tick),
         NEW c \in Index, InBuffer(c)'
  PROVE  c # buftop => InBuffer(c)
<1>1. /\ buftop \in Index /\ bufbottom \in Index
      /\ buftop' = Inc(buftop)
      /\ bufbottom' = IF Inc(buftop) = bufbottom THEN Inc(bufbottom) ELSE bufbottom
      /\ Length(bufbottom', c) < Length(bufbottom', buftop')
  BY DEF TypeOK, push, InBuffer
<1> QED
  BY <1>1, NAssumption DEF InBuffer, Length, Inc, Index, size

(* The clock does not go back, so pushes keep the order.                   *)
LEMMA SortedStep == TypeOK /\ Sorted /\ [Next]_vars => Sorted'
<1> SUFFICES ASSUME TypeOK, Sorted, [Next]_vars PROVE Sorted'
  OBVIOUS
<1>1. ASSUME NEW d \in Data, NEW tick \in Ticks, push(d, tick) PROVE Sorted'
  <2>1. /\ clock' = clock + tick /\ clock \in Nat /\ tick \in Nat
        /\ array'[buftop].time = clock'
        /\ \A i \in Index : i # buftop => array'[i].time = time(i)
    BY <1>1, TicksAssumption, NAssumption, MaxTimeAssumption
    DEF push, time, TypeOK, SlotArray, Index, Time
  <2>2. \A i \in Index : time(i) \in Nat /\ Inc(i) \in Index
    BY SlotTimes, IndexTypes, MaxTimeAssumption DEF Time
  <2>3. ASSUME NEW c \in Index, InBuffer(c)'
        PROVE  /\ time(c)' <= clock'
               /\ InBuffer(Inc(c))' => time(c)' <= time(Inc(c))'
    <3>1. /\ c # buftop => InBuffer(c)
          /\ InBuffer(Inc(c))' /\ Inc(c) # buftop => InBuffer(Inc(c))
      BY <1>1, <2>2, <2>3, PushInBuffer
    <3>2. c = buftop => ~InBuffer(Inc(c))'
      BY <1>1, NAssumption DEF TypeOK, push, InBuffer, Length, Inc, Index, size
    <3>3. c # buftop => time(c) <= clock
      BY <3>1 DEF Sorted
    <3>4. c # buftop /\ InBuffer(Inc(c))' /\ Inc(c) # buftop
            => time(c) <= time(Inc(c))
      BY <3>1 DEF Sorted
    <3>5. time(c)' = array'[c].time /\ time(Inc(c))' = array'[Inc(c)].time
      BY DEF time
    <3> QED
      BY <2>1, <2>2, <3>2, <3>3, <3>4, <3>5
  <2> QED
    BY <2>3 DEF Sorted
<1>2. CASE UNCHANGED buffer
  BY <1>2 DEF buffer, Sorted, InBuffer, time
<1> QED
  BY <1>1, <1>2
  DEF Next, Call, SetStep, synchronize, reset, increment_cursor,
      decrement_cursor, pull, set_cursor, MoveTo, set, SetBack, SetTurn,
      SetForward, SetMissed, vars

(* The events of a whole window are the buffer's.                          *)
LEMMA WholeWindow ==
  ASSUME TypeOK, Whole, NEW c \in Index, Between(c), c # top
  PROVE  InBuffer(c) /\ (c # bottom => InBuffer(Dec(c)) /\ Inc(Dec(c)) = c)
  BY NAssumption
  DEF TypeOK, Whole, Between, InBuffer, Length, Inc, Dec, Index, size

(* What set() knows on its way back from an event that is not after t.     *)
Landing ==
  calm /\ Whole /\ Between(from) /\ from # top /\ time(from) <= goal =>
    /\ pc = "back" => Between(cursor) /\ cursor # top /\ time(cursor) <= goal
    /\ pc = "found" => InForce(cursor, Inc(cursor), goal)

(* set() keeps it: on the way back nothing is found.                       *)
LEMMA LandingStep == TypeOK /\ Sorted /\ Landing /\ [Next]_vars => Landing'
<1> SUFFICES ASSUME TypeOK, Sorted, Landing, [Next]_vars PROVE Landing'
  OBVIOUS
<1>t. /\ cursor \in Index /\ goal \in Int /\ bottom \in Index /\ top \in Index
      /\ Dec(cursor) \in Index
  BY IndexTypes DEF TypeOK
<1>i. \A i \in Index : time(i) \in Nat
  BY SlotTimes, MaxTimeAssumption DEF Time
<1>1. CASE pc' \notin {"back", "found"} \/ ~calm'
  BY <1>1 DEF Landing
<1>2. ASSUME NEW t \in Goals, set(t) PROVE Landing'
  BY <1>2 DEF set, Landing, Whole, Between, time, buffer, window
<1>3. CASE SetBack
  <2>1. /\ pc = "back" /\ HasPrevious(cursor)
        /\ UNCHANGED <<array, buftop, bufbottom, top, bottom, goal, from, calm>>
        /\ \/ pc' = "found" /\ goal < time(cursor)
           \/ pc' = "back" /\ cursor' = Decremented(cursor)
    BY <1>3 DEF SetBack, buffer, window, InForce
  <2> SUFFICES ASSUME calm, Whole, Between(from), from # top,
                      time(from) <= goal
               PROVE  /\ pc' = "back"
                      /\ Between(cursor') /\ cursor' # top /\ time(cursor') <= goal
    BY <2>1 DEF Landing, Whole, Between, time
  <2>2. Between(cursor) /\ cursor # top /\ time(cursor) <= goal
    BY <2>1 DEF Landing
  <2>3. pc' = "back" /\ cursor' = Dec(cursor) /\ cursor # bottom
    BY <1>t, <1>i, <2>1, <2>2 DEF Decremented, HasPrevious
  <2>4. Between(Dec(cursor)) /\ Dec(cursor) # top
    BY <1>t, <2>2, <2>3, NAssumption DEF Between, Dec, Length, Index, size
  <2>5. InBuffer(cursor) /\ InBuffer(Dec(cursor)) /\ Inc(Dec(cursor)) = cursor
    BY <1>t, <2>2, <2>3, WholeWindow
  <2>6. time(Dec(cursor)) <= time(cursor)
    BY <1>t, <2>5 DEF Sorted
  <2> QED
    BY <1>t, <1>i, <2>2, <2>3, <2>4, <2>6
<1>4. CASE SetForward /\ pc' = "found"
  BY <1>4 DEF SetForward, Landing, InForce, time, buffer
<1>5. CASE UNCHANGED vars
  BY <1>5 DEF vars, buffer, window, search, Landing, Whole, Between, InForce, time
<1> QED
  BY <1>1, <1>2, <1>3, <1>4, <1>5
  DEF Next, Call, SetStep, push, synchronize, reset, increment_cursor,
      decrement_cursor, pull, set_cursor, MoveTo, SetTurn, SetForward, SetMissed

(* Called on an event of a whole window that is not after t, an            *)
(* undisturbed set(t) that is AVAILABLE leaves the cursor on the event in  *)
(* force at t.                                                             *)
THEOREM SetLandsInForce == Spec => []SetLands
<1>1. Init => Sorted /\ Landing
  BY NAssumption DEF Init, Sorted, InBuffer, Length, Landing, Index, size
<1>2. Landing => SetLands
  BY DEF Landing, SetLands
<1> QED
  BY <1>1, <1>2, SortedStep, LandingStep, TypeCorrect, PTL DEF Spec

-----------------------------------------------------------------------------
(* A set of numbers that is not empty has a least one, which Min chooses.  *)
LEMMA MinIsLeast ==
  ASSUME NEW S, S \subseteq Nat, S # {}
  PROVE  Min(S) \in S /\ \A y \in S : Min(S) <= y
<1>1. \E x \in S : \A y \in S : ~(<<y, x>> \in OpToRel(<, Nat))
  BY NatLessThanWellFounded, WFMin
<1>2. \E x \in S : \A y \in S : x <= y
  <2>1. PICK x \in S : \A y \in S : ~(<<y, x>> \in OpToRel(<, Nat))
    BY <1>1
  <2>2. ASSUME NEW y \in S PROVE x <= y
    <3>1. x \in Nat /\ y \in Nat
      OBVIOUS
    <3>2. ~(y < x)
      BY <2>1, <3>1 DEF OpToRel
    <3> QED
      BY <3>1, <3>2
  <2> QED
    BY <2>2
<1> QED
  BY <1>2 DEF Min

(* A number below which a set has no member is its least.                  *)
LEMMA MinIs ==
  ASSUME NEW S, S \subseteq Nat, NEW k \in S, \A j \in Nat : j < k => j \notin S
  PROVE  Min(S) = k
<1>1. Min(S) \in S /\ Min(S) <= k
  BY MinIsLeast
<1>2. \A m \in S : m <= k => m = k
  OBVIOUS
<1> QED
  BY <1>1, <1>2

(* The first loop never walks past slot 0, so it stops at the least number *)
(* of places of BackStops.                                                 *)
LEMMA FirstLoopStops ==
  ASSUME NEW c \in Index, NEW d \in Index, NEW t, d <= c,
         \A i \in d + 1 .. c : HasPrevious(i) /\ ~InForce(i - 1, i, t),
         ~HasPrevious(d) \/ InForce(Dec(d), d, t)
  PROVE  Back(c, Min(BackStops(c, t))) = d
<1>n. N \in Nat \ {0} /\ size = N + 1 /\ Index = 0 .. N
  BY NAssumption DEF size, Index
<1>1. \A k \in 0 .. c : Back(c, k) = c - k
  BY <1>n DEF Back
<1>2. c - d \in BackStops(c, t)
  <2>1. c - d \in Index /\ c - d \in 0 .. c /\ c - (c - d) = d
    BY <1>n
  <2>2. Back(c, c - d) = d
    BY <1>1, <2>1
  <2> QED
    BY <2>1, <2>2 DEF BackStops
<1>3. ASSUME NEW j \in Nat, j < c - d PROVE j \notin BackStops(c, t)
  <2>1. c - j \in d + 1 .. c /\ j \in 0 .. c /\ c - j # 0
    BY <1>3, <1>n
  <2>2. Back(c, j) = c - j /\ Dec(c - j) = c - j - 1
    BY <1>1, <2>1 DEF Dec
  <2> QED
    BY <2>1, <2>2 DEF BackStops
<1>4. BackStops(c, t) \subseteq Nat
  BY <1>n DEF BackStops
<1>5. Min(BackStops(c, t)) = c - d
  BY <1>2, <1>3, <1>4, MinIs
<1> QED
  BY <1>1, <1>5, <1>n

(* The second loop stops at the least member of ForwardStops.              *)
LEMMA SecondLoopStops ==
  ASSUME NEW d \in Index, NEW k \in 1 .. size, NEW t,
         \A j \in 1 .. k - 1 : HasNext(Slot(d, j)) /\ ~InForce(Slot(d, j), Slot(d, j + 1), t),
         ~HasNext(Slot(d, k)) \/ InForce(Slot(d, k), Slot(d, k + 1), t)
  PROVE  Min(ForwardStops(d, t)) = k
<1>n. N \in Nat \ {0} /\ size = N + 1
  BY NAssumption DEF size
<1>1. k \in ForwardStops(d, t)
  BY DEF ForwardStops
<1>2. ASSUME NEW j \in Nat, j < k PROVE j \notin ForwardStops(d, t)
  <2>1. CASE j = 0
    BY <2>1 DEF ForwardStops
  <2>2. CASE j \in 1 .. k - 1
    BY <2>2 DEF ForwardStops
  <2> QED
    BY <1>2, <1>n, <2>1, <2>2
<1>3. ForwardStops(d, t) \subseteq Nat
  BY <1>n DEF ForwardStops
<1> QED
  BY <1>1, <1>2, <1>3, MinIs

(* Where the first loop ends, from the cursor at the call.                 *)
Turned == Back(from, Min(BackStops(from, goal)))

(* What an undisturbed set() has done, turn by turn: on its way back no    *)
(* place it left was one to stop at; on its way forward it turned where    *)
(* the first loop ends, and no event it left was one to stop at.           *)
Walked ==
  calm =>
    /\ pc = "back" =>
         /\ cursor <= from
         /\ \A i \in cursor + 1 .. from :
              HasPrevious(i) /\ ~InForce(i - 1, i, goal)
    /\ pc = "forward" =>
         /\ Turned \in Index /\ ~HasPrevious(Turned)
         /\ \E k \in 1 .. size :
              /\ cursor = Slot(Turned, k)
              /\ Length(Turned, top) = length(cursor) + k - 1
              /\ \A j \in 1 .. k - 1 :
                   /\ HasNext(Slot(Turned, j))
                   /\ ~InForce(Slot(Turned, j), Slot(Turned, j + 1), goal)
    /\ pc \in {"found", "missed"} => cursor = Placed(from, goal)

(* What set() compares and where it would stop depend on the slots and the *)
(* window only.                                                            *)
LEMMA WalkFrame ==
  ASSUME UNCHANGED <<array, top, bottom, from, goal>>
  PROVE  /\ Turned' = Turned
         /\ Placed(from, goal)' = Placed(from, goal)
         /\ \A i \in Index : HasPrevious(i)' <=> HasPrevious(i)
         /\ \A i \in Index : HasNext(i)' <=> HasNext(i)
         /\ \A i, j \in Index : InForce(i, j, goal)' <=> InForce(i, j, goal)
<1>1. \A i : HasPrevious(i)' <=> HasPrevious(i)
  BY DEF HasPrevious, consumed, length
<1>2. \A i : HasNext(i)' <=> HasNext(i)
  BY DEF HasNext, length
<1>3. \A i, j : InForce(i, j, goal)' <=> InForce(i, j, goal)
  BY DEF InForce, time
<1>4. BackStops(from, goal)' = BackStops(from, goal)
  BY <1>1, <1>3 DEF BackStops
<1>5. Turned' = Turned
  BY <1>4 DEF Turned
<1>6. ForwardStops(Turned, goal)' = ForwardStops(Turned, goal)
  BY <1>2, <1>3, <1>5 DEF ForwardStops
<1>7. Placed(from, goal)' = Placed(from, goal)
  BY <1>1, <1>5, <1>6 DEF Placed, Turned
<1> QED
  BY <1>1, <1>2, <1>3, <1>5, <1>7

(* Each turn of the loops keeps it.                                        *)
LEMMA WalkedStep == TypeOK /\ Walked /\ [Next]_vars => Walked'
<1> SUFFICES ASSUME TypeOK, Walked, [Next]_vars PROVE Walked'
  OBVIOUS
<1>t. /\ N \in Nat \ {0} /\ size = N + 1 /\ Index = 0 .. N
      /\ top \in Index /\ bottom \in Index /\ cursor \in Index /\ from \in Index
  BY NAssumption DEF TypeOK, size, Index
<1>p. Placed(from, goal) = IF HasPrevious(Turned) THEN Turned
                           ELSE Slot(Turned, Min(ForwardStops(Turned, goal)))
  BY DEF Placed, Turned
<1>1. CASE pc' = "idle" \/ ~calm'
  BY <1>1 DEF Walked
<1>2. ASSUME NEW t \in Goals, set(t) PROVE Walked'
  <2>1. pc' = "back" /\ cursor' = from' /\ cursor' = cursor
    BY <1>2 DEF set
  <2> QED
    BY <1>t, <2>1 DEF Walked
<1>3. CASE SetBack
  <2>1. /\ pc = "back" /\ HasPrevious(cursor)
        /\ UNCHANGED <<array, top, bottom, from, goal, calm>>
        /\ \/ /\ pc' = "found" /\ cursor' = cursor
              /\ InForce(Dec(cursor), cursor, goal)
           \/ /\ pc' = "back" /\ cursor' = Decremented(cursor)
              /\ ~InForce(Dec(cursor), cursor, goal)
    BY <1>3 DEF SetBack, buffer, window
  <2> SUFFICES ASSUME calm PROVE Walked'
    BY <2>1 DEF Walked
  <2>2. /\ cursor <= from
        /\ \A i \in cursor + 1 .. from : HasPrevious(i) /\ ~InForce(i - 1, i, goal)
    BY <2>1 DEF Walked
  <2>3. CASE pc' = "found"
    <3>1. InForce(Dec(cursor), cursor, goal) /\ cursor' = cursor
      BY <2>1, <2>3
    <3>2. Turned = cursor
      BY <1>t, <2>2, <3>1, FirstLoopStops DEF Turned
    <3>3. Placed(from, goal)' = cursor'
      BY <1>p, <2>1, <3>1, <3>2, WalkFrame
    <3> QED
      BY <2>3, <3>3 DEF Walked
  <2>4. CASE pc' = "back"
    <3>1. /\ ~InForce(cursor - 1, cursor, goal) /\ cursor # 0
          /\ cursor' = cursor - 1
      BY <1>t, <2>1, <2>4 DEF HasPrevious, Decremented, Dec
    <3>2. \A i \in cursor' + 1 .. from :
            HasPrevious(i) /\ ~InForce(i - 1, i, goal)
      <4> SUFFICES ASSUME NEW i \in cursor' + 1 .. from
                   PROVE  HasPrevious(i) /\ ~InForce(i - 1, i, goal)
        OBVIOUS
      <4>1. CASE i = cursor
        BY <2>1, <3>1, <4>1
      <4>2. CASE i \in cursor + 1 .. from
        BY <2>2, <4>2
      <4> QED
        BY <1>t, <3>1, <4>1, <4>2
    <3>3. \A i \in cursor' + 1 .. from : i \in Index /\ i - 1 \in Index
      BY <1>t, <3>1
    <3>4. \A i \in cursor' + 1 .. from' :
            HasPrevious(i)' /\ ~InForce(i - 1, i, goal)'
      BY <2>1, <3>2, <3>3, WalkFrame
    <3>5. cursor' <= from'
      BY <1>t, <2>1, <2>2, <3>1
    <3> QED
      BY <2>4, <3>4, <3>5 DEF Walked
  <2> QED
    BY <2>1, <2>3, <2>4
<1>4. CASE SetTurn
  <2>1. /\ pc = "back" /\ pc' = "forward" /\ ~HasPrevious(cursor)
        /\ UNCHANGED <<array, top, bottom, cursor, from, goal, calm>>
    BY <1>4 DEF SetTurn, buffer, window
  <2> SUFFICES ASSUME calm PROVE Walked'
    BY <2>1 DEF Walked
  <2>2. /\ cursor <= from
        /\ \A i \in cursor + 1 .. from : HasPrevious(i) /\ ~InForce(i - 1, i, goal)
    BY <2>1 DEF Walked
  <2>3. Turned = cursor
    BY <1>t, <2>1, <2>2, FirstLoopStops DEF Turned
  <2>4. Turned' = cursor /\ ~HasPrevious(Turned)'
    <3>1. Turned' = cursor
      BY <2>1, <2>3, WalkFrame
    <3>2. ~HasPrevious(cursor)'
      BY <2>1 DEF HasPrevious, consumed, length
    <3> QED
      BY <2>1, <3>1, <3>2
  <2>5. cursor = Slot(cursor, 1) /\ 1 \in 1 .. size
    BY <1>t, SlotOldest
  <2>6. Length(Turned', top') = Length(cursor', top') + 1 - 1
    BY <1>t, <2>1, <2>4 DEF Length
  <2>7. Turned' \in Index /\ cursor' = Slot(Turned', 1)
    BY <1>t, <2>1, <2>4, <2>5
  <2>8. \A j \in 1 .. 1 - 1 : FALSE
    OBVIOUS
  <2> QED
    BY <2>1, <2>4, <2>5, <2>6, <2>7, <2>8 DEF Walked, length
<1>5. CASE SetForward
  <2>1. /\ pc = "forward" /\ HasNext(cursor)
        /\ UNCHANGED <<array, top, bottom, from, goal, calm>>
        /\ \/ /\ pc' = "found" /\ cursor' = cursor
              /\ InForce(cursor, Inc(cursor), goal)
           \/ /\ pc' = "forward" /\ cursor' = Incremented(cursor)
              /\ ~InForce(cursor, Inc(cursor), goal)
    BY <1>5 DEF SetForward, buffer, window
  <2> SUFFICES ASSUME calm PROVE Walked'
    BY <2>1 DEF Walked
  <2>2. Turned \in Index /\ ~HasPrevious(Turned)
    BY <2>1 DEF Walked
  <2>3. PICK k \in 1 .. size :
          /\ cursor = Slot(Turned, k)
          /\ Length(Turned, top) = length(cursor) + k - 1
          /\ \A j \in 1 .. k - 1 :
               /\ HasNext(Slot(Turned, j))
               /\ ~InForce(Slot(Turned, j), Slot(Turned, j + 1), goal)
    BY <2>1 DEF Walked
  <2>4. k + 1 \in 1 .. size /\ Inc(cursor) = Slot(Turned, k + 1)
        /\ cursor # top /\ length(Inc(cursor)) = length(cursor) - 1
    BY <1>t, <2>1, <2>2, <2>3 DEF HasNext, length, Length, Slot, Inc
  <2>5. CASE pc' = "found"
    <3>1. InForce(Slot(Turned, k), Slot(Turned, k + 1), goal) /\ cursor' = cursor
      BY <2>1, <2>3, <2>4, <2>5
    <3>2. Min(ForwardStops(Turned, goal)) = k
      BY <2>2, <2>3, <3>1, SecondLoopStops
    <3>3. Placed(from, goal)' = cursor'
      BY <1>p, <2>1, <2>2, <2>3, <3>1, <3>2, WalkFrame
    <3> QED
      BY <2>5, <3>3 DEF Walked
  <2>6. CASE pc' = "forward"
    <3>1. /\ ~InForce(Slot(Turned, k), Slot(Turned, k + 1), goal)
          /\ cursor' = Slot(Turned, k + 1)
          /\ HasNext(Slot(Turned, k))
      BY <2>1, <2>3, <2>4, <2>6 DEF Incremented
    <3>2. \A j \in 1 .. (k + 1) - 1 :
            /\ HasNext(Slot(Turned, j))
            /\ ~InForce(Slot(Turned, j), Slot(Turned, j + 1), goal)
      <4> SUFFICES ASSUME NEW j \in 1 .. k
                   PROVE  /\ HasNext(Slot(Turned, j))
                          /\ ~InForce(Slot(Turned, j), Slot(Turned, j + 1), goal)
        BY <1>t
      <4>1. CASE j = k
        BY <3>1, <4>1
      <4>2. CASE j \in 1 .. k - 1
        BY <2>3, <4>2
      <4> QED
        BY <1>t, <4>1, <4>2
    <3>3. \A j \in 1 .. (k + 1) - 1 :
            Slot(Turned, j) \in Index /\ Slot(Turned, j + 1) \in Index
      BY <1>t, <2>2, <2>4 DEF Slot
    <3>4. Turned' = Turned
      BY <2>1, WalkFrame
    <3>5. \A j \in 1 .. (k + 1) - 1 :
            /\ HasNext(Slot(Turned, j))'
            /\ ~InForce(Slot(Turned, j), Slot(Turned, j + 1), goal)'
      <4> SUFFICES ASSUME NEW j \in 1 .. (k + 1) - 1
                   PROVE  /\ HasNext(Slot(Turned, j))'
                          /\ ~InForce(Slot(Turned, j), Slot(Turned, j + 1), goal)'
        OBVIOUS
      <4>1. HasNext(Slot(Turned, j))
            /\ ~InForce(Slot(Turned, j), Slot(Turned, j + 1), goal)
        BY <3>2
      <4>2. HasNext(Slot(Turned, j))'
        BY <2>1, <3>4, <4>1 DEF HasNext, length
      <4>3. ~InForce(Slot(Turned, j), Slot(Turned, j + 1), goal)'
        BY <2>1, <3>4, <4>1 DEF InForce, time
      <4> QED
        BY <4>2, <4>3
    <3>6. ~HasPrevious(Turned)'
      BY <2>1, <2>2, <3>4 DEF HasPrevious, consumed, length
    <3>7. Length(Turned', top') = length(cursor)' + (k + 1) - 1
      <4>1. Length(cursor, top) \in Nat
        BY <1>t, LengthType
      <4>2. Length(cursor', top') = Length(cursor, top) - 1
        BY <2>1, <2>4, <3>1 DEF length
      <4>3. Length(Turned', top') = Length(cursor, top) + k - 1
        BY <2>1, <2>3, <3>4 DEF length
      <4>4. Length(Turned', top') = Length(cursor', top') + (k + 1) - 1
        BY <1>t, <4>1, <4>2, <4>3
      <4> QED
        BY <4>4 DEF length
    <3>8. cursor' = Slot(Turned', k + 1) /\ Turned' \in Index
      BY <2>2, <3>1, <3>4
    <3> QED
      BY <2>4, <2>6, <3>5, <3>6, <3>7, <3>8 DEF Walked
  <2> QED
    BY <2>1, <2>5, <2>6
<1>6. CASE SetMissed
  <2>1. /\ pc = "forward" /\ ~HasNext(cursor) /\ pc' = "missed"
        /\ UNCHANGED <<array, top, bottom, cursor, from, goal, calm>>
    BY <1>6 DEF SetMissed, buffer, window
  <2> SUFFICES ASSUME calm PROVE Walked'
    BY <2>1 DEF Walked
  <2>2. Turned \in Index /\ ~HasPrevious(Turned)
    BY <2>1 DEF Walked
  <2>3. PICK k \in 1 .. size :
          /\ cursor = Slot(Turned, k)
          /\ \A j \in 1 .. k - 1 :
               /\ HasNext(Slot(Turned, j))
               /\ ~InForce(Slot(Turned, j), Slot(Turned, j + 1), goal)
    BY <2>1 DEF Walked
  <2>4. Min(ForwardStops(Turned, goal)) = k
    BY <2>1, <2>2, <2>3, SecondLoopStops
  <2>5. Placed(from, goal)' = cursor'
    BY <1>p, <2>1, <2>2, <2>3, <2>4, WalkFrame
  <2> QED
    BY <2>1, <2>5 DEF Walked
<1>7. CASE UNCHANGED vars
  <2>1. /\ UNCHANGED <<array, top, bottom, from, goal, calm, pc, cursor>>
        /\ Turned' = Turned /\ Placed(from, goal)' = Placed(from, goal)
    BY <1>7, WalkFrame DEF vars, buffer, window, search
  <2> QED
    BY <2>1 DEF Walked, HasPrevious, HasNext, consumed, length, InForce, time
<1> QED
  BY <1>1, <1>2, <1>3, <1>4, <1>5, <1>6, <1>7
  DEF Next, Call, SetStep, push, synchronize, reset, increment_cursor,
      decrement_cursor, pull, set_cursor, MoveTo

(* The two loops of set(), whatever the window and the cursor, leave the   *)
(* cursor where Placed says, so that formulas may be evaluated with it.    *)
THEOREM LoopsPlace == Spec => []SetPlaces
<1>1. Init => Walked
  BY DEF Init, Walked
<1>2. Walked => SetPlaces
  BY DEF Walked, SetPlaces
<1> QED
  BY <1>1, <1>2, WalkedStep, TypeCorrect, PTL DEF Spec

=============================================================================
