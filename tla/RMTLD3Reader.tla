---------------------------- MODULE RMTLD3Reader ----------------------------
(***************************************************************************)
(* RMTLD3_reader: a cursor that formulas move over the window of an        *)
(* RTML_reader.  The window follows the buffer at synchronize(); pushes    *)
(* come at any time, also while set() walks.                               *)
(*                                                                         *)
(* The operators take the cursor c as a parameter, because the evaluation  *)
(* of a formula saves, moves and restores it many times within one call.   *)
(***************************************************************************)
EXTENDS RingIndex, Integers, FiniteSetsExt

CONSTANTS Data,     \* what an event may carry
          MaxTime,  \* bound: the clock stops there
          Ticks,    \* by how much the clock may advance from push to push
          Goals,    \* the times set() is called with
          SizeT     \* 2^w, w the width of size_t

ASSUME DataAssumption == 0 \in Data
ASSUME MaxTimeAssumption == MaxTime \in Nat
ASSUME TicksAssumption == Ticks \subseteq Nat
ASSUME GoalsAssumption == Goals \subseteq Int
ASSUME SizeTAssumption == SizeT \in Nat /\ SizeT > size

VARIABLES array, buftop, bufbottom,  \* the RTML_buffer
          clock,                     \* time of the newest event
          top, bottom, timestamp,    \* R: the RTML_reader's members
          cursor,
          pc,       \* where set() is; "found" and "missed" after it returned
          goal,     \* t of set(t)
          from,     \* the cursor when set() was called
          calm      \* history: has nothing been pushed since set() was called?

buffer == <<array, buftop, bufbottom, clock>>
window == <<top, bottom, timestamp>>
search == <<pc, goal, from, calm>>
vars == <<buffer, window, cursor, search>>

Time == 0 .. MaxTime
Event == [data : Data, time : Time]
NoEvent == [data |-> 0, time |-> 0]

Init ==
  /\ array = [i \in 0 .. N + 1 |-> NoEvent]
  /\ buftop = 0 /\ bufbottom = 0
  /\ clock = 0
  /\ top = 0 /\ bottom = 0 /\ timestamp = 0
  /\ cursor = 0
  /\ pc = "idle" /\ goal = 0 /\ from = 0 /\ calm = FALSE

Idle == pc \in {"idle", "found", "missed"}

-----------------------------------------------------------------------------
(* What the cursor sees.                                                   *)

time(c) == array[c].time

(* length(): the events from c up to top.                                  *)
length(c) == Length(c, top)

(* Mutant: the difference is taken of signed numbers.                      *)
MutConsumed(c) == Length(bottom, top) - length(c)

(* consumed() = R::length() - length(), of unsigned numbers.               *)
consumed(c) ==
  LET n == Length(bottom, top)
  IN IF n >= length(c) THEN n - length(c) ELSE SizeT + n - length(c)

(* Mutant: the last two events have no next one.                           *)
MutHasNext(c) == length(c) > 2 /\ c # top

(* read_next() is AVAILABLE; its event is that of slot Inc(c).             *)
HasNext(c) == length(c) > 1 /\ c # top

(* Mutant: the window's bottom is not looked at.                           *)
MutHasPrevious(c) == c # 0

(* read_previous() is AVAILABLE.  (cursor - 1) < 0 is false of a size_t,   *)
(* so that at slot 0 the index asked for is out of range.                  *)
HasPrevious(c) == consumed(c) > 0 /\ c # bottom /\ c # 0

(* Mutant: the cursor is not stopped at top.                               *)
MutIncremented(c) == Inc(c)

(* increment_cursor() and decrement_cursor().                              *)
Incremented(c) == IF c = top THEN c ELSE Inc(c)
Decremented(c) == IF c = bottom THEN c ELSE Dec(c)

(* Is the event of slot c in force at t, the next one being in slot d?     *)
InForce(c, d, t) == time(c) <= t /\ t < time(d)

-----------------------------------------------------------------------------
(* RTML_buffer's push, with the time of the clock.                         *)
push(d, tick) ==
  /\ clock + tick \in Time
  /\ clock' = clock + tick
  /\ array' = [array EXCEPT ![buftop] = [data |-> d, time |-> clock + tick]]
  /\ buftop' = Inc(buftop)
  /\ bufbottom' = IF Inc(buftop) = bufbottom THEN Inc(bufbottom) ELSE bufbottom
  /\ calm' = FALSE
  /\ UNCHANGED <<window, cursor, pc, goal, from>>

(* R::synchronize(): the cursor is not told.                               *)
synchronize ==
  /\ Idle
  /\ LET Take == /\ bottom' = bufbottom
                 /\ timestamp' = time(bufbottom)
         Keep == UNCHANGED <<bottom, timestamp>>
     IN \/ /\ buftop < bufbottom
           /\ top' = buftop
           /\ IF timestamp < time(bottom) THEN Take ELSE Keep
        \/ /\ bufbottom < buftop
           /\ top' = buftop
           /\ IF \/ time(bufbottom) < timestamp /\ timestamp < time(buftop)
                 \/ bufbottom < bottom
              THEN Keep ELSE Take
        \/ /\ bufbottom = buftop
           /\ IF top = 0 /\ bottom = 0
              THEN top' = buftop /\ Take ELSE UNCHANGED top /\ Keep
  /\ pc' = "idle"
  /\ UNCHANGED <<buffer, cursor, goal, from, calm>>

MoveTo(c) ==
  /\ Idle
  /\ cursor' = c
  /\ pc' = "idle"
  /\ UNCHANGED <<buffer, window, goal, from, calm>>

reset == MoveTo(bottom)
increment_cursor == MoveTo(Incremented(cursor))
decrement_cursor == MoveTo(Decremented(cursor))

(* pull(): the event at the cursor, if there is one, and a step forward.   *)
pull == length(cursor) > 0 /\ MoveTo(Incremented(cursor))

(* Is slot c between bottom and top?  The window's top counts: a cursor    *)
(* that has passed every event is there.                                   *)
Between(c) == Length(bottom, c) + Length(c, top) = Length(bottom, top)

(* set_cursor(c): every caller restores a cursor that get_cursor() gave it *)
(* in the same window.                                                     *)
set_cursor(c) == Between(c) /\ MoveTo(c)

-----------------------------------------------------------------------------
(* set(t): one step per turn of its loops.                                 *)
set(t) ==
  /\ Idle
  /\ pc' = "back"
  /\ goal' = t
  /\ from' = cursor
  /\ calm' = TRUE
  /\ UNCHANGED <<buffer, window, cursor>>

(* Mutant: the cursor is left on the event in force.                       *)
MutSetBack ==
  /\ pc = "back"
  /\ HasPrevious(cursor)
  /\ cursor' = Decremented(cursor)
  /\ pc' = IF InForce(Dec(cursor), cursor, goal) THEN "found" ELSE pc
  /\ UNCHANGED <<buffer, window, goal, from, calm>>

(* read_previous(e) and read(ee): return if e is in force at t.            *)
SetBack ==
  /\ pc = "back"
  /\ HasPrevious(cursor)
  /\ IF InForce(Dec(cursor), cursor, goal)
     THEN pc' = "found" /\ UNCHANGED cursor
     ELSE cursor' = Decremented(cursor) /\ UNCHANGED pc
  /\ UNCHANGED <<buffer, window, goal, from, calm>>

(* No event behind the cursor: the second loop begins.                     *)
SetTurn ==
  /\ pc = "back"
  /\ ~HasPrevious(cursor)
  /\ pc' = "forward"
  /\ UNCHANGED <<buffer, window, cursor, goal, from, calm>>

(* Mutant: the cursor moves before the events are compared.                *)
MutSetForward ==
  /\ pc = "forward"
  /\ HasNext(cursor)
  /\ cursor' = Incremented(cursor)
  /\ pc' = IF InForce(cursor, Inc(cursor), goal) THEN "found" ELSE pc
  /\ UNCHANGED <<buffer, window, goal, from, calm>>

(* read(ee) and read_next(e): return if ee is in force at t.               *)
SetForward ==
  /\ pc = "forward"
  /\ HasNext(cursor)
  /\ IF InForce(cursor, Inc(cursor), goal)
     THEN pc' = "found" /\ UNCHANGED cursor
     ELSE cursor' = Incremented(cursor) /\ UNCHANGED pc
  /\ UNCHANGED <<buffer, window, goal, from, calm>>

(* return UNAVAILABLE                                                      *)
SetMissed ==
  /\ pc = "forward"
  /\ ~HasNext(cursor)
  /\ pc' = "missed"
  /\ UNCHANGED <<buffer, window, cursor, goal, from, calm>>

SetStep == SetBack \/ SetTurn \/ SetForward \/ SetMissed

Call ==
  \/ synchronize
  \/ reset \/ increment_cursor \/ decrement_cursor \/ pull
  \/ \E c \in Index : set_cursor(c)
  \/ \E t \in Goals : set(t)

Next ==
  \/ \E d \in Data, tick \in Ticks : push(d, tick)
  \/ Call
  \/ SetStep

Spec == Init /\ [][Next]_vars /\ WF_vars(SetStep)

-----------------------------------------------------------------------------
(* Types; every index is one that read() accepts.                          *)
TypeOK ==
  /\ array \in SlotArray(Event)
  /\ buftop \in Index /\ bufbottom \in Index
  /\ clock \in Time
  /\ top \in Index /\ bottom \in Index /\ timestamp \in Time
  /\ cursor \in Index
  /\ pc \in {"idle", "back", "forward", "found", "missed"}
  /\ goal \in Int /\ from \in Index /\ calm \in BOOLEAN

(* No operation of the cursor, and no step of set(), takes it out of the   *)
(* window: only synchronize() can, by moving the window.                   *)
CursorStays == [][UNCHANGED window /\ Between(cursor) => Between(cursor')]_vars

(* consumed() subtracts unsigned numbers and wraps when the window has     *)
(* moved away from the cursor; the test consumed() > 0 still tells exactly *)
(* whether the cursor is off bottom.                                       *)
ConsumedTells == consumed(cursor) > 0 <=> cursor # bottom

(* Some event of the window is in force at goal.                           *)
Present ==
  \E i \in 1 .. Length(bottom, top) - 1 :
     InForce(Slot(bottom, i), Slot(bottom, i + 1), goal)

(* set(t), called with the cursor in the window and undisturbed, is        *)
(* UNAVAILABLE only if no event of the window is in force at t.            *)
SetMissesNothing == calm /\ pc = "missed" /\ Between(from) => ~Present

(* The same, of a window that does not reach past the last slot.           *)
SetMissesNothingStraight ==
  calm /\ pc = "missed" /\ bottom <= from /\ from <= top => ~Present

(* The buffer still holds every event of the window.                       *)
Whole ==
  Length(bufbottom, bottom) + Length(bottom, top) + Length(top, buftop)
    = Length(bufbottom, buftop)

(* Called on an event of a whole window that is not after t, as monitors   *)
(* do, and undisturbed, a set(t) that is AVAILABLE leaves the cursor on    *)
(* the event in force at t.  (Called on a later one it stops on the event  *)
(* after it.)                                                              *)
SetLands ==
  /\ calm /\ pc = "found" /\ Whole
  /\ Between(from) /\ from # top /\ time(from) <= goal
  => InForce(cursor, Inc(cursor), goal)

(* The slot k places behind c.                                             *)
Back(c, k) == IF c >= k THEN c - k ELSE size + c - k

(* How many places behind c the first loop of set(t) may stop: with an     *)
(* event in force just behind, or with no event behind.                    *)
BackStops(c, t) ==
  {k \in Index : \/ ~HasPrevious(Back(c, k))
                 \/ InForce(Dec(Back(c, k)), Back(c, k), t)}

(* On which event from d on the second loop may stop: one in force, or the *)
(* last one.                                                               *)
ForwardStops(d, t) ==
  {k \in 1 .. size : \/ ~HasNext(Slot(d, k))
                     \/ InForce(Slot(d, k), Slot(d, k + 1), t)}

(* Where set(t) leaves the cursor: at the first place behind c to stop at; *)
(* if that has no event behind it, at the first one from there on.         *)
Placed(c, t) ==
  LET d == Back(c, Min(BackStops(c, t)))
  IN IF HasPrevious(d) THEN d ELSE Slot(d, Min(ForwardStops(d, t)))

(* Turn by turn, an undisturbed set() gets to that place.                  *)
SetPlaces ==
  calm /\ pc \in {"found", "missed"} => cursor = Placed(from, goal)

(* set() returns, wherever the window has left the cursor and whatever is  *)
(* pushed meanwhile.                                                       *)
SetReturns == pc = "back" ~> Idle

=============================================================================
