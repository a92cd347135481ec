--------------------------- MODULE CircularBuffer ---------------------------
(***************************************************************************)
(* RTML_buffer<T, N> used by one thread: push, pull, pop, read, write, the *)
(* state and length queries and the attached-writer counter.  top and      *)
(* bottom are those of the state_t the page designates (_top(), _bottom());*)
(* nothing but RTML_writer and operator= ever moves the page.              *)
(***************************************************************************)
EXTENDS RingIndex, Sequences

CONSTANTS Event,      \* the events a client may push
          NoEvent,    \* event_t()
          WriterMod,  \* 2^8: the writer counter is a uint8_t
          MaxWriters  \* the RTML_writer objects ever constructed ("max 255")

ASSUME EventAssumption == NoEvent \in Event
ASSUME WriterModAssumption == WriterMod \in Nat /\ WriterMod > 1
ASSUME MaxWritersAssumption == MaxWriters \in 0 .. WriterMod - 1

VARIABLES array,      \* the slots
          top, bottom,
          writer,     \* the uint8_t counter
          attached,   \* how many writers were really constructed
          ret,        \* error_t of the last operation
          out         \* the event_t the last operation filled in

vars == <<array, top, bottom, writer, attached, ret, out>>

Code == {"OK", "EMPTY", "BUFFER_OVERFLOW", "OUT_OF_BOUND", "UNSAFE"}

(* length(), through state(b, t).                                          *)
length == Length(bottom, top)

(* c ? (writer > 1 ? UNSAFE : OK)                                          *)
Done == IF writer > 1 THEN "UNSAFE" ELSE "OK"

Init ==
  /\ array = [i \in 0 .. N + 1 |-> NoEvent]
  /\ top = 0
  /\ bottom = 0
  /\ writer = 0
  /\ attached = 0
  /\ ret = "OK"
  /\ out = NoEvent

(* The slot at top is filled and top moves on; when it reaches bottom the  *)
(* oldest event is discarded.                                              *)
push(e) ==
  /\ array' = [array EXCEPT ![top] = e]
  /\ top' = Inc(top)
  /\ \/ /\ Inc(top) = bottom
        /\ bottom' = Inc(bottom)
        /\ ret' = "BUFFER_OVERFLOW"
     \/ /\ Inc(top) # bottom
        /\ UNCHANGED bottom
        /\ ret' = Done
  /\ UNCHANGED <<writer, attached, out>>

pull ==
  /\ \/ /\ length > 0
        /\ out' = array[bottom]
        /\ bottom' = Inc(bottom)
        /\ ret' = Done
     \/ /\ ~(length > 0)
        /\ ret' = "EMPTY"
        /\ UNCHANGED <<bottom, out>>
  /\ UNCHANGED <<array, top, writer, attached>>

(* Mutant: the event is read before top moves back.                        *)
MutPop ==
  /\ \/ /\ length > 0
        /\ top' = Dec(top)
        /\ out' = array[top]
        /\ ret' = Done
     \/ /\ ~(length > 0)
        /\ ret' = "EMPTY"
        /\ UNCHANGED <<top, out>>
  /\ UNCHANGED <<array, bottom, writer, attached>>

pop ==
  /\ \/ /\ length > 0
        /\ top' = Dec(top)
        /\ out' = array[Dec(top)]
        /\ ret' = Done
     \/ /\ ~(length > 0)
        /\ ret' = "EMPTY"
        /\ UNCHANGED <<top, out>>
  /\ UNCHANGED <<array, bottom, writer, attached>>

read(i) ==
  /\ \/ /\ i < size
        /\ out' = array[i]
        /\ ret' = "OK"
     \/ /\ ~(i < size)
        /\ ret' = "OUT_OF_BOUND"
        /\ UNCHANGED out
  /\ UNCHANGED <<array, top, bottom, writer, attached>>

write(e, i) ==
  /\ \/ /\ i < size
        /\ array' = [array EXCEPT ![i] = e]
        /\ ret' = "OK"
     \/ /\ ~(i < size)
        /\ ret' = "OUT_OF_BOUND"
        /\ UNCHANGED array
  /\ UNCHANGED <<top, bottom, writer, attached, out>>

(* Mutant: the counter wraps one writer early.                             *)
MutIncrementWriter ==
  /\ attached < MaxWriters
  /\ attached' = attached + 1
  /\ writer' = (writer + 1) % (WriterMod - 1)
  /\ UNCHANGED <<array, top, bottom, ret, out>>

(* The constructor of RTML_writer; there is no destructor to undo it.      *)
increment_writer ==
  /\ attached < MaxWriters
  /\ attached' = attached + 1
  /\ writer' = (writer + 1) % WriterMod
  /\ UNCHANGED <<array, top, bottom, ret, out>>

Next ==
  \/ \E e \in Event : push(e)
  \/ pull
  \/ pop
  \/ \E i \in 0 .. N + 1 : read(i)
  \/ \E e \in Event, i \in 0 .. N + 1 : write(e, i)
  \/ increment_writer

Spec == Init /\ [][Next]_vars

-----------------------------------------------------------------------------
(* Types: the indices never leave the ring, whatever is pushed or taken.   *)
TypeOK ==
  /\ array \in SlotArray(Event)
  /\ top \in Index
  /\ bottom \in Index
  /\ writer \in 0 .. WriterMod - 1
  /\ attached \in 0 .. MaxWriters
  /\ ret \in Code
  /\ out \in Event

(* The events held, oldest first, read off the ring.                       *)
Content == Held(array, bottom, top)

(* UNSAFE is an OK that warns of several writers.                          *)
Ret == IF ret = "UNSAFE" THEN "OK" ELSE ret

Deque == INSTANCE BoundedDeque WITH content <- Content, ret <- Ret

(* RTML_buffer implements a bounded deque that forgets its oldest event:   *)
(* push, pull and pop return the events in the promised order and report   *)
(* overflow and emptiness exactly when they happen, across every wrap of   *)
(* top and bottom.                                                         *)
ImplementsDeque == Deque!Spec

(* The counter tells how many writers were attached, up to its limit.      *)
WriterCounted == writer = attached

(* A step that moves top or bottom answers a plain OK only while at most   *)
(* one writer is attached: with more the caller is told UNSAFE (or of the  *)
(* overflow).                                                              *)
OkMeansSingleWriter ==
  [][(top' # top \/ bottom' # bottom) /\ ret' = "OK" => attached <= 1]_vars

=============================================================================
