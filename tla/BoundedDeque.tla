---------------------------- MODULE BoundedDeque ----------------------------
(***************************************************************************)
(* What the ring buffer promises to its clients: a double-ended queue of   *)
(* at most N events.  A push onto a full deque discards the oldest event   *)
(* and says so; pull takes the oldest event and pop the newest.            *)
(***************************************************************************)
EXTENDS Naturals, Sequences

CONSTANTS N,        \* capacity
          Event,    \* the events a client may push
          NoEvent   \* what an event_t holds before anything is stored in it

VARIABLES content,  \* the events held, oldest first
          ret,      \* what the last operation returned
          out       \* the event the last pull or pop delivered

bdvars == <<content, ret, out>>

Code == {"OK", "EMPTY", "BUFFER_OVERFLOW", "OUT_OF_BOUND"}

Init ==
  /\ content = <<>>
  /\ ret = "OK"
  /\ out = NoEvent

(* The newest event is always accepted; a full deque forgets its oldest.   *)
Push(e) ==
  /\ \/ /\ Len(content) < N
        /\ content' = Append(content, e)
        /\ ret' = "OK"
     \/ /\ Len(content) = N
        /\ content' = Append(Tail(content), e)
        /\ ret' = "BUFFER_OVERFLOW"
  /\ UNCHANGED out

Pull ==
  /\ Len(content) > 0
  /\ out' = content[1]
  /\ content' = Tail(content)
  /\ ret' = "OK"

Pop ==
  /\ Len(content) > 0
  /\ out' = content[Len(content)]
  /\ content' = SubSeq(content, 1, Len(content) - 1)
  /\ ret' = "OK"

(* A pull or a pop that finds nothing.                                     *)
Empty ==
  /\ content = <<>>
  /\ ret' = "EMPTY"
  /\ UNCHANGED <<content, out>>

(* Random access: an element is replaced in place, or the index designates *)
(* no element and the content stays.                                       *)
Replace(e) ==
  /\ \/ \E i \in 1 .. Len(content) : content' = [content EXCEPT ![i] = e]
     \/ UNCHANGED content
  /\ ret' \in {"OK", "OUT_OF_BOUND"}
  /\ UNCHANGED out

(* Random access reading: the index may designate a place that holds none  *)
(* of the elements, so nothing is promised of the event.                   *)
Peek ==
  /\ out' \in Event
  /\ ret' = "OK"
  /\ UNCHANGED content

Next ==
  \/ \E e \in Event : Push(e) \/ Replace(e)
  \/ Pull
  \/ Pop
  \/ Empty
  \/ Peek

Spec == Init /\ [][Next]_bdvars

=============================================================================
