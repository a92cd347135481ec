----------------------------- MODULE RingIndex -----------------------------
(***************************************************************************)
(* Index arithmetic of the ring.  RTML_buffer, RTML_writer, RTML_reader    *)
(* and RMTLD3_reader each carry their own copy of these helpers; the       *)
(* copies differ only in the variable they move.                           *)
(***************************************************************************)
EXTENDS Naturals

CONSTANT N    \* size_util: the number of events the ring can hold

ASSUME NAssumption == N \in Nat \ {0}

(* const size_t size = N + 1; one slot always stays free.                  *)
size == N + 1

(* T array[N + 2]: slot N + 1 exists but no operation addresses it.        *)
SlotArray(S) == [0 .. N + 1 -> S]

(* The indices read() and write() accept.                                  *)
Index == 0 .. N

(* Mutant: the wrap is tested with > instead of >=.                        *)
MutInc(i) == IF i + 1 > size THEN 0 ELSE i + 1

(* if (++i >= size) i = 0                                                  *)
Inc(i) == IF i + 1 >= size THEN 0 ELSE i + 1

(* if (i == 0) i = size - 1 else --i                                       *)
Dec(i) == IF i = 0 THEN size - 1 ELSE i - 1

(* length(): the number of slots from bottom b up to, not including, top t.*)
Length(b, t) == IF t >= b THEN t - b ELSE size - (b - t)

(* The slot of the i-th oldest event of a ring whose bottom is b.          *)
Slot(b, i) == IF b + i - 1 >= size THEN b + i - 1 - size ELSE b + i - 1

(* The events of slots a, oldest first, between bottom b and top t.        *)
Held(a, b, t) == [i \in 1 .. Length(b, t) |-> a[Slot(b, i)]]

=============================================================================
