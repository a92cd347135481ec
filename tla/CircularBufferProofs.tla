------------------------ MODULE CircularBufferProofs ------------------------
(***************************************************************************)
(* RTML_buffer implements the bounded deque, for every capacity N.         *)
(***************************************************************************)
EXTENDS CircularBuffer, RingIndexProofs

(* The type invariant is inductive.                                        *)
LEMMA TypeStep == TypeOK /\ [Next]_vars => TypeOK'
<1> SUFFICES ASSUME TypeOK, [Next]_vars PROVE TypeOK'
  OBVIOUS
<1>a. /\ Inc(top) \in Index
      /\ Inc(bottom) \in Index
      /\ Dec(top) \in Index
  BY IndexTypes DEF TypeOK
<1>b. \A i \in Index : i \in 0 .. N + 1 /\ array[i] \in Event
  BY NAssumption DEF TypeOK, Index, SlotArray
<1>c. Done \in Code
  BY DEF Done, Code
<1>1. ASSUME NEW e \in Event, push(e) PROVE TypeOK'
  BY <1>1, <1>a, <1>c DEF push, TypeOK, Code, SlotArray
<1>2. CASE pull
  BY <1>2, <1>a, <1>b, <1>c DEF pull, TypeOK, Code
<1>3. CASE pop
  BY <1>3, <1>a, <1>b, <1>c DEF pop, TypeOK, Code
<1>4. ASSUME NEW i \in 0 .. N + 1, read(i) PROVE TypeOK'
  BY <1>4 DEF read, TypeOK, Code, SlotArray
<1>5. ASSUME NEW e \in Event, NEW i \in 0 .. N + 1, write(e, i) PROVE TypeOK'
  BY <1>5 DEF write, TypeOK, Code, SlotArray
<1>6. CASE increment_writer
  BY <1>6, WriterModAssumption, MaxWritersAssumption
  DEF increment_writer, TypeOK
<1>7. CASE UNCHANGED vars
  BY <1>7 DEF vars, TypeOK
<1> QED
  BY <1>1, <1>2, <1>3, <1>4, <1>5, <1>6, <1>7 DEF Next

(* No sequence of operations takes top or bottom out of the ring.          *)
THEOREM TypeCorrect == Spec => []TypeOK
<1>1. Init => TypeOK
  BY NAssumption, EventAssumption, WriterModAssumption, MaxWritersAssumption
  DEF Init, TypeOK, Index, Code, SlotArray
<1> QED
  BY <1>1, TypeStep, PTL DEF Spec

-----------------------------------------------------------------------------
(* With no more writers than the uint8_t can count, writer is their number.*)
LEMMA WriterCountedInv == Spec => []WriterCounted
<1>1. Init => WriterCounted
  BY DEF Init, WriterCounted
<1>2. TypeOK /\ WriterCounted /\ [Next]_vars => WriterCounted'
  <2> SUFFICES ASSUME TypeOK, WriterCounted, [Next]_vars PROVE WriterCounted'
    OBVIOUS
  <2>1. CASE increment_writer
    BY <2>1, WriterModAssumption, MaxWritersAssumption
    DEF increment_writer, WriterCounted, TypeOK
  <2>2. CASE UNCHANGED <<writer, attached>>
    BY <2>2 DEF WriterCounted
  <2> QED
    BY <2>1, <2>2 DEF Next, vars, push, pull, pop, read, write
<1> QED
  BY <1>1, <1>2, TypeCorrect, PTL DEF Spec

(* A push, pull or pop that moves the ring answers a plain OK only while   *)
(* at most one writer is attached.                                         *)
THEOREM OkOnlyForSingleWriter == Spec => OkMeansSingleWriter
<1>1. TypeOK /\ WriterCounted /\ [Next]_vars =>
        [(top' # top \/ bottom' # bottom) /\ ret' = "OK" => attached <= 1]_vars
  <2> SUFFICES ASSUME TypeOK, WriterCounted, Next,
                      top' # top \/ bottom' # bottom, ret' = "OK"
               PROVE  attached <= 1
    BY DEF vars
  <2>1. Done = "OK" => attached <= 1
    BY DEF Done, WriterCounted, TypeOK
  <2> QED
    BY <2>1 DEF Next, push, pull, pop, read, write, increment_writer
<1> QED
  BY <1>1, TypeCorrect, WriterCountedInv, PTL DEF Spec, OkMeansSingleWriter

-----------------------------------------------------------------------------
(* Every operation of RTML_buffer is an operation of the deque or a stutter*)
(* seen through Content.                                                   *)
LEMMA DequeStep == TypeOK /\ [Next]_vars => [Deque!Next]_(Deque!bdvars)
<1> SUFFICES ASSUME TypeOK, [Next]_vars
             PROVE  [Deque!Next]_(Deque!bdvars)
  OBVIOUS
<1> USE DEF Content
<1>a. array \in SlotArray(Event) /\ top \in Index /\ bottom \in Index
  BY DEF TypeOK
<1>b. /\ Content \in Seq(Event)
      /\ Len(Content) = length
      /\ length \in Nat
  BY <1>a, HeldSeq, LengthType DEF length
<1>c. Ret \in Deque!Code /\ (Done = "OK" \/ Done = "UNSAFE")
  BY DEF TypeOK, Code, Ret, Deque!Code, Done
<1>1. ASSUME NEW e \in Event, push(e) PROVE Deque!Push(e)
  <2>0. /\ array' \in SlotArray(Event)
        /\ array'[top] = e
        /\ \A k \in 0 .. N + 1 : k # top => array'[k] = array[k]
    BY <1>1, <1>a, NAssumption DEF push, Index, SlotArray
  <2>a. /\ Inc(top) # bottom => Held(array', bottom, Inc(top)) = Append(Content, e)
        /\ Inc(top) = bottom => Held(array', Inc(bottom), Inc(top))
                                  = Append(Tail(Content), e)
    BY <2>0, <1>a, HeldPush
  <2>1. CASE Inc(top) = bottom
    <3>1. Content' = Append(Tail(Content), e)
      BY <1>1, <2>a, <2>1 DEF push
    <3>2. Len(Content) = N
      BY <1>a, <1>b, <2>1, LengthIncTop DEF length
    <3>3. Ret' = "BUFFER_OVERFLOW"
      BY <1>1, <2>1 DEF push, Ret
    <3> QED
      BY <1>1, <3>1, <3>2, <3>3 DEF push, Deque!Push
  <2>2. CASE Inc(top) # bottom
    <3>1. Content' = Append(Content, e)
      BY <1>1, <2>a, <2>2 DEF push
    <3>2. Len(Content) < N
      BY <1>a, <1>b, <2>2, LengthIncTop, LengthType, NAssumption DEF length
    <3>3. Ret' = "OK"
      BY <1>1, <1>c, <2>2 DEF push, Ret
    <3> QED
      BY <1>1, <3>1, <3>2, <3>3 DEF push, Deque!Push
  <2> QED
    BY <2>1, <2>2
<1>2. ASSUME pull PROVE Deque!Pull \/ Deque!Empty
  <2>1. CASE length > 0
    <3>1. Content' = Tail(Content) /\ out' = Content[1]
      BY <1>2, <2>1, <1>a, HeldPull DEF pull, length
    <3>2. Ret' = "OK"
      BY <1>2, <1>c, <2>1 DEF pull, Ret
    <3> QED
      BY <1>b, <2>1, <3>1, <3>2 DEF Deque!Pull
  <2>2. CASE ~(length > 0)
    <3>1. Content' = Content /\ out' = out /\ Ret' = "EMPTY"
      BY <1>2, <2>2 DEF pull, Ret
    <3>2. Content = << >>
      BY <1>b, <2>2, EmptySeq
    <3> QED
      BY <3>1, <3>2 DEF Deque!Empty
  <2> QED
    BY <2>1, <2>2
<1>3. ASSUME pop PROVE Deque!Pop \/ Deque!Empty
  <2>1. CASE length > 0
    <3>1. /\ Content' = SubSeq(Content, 1, Len(Content) - 1)
          /\ out' = Content[Len(Content)]
      BY <1>3, <2>1, <1>a, HeldPop DEF pop, length
    <3>2. Ret' = "OK"
      BY <1>3, <1>c, <2>1 DEF pop, Ret
    <3> QED
      BY <1>b, <2>1, <3>1, <3>2 DEF Deque!Pop
  <2>2. CASE ~(length > 0)
    <3>1. Content' = Content /\ out' = out /\ Ret' = "EMPTY"
      BY <1>3, <2>2 DEF pop, Ret
    <3>2. Content = << >>
      BY <1>b, <2>2, EmptySeq
    <3> QED
      BY <3>1, <3>2 DEF Deque!Empty
  <2> QED
    BY <2>1, <2>2
<1>4. ASSUME NEW i \in 0 .. N + 1, read(i)
      PROVE  Deque!Peek \/ Deque!Replace(NoEvent)
  <2>1. Content' = Content
    BY <1>4 DEF read
  <2>2. CASE i < size
    BY <1>4, <1>a, <2>1, <2>2 DEF read, Ret, Deque!Peek, SlotArray
  <2>3. CASE ~(i < size)
    BY <1>4, <2>1, <2>3 DEF read, Ret, Deque!Replace
  <2> QED
    BY <2>2, <2>3
<1>5. ASSUME NEW e \in Event, NEW i \in 0 .. N + 1, write(e, i)
      PROVE  Deque!Replace(e)
  <2>1. CASE i < size
    <3>1. i \in Index
      BY <2>1, NAssumption DEF size, Index
    <3>a. /\ array' \in SlotArray(Event)
          /\ array'[i] = e
          /\ \A k \in 0 .. N + 1 : k # i => array'[k] = array[k]
          /\ UNCHANGED <<bottom, top>>
      BY <1>5, <1>a, <2>1 DEF write, SlotArray
    <3>2. \/ Content' = Content
          \/ \E j \in 1 .. Len(Content) : Content' = [Content EXCEPT ![j] = e]
      BY <1>a, <3>1, <3>a, HeldWrite
    <3> QED
      BY <1>5, <2>1, <3>2 DEF write, Ret, Deque!Replace
  <2>2. CASE ~(i < size)
    BY <1>5, <2>2 DEF write, Ret, Deque!Replace
  <2> QED
    BY <2>1, <2>2
<1>6. ASSUME increment_writer PROVE UNCHANGED Deque!bdvars
  BY <1>6 DEF increment_writer, Ret, Deque!bdvars
<1>7. ASSUME UNCHANGED vars PROVE UNCHANGED Deque!bdvars
  BY <1>7 DEF vars, Ret, Deque!bdvars
<1> QED
  BY <1>1, <1>2, <1>3, <1>4, <1>5, <1>6, <1>7, EventAssumption
  DEF Next, Deque!Next

(* For every capacity, RTML_buffer is a bounded deque that forgets its     *)
(* oldest event: what push, pull and pop store, deliver and return.        *)
THEOREM BufferImplementsDeque == Spec => ImplementsDeque
<1>1. Init => Deque!Init
  <2> SUFFICES ASSUME Init PROVE Deque!Init
    OBVIOUS
  <2>1. array \in SlotArray(Event) /\ top \in Index /\ bottom \in Index
    BY NAssumption, EventAssumption DEF Init, Index, SlotArray
  <2>2. Length(bottom, top) = 0
    BY DEF Init, Length
  <2>3. Content = << >>
    BY <2>1, <2>2, HeldSeq, EmptySeq DEF Content
  <2> QED
    BY <2>3 DEF Init, Deque!Init, Ret
<1>2. Spec => []TypeOK
  BY TypeCorrect
<1> QED
  BY <1>1, <1>2, DequeStep, PTL DEF Spec, ImplementsDeque, Deque!Spec

=============================================================================
