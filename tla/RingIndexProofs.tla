-------------------------- MODULE RingIndexProofs --------------------------
(***************************************************************************)
(* Lemmas on the index arithmetic of the ring and on the events held       *)
(* between bottom and top, for every capacity N.                           *)
(***************************************************************************)
EXTENDS RingIndex, SequenceTheorems, TLAPS

(* The index helpers stay in the ring.                                     *)
LEMMA IndexTypes ==
  ASSUME NEW i \in Index
  PROVE  Inc(i) \in Index /\ Dec(i) \in Index
  BY NAssumption DEF Index, Inc, Dec, size

(* A ring holds at most N events.                                          *)
LEMMA LengthType ==
  ASSUME NEW b \in Index, NEW t \in Index
  PROVE  Length(b, t) \in Nat /\ Length(b, t) <= N
  BY NAssumption DEF Index, Length, size

(* The slots of the events are slots of the array.                         *)
LEMMA SlotType ==
  ASSUME NEW b \in Index, NEW i \in 1 .. N
  PROVE  Slot(b, i) \in 0 .. N + 1
  BY NAssumption DEF Index, Slot, size

(* increment_top lengthens the ring by one, unless it catches up bottom.   *)
LEMMA LengthIncTop ==
  ASSUME NEW b \in Index, NEW t \in Index
  PROVE  /\ Inc(t) # b => Length(b, Inc(t)) = Length(b, t) + 1
         /\ Inc(t) = b => /\ Length(b, t) = N
                          /\ Length(Inc(b), Inc(t)) = N
         /\ Length(b, t) = N => Inc(t) = b
  BY NAssumption DEF Index, Inc, Length, size

(* increment_bottom and decrement_top shorten a ring that is not empty.    *)
LEMMA LengthShrink ==
  ASSUME NEW b \in Index, NEW t \in Index, Length(b, t) > 0
  PROVE  /\ Length(Inc(b), t) = Length(b, t) - 1
         /\ Length(b, Dec(t)) = Length(b, t) - 1
  BY NAssumption DEF Index, Inc, Dec, Length, size

(* The oldest event of the ring is in the slot at bottom.                  *)
LEMMA SlotOldest ==
  ASSUME NEW b \in Index
  PROVE  Slot(b, 1) = b
  BY NAssumption DEF Index, Slot, size

(* The newest event is just before top, and the next one goes to top.      *)
LEMMA SlotNewest ==
  ASSUME NEW b \in Index, NEW t \in Index
  PROVE  /\ Length(b, t) > 0 => Slot(b, Length(b, t)) = Dec(t)
         /\ Slot(b, Length(b, t) + 1) = t
  BY NAssumption DEF Index, Dec, Length, Slot, size

(* increment_bottom shifts the positions of the events by one.             *)
LEMMA SlotShift ==
  ASSUME NEW b \in Index, NEW i \in 1 .. N
  PROVE  Slot(Inc(b), i) = Slot(b, i + 1)
  BY NAssumption DEF Index, Inc, Slot, size

(* Different positions of the ring are different slots.                    *)
LEMMA SlotInjective ==
  ASSUME NEW b \in Index, NEW i \in 1 .. N + 1, NEW j \in 1 .. N + 1,
         Slot(b, i) = Slot(b, j)
  PROVE  i = j
  BY NAssumption DEF Index, Slot, size

-----------------------------------------------------------------------------
(* The events held form a sequence of Length(b, t) elements.               *)
LEMMA HeldSeq ==
  ASSUME NEW S, NEW a \in SlotArray(S), NEW b \in Index, NEW t \in Index
  PROVE  /\ Held(a, b, t) \in Seq(S)
         /\ Len(Held(a, b, t)) = Length(b, t)
         /\ \A i \in 1 .. Length(b, t) : Held(a, b, t)[i] = a[Slot(b, i)]
<1> USE DEF SlotArray
<1>1. Length(b, t) \in Nat /\ Length(b, t) <= N
  BY LengthType
<1>2. \A i \in 1 .. Length(b, t) : a[Slot(b, i)] \in S
  <2>1. \A i \in 1 .. Length(b, t) : i \in 1 .. N
    BY <1>1, NAssumption
  <2> QED
    BY <2>1, SlotType
<1>3. Held(a, b, t) \in [1 .. Length(b, t) -> S]
  BY <1>2 DEF Held
<1>4. Held(a, b, t) \in Seq(S)
  BY <1>1, <1>3, SeqDef
<1> QED
  BY <1>1, <1>3, <1>4, LenProperties DEF Held

(* Filling the slot at top and moving top appends, when top does not reach *)
(* bottom; when it does, moving bottom too drops the oldest event.         *)
LEMMA HeldPush ==
  ASSUME NEW S, NEW a \in SlotArray(S), NEW b \in Index, NEW t \in Index,
         NEW e \in S, NEW a2 \in SlotArray(S),
         a2[t] = e, \A k \in 0 .. N + 1 : k # t => a2[k] = a[k]
  PROVE  /\ Inc(t) # b => Held(a2, b, Inc(t)) = Append(Held(a, b, t), e)
         /\ Inc(t) = b => Held(a2, Inc(b), Inc(t))
                            = Append(Tail(Held(a, b, t)), e)
<1> USE DEF SlotArray
<1> DEFINE h == Held(a, b, t)
           n == Length(b, t)
<1>0. \A x \in [0 .. N + 1 -> S] : \A p, q \in Index :
        /\ Held(x, p, q) \in Seq(S)
        /\ Len(Held(x, p, q)) = Length(p, q)
        /\ \A i \in 1 .. Length(p, q) : Held(x, p, q)[i] = x[Slot(p, i)]
  BY HeldSeq
<1>1. /\ h \in Seq(S)
      /\ Len(h) = n
      /\ \A i \in 1 .. n : h[i] = a[Slot(b, i)]
  BY HeldSeq
<1>2. n \in Nat /\ n <= N
  BY LengthType
<1>3. a2 \in [0 .. N + 1 -> S] /\ a2[t] = e
  BY NAssumption DEF Index
<1>4. \A i \in 1 .. N + 1 : i # n + 1 => Slot(b, i) # t
  <2>1. n + 1 \in 1 .. N + 1
    BY <1>2, NAssumption
  <2> QED
    BY <2>1, SlotNewest, SlotInjective
<1>4a. \A i \in 1 .. N : Slot(b, i) \in 0 .. N + 1
  BY SlotType
<1>5. \A i \in 1 .. N : i # n + 1 => a2[Slot(b, i)] = a[Slot(b, i)]
  BY <1>4, <1>4a, NAssumption
<1>t. Slot(b, n + 1) = t
  BY SlotNewest
<1> HIDE DEF h, n
<1>6. Inc(t) \in Index /\ Inc(b) \in Index
  BY IndexTypes
<1>7. ASSUME Inc(t) # b PROVE Held(a2, b, Inc(t)) = Append(h, e)
  <2> DEFINE g == Held(a2, b, Inc(t))
  <2>1. Length(b, Inc(t)) = n + 1 /\ n + 1 <= N
    BY <1>7, <1>6, LengthIncTop, LengthType DEF n
  <2>2. /\ g \in Seq(S)
        /\ Len(g) = n + 1
        /\ \A i \in 1 .. n + 1 : g[i] = a2[Slot(b, i)]
    <3>1. /\ g \in Seq(S)
          /\ Len(g) = Length(b, Inc(t))
          /\ \A i \in 1 .. Length(b, Inc(t)) : g[i] = a2[Slot(b, i)]
      BY <1>0, <1>3, <1>6
    <3> HIDE DEF g
    <3> QED
      BY <2>1, <3>1
  <2>3. \A i \in 1 .. n : g[i] = h[i]
    BY <1>1, <1>2, <1>5, <2>1, <2>2, NAssumption
  <2>4. g[n + 1] = e
    BY <1>2, <1>3, <1>t, <2>2
  <2> HIDE DEF g
  <2>5. /\ Append(h, e) \in Seq(S)
        /\ Len(Append(h, e)) = n + 1
        /\ \A i \in 1 .. n : Append(h, e)[i] = h[i]
        /\ Append(h, e)[n + 1] = e
    BY <1>1, AppendProperties
  <2>6. \A i \in 1 .. n + 1 : g[i] = Append(h, e)[i]
    BY <1>2, <2>3, <2>4, <2>5
  <2>7. g = Append(h, e)
    BY <2>2, <2>5, <2>6, SeqEqual
  <2> QED
    BY <2>7 DEF g
<1>8. ASSUME Inc(t) = b PROVE Held(a2, Inc(b), Inc(t)) = Append(Tail(h), e)
  <2> DEFINE g == Held(a2, Inc(b), Inc(t))
             r == Tail(h)
  <2>1. n = N /\ Length(Inc(b), Inc(t)) = N
    BY <1>8, LengthIncTop DEF n
  <2>2. /\ g \in Seq(S)
        /\ Len(g) = N
        /\ \A i \in 1 .. N : g[i] = a2[Slot(Inc(b), i)]
    BY <1>0, <1>3, <1>6, <2>1
  <2>3. \A i \in 1 .. N : g[i] = a2[Slot(b, i + 1)]
    BY <2>2, SlotShift
  <2>4. \A i \in 1 .. N - 1 : g[i] = h[i + 1]
    BY <1>1, <1>5, <2>1, <2>3, NAssumption
  <2>5. g[N] = e
    BY <1>3, <1>t, <2>1, <2>3, NAssumption
  <2> HIDE DEF g
  <2>6. /\ r \in Seq(S)
        /\ Len(r) = N - 1
        /\ \A i \in 1 .. N - 1 : r[i] = h[i + 1]
    <3>1. h # << >>
      BY <1>1, <2>1, EmptySeq, NAssumption
    <3> QED
      BY <1>1, <2>1, <3>1, HeadTailProperties, NAssumption
  <2> HIDE DEF r
  <2>7. /\ Append(r, e) \in Seq(S)
        /\ Len(Append(r, e)) = N
        /\ \A i \in 1 .. N - 1 : Append(r, e)[i] = r[i]
        /\ Append(r, e)[N] = e
    BY <2>6, AppendProperties, NAssumption
  <2>8. \A i \in 1 .. N : g[i] = Append(r, e)[i]
    BY <2>4, <2>5, <2>6, <2>7, NAssumption
  <2>9. g = Append(r, e)
    BY <2>2, <2>7, <2>8, SeqEqual
  <2> QED
    BY <2>9 DEF g, r
<1> QED
  BY <1>7, <1>8 DEF h

(* Moving bottom of a ring that is not empty drops its oldest event, the   *)
(* one at bottom.                                                          *)
LEMMA HeldPull ==
  ASSUME NEW S, NEW a \in SlotArray(S), NEW b \in Index, NEW t \in Index,
         Length(b, t) > 0
  PROVE  /\ Held(a, Inc(b), t) = Tail(Held(a, b, t))
         /\ a[b] = Held(a, b, t)[1]
<1> USE DEF SlotArray
<1> DEFINE h == Held(a, b, t)
           g == Held(a, Inc(b), t)
           n == Length(b, t)
<1>0. \A p \in Index :
        /\ Held(a, p, t) \in Seq(S)
        /\ Len(Held(a, p, t)) = Length(p, t)
        /\ \A i \in 1 .. Length(p, t) : Held(a, p, t)[i] = a[Slot(p, i)]
  BY HeldSeq
<1>1. /\ h \in Seq(S)
      /\ Len(h) = n
      /\ \A i \in 1 .. n : h[i] = a[Slot(b, i)]
  BY <1>0
<1>2. n \in Nat /\ n > 0 /\ n <= N
  BY LengthType
<1>3. Inc(b) \in Index /\ Length(Inc(b), t) = n - 1
  BY IndexTypes, LengthShrink
<1> HIDE DEF n
<1>4. /\ g \in Seq(S)
      /\ Len(g) = n - 1
      /\ \A i \in 1 .. n - 1 : g[i] = a[Slot(Inc(b), i)]
  BY <1>0, <1>2, <1>3
<1>5. \A i \in 1 .. n - 1 : g[i] = h[i + 1]
  <2>1. \A i \in 1 .. n - 1 : i \in 1 .. N /\ i + 1 \in 1 .. n
    BY <1>2, NAssumption
  <2> QED
    BY <1>1, <1>4, <2>1, SlotShift
<1>6. a[b] = h[1]
  BY <1>1, <1>2, SlotOldest
<1> HIDE DEF g, h
<1>7. h # << >>
  BY <1>1, <1>2, EmptySeq
<1>8. /\ Tail(h) \in Seq(S)
      /\ Len(Tail(h)) = n - 1
      /\ \A i \in 1 .. n - 1 : Tail(h)[i] = h[i + 1]
  BY <1>1, <1>2, <1>7, HeadTailProperties
<1>9. \A i \in 1 .. n - 1 : g[i] = Tail(h)[i]
  BY <1>5, <1>8
<1>10. g = Tail(h)
  BY <1>4, <1>8, <1>9, SeqEqual
<1> QED
  BY <1>6, <1>10 DEF g, h

(* Moving top back drops the newest event, the one at the new top.         *)
LEMMA HeldPop ==
  ASSUME NEW S, NEW a \in SlotArray(S), NEW b \in Index, NEW t \in Index,
         Length(b, t) > 0
  PROVE  /\ Held(a, b, Dec(t))
              = SubSeq(Held(a, b, t), 1, Len(Held(a, b, t)) - 1)
         /\ a[Dec(t)] = Held(a, b, t)[Len(Held(a, b, t))]
<1> USE DEF SlotArray
<1> DEFINE h == Held(a, b, t)
           g == Held(a, b, Dec(t))
           n == Length(b, t)
           r == SubSeq(h, 1, n - 1)
<1>0. \A q \in Index :
        /\ Held(a, b, q) \in Seq(S)
        /\ Len(Held(a, b, q)) = Length(b, q)
        /\ \A i \in 1 .. Length(b, q) : Held(a, b, q)[i] = a[Slot(b, i)]
  BY HeldSeq
<1>1. /\ h \in Seq(S)
      /\ Len(h) = n
      /\ \A i \in 1 .. n : h[i] = a[Slot(b, i)]
  BY <1>0
<1>2. n \in Nat /\ n > 0 /\ n <= N
  BY LengthType
<1>3. Dec(t) \in Index /\ Length(b, Dec(t)) = n - 1 /\ Slot(b, n) = Dec(t)
  BY IndexTypes, LengthShrink, SlotNewest
<1> HIDE DEF n
<1>4. /\ g \in Seq(S)
      /\ Len(g) = n - 1
      /\ \A i \in 1 .. n - 1 : g[i] = a[Slot(b, i)]
  BY <1>0, <1>2, <1>3
<1>5. \A i \in 1 .. n - 1 : g[i] = h[i]
  BY <1>1, <1>2, <1>4
<1>6. a[Dec(t)] = h[n]
  BY <1>1, <1>2, <1>3
<1> HIDE DEF g, h
<1>7. \A i \in 1 .. n - 1 : h[i] \in S
  BY <1>1, <1>2, ElementOfSeq
<1>8. /\ r \in Seq(S)
      /\ Len(r) = n - 1
      /\ \A i \in 1 .. n - 1 : r[i] = h[i]
  <2>1. /\ r \in Seq(S)
        /\ Len(r) = IF 1 <= n - 1 THEN (n - 1) - 1 + 1 ELSE 0
        /\ \A i \in 1 .. (n - 1) - 1 + 1 : r[i] = h[1 + i - 1]
    BY <1>2, <1>7, SubSeqProperties
  <2> HIDE DEF r
  <2> QED
    BY <1>2, <2>1
<1> HIDE DEF r
<1>9. g = r
  BY <1>4, <1>5, <1>8, SeqEqual
<1> QED
  BY <1>1, <1>6, <1>9 DEF g, h, r

(* Writing a slot replaces the event held there, if any.                   *)
LEMMA HeldWrite ==
  ASSUME NEW S, NEW a \in SlotArray(S), NEW b \in Index, NEW t \in Index,
         NEW e \in S, NEW k \in Index, NEW a2 \in SlotArray(S),
         a2[k] = e, \A i \in 0 .. N + 1 : i # k => a2[i] = a[i]
  PROVE  \/ Held(a2, b, t) = Held(a, b, t)
         \/ \E j \in 1 .. Len(Held(a, b, t)) :
               Held(a2, b, t) = [Held(a, b, t) EXCEPT ![j] = e]
<1> USE DEF SlotArray
<1> DEFINE n == Length(b, t)
<1>1. n \in Nat /\ n <= N
  BY LengthType
<1>2. Len(Held(a, b, t)) = n
  BY HeldSeq
<1>3. \A i \in 1 .. n : i \in 1 .. N /\ i \in 1 .. N + 1
  BY <1>1, NAssumption
<1>4. \A i \in 1 .. n : a2[Slot(b, i)] = IF Slot(b, i) = k THEN e
                                         ELSE a[Slot(b, i)]
  BY <1>3, SlotType
<1>5. CASE \A i \in 1 .. n : Slot(b, i) # k
  BY <1>4, <1>5 DEF Held
<1>6. ASSUME NEW j \in 1 .. n, Slot(b, j) = k
      PROVE  Held(a2, b, t) = [Held(a, b, t) EXCEPT ![j] = e]
  <2>1. \A i \in 1 .. n : Slot(b, i) = k => i = j
    BY <1>3, <1>6, SlotInjective
  <2> HIDE DEF n
  <2>2. Held(a2, b, t) = [i \in 1 .. n |-> IF i = j THEN e ELSE a[Slot(b, i)]]
    BY <1>4, <1>6, <2>1 DEF Held, n
  <2>3. [Held(a, b, t) EXCEPT ![j] = e]
          = [i \in 1 .. n |-> IF i = j THEN e ELSE a[Slot(b, i)]]
    BY DEF Held, n
  <2> QED
    BY <2>2, <2>3
<1> QED
  BY <1>2, <1>5, <1>6

=============================================================================
