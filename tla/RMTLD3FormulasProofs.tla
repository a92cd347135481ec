------------------------ MODULE RMTLD3FormulasProofs ------------------------
(***************************************************************************)
(* What a definite verdict of until_less and always_less, since_less and   *)
(* historically_less rests on: events of the window, for every window,     *)
(* bound and pair of subformulas.                                          *)
(***************************************************************************)
EXTENDS RMTLD3Formulas, RMTLD3ReaderProofs

(* The loop visits the events from the cursor up to the window's last.     *)
LEMMA AheadRange ==
  ASSUME TypeOK, NEW c \in Index
  PROVE  /\ Ahead(c) \subseteq Nat
         /\ Max(Ahead(c)) \in Ahead(c)
         /\ \A k \in Ahead(c) : 0 .. k - 1 \subseteq Ahead(c)
         /\ \A k \in Ahead(c) : At(c, k) \in Index
<1>1. length(c) \in Nat /\ length(c) <= N
  BY LengthType DEF TypeOK, length
<1>2. PICK n \in 0 .. N : Ahead(c) = 0 .. n
  <2>1. CASE length(c) = 0
    <3>1. Ahead(c) = 0 .. 0
      BY <2>1 DEF Ahead
    <3> QED
      BY <3>1, NAssumption
  <2>2. CASE length(c) # 0
    <3>1. Ahead(c) = 0 .. length(c) - 1 /\ length(c) - 1 \in 0 .. N
      BY <1>1, <2>2, NAssumption DEF Ahead
    <3> QED
      BY <3>1
  <2> QED
    BY <2>1, <2>2
<1>3. Max(0 .. n) \in 0 .. n
  <2>1. n \in 0 .. n /\ \A y \in 0 .. n : n >= y
    OBVIOUS
  <2> QED
    BY <2>1 DEF Max
<1>4. \A k \in 0 .. n : At(c, k) \in Index
  BY NAssumption DEF At, Slot, Index, size
<1> QED
  BY <1>2, <1>3, <1>4

(* The events it visits are in slots of the ring, with a time each.        *)
LEMMA EventTimes ==
  ASSUME TypeOK, NEW c \in Index
  PROVE  \A j \in Ahead(c) : At(c, j) \in Index /\ time(At(c, j)) \in Int
<1>1. \A j \in Ahead(c) : At(c, j) \in Index
  BY AheadRange
<1>2. \A i \in Index : time(i) \in Int
  BY SlotTimes, MaxTimeAssumption DEF Time
<1> QED
  BY <1>1, <1>2

(* until_less's loop stops at the first event that is too late or decides. *)
LEMMA FoldStops ==
  ASSUME TypeOK, NEW c \in Index, NEW t \in Int, NEW b \in Nat, NEW symbols,
         Definite(UntilFold(symbols, b, c, t))
  PROVE  \E k \in Ahead(c) :
           /\ \A j \in 0 .. k - 1 : /\ ~(time(At(c, j)) >= b + t)
                                    /\ symbols[j] = FV_SYMBOL
           /\ \/ /\ time(At(c, k)) >= b + t
                 /\ UntilFold(symbols, b, c, t) = T_FALSE
              \/ /\ ~(time(At(c, k)) >= b + t)
                 /\ symbols[k] # FV_SYMBOL
                 /\ UntilFold(symbols, b, c, t) = symbols[k]
<1> DEFINE late == {k \in Ahead(c) : time(At(c, k)) >= b + t}
           S == late \cup {j \in Ahead(c) : symbols[j] # FV_SYMBOL}
           k == FirstOrLast(S, Ahead(c))
<1>1. UntilFold(symbols, b, c, t) =
        IF k \in late THEN T_FALSE
        ELSE IF symbols[k] # FV_SYMBOL THEN symbols[k] ELSE T_UNKNOWN
  BY DEF UntilFold
<1>2. k \in Ahead(c) /\ (S # {} => k \in S /\ \A y \in S : k <= y)
  BY AheadRange, MinIsLeast DEF FirstOrLast
<1>3. S # {}
  <2>1. ASSUME S = {} PROVE FALSE
    <3>1. k \notin late /\ symbols[k] = FV_SYMBOL
      BY <1>2, <2>1
    <3> QED
      BY <1>1, <3>1 DEF Definite, T_TRUE, T_FALSE, T_UNKNOWN
  <2> QED
    BY <2>1
<1>4. \A j \in 0 .. k - 1 : j \in Ahead(c) /\ j \notin S
  <2>1. Ahead(c) \subseteq Nat /\ 0 .. k - 1 \subseteq Ahead(c)
    BY <1>2, AheadRange
  <2>2. k \in Nat
    BY <1>2, <2>1
  <2> HIDE DEF k, S
  <2> QED
    BY <1>2, <1>3, <2>1, <2>2
<1>5. \A j \in 0 .. k - 1 : ~(time(At(c, j)) >= b + t) /\ symbols[j] = FV_SYMBOL
  BY <1>4
<1>6. k \in late \/ (k \notin late /\ symbols[k] # FV_SYMBOL)
  BY <1>2, <1>3
<1> QED
  BY <1>1, <1>2, <1>5, <1>6

(* eval_i is undecided only where phi1 is true and phi2 is false.          *)
LEMMA EvalDecides ==
  ASSUME NEW phi1 \in Subformula, NEW phi2 \in Subformula,
         NEW d \in Index, time(d) \in Int
  PROVE  LET v == eval_b(phi1, phi2, d, time(d))
         IN /\ v = FV_SYMBOL => /\ ValueAt(phi1, d) = T_TRUE
                                /\ ValueAt(phi2, d) = T_FALSE
            /\ v = T_TRUE => ValueAt(phi2, d) = T_TRUE
            /\ v = T_FALSE => /\ ValueAt(phi1, d) = T_FALSE
                              /\ ValueAt(phi2, d) = T_FALSE
<1>1. ValueAt(phi1, d) \in Verdict /\ ValueAt(phi2, d) \in Verdict
  BY DEF ValueAt, Subformula
<1>2. eval_b(phi1, phi2, d, time(d)) =
        IF ValueAt(phi2, d) # T_FALSE THEN ValueAt(phi2, d)
        ELSE IF ValueAt(phi1, d) # T_TRUE THEN ValueAt(phi1, d) ELSE FV_SYMBOL
  BY DEF eval_b, ValueAt
<1> QED
  BY <1>1, <1>2 DEF Verdict, T_TRUE, T_FALSE, T_UNKNOWN, FV_SYMBOL

(* A definite verdict of until_less rests on the events of the window: up  *)
(* to some event within the bound phi1 holds and phi2 does not, and there  *)
(* phi2 holds, or neither does, or that event is at t + b or later.        *)
THEOREM UntilRestsOnEvents ==
  ASSUME TypeOK, NEW c \in Index, NEW t \in Int, NEW b \in Nat,
         NEW phi1 \in Subformula, NEW phi2 \in Subformula,
         Definite(until_less(phi1, phi2, b, c, t))
  PROVE  \E k \in Ahead(c) :
           /\ \A j \in 0 .. k - 1 : /\ time(At(c, j)) < b + t
                                    /\ ValueAt(phi1, At(c, j)) = T_TRUE
                                    /\ ValueAt(phi2, At(c, j)) = T_FALSE
           /\ \/ /\ until_less(phi1, phi2, b, c, t) = T_TRUE
                 /\ time(At(c, k)) < b + t
                 /\ ValueAt(phi2, At(c, k)) = T_TRUE
              \/ /\ until_less(phi1, phi2, b, c, t) = T_FALSE
                 /\ time(At(c, k)) >= b + t
              \/ /\ until_less(phi1, phi2, b, c, t) = T_FALSE
                 /\ ValueAt(phi1, At(c, k)) = T_FALSE
                 /\ ValueAt(phi2, At(c, k)) = T_FALSE
<1> DEFINE u(j) == time(At(c, j))
           symbols == [j \in Ahead(c) |-> eval_b(phi1, phi2, At(c, j), u(j))]
           v == UntilFold(symbols, b, c, t)
<1>1. until_less(phi1, phi2, b, c, t) = v
  BY DEF until_less
<1>2. PICK k \in Ahead(c) :
        /\ \A j \in 0 .. k - 1 : ~(u(j) >= b + t) /\ symbols[j] = FV_SYMBOL
        /\ \/ u(k) >= b + t /\ v = T_FALSE
           \/ ~(u(k) >= b + t) /\ symbols[k] # FV_SYMBOL /\ v = symbols[k]
  <2> HIDE DEF symbols
  <2>1. Definite(UntilFold(symbols, b, c, t))
    BY <1>1
  <2> QED
    BY <2>1, FoldStops
<1>3. \A j \in Ahead(c) : At(c, j) \in Index /\ u(j) \in Int
  BY EventTimes
<1>4. ASSUME NEW j \in Ahead(c)
      PROVE  /\ symbols[j] = FV_SYMBOL => /\ ValueAt(phi1, At(c, j)) = T_TRUE
                                         /\ ValueAt(phi2, At(c, j)) = T_FALSE
             /\ symbols[j] = T_TRUE => ValueAt(phi2, At(c, j)) = T_TRUE
             /\ symbols[j] = T_FALSE => /\ ValueAt(phi1, At(c, j)) = T_FALSE
                                       /\ ValueAt(phi2, At(c, j)) = T_FALSE
  <2>1. symbols[j] = eval_b(phi1, phi2, At(c, j), u(j))
    OBVIOUS
  <2> HIDE DEF symbols
  <2> QED
    BY <1>3, <2>1, EvalDecides
<1>5. 0 .. k - 1 \subseteq Ahead(c)
  BY AheadRange
<1>6. v = T_TRUE \/ v = T_FALSE
  BY <1>1 DEF Definite
<1>7. \A j \in Ahead(c) : u(j) \in Int /\ (~(u(j) >= b + t) => u(j) < b + t)
  BY <1>3
<1> HIDE DEF symbols, u, v
<1>8. \A j \in 0 .. k - 1 : /\ u(j) < b + t
                            /\ ValueAt(phi1, At(c, j)) = T_TRUE
                            /\ ValueAt(phi2, At(c, j)) = T_FALSE
  BY <1>2, <1>4, <1>5, <1>7
<1>9. \/ v = T_TRUE /\ u(k) < b + t /\ ValueAt(phi2, At(c, k)) = T_TRUE
      \/ v = T_FALSE /\ u(k) >= b + t
      \/ /\ v = T_FALSE
         /\ ValueAt(phi1, At(c, k)) = T_FALSE
         /\ ValueAt(phi2, At(c, k)) = T_FALSE
  BY <1>2, <1>4, <1>6, <1>7 DEF T_TRUE, T_FALSE
<1> QED
  BY <1>1, <1>8, <1>9 DEF u

(* What the subformulas that always_less and historically_less build say   *)
(* of the event d.                                                         *)
LEMMA NotNegates ==
  ASSUME NEW phi \in Subformula, NEW d \in Index, time(d) \in Int
  PROVE  /\ ValueAt(True, d) = T_TRUE
         /\ ValueAt(Not(phi), d) = T_FALSE => ValueAt(phi, d) = T_TRUE
         /\ ValueAt(Not(phi), d) = T_TRUE => ValueAt(phi, d) = T_FALSE
<1> DEFINE p == <<d, time(d)>>
<1>1. p \in Index \X Int
  OBVIOUS
<1>2. /\ ValueAt(True, d) = True[p] /\ ValueAt(phi, d) = phi[p]
      /\ ValueAt(Not(phi), d) = Not(phi)[p]
  BY DEF ValueAt
<1> HIDE DEF p
<1>3. True[p] = T_TRUE /\ Not(phi)[p] = b3_not(phi[p]) /\ phi[p] \in Verdict
  BY <1>1 DEF True, Not, Subformula
<1> QED
  BY <1>2, <1>3 DEF b3_not, Verdict, T_TRUE, T_FALSE, T_UNKNOWN

(* A definite verdict of always_less rests on events, too: T_TRUE on an    *)
(* event at t + b or later before which phi holds at every event, T_FALSE  *)
(* on an event before t + b at which phi is false.                         *)
THEOREM AlwaysRestsOnEvents ==
  ASSUME TypeOK, NEW c \in Index, NEW t \in Int, NEW b \in Nat,
         NEW phi \in Subformula
  PROVE  /\ always_less(phi, b, c, t) = T_TRUE =>
              \E k \in Ahead(c) :
                /\ time(At(c, k)) >= b + t
                /\ \A j \in 0 .. k - 1 : ValueAt(phi, At(c, j)) = T_TRUE
         /\ always_less(phi, b, c, t) = T_FALSE =>
              \E k \in Ahead(c) : /\ time(At(c, k)) < b + t
                                  /\ ValueAt(phi, At(c, k)) = T_FALSE
<1> DEFINE v == until_less(True, Not(phi), b, c, t)
<1>1. True \in Subformula /\ Not(phi) \in Subformula
  BY DEF Subformula, True, Not, b3_not, Verdict
<1>2. /\ always_less(phi, b, c, t) = T_TRUE => v = T_FALSE
      /\ always_less(phi, b, c, t) = T_FALSE => v = T_TRUE
  <2>1. always_less(phi, b, c, t) = b3_not(v)
    BY DEF always_less
  <2> HIDE DEF v
  <2> QED
    BY <2>1 DEF b3_not, T_TRUE, T_FALSE, T_UNKNOWN
<1>3. ASSUME NEW j \in Ahead(c)
      PROVE  /\ ValueAt(True, At(c, j)) = T_TRUE
             /\ ValueAt(Not(phi), At(c, j)) = T_FALSE
                  => ValueAt(phi, At(c, j)) = T_TRUE
             /\ ValueAt(Not(phi), At(c, j)) = T_TRUE
                  => ValueAt(phi, At(c, j)) = T_FALSE
  BY EventTimes, NotNegates
<1>4. \A k \in Ahead(c) : 0 .. k - 1 \subseteq Ahead(c)
  BY AheadRange
<1>5. ASSUME v = T_FALSE \/ v = T_TRUE
      PROVE  \E k \in Ahead(c) :
               /\ \A j \in 0 .. k - 1 : ValueAt(Not(phi), At(c, j)) = T_FALSE
               /\ \/ /\ v = T_TRUE
                     /\ time(At(c, k)) < b + t
                     /\ ValueAt(Not(phi), At(c, k)) = T_TRUE
                  \/ v = T_FALSE /\ time(At(c, k)) >= b + t
                  \/ v = T_FALSE /\ ValueAt(True, At(c, k)) = T_FALSE
  BY <1>1, <1>5, UntilRestsOnEvents DEF Definite
<1> HIDE DEF v
<1>6. ASSUME v = T_FALSE
      PROVE  \E k \in Ahead(c) :
               /\ time(At(c, k)) >= b + t
               /\ \A j \in 0 .. k - 1 : ValueAt(phi, At(c, j)) = T_TRUE
  BY <1>3, <1>4, <1>5, <1>6 DEF T_TRUE, T_FALSE
<1>7. ASSUME v = T_TRUE
      PROVE  \E k \in Ahead(c) : /\ time(At(c, k)) < b + t
                                 /\ ValueAt(phi, At(c, k)) = T_FALSE
  BY <1>3, <1>5, <1>7 DEF T_TRUE, T_FALSE
<1> QED
  BY <1>2, <1>6, <1>7

-----------------------------------------------------------------------------
(* A past operator visits the events from the cursor back to bottom.       *)
LEMMA BehindRange ==
  ASSUME TypeOK, NEW c \in Index
  PROVE  /\ Behind(c) \subseteq Nat
         /\ Max(Behind(c)) = Length(bottom, c) /\ Max(Behind(c)) \in Behind(c)
         /\ \A k \in Behind(c) : 0 .. k - 1 \subseteq Behind(c)
         /\ \A k \in Behind(c) : Back(c, k) \in Index /\ time(Back(c, k)) \in Int
<1>1. PICK n \in 0 .. N : n = Length(bottom, c)
  BY LengthType, NAssumption DEF TypeOK
<1>2. Behind(c) = 0 .. n
  BY <1>1 DEF Behind
<1>3. Max(0 .. n) = n
  <2>1. n \in 0 .. n /\ \A y \in 0 .. n : n >= y
    OBVIOUS
  <2>2. \A x \in 0 .. n : (\A y \in 0 .. n : x >= y) => x = n
    BY <2>1
  <2> QED
    BY <2>1, <2>2 DEF Max
<1>4. \A k \in 0 .. n : Back(c, k) \in Index
  BY NAssumption DEF Back, Index, size
<1>5. \A i \in Index : time(i) \in Int
  BY SlotTimes, MaxTimeAssumption DEF Time
<1> QED
  BY <1>1, <1>2, <1>3, <1>4, <1>5

(* since_less's loop, which skips an event at t itself, stops at the first *)
(* event that is too old or decides, or at bottom.                         *)
LEMMA SinceStops ==
  ASSUME TypeOK, NEW c \in Index, NEW t \in Int, NEW b \in Nat,
         NEW phi1 \in Subformula, NEW phi2 \in Subformula
  PROVE  LET v == since_less(phi1, phi2, b, c, t)
             u(j) == time(Back(c, j))
             symbol(j) == eval_b(phi1, phi2, Back(c, j), u(j))
             old(j) == u(j) # t /\ t >= b /\ u(j) <= t - b
         IN \E k \in Behind(c) :
              /\ \A j \in 0 .. k - 1 : /\ ~old(j)
                                       /\ u(j) # t => symbol(j) = FV_SYMBOL
              /\ \/ ~old(k) /\ u(k) # t /\ symbol(k) # FV_SYMBOL /\ v = symbol(k)
                 \/ /\ old(k) \/ (/\ k = Length(bottom, c) /\ ~old(k)
                                  /\ u(k) # t => symbol(k) = FV_SYMBOL)
                    /\ v = IF u(k) < t - b THEN T_UNKNOWN ELSE T_FALSE
<1> DEFINE v == since_less(phi1, phi2, b, c, t)
           u(j) == time(Back(c, j))
           symbol(j) == eval_b(phi1, phi2, Back(c, j), u(j))
           old(j) == u(j) # t /\ t >= b /\ u(j) <= t - b
           decided(j) == u(j) # t /\ symbol(j) # FV_SYMBOL
           O == {j \in Behind(c) : old(j)}
           S == O \cup {j \in Behind(c) : decided(j)}
           k == FirstOrLast(S, Behind(c))
<1>1. v = IF k \notin O /\ decided(k) THEN symbol(k)
          ELSE IF u(k) < t - b THEN T_UNKNOWN ELSE T_FALSE
  BY DEF since_less, TooOld
<1>2. /\ k \in Behind(c)
      /\ S # {} => k \in S /\ \A y \in S : k <= y
      /\ S = {} => k = Length(bottom, c)
  BY BehindRange, MinIsLeast DEF FirstOrLast
<1>3. k \in Nat /\ 0 .. k - 1 \subseteq Behind(c)
  BY <1>2, BehindRange
<1>4. \A j \in 0 .. k - 1 : j \in Behind(c) /\ j \notin S
  <2> HIDE DEF k, S
  <2> QED
    BY <1>2, <1>3
<1>5. k \in O <=> old(k)
  BY <1>2
<1>6. \A j \in Behind(c) : j \in S <=> old(j) \/ decided(j)
  OBVIOUS
<1> HIDE DEF k, S, O, v
<1>7. \A j \in 0 .. k - 1 : ~old(j) /\ (u(j) # t => symbol(j) = FV_SYMBOL)
  BY <1>4, <1>6
<1>8. \/ ~old(k) /\ decided(k) /\ v = symbol(k)
      \/ /\ old(k) \/ (k = Length(bottom, c) /\ ~old(k) /\ ~decided(k))
         /\ v = IF u(k) < t - b THEN T_UNKNOWN ELSE T_FALSE
  <2> HIDE DEF old, decided
  <2> QED
    BY <1>1, <1>2, <1>5, <1>6
<1> QED
  BY <1>2, <1>7, <1>8 DEF v

(* What a definite verdict of since_less rests on: back to some event,     *)
(* phi1 holds and phi2 does not at every event that is not at t, and all   *)
(* are within the bound.  T_TRUE: there phi2 holds, within the bound.      *)
(* T_FALSE: there neither holds, or that event is exactly at t - b, or it  *)
(* is the oldest one the reader still has, and not older than t - b.       *)
THEOREM SinceRestsOnEvents ==
  ASSUME TypeOK, NEW c \in Index, NEW t \in Int, NEW b \in Nat,
         NEW phi1 \in Subformula, NEW phi2 \in Subformula,
         Definite(since_less(phi1, phi2, b, c, t))
  PROVE  \E k \in Behind(c) :
           /\ \A j \in 0 .. k - 1 : time(Back(c, j)) # t =>
                /\ t >= b => time(Back(c, j)) > t - b
                /\ ValueAt(phi1, Back(c, j)) = T_TRUE
                /\ ValueAt(phi2, Back(c, j)) = T_FALSE
           /\ \/ /\ since_less(phi1, phi2, b, c, t) = T_TRUE
                 /\ time(Back(c, k)) # t
                 /\ t >= b => time(Back(c, k)) > t - b
                 /\ ValueAt(phi2, Back(c, k)) = T_TRUE
              \/ /\ since_less(phi1, phi2, b, c, t) = T_FALSE
                 /\ ValueAt(phi1, Back(c, k)) = T_FALSE
                 /\ ValueAt(phi2, Back(c, k)) = T_FALSE
              \/ /\ since_less(phi1, phi2, b, c, t) = T_FALSE
                 /\ time(Back(c, k)) = t - b
              \/ /\ since_less(phi1, phi2, b, c, t) = T_FALSE
                 /\ k = Length(bottom, c)
                 /\ time(Back(c, k)) >= t - b
                 /\ time(Back(c, k)) # t => ValueAt(phi2, Back(c, k)) = T_FALSE
<1> DEFINE v == since_less(phi1, phi2, b, c, t)
           u(j) == time(Back(c, j))
           symbol(j) == eval_b(phi1, phi2, Back(c, j), u(j))
           old(j) == u(j) # t /\ t >= b /\ u(j) <= t - b
<1>1. PICK k \in Behind(c) :
        /\ \A j \in 0 .. k - 1 : ~old(j) /\ (u(j) # t => symbol(j) = FV_SYMBOL)
        /\ \/ ~old(k) /\ u(k) # t /\ symbol(k) # FV_SYMBOL /\ v = symbol(k)
           \/ /\ old(k) \/ (/\ k = Length(bottom, c) /\ ~old(k)
                            /\ u(k) # t => symbol(k) = FV_SYMBOL)
              /\ v = IF u(k) < t - b THEN T_UNKNOWN ELSE T_FALSE
  BY SinceStops
<1>2. \A j \in Behind(c) : Back(c, j) \in Index /\ u(j) \in Int
  BY BehindRange
<1>3. ASSUME NEW j \in Behind(c)
      PROVE  /\ symbol(j) = FV_SYMBOL => /\ ValueAt(phi1, Back(c, j)) = T_TRUE
                                         /\ ValueAt(phi2, Back(c, j)) = T_FALSE
             /\ symbol(j) = T_TRUE => ValueAt(phi2, Back(c, j)) = T_TRUE
             /\ symbol(j) = T_FALSE => /\ ValueAt(phi1, Back(c, j)) = T_FALSE
                                       /\ ValueAt(phi2, Back(c, j)) = T_FALSE
  BY <1>2, EvalDecides
<1>4. 0 .. k - 1 \subseteq Behind(c)
  BY BehindRange
<1>5. \A j \in Behind(c) :
        /\ ~old(j) /\ u(j) # t => (t >= b => u(j) > t - b)
        /\ old(j) => u(j) <= t - b
        /\ ~(u(j) < t - b) => u(j) >= t - b
        /\ u(j) <= t - b /\ u(j) >= t - b => u(j) = t - b
  BY <1>2
<1>6. v = T_TRUE \/ v = T_FALSE
  BY DEF Definite
<1> HIDE DEF v, u, symbol, old
<1>7. \A j \in 0 .. k - 1 : u(j) # t =>
        /\ t >= b => u(j) > t - b
        /\ ValueAt(phi1, Back(c, j)) = T_TRUE
        /\ ValueAt(phi2, Back(c, j)) = T_FALSE
  BY <1>1, <1>3, <1>4, <1>5
<1>8. CASE ~old(k) /\ u(k) # t /\ symbol(k) # FV_SYMBOL /\ v = symbol(k)
  BY <1>3, <1>5, <1>6, <1>7, <1>8 DEF u, v
<1>9. ASSUME v = IF u(k) < t - b THEN T_UNKNOWN ELSE T_FALSE
      PROVE  v = T_FALSE /\ u(k) >= t - b
  BY <1>5, <1>6, <1>9 DEF T_TRUE, T_FALSE, T_UNKNOWN
<1>10. CASE old(k) /\ v = IF u(k) < t - b THEN T_UNKNOWN ELSE T_FALSE
  BY <1>5, <1>7, <1>9, <1>10 DEF u, v
<1>11. CASE /\ k = Length(bottom, c)
            /\ u(k) # t => symbol(k) = FV_SYMBOL
            /\ v = IF u(k) < t - b THEN T_UNKNOWN ELSE T_FALSE
  BY <1>3, <1>7, <1>9, <1>11 DEF u, v
<1> QED
  BY <1>1, <1>8, <1>10, <1>11

(* A definite verdict of historically_less rests on events, too: T_FALSE   *)
(* on an event other than at t and within the bound at which phi is false; *)
(* T_TRUE on an event, exactly at t - b or the oldest one the reader still *)
(* has, up to which phi holds at every event that is not at t.             *)
THEOREM HistoricallyRestsOnEvents ==
  ASSUME TypeOK, NEW c \in Index, NEW t \in Int, NEW b \in Nat,
         NEW phi \in Subformula
  PROVE  /\ historically_less(phi, b, c, t) = T_FALSE =>
              \E k \in Behind(c) : /\ time(Back(c, k)) # t
                                   /\ t >= b => time(Back(c, k)) > t - b
                                   /\ ValueAt(phi, Back(c, k)) = T_FALSE
         /\ historically_less(phi, b, c, t) = T_TRUE =>
              \E k \in Behind(c) :
                /\ \A j \in 0 .. k - 1 : time(Back(c, j)) # t =>
                                           ValueAt(phi, Back(c, j)) = T_TRUE
                /\ \/ time(Back(c, k)) = t - b
                   \/ /\ k = Length(bottom, c) /\ time(Back(c, k)) >= t - b
                      /\ time(Back(c, k)) # t =>
                           ValueAt(phi, Back(c, k)) = T_TRUE
<1> DEFINE v == since_less(True, Not(phi), b, c, t)
           u(k) == time(Back(c, k))
<1>1. True \in Subformula /\ Not(phi) \in Subformula
  BY DEF Subformula, True, Not, b3_not, Verdict
<1>2. /\ historically_less(phi, b, c, t) = T_TRUE => v = T_FALSE
      /\ historically_less(phi, b, c, t) = T_FALSE => v = T_TRUE
  <2>1. historically_less(phi, b, c, t) = b3_not(v)
    BY DEF historically_less
  <2> HIDE DEF v
  <2> QED
    BY <2>1 DEF b3_not, T_TRUE, T_FALSE, T_UNKNOWN
<1>3. ASSUME NEW j \in Behind(c)
      PROVE  /\ ValueAt(True, Back(c, j)) = T_TRUE
             /\ ValueAt(Not(phi), Back(c, j)) = T_FALSE
                  => ValueAt(phi, Back(c, j)) = T_TRUE
             /\ ValueAt(Not(phi), Back(c, j)) = T_TRUE
                  => ValueAt(phi, Back(c, j)) = T_FALSE
  BY BehindRange, NotNegates
<1>4. \A k \in Behind(c) : 0 .. k - 1 \subseteq Behind(c)
  BY BehindRange
<1>5. ASSUME v = T_FALSE \/ v = T_TRUE
      PROVE  \E k \in Behind(c) :
               /\ \A j \in 0 .. k - 1 : u(j) # t =>
                    ValueAt(Not(phi), Back(c, j)) = T_FALSE
               /\ \/ /\ v = T_TRUE /\ u(k) # t /\ (t >= b => u(k) > t - b)
                     /\ ValueAt(Not(phi), Back(c, k)) = T_TRUE
                  \/ v = T_FALSE /\ ValueAt(True, Back(c, k)) = T_FALSE
                  \/ v = T_FALSE /\ u(k) = t - b
                  \/ /\ v = T_FALSE /\ k = Length(bottom, c) /\ u(k) >= t - b
                     /\ u(k) # t => ValueAt(Not(phi), Back(c, k)) = T_FALSE
  BY <1>1, <1>5, SinceRestsOnEvents DEF Definite
<1> HIDE DEF v, u
<1>6. ASSUME v = T_FALSE
      PROVE  \E k \in Behind(c) :
               /\ \A j \in 0 .. k - 1 : u(j) # t =>
                                          ValueAt(phi, Back(c, j)) = T_TRUE
               /\ \/ u(k) = t - b
                  \/ /\ k = Length(bottom, c) /\ u(k) >= t - b
                     /\ u(k) # t => ValueAt(phi, Back(c, k)) = T_TRUE
  BY <1>3, <1>4, <1>5, <1>6 DEF T_TRUE, T_FALSE
<1>7. ASSUME v = T_TRUE
      PROVE  \E k \in Behind(c) : /\ u(k) # t
                                  /\ t >= b => u(k) > t - b
                                  /\ ValueAt(phi, Back(c, k)) = T_FALSE
  BY <1>3, <1>5, <1>7 DEF T_TRUE, T_FALSE
<1> QED
  BY <1>2, <1>6, <1>7 DEF u

=============================================================================
