--------------------------- MODULE RMTLD3Formulas ---------------------------
(***************************************************************************)
(* The operators of RMTLD3 over what an RMTLD3_reader sees.  A subformula  *)
(* is a function phi from a cursor and a time to its verdict: every        *)
(* operator restores the cursor around each evaluation and before it       *)
(* returns, so a verdict depends on nothing else.                          *)
(*                                                                         *)
(* A loop that pulls until its condition holds is described by the number  *)
(* of pulls after which it stops.                                          *)
(***************************************************************************)
EXTENDS RMTLD3Reader

(* three_valued_type, and the fourth value of four_valued_type.  b3_to_b4  *)
(* and b4_to_b3 take T_TRUE to FV_TRUE and so on.                          *)
T_TRUE == "true"
T_FALSE == "false"
T_UNKNOWN == "unknown"
FV_SYMBOL == "symbol"
Verdict == {T_TRUE, T_FALSE, T_UNKNOWN}
Definite(v) == v \in {T_TRUE, T_FALSE}

b3_not(v) ==
  IF v = T_TRUE THEN T_FALSE ELSE IF v = T_FALSE THEN T_TRUE ELSE T_UNKNOWN

b3_or(v, w) ==
  IF T_TRUE \in {v, w} THEN T_TRUE
  ELSE IF {v, w} = {T_FALSE} THEN T_FALSE ELSE T_UNKNOWN

b3_and(v, w) ==
  IF {v, w} = {T_TRUE} THEN T_TRUE
  ELSE IF T_FALSE \in {v, w} THEN T_FALSE ELSE T_UNKNOWN

(* A duration is <<length, is it unknown?>>.                               *)
b3_lessthan(d, e) ==
  IF d[2] \/ e[2] THEN T_UNKNOWN ELSE IF d[1] < e[1] THEN T_TRUE ELSE T_FALSE

-----------------------------------------------------------------------------
(* The slot after k pulls from c, and the numbers of pulls after which a   *)
(* do-while loop is in its body: pull() is AVAILABLE if it leaves an event *)
(* to read.                                                                *)
At(c, k) == Slot(c, k + 1)
Ahead(c) == IF length(c) = 0 THEN {0} ELSE 0 .. length(c) - 1

(* The same for decrement_cursor(), with the slot Back(c, k).              *)
Behind(c) == 0 .. Length(bottom, c)

(* The first of the numbers in S, or the last of all.                      *)
FirstOrLast(S, all) == IF S = {} THEN Max(all) ELSE Min(S)

(* What a subformula may be, and its verdict at the time of the event d.   *)
Subformula == [Index \X Int -> Verdict]
ValueAt(phi, d) == phi[<<d, time(d)>>]

(* prop(): an event tells what holds until the next one.                   *)
prop(p, c, t) ==
  IF HasNext(c) /\ InForce(c, Inc(c), t)
  THEN IF array[c].data = p THEN T_TRUE ELSE T_FALSE
  ELSE T_UNKNOWN

(* eval_i of eval_b: does the event at c decide phi1 U phi2 (or S)?        *)
eval_b(phi1, phi2, c, t) ==
  IF phi2[<<c, t>>] # T_FALSE THEN phi2[<<c, t>>]
  ELSE IF phi1[<<c, t>>] # T_TRUE THEN phi1[<<c, t>>] ELSE FV_SYMBOL

(* Mutant: the event at t + b still counts.                                *)
MutUntilFold(symbols, b, c, t) ==
  LET late == {k \in Ahead(c) : time(At(c, k)) > b + t}
      k == FirstOrLast(late \cup {j \in Ahead(c) : symbols[j] # FV_SYMBOL},
                       Ahead(c))
  IN IF k \in late THEN T_FALSE
     ELSE IF symbols[k] # FV_SYMBOL THEN symbols[k] ELSE T_UNKNOWN

(* eval_fold and the return of until_less: symbols[k] is what is known     *)
(* after the body's evaluations at the k-th event.                         *)
UntilFold(symbols, b, c, t) ==
  LET late == {k \in Ahead(c) : time(At(c, k)) >= b + t}
      k == FirstOrLast(late \cup {j \in Ahead(c) : symbols[j] # FV_SYMBOL},
                       Ahead(c))
  IN IF k \in late THEN T_FALSE
     ELSE IF symbols[k] # FV_SYMBOL THEN symbols[k] ELSE T_UNKNOWN

until_less(phi1, phi2, b, c, t) ==
  UntilFold([k \in Ahead(c) |-> eval_b(phi1, phi2, At(c, k), time(At(c, k)))],
            b, c, t)

(* The in-between check at the event c: after its own time, the times t3   *)
(* that lie as far after it as later events lie after its successor, as    *)
(* long as they are not later than those events.  set(t3) walks back and   *)
(* stops after the event in force, hence the decrement_cursor().           *)
InBetween(phi1, phi2, c) ==
  LET t3(q) == time(c) + time(At(c, q + 1)) - time(At(c, 1))
      points == {q \in 1 .. length(c) : \A j \in 1 .. q :
                    length(At(c, j)) > 1 /\ t3(j) < time(At(c, j))}
      value(q) ==
        eval_b(phi1, phi2, Decremented(Placed(At(c, q), t3(q))), t3(q))
      decided == {q \in points : value(q) # FV_SYMBOL}
      own == eval_b(phi1, phi2, c, time(c))
  IN IF own # FV_SYMBOL \/ decided = {} THEN own ELSE value(Min(decided))

until_less_with_in_between(phi1, phi2, b, c, t) ==
  UntilFold([k \in Ahead(c) |-> InBetween(phi1, phi2, At(c, k))], b, c, t)

(* Mutant: an event at t + b is already too late.                          *)
MutEventuallyEqual(phi, b, c, t) ==
  LET late == {k \in Ahead(c) : time(At(c, k)) >= b + t}
      k == IF late = {} THEN Max(Ahead(c)) ELSE Min(late) - 1
  IN IF k < 0 THEN T_UNKNOWN ELSE ValueAt(phi, At(c, k))

(* eventually_equal: the verdict at the last event not after t + b.        *)
eventually_equal(phi, b, c, t) ==
  LET late == {k \in Ahead(c) : time(At(c, k)) > b + t}
      k == IF late = {} THEN Max(Ahead(c)) ELSE Min(late) - 1
  IN IF k < 0 THEN T_UNKNOWN ELSE ValueAt(phi, At(c, k))

always_equal(phi, b, c, t) == eventually_equal(phi, b, c, t)

(* eventually_less_unbounded: the first verdict that is not T_FALSE.       *)
eventually_less_unbounded(phi, c, t) ==
  LET value(k) == ValueAt(phi, At(c, k))
  IN value(FirstOrLast({k \in Ahead(c) : value(k) # T_FALSE}, Ahead(c)))

(* The two subformulas always_less and historically_less give to until and *)
(* since.                                                                  *)
True == [p \in Index \X Int |-> T_TRUE]
Not(phi) == [p \in Index \X Int |-> b3_not(phi[p])]

always_less(phi, b, c, t) == b3_not(until_less(True, Not(phi), b, c, t))

-----------------------------------------------------------------------------
(* The events a past operator evaluates: strictly before t, and later than *)
(* t - b (unless t < b, when all are).                                     *)
TooOld(c, b, t) ==
  {k \in Behind(c) : time(Back(c, k)) # t /\ t >= b /\ time(Back(c, k)) <= t - b}

since_less(phi1, phi2, b, c, t) ==
  LET symbol(k) == eval_b(phi1, phi2, Back(c, k), time(Back(c, k)))
      old == TooOld(c, b, t)
      k == FirstOrLast(old \cup {j \in Behind(c) : /\ time(Back(c, j)) # t
                                                   /\ symbol(j) # FV_SYMBOL},
                       Behind(c))
      c_time == time(Back(c, k))
  IN IF k \notin old /\ c_time # t /\ symbol(k) # FV_SYMBOL THEN symbol(k)
     ELSE IF c_time < t - b THEN T_UNKNOWN ELSE T_FALSE

(* pasteventually_equal: the verdict at the first event after t - b.       *)
pasteventually_equal(phi, b, c, t) ==
  LET old == TooOld(c, b, t)
      seen == {k \in Behind(c) : /\ time(Back(c, k)) # t
                                 /\ \A j \in old : k < j}
      k == Max(seen)
  IN IF seen = {} THEN T_UNKNOWN ELSE ValueAt(phi, Back(c, k))

historically_equal(phi, b, c, t) == pasteventually_equal(phi, b, c, t)

historically_less(phi, b, c, t) == b3_not(since_less(True, Not(phi), b, c, t))

-----------------------------------------------------------------------------
(* duration_term: how long phi holds from t to t + u.  The k-th pull adds  *)
(* the time from event k - 1 to event k, cut at t and t + u; an event that *)
(* has t in force starts the sum anew.                                     *)
duration_term(phi, u, c, t) ==
  LET prev(k) == At(c, k - 1)
      cur(k) == At(c, k)
      pulls == 1 .. Max(Ahead(c))
      lower == {k \in pulls : InForce(prev(k), cur(k), t)}
      upper == {k \in pulls \ lower : InForce(prev(k), cur(k), t + u)}
      last == IF upper = {} THEN Max(Ahead(c)) ELSE Min(upper)
      first == Max({1} \cup {k \in lower : k <= last})
      holds(k) == ValueAt(phi, prev(k))
      part(k) == IF k \in lower THEN time(cur(k)) - t
                 ELSE IF k \in upper THEN t + u - time(prev(k))
                 ELSE time(cur(k)) - time(prev(k))
  IN <<MapThenSumSet(LAMBDA k : IF holds(k) = T_TRUE THEN part(k) ELSE 0,
                     first .. last),
       \/ \E k \in first .. last : holds(k) = T_UNKNOWN
       \/ time(At(c, last)) <= t + u>>

=============================================================================
