----------------------------- MODULE MonitorJob -----------------------------
(***************************************************************************)
(* A generated monitor: its job synchronises the reader, sets the cursor   *)
(* at tzero and, if that succeeds, evaluates its formula there.  What the  *)
(* verdicts are checked against is the meaning of the formula over log,    *)
(* all the events that were ever pushed.                                   *)
(***************************************************************************)
EXTENDS RMTLD3Formulas, Sequences

CONSTANTS Monitors,  \* the monitors: each a formula and its tzero
          MaxLog     \* bound: this many events are pushed

VARIABLES formula,   \* what _rtm_compute_ evaluates
          tzero, out,
          job,       \* where run() is
          log,       \* history: every event pushed, oldest first
          torn       \* history: was a formula evaluated on lost events?

mvars == <<vars, formula, tzero, out, job, log, torn>>

(* The classes and lambdas that rmtld3synth composes for a formula f, as a *)
(* function of the formula's tree.                                         *)
RECURSIVE Eval(_, _, _)
Eval(f, c, t) ==
  LET Phi(g) == [p \in Index \X Int |-> Eval(g, p[1], p[2])]
  IN CASE f.op = "prop" -> prop(f.p, c, t)
       [] f.op = "true" -> T_TRUE
       [] f.op = "not" -> b3_not(Eval(f.phi1, c, t))
       [] f.op = "or" -> b3_or(Eval(f.phi1, c, t), Eval(f.phi2, c, t))
       [] f.op = "and" -> b3_and(Eval(f.phi1, c, t), Eval(f.phi2, c, t))
       [] f.op = "until" -> until_less(Phi(f.phi1), Phi(f.phi2), f.b, c, t)
       [] f.op = "until_between" ->
            until_less_with_in_between(Phi(f.phi1), Phi(f.phi2), f.b, c, t)
       [] f.op = "eventually_equal" -> eventually_equal(Phi(f.phi1), f.b, c, t)
       [] f.op = "eventually" -> eventually_less_unbounded(Phi(f.phi1), c, t)
       [] f.op = "always" -> always_less(Phi(f.phi1), f.b, c, t)
       [] f.op = "since" -> since_less(Phi(f.phi1), Phi(f.phi2), f.b, c, t)
       [] f.op = "past_equal" -> pasteventually_equal(Phi(f.phi1), f.b, c, t)
       [] f.op = "historically" -> historically_less(Phi(f.phi1), f.b, c, t)
       [] f.op = "less" ->
            b3_lessthan(duration_term(Phi(f.phi1), f.b, c, t), <<f.p, FALSE>>)

MInit ==
  /\ Init
  /\ \E m \in Monitors : formula = m.formula /\ tzero = m.tzero
  /\ out = T_UNKNOWN
  /\ job = "wait"
  /\ log = <<>>
  /\ torn = FALSE

Push ==
  \E d \in Data \ {0}, tick \in Ticks :
    /\ Len(log) < MaxLog
    /\ push(d, tick)
    /\ log' = Append(log, [data |-> d, time |-> clock'])
    /\ UNCHANGED <<formula, tzero, out, job, torn>>

Synchronize ==
  /\ job = "wait"
  /\ synchronize
  /\ job' = "synchronized"
  /\ UNCHANGED <<formula, tzero, out, log, torn>>

Set ==
  /\ job = "synchronized"
  /\ set(tzero)
  /\ job' = "set"
  /\ UNCHANGED <<formula, tzero, out, log, torn>>

Walk == SetStep /\ UNCHANGED <<formula, tzero, out, job, log, torn>>

(* No operator of the past in f.                                           *)
NoPast(f) == f.op \notin {"since", "historically", "past_equal"}

(* The events the evaluation starts from are still those of the window:    *)
(* the one in force at tzero is at the cursor, and none behind it, where   *)
(* the past operators go, was overwritten by a later one.                  *)
Intact ==
  /\ InForce(cursor, Inc(cursor), tzero)
  /\ NoPast(formula) \/ time(bottom) <= tzero

(* Mutant: the result of set() is not looked at.                           *)
MutCompute ==
  /\ job = "set"
  /\ Idle
  /\ job' = "wait"
  /\ out' = Eval(formula, cursor, tzero)
  /\ torn' = (torn \/ (pc = "found" /\ ~Intact))
  /\ UNCHANGED <<vars, formula, tzero, log>>

(* if (trace.set(tzero) == 0) _out = _rtm_compute_(trace, tzero): on the   *)
(* slots as they are now, whatever was pushed since set() returned.        *)
Compute ==
  /\ job = "set"
  /\ Idle
  /\ job' = "wait"
  /\ out' = IF pc = "found" THEN Eval(formula, cursor, tzero) ELSE out
  /\ torn' = (torn \/ (pc = "found" /\ ~Intact))
  /\ UNCHANGED <<vars, formula, tzero, log>>

MNext == Push \/ Synchronize \/ Set \/ Walk \/ Compute

MSpec == MInit /\ [][MNext]_mvars

-----------------------------------------------------------------------------
(* What formulas mean at every time, given everything pushed so far.  An   *)
(* event tells what holds until the next one; before the first event and   *)
(* from the last one on nothing is known.                                  *)
Events == 1 .. Len(log)
InForceAt(t) == {i \in 1 .. Len(log) - 1 : log[i].time <= t /\ t < log[i + 1].time}

(* The times a bounded operator speaks of: [t, t + b) or (t - b, t).       *)
Moments(f, t) == IF NoPast(f) THEN t .. t + f.b - 1 ELSE t - f.b + 1 .. t - 1

(* Strong Kleene truth: known to be true, known to be false, or neither.   *)
Kleene(isTrue, isFalse) ==
  IF isTrue THEN T_TRUE ELSE IF isFalse THEN T_FALSE ELSE T_UNKNOWN

(* phi1 until, or since, phi2, given their verdicts v1 and v2 at the       *)
(* moments M; Nearer(s, u) says that s is on the way to u.                 *)
Until(M, v1, v2, Nearer(_, _)) ==
  Kleene(\E u \in M : v2[u] = T_TRUE /\ \A s \in M : Nearer(s, u) => v1[s] = T_TRUE,
         \A u \in M : \/ v2[u] = T_FALSE
                       \/ \E s \in M : Nearer(s, u) /\ v1[s] = T_FALSE)

RECURSIVE Means(_, _)
Means(f, t) ==
  LET M == Moments(f, t)
      At1 == [u \in M |-> Means(f.phi1, u)]
      At2 == [u \in M |-> Means(f.phi2, u)]
      Before(s, u) == s < u
      After(s, u) == s > u
  IN CASE f.op = "prop" ->
            Kleene(\E i \in InForceAt(t) : log[i].data = f.p,
                   \E i \in InForceAt(t) : log[i].data # f.p)
       [] f.op = "true" -> T_TRUE
       [] f.op = "not" -> b3_not(Means(f.phi1, t))
       [] f.op = "or" -> b3_or(Means(f.phi1, t), Means(f.phi2, t))
       [] f.op = "and" -> b3_and(Means(f.phi1, t), Means(f.phi2, t))
       [] f.op \in {"until", "until_between"} -> Until(M, At1, At2, Before)
       [] f.op = "since" -> Until(M, At1, At2, After)
       [] f.op \in {"always", "historically"} ->
            Kleene(\A u \in M : At1[u] = T_TRUE, \E u \in M : At1[u] = T_FALSE)
       [] f.op = "eventually" ->
            Kleene(\E u \in t .. MaxTime : Means(f.phi1, u) = T_TRUE, FALSE)
       [] f.op = "eventually_equal" -> Means(f.phi1, t + f.b)
       [] f.op = "past_equal" -> Means(f.phi1, t - f.b)
       [] f.op = "less" ->
            LET len(v) == Cardinality({u \in M : At1[u] = v})
            IN Kleene(len(T_TRUE) + len(T_UNKNOWN) < f.p, len(T_TRUE) >= f.p)

-----------------------------------------------------------------------------
(* No operator of time in f.                                               *)
RECURSIVE Now(_)
Now(f) == \/ f.op \in {"prop", "true"}
          \/ f.op \in {"not", "or", "and"} /\ Now(f.phi1) /\ Now(f.phi2)

(* The verdicts on f that rest on events the job has seen.  Over           *)
(* propositions, which change only with events, those of the operators     *)
(* that look ahead do.  An operator over other operators evaluates them at *)
(* the times of events only, and a past one takes the lack of events for   *)
(* an answer: of these only the verdicts that one event is enough for.     *)
RECURSIVE Claims(_)
Claims(f) ==
  CASE f.op \in {"prop", "true"} -> {T_TRUE, T_FALSE}
    [] f.op = "not" -> {b3_not(v) : v \in Claims(f.phi1)}
    [] f.op \in {"or", "and"} -> Claims(f.phi1) \cap Claims(f.phi2)
    [] f.op = "until" /\ Now(f.phi1) /\ ~Now(f.phi2) -> Claims(f.phi2) \cap {T_TRUE}
    [] f.op = "past_equal" -> {}
    [] OTHER -> IF ~Now(f.phi1) \/ ~Now(f.phi2) THEN {}
                ELSE IF f.op = "since" THEN {T_TRUE}
                ELSE IF f.op = "historically" THEN {T_FALSE}
                ELSE {T_TRUE, T_FALSE}

(* A duration is counted on to the last event if none lies between t and   *)
(* t + b.                                                                  *)
Counted ==
  formula.op = "less" =>
    \E i \in Events : tzero < log[i].time /\ log[i].time <= tzero + formula.b

Computes == Compute /\ pc = "found" /\ Intact /\ Counted

(* A verdict that rests on events is right of everything that was ever     *)
(* pushed: that the window has lost its oldest events, that the ring has   *)
(* wrapped, that slots are overwritten while the job runs, or that events  *)
(* share a time may leave a formula undecided, but never decides it        *)
(* wrongly, unless the event set() found is overwritten before the         *)
(* evaluation.                                                             *)
Sound ==
  [][Computes /\ out' \in Claims(formula) => out' = Means(formula, tzero)]_mvars

(* The operators that look ahead decide as soon as what was pushed decides *)
(* the formula, if the job ran undisturbed and no two events share a time. *)
Exact ==
  [][/\ Computes
     /\ top = buftop
     /\ Claims(formula) = {T_TRUE, T_FALSE}
     /\ formula.op \notin {"less", "until_between"}
     /\ \A i, j \in Events : log[i].time = log[j].time => i = j
     => out' = Means(formula, tzero)]_mvars

(* A verdict about the future, once definite, stays: no later job takes it *)
(* back, whatever is pushed and overwritten in between, as long as no job  *)
(* evaluates the formula on overwritten slots.                             *)
Final ==
  [][NoPast(formula) /\ Counted /\ ~torn' /\ Definite(out) => out' = out]_mvars

=============================================================================
