---------------------------- MODULE MCMonitorJob ----------------------------
(***************************************************************************)
(* The formulas the job is checked with: each operator over propositions,  *)
(* the monitors and nestings of the tests with smaller bounds.             *)
(***************************************************************************)
EXTENDS MonitorJob

T == [op |-> "true"]
a == [op |-> "prop", p |-> 1]
b == [op |-> "prop", p |-> 2]
Op(name, f, g, n) == [op |-> name, phi1 |-> f, phi2 |-> g, b |-> n]
Neg(f) == Op("not", f, T, 0)
Or(f, g) == Op("or", f, g, 0)
Less(n, p) == [op |-> "less", phi1 |-> a, phi2 |-> T, b |-> n, p |-> p]

Future ==
  { \* tests/custom-rtm-monitor/Rtm_compute_6ea3.h
    Or(Op("until", a, b, 3), Neg(Or(Neg(a), Neg(Neg(a))))),
    \* tests/rtmlib_rmtld3_nested_until.cpp
    Neg(Op("until", T, Op("until", T, Neg(a), 2), 3)),
    \* tests/rtmlib_rmtld3_always_less.cpp and its like
    Op("always", Op("and", a, Neg(b), 0), T, 2),
    Op("eventually", a, T, 0),
    Op("eventually_equal", a, T, 2),
    Op("until_between", a, b, 3),
    Less(1, 1), Less(3, 2) }

Past == { Op("since", a, b, 3), Op("historically", a, T, 3) }

(* Time 2 leaves room for a bound ahead; for a bound of 3 back, time 2 is  *)
(* before it and time 4 after it.                                          *)
MCMonitors ==
  {[formula |-> f, tzero |-> 2] : f \in Future \cup Past}
    \cup {[formula |-> f, tzero |-> 4] : f \in Past}

=============================================================================
