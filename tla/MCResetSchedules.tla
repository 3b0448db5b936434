-------------------------- MODULE MCResetSchedules --------------------------
(* A miniature calendar: resets every few instants, at an offset that      *)
(* depends on the schedule. Two schedules share the daily reset and differ *)
(* in the weekly one, so that an edit pins some periods and not others.    *)
EXTENDS ResetSchedules, TLC

CONSTANTS s1, s2

Symmetry == Permutations(Keys)

MCInstants == 0 .. 6

Length == [daily |-> 3, weekly |-> 5]
MCPeriods == DOMAIN Length

Offset(s) ==
  CASE s = Unset -> [daily |-> 0, weekly |-> 0]
    [] s = s1    -> [daily |-> 0, weekly |-> 2]
    [] s = s2    -> [daily |-> 2, weekly |-> 3]

Boundary(s, p, t) ==
  Offset(s)[p] + Length[p] * ((t - Offset(s)[p]) \div Length[p])

MCStartOf ==
  [s \in {Unset, s1, s2} |-> [p \in MCPeriods |-> [t \in MCInstants |-> Boundary(s, p, t)]]]
MCResetOf ==
  [s \in {Unset, s1, s2} |->
     [p \in MCPeriods |-> [t \in MCInstants |-> Boundary(s, p, t) + Length[p]]]]
=============================================================================
