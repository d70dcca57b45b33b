------------------------------- MODULE TraceMC -------------------------------
(* Results of a few points of time: a time axis, a derivative of any course   *)
(* over Levels, another of that course backwards, a variable and a constant.  *)
(* As at an event of the simulation, two points may have one time.            *)
EXTENDS Trace

CONSTANTS Levels, Points

TimeAxis(n) == [s \in 1 .. n |-> IF s = 3 THEN 1 ELSE s - 1]

MCResults ==
    UNION {{ << [name |-> Time, data |-> TimeAxis(n)],
                [name |-> "x", data |-> [s \in 1 .. n |-> 2 - s]],
                [name |-> "der(x)", data |-> d],
                [name |-> "der(y)", data |-> [s \in 1 .. n |-> d[n + 1 - s]]],
                [name |-> "p", data |-> [s \in 1 .. n |-> 4]] >> : d \in [1 .. n -> Levels] } :
           n \in Points}
MCLevels == {-2, -1, 0, 1}
=============================================================================
