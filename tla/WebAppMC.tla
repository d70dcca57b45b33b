------------------------------ MODULE WebAppMC ------------------------------
(* Two sources of two models, and two calls in flight. *)
EXTENDS WebApp, TLC

CONSTANTS c1, c2, ball, motor, Ball, Motor

MCCalls   == {c1, c2}
MCSources == {ball, motor}
MCNames   == {Ball, Motor}
MCModelOf == (ball :> Ball) @@ (motor :> Motor)
=============================================================================
