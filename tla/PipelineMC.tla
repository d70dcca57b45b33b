----------------------------- MODULE PipelineMC -----------------------------
(* Three sources, two of which declare the same class; one of those two and  *)
(* the third use the library.                                                *)
EXTENDS Pipeline, TLC

CONSTANTS r1, r2, ball, ballMSL, motor, Ball, Motor

MCRuns    == {r1, r2}
MCSources == {ball, ballMSL, motor}
MCNames   == {Ball, Motor}
MCModelOf == (ball :> Ball) @@ (ballMSL :> Ball) @@ (motor :> Motor)
MCUsesMSL == {ballMSL, motor}
=============================================================================
