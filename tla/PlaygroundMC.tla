---------------------------- MODULE PlaygroundMC ----------------------------
(* Two runs and two sources, one of which uses the library; and three runs   *)
(* with a third source, which declares the class of the first but uses the   *)
(* library.                                                                  *)
EXTENDS Playground, TLC

CONSTANTS r1, r2, r3, ball, ballMSL, motor, Ball, Motor

MCNames   == {Ball, Motor}

MCRuns    == {r1, r2}
MCSources == {ball, motor}
MCModelOf == (ball :> Ball) @@ (motor :> Motor)
MCUsesMSL == {motor}

MCRuns3    == {r1, r2, r3}
MCSources3 == {ball, ballMSL, motor}
MCModelOf3 == (ball :> Ball) @@ (ballMSL :> Ball) @@ (motor :> Motor)
MCUsesMSL3 == {ballMSL, motor}
Symmetry3  == Permutations(MCRuns3)
=============================================================================
