--------------------------- MODULE LoadModelPathMC ---------------------------
(* Directories with at most PerDir each of "Modelica", "Modelica 3.2.10",     *)
(* "Modelica 10", "Modelica.mo", "ModelicaServices", "Modelica 4.0.0" without *)
(* a package.mo, and another class.  A bare name counts as the oldest.        *)
EXTENDS LoadModelPath, FiniteSets

CONSTANT PerDir     \* bound: entries in a directory

E(sep, version, length, dir, file) ==
    [class |-> TRUE, sep |-> sep, version |-> version, length |-> length,
     packageMo |-> dir, moFile |-> file]

MCEntries ==
    { E("end",   0,  8, TRUE,  FALSE), E("space", 2, 15, TRUE,  FALSE),
      E("space", 5, 11, TRUE,  FALSE), E("dot",   0, 11, FALSE, TRUE),
      E("other", 0, 16, TRUE,  FALSE), E("space", 4, 14, FALSE, FALSE),
      [E("end", 0, 7, TRUE, FALSE) EXCEPT !.class = FALSE] }

MCLayouts == [1 .. Dirs -> {S \in SUBSET MCEntries : Cardinality(S) <= PerDir}]

\* One directory holding the two releases that the version order is about.
MCReleases == {[i \in 1 .. Dirs |-> {E("space", 2, 15, TRUE, FALSE),
                                     E("space", 3, 14, TRUE, FALSE)}]}
=============================================================================
