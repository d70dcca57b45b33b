------------------------------- MODULE PartsMC -------------------------------
(* The sequential parts, which share no state: a behaviour exercises one of   *)
(* them, chosen at the start, and leaves the others in their first state.     *)
EXTENDS LoadModelPathMC, TraceMC, TmpTick, CStrings, OmcMain, Blas, OmcBuildMC

VARIABLE active     \* the part exercised

partVars == <<searchVars, traceVars, tickVars, strVars, mainVars, blasVars, buildVars>>

MCIndices == -1 .. 2
MCReserves == {0, 2}

MCStrings == UNION {[1 .. n -> {"a", "b"}] : n \in 0 .. 5}
MCSeps == UNION {[1 .. n -> {"a", "b"}] : n \in 0 .. 2}
MCTos == {<<>>, <<"m">>, <<"a", "m", "a", "a">>}

MCRoutines == {"dcopy", "ddot", "daxpy", "dscal", "dnrm2"}
MCStrides == -2 .. 2
MCVectors == {[i \in 0 .. Extent |-> i + 1], [i \in 0 .. Extent |-> (i % 2) * (2 - i)]}

PartsInit ==
    /\ active \in {"search", "trace", "tick", "strings", "main", "blas", "build"}
    /\ SearchInit /\ TraceInit /\ TickInit /\ StrInit /\ MainInit /\ BlasInit /\ BuildInit

Search ==
    active = "search" /\ SearchNext
    /\ UNCHANGED <<traceVars, tickVars, strVars, mainVars, blasVars, buildVars>>
Plotting ==
    active = "trace" /\ TraceNext
    /\ UNCHANGED <<searchVars, tickVars, strVars, mainVars, blasVars, buildVars>>
Ticking ==
    active = "tick" /\ TickNext
    /\ UNCHANGED <<searchVars, traceVars, strVars, mainVars, blasVars, buildVars>>
Calling ==
    active = "strings" /\ CallString
    /\ UNCHANGED <<searchVars, traceVars, tickVars, mainVars, blasVars, buildVars>>
Looping ==
    active = "strings" /\ Turn
    /\ UNCHANGED <<searchVars, traceVars, tickVars, mainVars, blasVars, buildVars>>
Main ==
    active = "main" /\ MainNext
    /\ UNCHANGED <<searchVars, traceVars, tickVars, strVars, blasVars, buildVars>>
Vectorial ==
    active = "blas" /\ BlasNext
    /\ UNCHANGED <<searchVars, traceVars, tickVars, strVars, mainVars, buildVars>>
Building ==
    active = "build" /\ BuildNext
    /\ UNCHANGED <<searchVars, traceVars, tickVars, strVars, mainVars, blasVars>>

PartsNext ==
    /\ Search \/ Plotting \/ Ticking \/ Calling \/ Looping \/ Main \/ Vectorial \/ Building
    /\ UNCHANGED active

PartsSpec == PartsInit /\ [][PartsNext]_<<active, partVars>> /\ WF_partVars(Looping)

\* Every part keeps to its types.
PartsTypeOK ==
    /\ SearchTypeOK /\ TraceTypeOK /\ TickTypeOK /\ StrTypeOK
    /\ MainTypeOK /\ BlasTypeOK /\ BuildTypeOK
=============================================================================
