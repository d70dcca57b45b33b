------------------------- MODULE CompositionProofs -------------------------
(***************************************************************************)
(* A behaviour of PartsMC, which exercises one of the parts, is a          *)
(* behaviour of each of them, so what is proved of every part holds of     *)
(* their composition.                                                      *)
(***************************************************************************)
EXTENDS PartsMC, PartProofs, ShimProofs, TraceProofs

\* A step of the composition is a step of one part, and the others stand still.
LEMMA StepOfEach ==
    ASSUME [PartsNext]_<<active, partVars>>
    PROVE  /\ [SearchNext]_searchVars /\ [TraceNext]_traceVars /\ [TickNext]_tickVars
           /\ [StrNext]_strVars /\ [MainNext]_mainVars /\ [BlasNext]_blasVars
           /\ [BuildNext]_buildVars
<1>1. CASE Search
  BY <1>1 DEF Search
<1>2. CASE Plotting
  BY <1>2 DEF Plotting
<1>3. CASE Ticking
  BY <1>3 DEF Ticking
<1>4. CASE Calling \/ Looping
  BY <1>4 DEF Calling, Looping, StrNext
<1>5. CASE Main
  BY <1>5 DEF Main
<1>6. CASE Vectorial
  BY <1>6 DEF Vectorial
<1>7. CASE Building
  BY <1>7 DEF Building
<1>8. CASE UNCHANGED <<active, partVars>>
  BY <1>8 DEF partVars
<1> QED BY <1>1, <1>2, <1>3, <1>4, <1>5, <1>6, <1>7, <1>8 DEF PartsNext

\* Fairness apart, a behaviour of the composition is one of every part.
THEOREM EveryPartIsKept ==
    PartsSpec => /\ SearchSpec /\ TraceSpec /\ TickSpec /\ MainSpec /\ BlasSpec /\ BuildSpec
                 /\ StrInit /\ [][StrNext]_strVars
<1>1. PartsInit => /\ SearchInit /\ TraceInit /\ TickInit /\ StrInit
                   /\ MainInit /\ BlasInit /\ BuildInit
  BY DEF PartsInit
<1> QED BY <1>1, StepOfEach, PTL
        DEF PartsSpec, SearchSpec, TraceSpec, TickSpec, MainSpec, BlasSpec, BuildSpec

\* PartsTypeOK: every part keeps to its types, whichever is exercised.
THEOREM PartsTypeCorrect == PartsSpec => []PartsTypeOK
<1>1. StrInit /\ [][StrNext]_strVars => []StrTypeOK
  <2>1. StrInv => StrTypeOK
    BY DEF StrInv
  <2> QED BY <2>1, StrInitially, StrInductive, PTL
<1>2. SearchTypeOK /\ TraceTypeOK /\ TickTypeOK /\ StrTypeOK
        /\ MainTypeOK /\ BlasTypeOK /\ BuildTypeOK => PartsTypeOK
  BY DEF PartsTypeOK
<1> QED BY <1>1, <1>2, EveryPartIsKept, SearchTypeCorrect, TraceTypeCorrect, TickTypeCorrect,
           MainTypeCorrect, BlasTypeCorrect, BuildTypeCorrect, PTL
=============================================================================
