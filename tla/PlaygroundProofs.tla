-------------------------- MODULE PlaygroundProofs --------------------------
(***************************************************************************)
(* Proofs about Playground: what the pipeline promises survives the page,  *)
(* and the disabled button keeps runs apart.                               *)
(***************************************************************************)
EXTENDS Playground, PipelineProofs, FiniteSetTheorems

USE DEF PCs, OmcPCs, EmPCs, EndPCs, PostOmc

-----------------------------------------------------------------------------
(* The page only adds to the pipeline's steps.                             *)

EditorOK == editor \in Sources

LEMMA EditorStep == EditorOK /\ [PlayNext]_allVars => EditorOK'
BY DEF EditorOK, PlayNext, allVars, uiVars, OmcReady, Reset, Edit, PickExample, Run,
       HookStep, StageHooks, LastHooks, Finish

LEMMA PageStep == EditorOK /\ [PlayNext]_allVars => [Next]_vars
<1> SUFFICES ASSUME EditorOK, [PlayNext]_allVars PROVE [Next]_vars
  OBVIOUS
<1>1. CASE OmcReady \/ Reset \/ \E s \in Sources : Edit(s) \/ PickExample(s)
  BY <1>1 DEF OmcReady, Reset, Edit, PickExample
<1>2. ASSUME NEW r \in Runs, Run(r) PROVE Next
  BY <1>2 DEF Run, Next, EditorOK
<1>3. ASSUME NEW r \in Runs, HookStep(r) PROVE Next
  BY <1>3 DEF HookStep, Next, Step
<1>4. ASSUME NEW r \in Runs, SimResult(r) \/ SimFails(r) PROVE Next
  BY <1>4 DEF Next
<1>5. ASSUME NEW r \in Runs, Finish(r) PROVE UNCHANGED vars
  BY <1>5 DEF Finish
<1>6. CASE MslSettles \/ EmSettles
  BY <1>6 DEF Next
<1>7. CASE UNCHANGED allVars
  BY <1>7 DEF allVars
<1>8. QED
  BY <1>1, <1>2, <1>3, <1>4, <1>5, <1>6, <1>7 DEF PlayNext

\* The page composed with the pipeline behaves as the pipeline does, so that everything
\* proved of the pipeline for any callers holds for the page as its caller.
THEOREM PageImplementsPipeline == PlaySpec => Spec
<1>1. PlayInit => Init /\ EditorOK
  BY DEF PlayInit, EditorOK
<1> QED BY <1>1, EditorStep, PageStep, PTL DEF PlaySpec, Spec

LEMMA PageKeepsIInv == PlaySpec => [](IInv /\ EditorOK)
<1>1. PlayInit => IInv /\ EditorOK
  BY InitIInv DEF PlayInit, EditorOK
<1>2. IInv /\ [Next]_vars => IInv'
  BY TypeStep, GenerationStep, SoloStep DEF IInv
<1>3. IInv /\ EditorOK /\ [PlayNext]_allVars => (IInv /\ EditorOK)'
  BY <1>2, EditorStep, PageStep
<1>4. QED
  BY <1>1, <1>3, PTL DEF PlaySpec

-----------------------------------------------------------------------------
(* What is plotted.                                                        *)

\* A plotted trace is that of a call that has returned.
PlottedReturned == trace # None => trace \in Runs /\ pc[trace] = "returned"

\* A call that has returned stays so.
LEMMA ReturnedStays ==
    ASSUME TInv, [Next]_vars, NEW q \in Runs, pc[q] = "returned"
    PROVE  pc'[q] = "returned"
BY DEF Next, Step, vars, Start, CallMain, MslSettles, EmSettles, ResumeOMC, MslRejected,
       GenerateC, ZipDone, EmReady, EmRejected, StageAsset, WriteFile, CompileTU,
       AfterCompile, Link, ReadWasm, ReadJs, AwaitRejects, SimResult, SimFails, Goto,
       TInv, TypeOK

LEMMA PlottedStep ==
    ASSUME IInv, EditorOK, PlottedReturned, [PlayNext]_allVars PROVE PlottedReturned'
<1>1. TInv /\ [Next]_vars
  BY PageStep DEF IInv
<1>2. CASE trace' \in {trace, None}
  BY <1>1, <1>2, ReturnedStays DEF PlottedReturned
<1>3. ASSUME NEW r \in Runs, SimResult(r), LastHooks(r) PROVE PlottedReturned'
  <2>1. pc'[r] = "returned"
    BY <1>1, <1>3 DEF SimResult, Goto, TInv, TypeOK
  <2>2. trace' \in {r, trace}
    BY <1>3 DEF LastHooks
  <2>3. QED
    BY <1>2, <2>1, <2>2 DEF PlottedReturned
<1>4. QED
  BY <1>2, <1>3 DEF PlayNext, allVars, uiVars, resultVars, OmcReady, Reset, Edit,
     PickExample, ClearResults, Run, HookStep, StageHooks, Finish

\* PlottedOwnSource: whatever the user does, a plotted trace is of the source of its own
\* run unless that run overlapped another.
THEOREM PlottedCorrect == PlaySpec => []PlottedOwnSource
<1>1. PlayInit => PlottedReturned
  BY DEF PlayInit, PlottedReturned
<1>2. IInv /\ PlottedReturned => PlottedOwnSource
  BY DEF IInv, SoloInv, OwnAt, PlottedReturned, PlottedOwnSource
<1>3. IInv /\ EditorOK /\ PlottedReturned /\ [PlayNext]_allVars => PlottedReturned'
  BY PlottedStep
<1>4. QED
  BY PageKeepsIInv, <1>1, <1>2, <1>3, PTL DEF PlaySpec

-----------------------------------------------------------------------------
(* The button.                                                             *)

\* Only calls that are over have had their finally, `running' says that one has not,
\* and there is at most one such.
ApartInv ==
    /\ mixed = {}
    /\ settled \subseteq {r \in Runs : pc[r] \in EndPCs}
    /\ running \in BOOLEAN
    /\ running <=> InFlight # {}
    /\ \A q, r \in InFlight : q = r

LEMMA ApartStep ==
    ASSUME TInv, EditorOK, ~Shortcut, ApartInv, [PlayNext]_allVars PROVE ApartInv'
<1> USE DEF TInv, TypeOK
<1>1. ASSUME NEW r \in Runs, Run(r) PROVE ApartInv'
  <2>1. InFlight = {} /\ pc[r] = "idle" /\ r \notin settled
    BY <1>1 DEF Run, MayRun, Start, ApartInv
  <2>2. Active = {}
    BY <2>1 DEF InFlight, ApartInv, Active
  <2>3. mixed' = {} /\ running' = TRUE /\ settled' = settled
        /\ pc'[r] # "idle" /\ \A q \in Runs \ {r} : pc'[q] = pc[q]
    BY <1>1, <2>2 DEF Run, Start, CallMain, Goto, ApartInv
  <2>4. InFlight' = {r}
    BY <2>1, <2>3 DEF InFlight
  <2>5. settled' \subseteq {q \in Runs : pc'[q] \in EndPCs}
    BY <2>1, <2>3 DEF ApartInv
  <2>6. QED
    BY <2>3, <2>4, <2>5 DEF ApartInv
<1>2. ASSUME NEW r \in Runs, Finish(r) PROVE ApartInv'
  <2>1. /\ r \in InFlight /\ running' = FALSE /\ settled' = settled \cup {r}
        /\ UNCHANGED <<pc, mixed>> /\ pc[r] \in EndPCs
    BY <1>2 DEF Finish, InFlight, vars, callVars
  <2>2. InFlight' = {}
    BY <2>1 DEF InFlight, ApartInv
  <2>3. QED
    BY <2>1, <2>2 DEF ApartInv
\* Every other step leaves the calls in flight as they are.
<1>3. ASSUME UNCHANGED <<mixed, settled, running>>,
             \A q \in Runs : /\ pc'[q] = "idle" <=> pc[q] = "idle"
                             /\ pc[q] \in EndPCs => pc'[q] = pc[q]
      PROVE  ApartInv'
  <2>1. InFlight' = InFlight
    BY <1>3 DEF InFlight
  <2>2. QED
    BY <1>3, <2>1 DEF ApartInv
<1>4. CASE OmcReady \/ Reset \/ (\E s \in Sources : Edit(s) \/ PickExample(s))
            \/ UNCHANGED allVars
  <2>1. UNCHANGED <<pc, mixed, settled, running>>
    BY <1>4 DEF OmcReady, Reset, Edit, PickExample, allVars, uiVars, vars, callVars
  <2>2. QED
    BY <1>3, <2>1
<1>5. ASSUME NEW r \in Runs, \/ HookStep(r)
                             \/ SimResult(r) /\ LastHooks(r)
                             \/ SimFails(r) /\ UNCHANGED uiVars
      PROVE  ApartInv'
  <2>1. UNCHANGED <<settled, running>>
    BY <1>5 DEF HookStep, StageHooks, LastHooks, uiVars
  <2>2. /\ pc[r] \notin {"idle"} \cup EndPCs /\ pc'[r] # "idle" /\ UNCHANGED mixed
        /\ \A q \in Runs \ {r} : pc'[q] = pc[q]
    BY <1>5 DEF HookStep, ResumeOMC, CallMain, MslRejected, GenerateC, ZipDone, EmReady,
                EmRejected, StageAsset, WriteFile, CompileTU, AfterCompile, Link, ReadWasm,
                ReadJs, AwaitRejects, SimResult, SimFails, Goto, callVars
  <2>3. QED
    BY <1>3, <2>1, <2>2
<1>6. CASE (MslSettles \/ EmSettles) /\ UNCHANGED uiVars
  <2>1. \A q \in Runs : pc'[q] = pc[q] \/ {pc[q], pc'[q]} \subseteq OmcPCs
    BY <1>6 DEF MslSettles, EmSettles
  <2>2. UNCHANGED <<mixed, settled, running>>
    BY <1>6 DEF MslSettles, EmSettles, uiVars, callVars
  <2>3. QED
    BY <1>3, <2>1, <2>2
<1>7. QED
  BY <1>1, <1>2, <1>4, <1>5, <1>6 DEF PlayNext

\* RunsApart: with the button alone no two runs overlap, however many there are and
\* whatever else is pressed, and the page says it is running exactly while one is.
THEOREM ApartCorrect == ~Shortcut /\ PlaySpec => []RunsApart
<1>1. PlayInit => ApartInv
  <2> SUFFICES ASSUME PlayInit PROVE ApartInv
    OBVIOUS
  <2>1. InFlight = {}
    BY DEF PlayInit, Init, InFlight
  <2>2. mixed = {} /\ settled = {} /\ running = FALSE
    BY DEF PlayInit, Init
  <2>3. QED
    BY <2>1, <2>2 DEF ApartInv
<1>2. ApartInv => RunsApart
  <2> SUFFICES ASSUME ApartInv PROVE RunsApart
    OBVIOUS
  <2>1. CASE InFlight = {}
    BY <2>1, FS_EmptySet DEF ApartInv, RunsApart
  <2>2. CASE InFlight # {}
    <3>1. PICK r \in InFlight : TRUE
      BY <2>2
    <3>2. InFlight = {r}
      BY <3>1 DEF ApartInv
    <3>3. QED
      BY <2>2, <3>2, FS_Singleton DEF ApartInv, RunsApart
  <2>3. QED
    BY <2>1, <2>2
<1>3. ~Shortcut /\ IInv /\ EditorOK /\ ApartInv /\ [PlayNext]_allVars => ApartInv'
  BY ApartStep DEF IInv
<1>4. ~Shortcut => (~Shortcut)'
  OBVIOUS
<1>5. QED
  BY PageKeepsIInv, <1>1, <1>2, <1>3, <1>4, PTL DEF PlaySpec

-----------------------------------------------------------------------------
(* The shortcut: what RunningEnds rests on besides fairness.               *)

\* The page says it is running only while a call has its finally still before it, and no
\* call has had it that is not over.
RunningOwed ==
    /\ running => InFlight # {}
    /\ \A r \in settled : r \in Runs /\ pc[r] \in EndPCs

LEMMA OwedStep ==
    ASSUME TInv, EditorOK, RunningOwed, [PlayNext]_allVars PROVE RunningOwed'
<1> USE DEF TInv, TypeOK
<1>1. ASSUME NEW r \in Runs, Run(r) PROVE RunningOwed'
  <2>1. pc[r] = "idle" /\ r \notin settled /\ settled' = settled
    BY <1>1 DEF Run, Start, RunningOwed
  <2>2. pc'[r] # "idle" /\ \A q \in Runs \ {r} : pc'[q] = pc[q]
    BY <1>1 DEF Run, Start, CallMain, Goto
  <2>3. r \in InFlight'
    BY <2>1, <2>2 DEF InFlight
  <2> QED BY <2>1, <2>2, <2>3 DEF RunningOwed
<1>2. ASSUME NEW r \in Runs, Finish(r) PROVE RunningOwed'
  <2>1. running' = FALSE /\ settled' = settled \cup {r} /\ UNCHANGED pc /\ pc[r] \in EndPCs
    BY <1>2 DEF Finish, vars
  <2> QED BY <2>1 DEF RunningOwed
\* No other step ends a call's continuation: what was in flight still is.
<1>3. ASSUME UNCHANGED <<settled, running>>,
             \A q \in Runs : /\ pc[q] # "idle" => pc'[q] # "idle"
                             /\ pc[q] \in EndPCs => pc'[q] = pc[q]
      PROVE  RunningOwed'
  <2>1. InFlight \subseteq InFlight'
    BY <1>3 DEF InFlight
  <2> QED BY <1>3, <2>1 DEF RunningOwed
<1>4. CASE OmcReady \/ Reset \/ (\E s \in Sources : Edit(s) \/ PickExample(s))
            \/ UNCHANGED allVars
  <2>1. UNCHANGED <<pc, settled, running>>
    BY <1>4 DEF OmcReady, Reset, Edit, PickExample, allVars, uiVars, vars
  <2> QED BY <1>3, <2>1
<1>5. ASSUME NEW r \in Runs, \/ HookStep(r)
                             \/ SimResult(r) /\ LastHooks(r)
                             \/ SimFails(r) /\ UNCHANGED uiVars
      PROVE  RunningOwed'
  <2>1. UNCHANGED <<settled, running>>
    BY <1>5 DEF HookStep, StageHooks, LastHooks, uiVars
  <2>2. /\ pc[r] \notin {"idle"} \cup EndPCs /\ pc'[r] # "idle"
        /\ \A q \in Runs \ {r} : pc'[q] = pc[q]
    BY <1>5 DEF HookStep, ResumeOMC, CallMain, MslRejected, GenerateC, ZipDone, EmReady,
                EmRejected, StageAsset, WriteFile, CompileTU, AfterCompile, Link, ReadWasm,
                ReadJs, AwaitRejects, SimResult, SimFails, Goto
  <2> QED BY <1>3, <2>1, <2>2
<1>6. CASE (MslSettles \/ EmSettles) /\ UNCHANGED uiVars
  <2>1. \A q \in Runs : pc'[q] = pc[q] \/ {pc[q], pc'[q]} \subseteq OmcPCs
    BY <1>6 DEF MslSettles, EmSettles
  <2>2. UNCHANGED <<settled, running>>
    BY <1>6 DEF uiVars
  <2> QED BY <1>3, <2>1, <2>2
<1> QED BY <1>1, <1>2, <1>4, <1>5, <1>6 DEF PlayNext

\* RunningOwed: whatever the user presses and however runs overlap, `running' is never left
\* set with nobody there to clear it.
THEOREM RunningIsOwed == PlaySpec => []RunningOwed
<1>1. PlayInit => RunningOwed
  BY DEF PlayInit, RunningOwed
<1> QED BY PageKeepsIInv, OwedStep, <1>1, PTL DEF PlaySpec, IInv

-----------------------------------------------------------------------------
(* What the page shows, with the button alone and examples picked between  *)
(* runs.  It shows the first k stages of one run q, and if that run is in  *)
(* flight it is the one that k and the stage to blame belong to.           *)

Upto(k, q) == [i \in Stages |-> IF i < k THEN q ELSE None]

Shows(k, q) ==
    /\ artifacts = Upto(k, q)
    /\ k > 0 => q \in Runs
    /\ k < 4 => progress \in {2 * k, 2 * k + 1} /\ trace = None
    /\ k = 4 => progress = 8 /\ trace \in {None, q} /\ (trace # None => label = trace)

ShowsCall(q) ==
    IF pc[q] = "returned" THEN Shows(4, q)
    ELSE Shows(stage[q], q) /\ stageRef = stage[q]

PageTypeOK ==
    /\ editor \in Sources
    /\ canRun \in BOOLEAN
    /\ running \in BOOLEAN
    /\ errorStage \in Stages \cup {None}
    /\ label \in Runs \cup {None}
    /\ stageRef \in Stages
    /\ settled \subseteq Runs

ShowInv ==
    /\ \E k \in 0 .. 4, q \in Runs \cup {None} : Shows(k, q)
    /\ \A q \in InFlight : ShowsCall(q)
    /\ stale = {}

\* The stage a call has announced, by the await it is suspended at.
StageInv ==
    \A q \in Runs :
        /\ pc[q] \in {"idle", "gen"} \cup OmcPCs => stage[q] = 0
        /\ pc[q] = "zip" => stage[q] = 1
        /\ pc[q] \in {"em"} \cup EmPCs => stage[q] = 2
        /\ pc[q] = "sim" => stage[q] = 3

LEMMA StageStep == ASSUME TInv, StageInv, [Next]_vars PROVE StageInv'
BY DEF Next, Step, vars, Start, CallMain, MslSettles, EmSettles, ResumeOMC, MslRejected,
       GenerateC, ZipDone, EmReady, EmRejected, StageAsset, WriteFile, CompileTU,
       AfterCompile, Link, ReadWasm, ReadJs, AwaitRejects, SimResult, SimFails, Goto,
       StageInv, TInv, TypeOK

LEMMA PageTypeStep ==
    ASSUME PageTypeOK, TInv, [PlayNext]_allVars PROVE PageTypeOK'
<1> USE DEF PageTypeOK, Stages
<1>1. CASE OmcReady \/ Reset \/ \E s \in Sources : Edit(s) \/ PickExample(s)
  BY <1>1 DEF OmcReady, Reset, Edit, PickExample, ClearResults, resultVars
<1>2. ASSUME NEW r \in Runs, Run(r) PROVE PageTypeOK'
  BY <1>2 DEF Run, ClearResults
<1>3. ASSUME NEW r \in Runs, HookStep(r) PROVE PageTypeOK'
  BY <1>3 DEF HookStep, StageHooks, uiVars, resultVars
<1>4. ASSUME NEW r \in Runs, LastHooks(r) PROVE PageTypeOK'
  BY <1>4 DEF LastHooks
<1>5. ASSUME NEW r \in Runs, Finish(r) PROVE PageTypeOK'
  BY <1>5 DEF Finish
<1>6. CASE UNCHANGED uiVars
  BY <1>6 DEF uiVars, resultVars
<1>7. QED
  BY <1>1, <1>2, <1>3, <1>4, <1>5, <1>6 DEF PlayNext, allVars

\* Cleared results are the first 0 stages of any run.
LEMMA ClearedShows ==
    ASSUME ClearResults, progress' \in {0, 1}, NEW q PROVE Shows(0, q)'
BY DEF ClearResults, Shows, Upto, Stages

\* A step that neither touches what is shown nor ends or starts a call.
LEMMA StillShows ==
    ASSUME ShowInv, UNCHANGED <<uiVars, stage>>,
           \A q \in Runs : /\ pc'[q] = "idle" <=> pc[q] = "idle"
                           /\ pc'[q] = "returned" <=> pc[q] = "returned"
    PROVE  ShowInv'
<1>1. UNCHANGED <<progress, artifacts, trace, label, stageRef, settled, stale, stage>>
  BY DEF uiVars, resultVars
<1>2. InFlight' = InFlight /\ InFlight \subseteq Runs
  BY <1>1 DEF InFlight
<1>3. \A k, q : Shows(k, q)' <=> Shows(k, q)
  BY <1>1 DEF Shows, Upto
<1>4. \A q \in InFlight : ShowsCall(q)' <=> ShowsCall(q)
  BY <1>1, <1>2 DEF ShowsCall, Shows, Upto
<1>5. QED
  BY <1>1, <1>2, <1>3, <1>4 DEF ShowInv

LEMMA OneStageMore ==
    ASSUME NEW k \in Stages, NEW q
    PROVE  [Upto(k, q) EXCEPT ![k] = q] = Upto(k + 1, q)
<1>1. \A i \in Stages : [Upto(k, q) EXCEPT ![k] = q][i] = Upto(k + 1, q)[i]
  BY DEF Upto, Stages
<1>2. QED
  BY <1>1 DEF Upto

\* The hooks between two stages.
LEMMA NextStageShows ==
    ASSUME TInv, ApartInv, ShowInv, NEW r \in Runs, NEW i \in 0 .. 2,
           r \in InFlight, pc[r] # "returned", stage[r] = i,
           StageHooks(r, i), pc'[r] \notin {"idle", "returned"},
           \A q \in Runs \ {r} : pc'[q] = pc[q],
           stage' = [stage EXCEPT ![r] = i + 1]
    PROVE  ShowInv'
<1>1. Shows(i, r)
  BY DEF ShowInv, ShowsCall
<1>2. InFlight' = {r}
  <2>1. InFlight = {r} /\ settled' = settled
    BY DEF ApartInv, StageHooks
  <2>2. QED
    BY <2>1 DEF InFlight, TInv, TypeOK
<1>3. stage'[r] = i + 1 /\ stageRef' = i + 1
  BY DEF StageHooks, TInv, TypeOK
<1>4. artifacts' = Upto(i + 1, r)
  <2>1. artifacts' = [Upto(i, r) EXCEPT ![i] = r] /\ i \in Stages
    BY <1>1 DEF StageHooks, Shows, Stages
  <2>2. QED
    BY <2>1, OneStageMore
<1>5. Shows(i + 1, r)'
  BY <1>1, <1>4 DEF StageHooks, Shows, Upto
<1>6. QED
  BY <1>2, <1>3, <1>5 DEF ShowInv, ShowsCall, StageHooks

LEMMA ShowStep ==
    ASSUME IInv, EditorOK, ~Shortcut, ~PickBusy, StageInv, ApartInv, ShowInv,
           [PlayNext]_allVars
    PROVE  ShowInv'
<1> USE DEF TInv, TypeOK
<1>0. TInv
  BY DEF IInv
<1>1. CASE Reset \/ \E s \in Sources : PickExample(s)
  <2>1. InFlight = {} /\ ClearResults /\ progress' = 0 /\ settled' = settled /\ pc' = pc
    BY <1>1 DEF Reset, PickExample, ApartInv, vars
  <2>2. InFlight' = {} /\ stale' = {}
    BY <2>1 DEF InFlight, ClearResults, ShowInv
  <2>3. Shows(0, None)'
    BY <2>1, ClearedShows
  <2>4. QED
    BY <2>2, <2>3 DEF ShowInv
<1>2. CASE OmcReady \/ \E s \in Sources : Edit(s)
  <2>1. UNCHANGED <<pc, stage, progress, artifacts, trace, label, stageRef, settled, stale>>
    BY <1>2 DEF OmcReady, Edit, vars, resultVars
  <2>2. QED
    BY <2>1 DEF ShowInv, ShowsCall, Shows, Upto, InFlight
<1>3. ASSUME NEW r \in Runs, Run(r) PROVE ShowInv'
  <2>1. InFlight = {} /\ pc[r] = "idle" /\ r \notin settled
    BY <1>3 DEF Run, MayRun, Start, ApartInv
  <2>2. /\ ClearResults /\ progress' = 1 /\ stageRef' = 0 /\ settled' = settled
        /\ stage' = stage /\ pc'[r] \notin {"idle", "returned"}
        /\ \A q \in Runs \ {r} : pc'[q] = pc[q]
    BY <1>0, <1>3 DEF Run, Start, CallMain, Goto
  <2>3. InFlight' = {r} /\ stale' = {}
    BY <2>1, <2>2 DEF InFlight, ClearResults, ShowInv
  <2>4. Shows(0, r)' /\ stage'[r] = 0
    BY <2>1, <2>2, ClearedShows DEF StageInv
  <2>5. QED
    BY <2>2, <2>3, <2>4 DEF ShowInv, ShowsCall
<1>4. ASSUME NEW r \in Runs, HookStep(r) PROVE ShowInv'
  <2>1. pc[r] \notin {"idle"} \cup EndPCs
    BY <1>4 DEF HookStep, ResumeOMC, MslRejected, GenerateC, ZipDone, EmReady, EmRejected,
                StageAsset, WriteFile, CompileTU, Link, ReadWasm, ReadJs, AwaitRejects
  <2>2. r \in InFlight
    BY <2>1 DEF InFlight, ApartInv
  <2>3. CASE GenerateC(r) /\ StageHooks(r, 0)
    <3>1. /\ stage[r] = 0 /\ stage' = [stage EXCEPT ![r] = 0 + 1]
          /\ pc'[r] \notin {"idle", "returned"}
          /\ \A q \in Runs \ {r} : pc'[q] = pc[q]
      BY <1>0, <2>3 DEF GenerateC, Goto, StageInv
    <3>2. StageHooks(r, 0) /\ pc[r] # "returned" /\ 0 \in 0 .. 2
      BY <2>1, <2>3
    <3>3. QED
      BY <1>0, <2>2, <3>1, <3>2, NextStageShows
  <2>4. CASE ZipDone(r) /\ StageHooks(r, 1)
    <3>1. /\ stage[r] = 1 /\ stage' = [stage EXCEPT ![r] = 1 + 1]
          /\ pc'[r] \notin {"idle", "returned"}
          /\ \A q \in Runs \ {r} : pc'[q] = pc[q]
      BY <1>0, <2>4 DEF ZipDone, Goto, StageInv
    <3>2. StageHooks(r, 1) /\ pc[r] # "returned" /\ 1 \in 0 .. 2
      BY <2>1, <2>4
    <3>3. QED
      BY <1>0, <2>2, <3>1, <3>2, NextStageShows
  <2>5. CASE ReadJs(r) /\ StageHooks(r, 2)
    <3>1. /\ stage[r] = 2 /\ stage' = [stage EXCEPT ![r] = 2 + 1]
          /\ pc'[r] \notin {"idle", "returned"}
          /\ \A q \in Runs \ {r} : pc'[q] = pc[q]
      BY <1>0, <2>5 DEF ReadJs, Goto, StageInv
    <3>2. StageHooks(r, 2) /\ pc[r] # "returned" /\ 2 \in 0 .. 2
      BY <2>1, <2>5
    <3>3. QED
      BY <1>0, <2>2, <3>1, <3>2, NextStageShows
  <2>6. CASE /\ \/ ResumeOMC(r) \/ MslRejected(r) \/ EmReady(r) \/ EmRejected(r)
                \/ StageAsset(r) \/ WriteFile(r) \/ CompileTU(r) \/ Link(r)
                \/ ReadWasm(r) \/ AwaitRejects(r)
             /\ UNCHANGED uiVars
    <3>1. /\ pc'[r] \notin {"idle", "returned"} /\ stage' = stage
          /\ \A q \in Runs \ {r} : pc'[q] = pc[q]
      BY <1>0, <2>1, <2>6 DEF ResumeOMC, CallMain, MslRejected, EmReady, EmRejected,
            StageAsset, WriteFile, CompileTU, AfterCompile, Link, ReadWasm, AwaitRejects, Goto
    <3>2. QED
      BY <2>1, <2>6, <3>1, StillShows
  <2>7. QED
    BY <1>4, <2>3, <2>4, <2>5, <2>6 DEF HookStep
<1>5. ASSUME NEW r \in Runs, SimResult(r), LastHooks(r) PROVE ShowInv'
  <2>1. pc[r] = "sim" /\ stage[r] = 3 /\ r \in InFlight
    BY <1>5 DEF SimResult, StageInv, InFlight, ApartInv
  <2>2. Shows(3, r)
    BY <2>1 DEF ShowInv, ShowsCall
  <2>3. artifacts' = Upto(4, r)
    BY <1>5, <2>2, OneStageMore DEF LastHooks, Shows, Stages
  <2>4. Shows(4, r)'
    BY <1>5, <2>2, <2>3 DEF LastHooks, Shows, Upto
  <2>5. pc'[r] = "returned" /\ \A q \in Runs \ {r} : pc'[q] = pc[q]
    BY <1>0, <1>5 DEF SimResult, Goto
  <2>6. InFlight' = {r}
    <3>1. InFlight = {r} /\ settled' = settled
      BY <1>5, <2>1 DEF ApartInv, LastHooks
    <3>2. QED
      BY <2>5, <3>1 DEF InFlight
  <2>7. QED
    BY <1>5, <2>4, <2>5, <2>6 DEF ShowInv, ShowsCall, LastHooks
<1>6. ASSUME NEW r \in Runs, SimFails(r), UNCHANGED uiVars PROVE ShowInv'
  <2>1. /\ pc[r] = "sim" /\ pc'[r] = "threw" /\ stage' = stage
        /\ \A q \in Runs \ {r} : pc'[q] = pc[q]
    BY <1>0, <1>6 DEF SimFails, Goto
  <2>2. QED
    BY <1>6, <2>1, StillShows
<1>7. ASSUME NEW r \in Runs, Finish(r) PROVE ShowInv'
  <2>1. r \in InFlight /\ pc' = pc /\ settled' = settled \cup {r} /\ stale' = {}
    BY <1>7 DEF Finish, InFlight, vars, ShowInv
  <2>2. InFlight' = {}
    BY <2>1 DEF InFlight, ApartInv
  <2>3. UNCHANGED <<progress, artifacts, trace>>
    BY <1>7 DEF Finish
  <2>4. CASE pc[r] = "returned"
    <3>1. Shows(4, r) /\ label' = r
      BY <1>7, <2>1, <2>4 DEF ShowInv, ShowsCall, Finish
    <3>2. Shows(4, r)'
      BY <2>3, <3>1 DEF Shows, Upto
    <3>3. QED
      BY <2>1, <2>2, <3>2 DEF ShowInv
  <2>5. CASE pc[r] # "returned"
    <3>1. label' = label
      BY <1>7, <2>5 DEF Finish
    <3>2. QED
      BY <2>1, <2>2, <2>3, <3>1 DEF ShowInv, Shows, Upto
  <2>6. QED
    BY <2>4, <2>5
<1>8. CASE (MslSettles \/ EmSettles) /\ UNCHANGED uiVars
  <2>1. /\ \A q \in Runs : pc'[q] = pc[q] \/ {pc[q], pc'[q]} \subseteq OmcPCs
        /\ stage' = stage
    BY <1>8 DEF MslSettles, EmSettles
  <2>2. QED
    BY <1>8, <2>1, StillShows
<1>9. CASE UNCHANGED allVars
  <2>1. UNCHANGED <<pc, stage, uiVars>>
    BY <1>9 DEF allVars, vars
  <2>2. QED
    BY <2>1, StillShows
<1>10. QED
  BY <1>1, <1>2, <1>3, <1>4, <1>5, <1>6, <1>7, <1>8, <1>9 DEF PlayNext

PageInv == PageTypeOK /\ StageInv /\ ApartInv /\ ShowInv

LEMMA PageInitially == PlayInit => PageInv
<1> SUFFICES ASSUME PlayInit PROVE PageInv
  OBVIOUS
<1>1. InFlight = {}
  BY DEF PlayInit, Init, InFlight
<1>2. ApartInv
  BY <1>1 DEF PlayInit, Init, ApartInv
<1>3. PageTypeOK
  <2>1. stageRef \in Stages
    BY DEF PlayInit, Stages
  <2>2. QED
    BY <2>1, Zenon DEF PlayInit, PageTypeOK
<1>4. StageInv
  BY DEF PlayInit, Init, StageInv
<1>5. Shows(0, None)
  BY DEF PlayInit, Shows, Upto, Stages
<1>6. QED
  BY <1>1, <1>2, <1>3, <1>4, <1>5 DEF PageInv, ShowInv, PlayInit

LEMMA PageInductive ==
    ~Shortcut /\ ~PickBusy /\ PlaySpec => [](IInv /\ EditorOK /\ PageInv)
<1>1. IInv /\ EditorOK /\ ~Shortcut /\ ~PickBusy /\ PageInv /\ [PlayNext]_allVars => PageInv'
  BY PageStep, PageTypeStep, StageStep, ApartStep, ShowStep DEF PageInv, IInv
<1>2. ~Shortcut /\ ~PickBusy => (~Shortcut /\ ~PickBusy)'
  OBVIOUS
<1>3. QED
  BY PageKeepsIInv, PageInitially, <1>1, <1>2, PTL DEF PlaySpec

\* The types of the page's state.
THEOREM PageTypeCorrect == ~Shortcut /\ ~PickBusy /\ PlaySpec => []PlayTypeOK
<1>1. IInv /\ PageInv => PlayTypeOK
  <2> SUFFICES ASSUME IInv, PageInv PROVE PlayTypeOK
    OBVIOUS
  <2>1. PICK k \in 0 .. 4, q \in Runs \cup {None} : Shows(k, q)
    BY DEF PageInv, ShowInv
  <2>2. progress \in 0 .. 8 /\ artifacts \in [Stages -> Runs \cup {None}]
        /\ trace \in Runs \cup {None}
    BY <2>1 DEF Shows, Upto
  <2>3. QED
    BY <2>2 DEF PageInv, PageTypeOK, ShowInv, PlayTypeOK, IInv, TInv
<1>2. QED
  BY PageInductive, <1>1, PTL

\* ShownIsOneRun: by the buttons alone, the stages shown as done, the artifacts offered
\* and the plot are always of one and the same run, for any number of runs.
THEOREM ShownCorrect == ~Shortcut /\ ~PickBusy /\ PlaySpec => []ShownIsOneRun
<1>1. PageInv => ShownIsOneRun
  <2> SUFFICES ASSUME PageInv PROVE ShownIsOneRun
    OBVIOUS
  <2>1. PICK k \in 0 .. 4, q \in Runs \cup {None} : Shows(k, q)
    BY DEF PageInv, ShowInv
  <2>2. \A i \in Stages : artifacts[i] = IF i < k THEN q ELSE None
    BY <2>1 DEF Shows, Upto
  <2>3. k > 0 => q # None
    BY <2>1, ConstantsAssumption DEF Shows
  <2>4. \A i \in Stages : (progress > 2 * i + 1) <=> (i < k)
    BY <2>1 DEF Shows, Stages
  <2>5. trace # None => artifacts = [i \in Stages |-> trace]
    <3>1. trace # None => k = 4 /\ trace = q
      BY <2>1 DEF Shows
    <3>2. QED
      BY <2>1, <3>1 DEF Shows, Upto, Stages
  <2>6. QED
    BY <2>2, <2>3, <2>4, <2>5 DEF ShownIsOneRun, Stages
<1>2. QED
  BY PageInductive, <1>1, PTL

\* LabelMatches: by the buttons alone, a plot is named after the model of its own run.
THEOREM LabelCorrect == ~Shortcut /\ ~PickBusy /\ PlaySpec => []LabelMatches
<1>1. PageInv => LabelMatches
  <2> SUFFICES ASSUME PageInv PROVE LabelMatches
    OBVIOUS
  <2>1. PICK k \in 0 .. 4, q \in Runs \cup {None} : Shows(k, q)
    BY DEF PageInv, ShowInv
  <2>2. QED
    BY <2>1 DEF Shows, LabelMatches
<1>2. QED
  BY PageInductive, <1>1, PTL

\* BlameRight: by the buttons alone, a run that fails is blamed on the stage it was in.
THEOREM BlameCorrect == ~Shortcut /\ ~PickBusy /\ PlaySpec => BlameRight
<1>1. ASSUME PageInv, [PlayNext]_allVars, NEW q \in settled' \ settled, pc[q] = "threw"
      PROVE  errorStage' = stage[q]
  <2>1. PICK r \in Runs : Finish(r)
    BY <1>1 DEF PlayNext, allVars, uiVars, OmcReady, Reset, Edit, PickExample, Run,
                HookStep, StageHooks, LastHooks
  <2>2. q = r /\ r \in InFlight
    BY <1>1, <2>1 DEF Finish, InFlight
  <2>3. stageRef = stage[q]
    BY <1>1, <2>2 DEF PageInv, ShowInv, ShowsCall
  <2>4. QED
    BY <1>1, <2>1, <2>2, <2>3 DEF Finish
<1>2. PageInv /\ [PlayNext]_allVars =>
        [\A r \in settled' \ settled : pc[r] = "threw" => errorStage' = stage[r]]_allVars
  BY <1>1
<1>3. QED
  BY PageInductive, <1>2, PTL DEF PlaySpec, BlameRight

=============================================================================
