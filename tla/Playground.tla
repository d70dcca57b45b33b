----------------------------- MODULE Playground -----------------------------
(***************************************************************************)
(* demo-app/playground.jsx: PlaygroundApp, the page around runFull.  Its   *)
(* hooks are called from inside runFull, so every step of a call that      *)
(* calls a hook is that step of Pipeline together with the hook's effect   *)
(* on the page.                                                            *)
(*                                                                         *)
(* Two habits of the user are constants, to tell what each of them costs:  *)
(* starting a run by Ctrl+Enter, which unlike the button is not disabled   *)
(* while a run is in progress, and picking an example during a run.        *)
(***************************************************************************)
EXTENDS Pipeline

CONSTANTS
    Shortcut,   \* may Ctrl+Enter be pressed during a run?
    PickBusy    \* may an example be picked during a run?

ASSUME HabitsAssumption == Shortcut \in BOOLEAN /\ PickBusy \in BOOLEAN

VARIABLES
    editor,     \* the source in the editor
    canRun,     \* pipeReady && omcReady
    running,
    progress,   \* in half stages: 2i+1 in stage i, 2i+2 behind it
    artifacts,  \* per stage, the call whose artifact is offered
    errorStage,
    trace,      \* the call whose trace is plotted
    label,      \* the call whose model name is shown
    stageRef,   \* currentStageRef.current
    settled,    \* the calls whose catch and finally have run (history)
    stale       \* the calls in flight when results were last cleared (history)

resultVars == <<progress, artifacts, errorStage, trace>>
uiVars == <<editor, canRun, running, resultVars, label, stageRef, settled, stale>>
allVars == <<vars, uiVars>>

InFlight == {r \in Runs : pc[r] # "idle"} \ settled

PlayInit ==
    /\ Init
    /\ editor \in Sources
    /\ canRun = FALSE
    /\ running = FALSE
    /\ progress = 0
    /\ artifacts = [i \in Stages |-> None]
    /\ errorStage = None
    /\ trace = None
    /\ label = None
    /\ stageRef = 0
    /\ settled = {}
    /\ stale = {}

-----------------------------------------------------------------------------
(* What the user does.                                                     *)

\* The results of earlier calls are wiped; a call in flight goes on.
ClearResults ==
    /\ artifacts' = [i \in Stages |-> None]
    /\ errorStage' = None
    /\ trace' = None
    /\ stale' = stale \cup InFlight

\* omc.wasm is up.  A runtime that aborts while it loads never gets here.
OmcReady ==
    /\ ~canRun
    /\ canRun' = TRUE
    /\ UNCHANGED <<vars, editor, running, resultVars, label, stageRef, settled, stale>>

Edit(s) ==
    /\ editor # s
    /\ editor' = s
    /\ UNCHANGED <<vars, canRun, running, resultVars, label, stageRef, settled, stale>>

\* The list of examples opens at any time.
PickExample(s) ==
    /\ PickBusy \/ InFlight = {}
    /\ editor' = s
    /\ ClearResults
    /\ progress' = 0
    /\ label' = None
    /\ UNCHANGED <<vars, canRun, running, stageRef, settled>>

\* The button is disabled while `running'.
Reset ==
    /\ ~running
    /\ ClearResults
    /\ progress' = 0
    /\ UNCHANGED <<vars, editor, canRun, running, label, stageRef, settled>>

\* Mutant: the run button stays enabled.
MayRun_always == canRun

\* The button is disabled while `running', the shortcut is not.
MayRun == canRun /\ (~running \/ Shortcut)

\* run(): the page is set up and runFull runs to its first await.
Run(r) ==
    /\ MayRun
    /\ Start(r, editor)
    /\ ClearResults
    /\ running' = TRUE
    /\ stageRef' = 0
    /\ progress' = 1
    /\ UNCHANGED <<editor, canRun, label, settled>>

-----------------------------------------------------------------------------
(* What the hooks do.                                                      *)

\* Mutant: onStageStart does not move currentStageRef.
StageHooks_noRef(r, i) ==
    /\ artifacts' = [artifacts EXCEPT ![i] = r]
    /\ progress' = 2 * (i + 1) + 1
    /\ UNCHANGED <<editor, canRun, running, errorStage, trace, label, settled, stale, stageRef>>

\* Mutant: the artifact is stored under the stage that begins.
StageHooks_shifted(r, i) ==
    /\ artifacts' = [artifacts EXCEPT ![i + 1] = r]
    /\ stageRef' = i + 1
    /\ progress' = 2 * (i + 1) + 1
    /\ UNCHANGED <<editor, canRun, running, errorStage, trace, label, settled, stale>>

\* onStageDone(i) and, before the next await, onStageStart(i + 1).
StageHooks(r, i) ==
    /\ artifacts' = [artifacts EXCEPT ![i] = r]
    /\ stageRef' = i + 1
    /\ progress' = 2 * (i + 1) + 1
    /\ UNCHANGED <<editor, canRun, running, errorStage, trace, label, settled, stale>>

\* Mutant: onTrace leaves the model name to the end of run().
LastHooks_unlabelled(r) ==
    /\ artifacts' = [artifacts EXCEPT ![3] = r]
    /\ progress' = 8
    /\ \/ trace' = r
       \/ UNCHANGED trace
    /\ UNCHANGED <<editor, canRun, running, errorStage, label, stageRef, settled, stale>>

\* onStageDone(3), and onTrace unless the result file could not be parsed.
LastHooks(r) ==
    /\ artifacts' = [artifacts EXCEPT ![3] = r]
    /\ progress' = 8
    /\ \/ trace' = r /\ label' = r
       \/ UNCHANGED <<trace, label>>
    /\ UNCHANGED <<editor, canRun, running, errorStage, stageRef, settled, stale>>

\* A step of a call with the hooks it calls.
HookStep(r) ==
    \/ GenerateC(r) /\ StageHooks(r, 0)
    \/ ZipDone(r)   /\ StageHooks(r, 1)
    \/ ReadJs(r)    /\ StageHooks(r, 2)
    \/ /\ \/ ResumeOMC(r) \/ MslRejected(r) \/ EmReady(r) \/ EmRejected(r)
          \/ StageAsset(r) \/ WriteFile(r) \/ CompileTU(r) \/ Link(r)
          \/ ReadWasm(r) \/ AwaitRejects(r)
       /\ UNCHANGED uiVars

\* Mutant: `running' is reset by a success only.
Finish_successOnly(r) ==
    /\ pc[r] \in EndPCs
    /\ r \notin settled
    /\ settled' = settled \cup {r}
    /\ \/ /\ pc[r] = "threw"
          /\ errorStage' = stageRef
          /\ UNCHANGED <<label, running>>
       \/ /\ pc[r] = "returned"
          /\ label' = r
          /\ running' = FALSE
          /\ UNCHANGED errorStage
    /\ UNCHANGED <<vars, editor, canRun, progress, artifacts, trace, stageRef, stale>>

\* Mutant: stages are blamed as the page numbers them, from 1.
Finish_fromOne(r) ==
    /\ pc[r] \in EndPCs
    /\ r \notin settled
    /\ settled' = settled \cup {r}
    /\ running' = FALSE
    /\ \/ /\ pc[r] = "threw"
          /\ errorStage' = stageRef + 1
          /\ UNCHANGED label
       \/ /\ pc[r] = "returned"
          /\ label' = r
          /\ UNCHANGED errorStage
    /\ UNCHANGED <<vars, editor, canRun, progress, artifacts, trace, stageRef, stale>>

\* run() goes on behind `await runFull': the catch blames the stage in the ref,
\* the finally ends `running'.
Finish(r) ==
    /\ pc[r] \in EndPCs
    /\ r \notin settled
    /\ settled' = settled \cup {r}
    /\ running' = FALSE
    /\ \/ /\ pc[r] = "threw"
          /\ errorStage' = stageRef
          /\ UNCHANGED label
       \/ /\ pc[r] = "returned"
          /\ label' = r
          /\ UNCHANGED errorStage
    /\ UNCHANGED <<vars, editor, canRun, progress, artifacts, trace, stageRef, stale>>

PlayNext ==
    \/ OmcReady \/ Reset
    \/ \E s \in Sources : Edit(s) \/ PickExample(s)
    \/ \E r \in Runs : \/ Run(r)
                       \/ HookStep(r)
                       \/ SimResult(r) /\ LastHooks(r)
                       \/ SimFails(r) /\ UNCHANGED uiVars
                       \/ Finish(r)
    \/ (MslSettles \/ EmSettles) /\ UNCHANGED uiVars

PlaySpec == PlayInit /\ [][PlayNext]_allVars

\* Pipeline's fairness, and the event loop resumes run() when runFull settles.
PlayFairness ==
    /\ WF_allVars(MslSettles /\ UNCHANGED uiVars)
    /\ WF_allVars(EmSettles /\ UNCHANGED uiVars)
    /\ \A r \in Runs : WF_allVars(HookStep(r)) /\ WF_allVars(Finish(r))

PlayFairSpec == PlaySpec /\ PlayFairness

-----------------------------------------------------------------------------
(* Properties.                                                             *)

PlayTypeOK ==
    /\ TypeOK
    /\ editor \in Sources
    /\ canRun \in BOOLEAN
    /\ running \in BOOLEAN
    /\ progress \in 0 .. 8
    /\ artifacts \in [Stages -> Runs \cup {None}]
    /\ errorStage \in Stages \cup {None}
    /\ trace \in Runs \cup {None}
    /\ label \in Runs \cup {None}
    /\ stageRef \in Stages
    /\ settled \subseteq Runs
    /\ stale \subseteq Runs

\* The disabled buttons are enough to keep runs apart: by the buttons alone no
\* two runs ever overlap, and the page says it is running exactly while one is.
RunsApart == mixed = {} /\ (running <=> InFlight # {}) /\ Cardinality(InFlight) <= 1

\* What the page shows is one run's: the artifacts offered are those of the
\* stages shown as done, all from the run that is plotted, and a plotted run has
\* all four.
ShownIsOneRun ==
    /\ \A i \in Stages : (progress > 2 * i + 1) <=> (artifacts[i] # None)
    /\ \A i, j \in Stages : artifacts[i] # None /\ artifacts[j] # None
                               => artifacts[i] = artifacts[j]
    /\ trace # None => artifacts = [i \in Stages |-> trace]

\* A run whose results were cleared away shows none any more (the comment of
\* pickExample: "Reset run state so the editor swap doesn't leave stale stage
\* results").
NoStaleResults == \A r \in stale : trace # r /\ \A i \in Stages : artifacts[i] # r

\* A plotted trace carries the model name of its run.
LabelMatches == trace # None => label = trace

\* A failed run is blamed on the stage it was in (the comment of
\* currentStageRef: "Tracks the stage currently in-flight so the catch handler
\* can attribute a failure to it").
BlameRight ==
    [][\A r \in settled' \ settled : pc[r] = "threw" => errorStage' = stage[r]]_allVars

\* Whatever the user does, the page does not go on running for ever, except on
\* account of a simulation module that never comes up.
RunningEnds == []<>(~running \/ \E r \in Runs : pc[r] = "sim")

\* Whatever the user does, a plotted trace is of the source of its own run
\* unless that run overlapped another.
PlottedOwnSource ==
    trace # None /\ trace \notin mixed => result[trace] = {source[trace]}

=============================================================================
