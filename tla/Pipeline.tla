------------------------------ MODULE Pipeline ------------------------------
(***************************************************************************)
(* demo-app/pipeline.js: runFull takes a Modelica source through four      *)
(* stages (0 omc.wasm, 1 bundle the C, 2 emception, 3 simulate).  A call   *)
(* is an asynchronous function: it runs without interruption between two   *)
(* awaits and other calls run at its awaits, so an action below is the     *)
(* code from one await to the next.  The calls share the page's globals:   *)
(* the file system of the one omc.wasm instance, the output sink of        *)
(* index.html, the memoised promises, and /working of the one emception    *)
(* worker.                                                                 *)
(*                                                                         *)
(* Data is kept as provenance.  The content of a file is the source it was *)
(* generated from; the C files of a model are NTU translation units named  *)
(* after the model, so two sources with one model name collide.            *)
(***************************************************************************)
EXTENDS Integers, FiniteSets

CONSTANTS
    Runs,       \* calls of runFull, each made at most once
    Sources,    \* Modelica sources
    Names,      \* top-level class names
    ModelOf,    \* the class a source declares (extractModelName)
    UsesMSL,    \* the sources for which sourceNeedsMSL holds
    NTU,        \* .c files omc emits for a model
    NAssets,    \* files staged into emception before the first compile
    Overlap,    \* may a caller start a run while another is in progress?
    None

ASSUME ConstantsAssumption ==
    /\ ModelOf \in [Sources -> Names]
    /\ UsesMSL \subseteq Sources
    /\ NTU \in Nat \ {0}
    /\ NAssets \in Nat \ {0}
    /\ Overlap \in BOOLEAN
    /\ None \notin Sources
    /\ None \notin Runs

VARIABLES
    \* locals of the calls
    pc,         \* the await a call is suspended at
    source,     \* the argument src
    stage,      \* the last stage announced by onStageStart
    files,      \* the source whose generated files callOMC collected
    idx,        \* position in the loop the call is in
    bad,        \* has a translation unit failed to compile (fails.length > 0)?
    image,      \* compiled.wasm: the source of each translation unit in it
    glue,       \* compiled.js, likewise
    result,     \* the sources that went into the .mat (history)
    mixed,      \* the calls that were in progress at the same time (history)
    \* omc.wasm and the page
    xmo,        \* content of /X.mo
    out,        \* the sources whose generated files are in omc's "/"
    sink,       \* window.__omcweb.sink
    omcLog,     \* the sink that received what omc printed for a call (history)
    msl,        \* mslPromise: none, loading or done
    urls,       \* the calls whose wasm Blob URL has not been revoked
    \* emception
    emce,       \* emcePromise: none, init, ready or failed
    assets,     \* assets present in the worker's file system
    emceStaged, \* the flag that staging is complete
    working,    \* /working/<model>_<tu>.c
    objs,       \* /working/<model>_<tu>.o
    linked      \* /working/<model>.wasm and .js: the source of each object

omcVars  == <<xmo, out, sink, omcLog, msl>>
emVars   == <<emce, assets, emceStaged>>
workVars == <<working, objs, linked>>
callVars == <<source, mixed>>
vars == <<pc, source, stage, files, idx, bad, image, glue, result, mixed,
          omcVars, urls, emVars, workVars>>

-----------------------------------------------------------------------------
TU     == 1 .. NTU
Assets == 1 .. NAssets
Stages == 0 .. 3

OmcPCs    == {"msl", "mslok", "mslerr"}
EmPCs     == {"stage", "write", "cc", "link", "wasm", "js"}
EndPCs    == {"returned", "threw"}
PCs       == {"idle", "gen", "zip", "em", "sim"} \cup OmcPCs \cup EmPCs \cup EndPCs

Content  == Sources \cup {None}
\* The calls that have started and neither returned nor thrown.
Active   == {r \in Runs : pc[r] \notin {"idle"} \cup EndPCs}
\* The model a call works on: the .makefile among the collected files.
modelName(r) == ModelOf[files[r]]

Init ==
    /\ pc     = [r \in Runs |-> "idle"]
    /\ source = [r \in Runs |-> None]
    /\ stage  = [r \in Runs |-> 0]
    /\ files  = [r \in Runs |-> None]
    /\ idx    = [r \in Runs |-> 1]
    /\ bad    = [r \in Runs |-> FALSE]
    /\ image  = [r \in Runs |-> [t \in TU |-> None]]
    /\ glue   = [r \in Runs |-> [t \in TU |-> None]]
    /\ result = [r \in Runs |-> {}]
    /\ mixed  = {}
    /\ xmo = None
    /\ out = {}
    /\ sink = None
    /\ omcLog = [r \in Runs |-> None]
    /\ msl = "none"
    /\ urls = {}
    /\ emce = "none"
    /\ assets = {}
    /\ emceStaged = FALSE
    /\ working = [n \in Names |-> [t \in TU |-> None]]
    /\ objs    = [n \in Names |-> [t \in TU |-> None]]
    /\ linked  = [n \in Names |-> [t \in TU |-> None]]

Goto(r, where) == pc' = [pc EXCEPT ![r] = where]

-----------------------------------------------------------------------------
(* Stage 0: callOMC.                                                       *)

\* What "/" may hold after omc ran on x with `pin' as the class to simulate
\* (None: not pinned) when it held o before.  omc is external: it may emit the
\* files of x, over those of the same model, unless x has no class `pin'.
OmcOutputs(x, o, pin) ==
    {o} \cup IF pin \in {None, ModelOf[x]}
             THEN {{s \in o : ModelOf[s] # ModelOf[x]} \cup {x}}
             ELSE {}

\* Mutant: the loop unlinks nothing.
Unlinked_skipped(o) == o

\* The outputs that survive the unlink loop over "/".
Unlinked(o) == {}

\* From callMain to the end of callOMC: run omc, collect what is in "/", throw
\* when omc trapped or nothing usable is there, and reset the sink in any case.
\* The exit status alone never fails the call.
CallMain(r, x, o, pin, snk) ==
    \E o2 \in OmcOutputs(x, o, pin) :
       /\ out' = o2
       /\ omcLog' = [omcLog EXCEPT ![r] = snk]
       /\ sink' = None
       /\ \/ /\ Goto(r, "threw")
             /\ UNCHANGED files
          \/ \E s \in o2 : /\ files' = [files EXCEPT ![r] = s]
                           /\ Goto(r, "gen")

\* runFull is called; callOMC takes the sink, writes /X.mo and unlinks the
\* previous outputs.  A source that needs the library then awaits stageMSL,
\* which starts the download or joins the one there is; any other source goes
\* through omc without an await.
Start(r, s) ==
    /\ pc[r] = "idle"
    /\ Overlap \/ Active = {}
    /\ source' = [source EXCEPT ![r] = s]
    /\ mixed' = IF Active = {} THEN mixed ELSE mixed \cup Active \cup {r}
    /\ xmo' = s
    /\ \/ /\ s \in UsesMSL
          /\ out' = Unlinked(out)
          /\ sink' = r
          /\ msl' = IF msl = "none" THEN "loading" ELSE msl
          /\ Goto(r, IF msl = "done" THEN "mslok" ELSE "msl")
          /\ UNCHANGED <<files, omcLog>>
       \/ /\ s \notin UsesMSL
          /\ CallMain(r, s, Unlinked(out), None, r)
          /\ UNCHANGED msl
    /\ UNCHANGED <<stage, idx, bad, image, glue, result, urls, emVars, workVars>>

\* Mutant: only a success is reported to the calls that wait.
MslSettles_silentFailure ==
    /\ msl = "loading"
    /\ \E ok \in BOOLEAN :
          /\ msl' = IF ok THEN "done" ELSE "none"
          /\ pc' = [r \in Runs |-> IF pc[r] = "msl" /\ ok THEN "mslok" ELSE pc[r]]
    /\ UNCHANGED <<callVars, stage, files, idx, bad, image, glue, result, xmo, out,
                   sink, omcLog, urls, emVars, workVars>>

\* Mutant: staging the library resets the sink.
MslSettles_dropsSink ==
    /\ msl = "loading"
    /\ \E ok \in BOOLEAN :
          /\ msl' = IF ok THEN "done" ELSE "none"
          /\ pc' = [r \in Runs |-> IF pc[r] # "msl" THEN pc[r]
                                   ELSE IF ok THEN "mslok" ELSE "mslerr"]
    /\ sink' = None
    /\ UNCHANGED <<callVars, stage, files, idx, bad, image, glue, result, xmo, out,
                   omcLog, urls, emVars, workVars>>

\* The library download ends, for every call that awaits it.  A failure clears
\* mslPromise before any new call can see it.
MslSettles ==
    /\ msl = "loading"
    /\ \E ok \in BOOLEAN :
          /\ msl' = IF ok THEN "done" ELSE "none"
          /\ pc' = [r \in Runs |-> IF pc[r] # "msl" THEN pc[r]
                                   ELSE IF ok THEN "mslok" ELSE "mslerr"]
    /\ UNCHANGED <<callVars, stage, files, idx, bad, image, glue, result, xmo, out,
                   sink, omcLog, urls, emVars, workVars>>

\* A call goes on behind `await stageMSL': omc reads /X.mo and "/" and prints
\* to the sink as they are now.
ResumeOMC(r) ==
    /\ pc[r] = "mslok"
    /\ CallMain(r, xmo, out, ModelOf[source[r]], sink)
    /\ UNCHANGED <<callVars, stage, idx, bad, image, glue, result, xmo, msl, urls,
                   emVars, workVars>>

\* Mutant: the rejection leaves callOMC without its finally.
MslRejected_keepsSink(r) ==
    /\ pc[r] = "mslerr"
    /\ Goto(r, "threw")
    /\ UNCHANGED <<callVars, stage, files, idx, bad, image, glue, result, omcVars,
                   urls, emVars, workVars>>

\* The rejection of stageMSL leaves callOMC through its finally.
MslRejected(r) ==
    /\ pc[r] = "mslerr"
    /\ Goto(r, "threw")
    /\ sink' = None
    /\ UNCHANGED <<callVars, stage, files, idx, bad, image, glue, result, xmo, out,
                   omcLog, msl, urls, emVars, workVars>>

-----------------------------------------------------------------------------
(* Stage 1: the C files as a zip.                                          *)

\* onStageDone(0), onStageStart(1), and the zip is requested.
GenerateC(r) ==
    /\ pc[r] = "gen"
    /\ Goto(r, "zip")
    /\ stage' = [stage EXCEPT ![r] = 1]
    /\ UNCHANGED <<callVars, files, idx, bad, image, glue, result, omcVars, urls,
                   emVars, workVars>>

\* onStageDone(1), onStageStart(2), and getEmception: the first call spawns the
\* worker, every call awaits the one promise.
ZipDone(r) ==
    /\ pc[r] = "zip"
    /\ Goto(r, "em")
    /\ stage' = [stage EXCEPT ![r] = 2]
    /\ emce' = IF emce = "none" THEN "init" ELSE emce
    /\ UNCHANGED <<callVars, files, idx, bad, image, glue, result, omcVars, urls,
                   assets, emceStaged, workVars>>

-----------------------------------------------------------------------------
(* Stage 2: callEmception.                                                 *)

\* em.init() settles.  Nothing clears emcePromise after a failure.
EmSettles ==
    /\ emce = "init"
    /\ emce' \in {"ready", "failed"}
    /\ UNCHANGED <<pc, callVars, stage, files, idx, bad, image, glue, result, omcVars,
                   urls, assets, emceStaged, workVars>>

\* A call gets the worker and stages the assets unless they are there.
EmReady(r) ==
    /\ pc[r] = "em"
    /\ emce = "ready"
    /\ Goto(r, IF emceStaged THEN "write" ELSE "stage")
    /\ idx' = [idx EXCEPT ![r] = 1]
    /\ UNCHANGED <<callVars, stage, files, bad, image, glue, result, omcVars, urls,
                   emVars, workVars>>

EmRejected(r) ==
    /\ pc[r] = "em"
    /\ emce = "failed"
    /\ Goto(r, "threw")
    /\ UNCHANGED <<callVars, stage, files, idx, bad, image, glue, result, omcVars,
                   urls, emVars, workVars>>

\* Mutant: the flag is set as soon as staging has begun.
StagedAfter_early(i) == TRUE

\* Mutant: staging goes on past the end of the list.
LastAsset_late(i) == i > NAssets

LastAsset(i) == i = NAssets

\* emceStaged behind the i-th asset.
StagedAfter(i) == emceStaged \/ i = NAssets

\* One asset is fetched and written; the flag is set behind the last.
StageAsset(r) ==
    /\ pc[r] = "stage"
    /\ assets' = assets \cup {idx[r]}
    /\ emceStaged' = StagedAfter(idx[r])
    /\ IF LastAsset(idx[r])
       THEN idx' = [idx EXCEPT ![r] = 1] /\ Goto(r, "write")
       ELSE idx' = [idx EXCEPT ![r] = @ + 1] /\ UNCHANGED pc
    /\ UNCHANGED <<callVars, stage, files, bad, image, glue, result, omcVars, urls,
                   emce, workVars>>

\* Mutant: a file that is already in /working is not written again.
WriteFile_cached(r) ==
    /\ pc[r] = "write"
    /\ working' = [working EXCEPT ![modelName(r)][idx[r]] = IF @ = None THEN files[r] ELSE @]
    /\ IF idx[r] = NTU
       THEN idx' = [idx EXCEPT ![r] = 1] /\ Goto(r, "cc")
       ELSE idx' = [idx EXCEPT ![r] = @ + 1] /\ UNCHANGED pc
    /\ UNCHANGED <<callVars, stage, files, bad, image, glue, result, omcVars, urls,
                   emVars, objs, linked>>

\* One generated file is written to /working.
WriteFile(r) ==
    /\ pc[r] = "write"
    /\ working' = [working EXCEPT ![modelName(r)][idx[r]] = files[r]]
    /\ IF idx[r] = NTU
       THEN idx' = [idx EXCEPT ![r] = 1] /\ Goto(r, "cc")
       ELSE idx' = [idx EXCEPT ![r] = @ + 1] /\ UNCHANGED pc
    /\ UNCHANGED <<callVars, stage, files, bad, image, glue, result, omcVars, urls,
                   emVars, objs, linked>>

\* Mutant: failed translation units are linked from the object there is.
AfterCompile_anyway(failed) == "link"

\* Behind the compile loop any failure throws.
AfterCompile(failed) == IF failed THEN "threw" ELSE "link"

\* emcc -c on one translation unit.  A failure is noted and the loop goes on.
CompileTU(r) ==
    /\ pc[r] = "cc"
    /\ \/ /\ objs' = [objs EXCEPT ![modelName(r)][idx[r]] = working[modelName(r)][idx[r]]]
          /\ UNCHANGED bad
       \/ /\ bad' = [bad EXCEPT ![r] = TRUE]
          /\ UNCHANGED objs
    /\ IF idx[r] = NTU
       THEN Goto(r, AfterCompile(bad'[r])) /\ UNCHANGED idx
       ELSE idx' = [idx EXCEPT ![r] = @ + 1] /\ UNCHANGED pc
    /\ UNCHANGED <<callVars, stage, files, image, glue, result, omcVars, urls, emVars,
                   working, linked>>

\* The final emcc links the objects there are under the call's names.
Link(r) ==
    /\ pc[r] = "link"
    /\ linked' = [linked EXCEPT ![modelName(r)] = objs[modelName(r)]]
    /\ Goto(r, "wasm")
    /\ UNCHANGED <<callVars, stage, files, idx, bad, image, glue, result, omcVars,
                   urls, emVars, working, objs>>

ReadWasm(r) ==
    /\ pc[r] = "wasm"
    /\ image' = [image EXCEPT ![r] = linked[modelName(r)]]
    /\ Goto(r, "js")
    /\ UNCHANGED <<callVars, stage, files, idx, bad, glue, result, omcVars, urls,
                   emVars, workVars>>

\* The second read back; then onStageDone(2), onStageStart(3), and callSim makes
\* the Blob URL and instantiates the module.
ReadJs(r) ==
    /\ pc[r] = "js"
    /\ glue' = [glue EXCEPT ![r] = linked[modelName(r)]]
    /\ stage' = [stage EXCEPT ![r] = 3]
    /\ urls' = urls \cup {r}
    /\ Goto(r, "sim")
    /\ UNCHANGED <<callVars, files, idx, bad, image, result, omcVars, emVars, workVars>>

\* An await of stages 1 and 2 rejects: the zip, an asset's fetch, a write, a
\* worker call, a read back, or the link command's non-zero status.
AwaitRejects(r) ==
    /\ pc[r] \in {"zip"} \cup EmPCs
    /\ Goto(r, "threw")
    /\ UNCHANGED <<callVars, stage, files, idx, bad, image, glue, result, omcVars,
                   urls, emVars, workVars>>

-----------------------------------------------------------------------------
(* Stage 3: callSim and traceFromMat.                                      *)

\* Mutant: the URL is not revoked.
SimResult_leaks(r) ==
    /\ pc[r] = "sim"
    /\ result' = [result EXCEPT ![r] =
                    {image[r][t] : t \in TU} \cup {glue[r][t] : t \in TU} \cup {files[r]}]
    /\ Goto(r, "returned")
    /\ UNCHANGED <<callVars, stage, files, idx, bad, image, glue, omcVars, emVars,
                   workVars, urls>>

\* The module is up: the other generated files go into its own file system, the
\* simulation runs, and the result file is read.
SimResult(r) ==
    /\ pc[r] = "sim"
    /\ result' = [result EXCEPT ![r] =
                    {image[r][t] : t \in TU} \cup {glue[r][t] : t \in TU} \cup {files[r]}]
    /\ urls' = urls \ {r}
    /\ Goto(r, "returned")
    /\ UNCHANGED <<callVars, stage, files, idx, bad, image, glue, omcVars, emVars,
                   workVars>>

\* The simulation left no result file; or the module failed to load, a write to
\* its file system threw or its main trapped, where nothing revokes the URL.
SimFails(r) ==
    /\ pc[r] = "sim"
    /\ urls' \in {urls, urls \ {r}}
    /\ Goto(r, "threw")
    /\ UNCHANGED <<callVars, stage, files, idx, bad, image, glue, result, omcVars,
                   emVars, workVars>>

-----------------------------------------------------------------------------
\* What a call does by itself once its await has settled, up to the simulation.
Step(r) ==
    \/ ResumeOMC(r) \/ MslRejected(r)
    \/ GenerateC(r) \/ ZipDone(r)
    \/ EmReady(r) \/ EmRejected(r) \/ StageAsset(r)
    \/ WriteFile(r) \/ CompileTU(r) \/ Link(r) \/ ReadWasm(r) \/ ReadJs(r)
    \/ AwaitRejects(r)

Next ==
    \/ \E r \in Runs : \/ \E s \in Sources : Start(r, s)
                       \/ Step(r)
                       \/ SimResult(r)
                       \/ SimFails(r)
    \/ MslSettles
    \/ EmSettles

Spec == Init /\ [][Next]_vars

\* Downloads end and the worker answers.  Nothing bounds the time the simulation
\* module takes to come up, so no fairness is assumed of stage 3.
Fairness ==
    /\ WF_vars(MslSettles)
    /\ WF_vars(EmSettles)
    /\ \A r \in Runs : WF_vars(Step(r))

FairSpec == Spec /\ Fairness

-----------------------------------------------------------------------------
(* Properties.                                                             *)

TypeOK ==
    /\ pc     \in [Runs -> PCs]
    /\ source \in [Runs -> Content]
    /\ stage  \in [Runs -> Stages]
    /\ files  \in [Runs -> Content]
    /\ idx    \in [Runs -> TU \cup Assets]
    /\ bad    \in [Runs -> BOOLEAN]
    /\ image  \in [Runs -> [TU -> Content]]
    /\ glue   \in [Runs -> [TU -> Content]]
    /\ result \in [Runs -> SUBSET Content]
    /\ mixed  \subseteq Runs
    /\ xmo \in Content
    /\ out \subseteq Sources
    /\ sink \in Runs \cup {None}
    /\ omcLog \in [Runs -> Runs \cup {None}]
    /\ msl \in {"none", "loading", "done"}
    /\ urls \subseteq Runs
    /\ emce \in {"none", "init", "ready", "failed"}
    /\ assets \subseteq Assets
    /\ emceStaged \in BOOLEAN
    /\ working \in [Names -> [TU -> Content]]
    /\ objs    \in [Names -> [TU -> Content]]
    /\ linked  \in [Names -> [TU -> Content]]

\* A call that no other call overlapped returns a trace of nothing but its own
\* source, whatever earlier calls left behind in omc's file system and in
\* /working, and whether or not they succeeded.
SoloProvenance ==
    \A r \in Runs : pc[r] = "returned" /\ r \notin mixed => result[r] = {source[r]}

\* omc's output for such a call goes to the call's own sink (the comment of
\* index.html: "so we can attribute output to the right pipeline phase").
SoloLog ==
    \A r \in Runs : r \notin mixed => omcLog[r] \in {None, r}
                                     /\ (files[r] # None => omcLog[r] = r)

\* However the calls interleave, the generated files in omc's "/" come from the
\* source that /X.mo holds, so the first makefile callOMC finds is the only one.
OneGeneration == out \subseteq {xmo}

\* However the calls interleave, no call writes to /working, compiles or links
\* before every library and header is in the worker's file system, though calls
\* that stage at once do not wait for each other.
StagedBeforeUse ==
    \A r \in Runs : pc[r] \in EmPCs \ {"stage"} => assets = Assets

\* The page's sink never outlives the call that installed it, so no output is
\* shown under a call that is over.
SinkOwned == sink # None => pc[sink] \in OmcPCs

\* What omc prints for a call that got files out of it is shown to the user (the
\* comment of index.html: "pipeline.js just swaps the sink pointer per stage so we
\* can attribute output to the right pipeline phase").  Calls that overlap reset
\* each other's sink.
OutputShown == \A r \in Runs : files[r] # None => omcLog[r] # None

\* Only a call that simulates, or one whose simulation failed, holds a Blob URL.
UrlsReleased ==
    \A r \in urls : pc[r] = "sim" \/ (pc[r] = "threw" /\ stage[r] = 3)

\* A call of runFull that has begun gets to its simulation or throws: no
\* settlement of a shared promise is missed by a call that joined it.
RunSettles ==
    \A r \in Runs : pc[r] # "idle" ~> pc[r] \in {"sim"} \cup EndPCs

\* The calls as their caller sees them implement RunAbs.
callStatus == [r \in Runs |-> CASE pc[r] = "idle"     -> "idle"
                            [] pc[r] = "returned" -> "returned"
                            [] pc[r] = "threw"    -> "threw"
                            [] OTHER              -> "running"]
Abs == INSTANCE RunAbs WITH status <- callStatus, source <- source,
                                result <- result, mixed <- mixed
AbsSpec == Abs!Spec

=============================================================================
