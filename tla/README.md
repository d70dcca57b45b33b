# TLA+ models of omc-web

omc-web compiles Modelica in the browser. `omc` (the OpenModelica compiler) and
`emception` (emcc in a worker) both run as WebAssembly; the page turns a Modelica
source into C, the C into a model `.wasm`, runs that, and plots its result file.

This directory holds models of the code this repository itself contributes, TLC
configurations that check them on small instances, and TLAPS proofs of the theorems
that hold for any number of runs, sources and files. `PROJECT.json` relates every
definition to its lines of source. Paths below are relative to the repository.

    tlc -workers 2 -config PipelineOverlap.cfg PipelineMC     # one run
    tlapm PipelineProofs.tla                                  # one module's proofs

## 1. Inventory

| component | code | state it keeps | operations | talks to |
|---|---|---|---|---|
| compile pipeline | `demo-app/pipeline.js` | `omcReady`, `mslPromise`, `emcePromise`, `emceStaged`; `/X.mo` and the outputs in omc's file system; `/working` in the worker; the page's `sink` | `runFull` = `callOMC`, zip, `callEmception`, `callSim`, `traceFromMat`; `stageMSL`, `getEmception`, `stageEmceptionAssets` | called by the playground, whose hooks it calls; omc.wasm; the worker |
| playground | `demo-app/playground.jsx` | `src`, `progress`, `running`, `stageArtifacts`, `errorStage`, `trace`, `modelName`, `currentStageRef` | run, reset, pick an example, edit, Ctrl+Enter, the hooks | the pipeline |
| page bootstrap | `demo-app/index.html` | `window.__omcweb` | print dispatch, `onRuntimeInitialized`, `onAbort` | pipeline, omc.wasm |
| plain front end | `web/src/app.js` | `lastBuildFiles`, `lastModelName`, `lastCompiled`, `lastMat`, `emception`, the `disabled` flags of five buttons | `build`, `compile`, `run`, `downloadC`, `downloadMat` | `EmceptionClient`, omc.wasm |
| emception client | `projects/emception-bundle/overlay.js` | `_worker`, `_em`, `_staged`; `/working` in the worker | `init`, `_stageRuntimeFS`, `compileModel`, `dispose` | the worker |
| shims: temporary-name counters | `common-shims/omcweb_stubs.c` | `omcweb_tmpticks`, `omcweb_tmptick_maxima` | tick, reserve, maximum, reset, reset one, set one | called by omc |
| shims: library search | `common-shims/omcweb_stubs.c` | `best_dir_buf`, `best_name_buf` (static) | `System_getLoadModelPath` | called by omc; the staged library's directory |
| shims: strings and lists | `common-shims/omcweb_stubs.c` | a growing buffer per call | `strtok`, `strtokIncludingDelimiters`, `trim`, `stringReplace` | called by omc |
| shims: files, settings, flags | `common-shims/omcweb_stubs.c` | single static variables | one-step wrappers of libc | called by omc |
| shims: entry, allocator, compatibility | `common-shims/omcweb_main.c`, `omcweb_gc_stub.c`, `omcweb_rt_compat.c` | the thread key and the jump buffers of a call; the heap, which is never collected | `main`; `GC_malloc` and relatives | omc |
| shims: BLAS | `common-shims/omcweb_blas_extras.c` | none | strided vector loops | the simulation runtime |
| stub generator | `projects/omc-wasm/scripts/gen-stubs.py` | the generated C file | write a default stub for every declared function that is found nowhere else | the build |
| generated stubs | `common-shims/omcweb_stubs_auto.c` | none | constant answers | omc |
| reference tests | `tests/runners/node/run-all.js`, `tolerances.yaml` | none | parse two result files and compare them | the built modules |
| build of omc.wasm | `projects/omc-wasm` | object files and archives in `build/`, the linked image in `out/` | the goals libs, stubs, link, clean | tools outside the repository |
| browser test, scripts, other makefiles, CI | `tests/runners/browser`, `re-poc/scripts`, `Makefile`, `tools` | none | linear scripts | tools outside the repository |
| highlighter | `demo-app/modelica-source.js` | none | line-local tokenizer | playground |

### How they interact

Everything in the browser runs on one JavaScript thread: a handler runs without
interruption from one `await` to the next and anything may run at an `await`. The
pieces share *mutable globals*, not messages: one omc.wasm instance with one file
system, one `sink` for what omc prints, one worker with one `/working`, memoised
promises, and the page's variables. omc itself runs synchronously inside `callMain`;
what it emits is not in this repository. The C shims are called by omc from that one
thread, but their `static`s outlive a compilation, because the page calls the same
instance again.

### What is hard, and what correct means

* **Pipeline.** `runFull` may be entered while another call is in flight (the
  playground's Ctrl+Enter). All calls share `/X.mo`, the outputs in `/`, the sink,
  the promises and `/working`, with file names taken from the model name. Any await
  may reject. Correct: a call that ran alone returns a trace of its own source and
  logs to its own sink after *any* history; omc's outputs are never a mix; nobody
  compiles before everything is staged; the sink does not outlive its call; every
  call that joined a shared promise is woken.
* **Playground.** Hooks fire inside a run while the user edits, picks and resets.
  Correct: what is shown is one run's, belongs to the editor's last run, blames the
  right stage, and `running` ends.
* **Plain front end.** Nothing but the `disabled` flags of buttons excludes
  concurrent handlers, and three asynchronous handlers set and clear them
  independently, reading the page's variables again behind their awaits. Correct: one
  compile at a time; Run never gets the wasm of another build; results and downloads
  belong to the build they are shown with; Build always comes back.
* **Counters.** omc sets counters back and forth to number scopes. Correct: continuing
  from `tmpTickMaximum` never repeats a number.
* **Library search.** `readdir` order is arbitrary and the best entry is kept in
  static buffers across calls. Correct: MODELICAPATH order; the answer depends on the
  directories and not on the reading order (up to equal scores) or an earlier call.
* **Strings.** Each function walks a string and grows a buffer by a rule of its own, or
  by two. Correct: nothing is written past the buffer, and what comes back is what the
  name of the function promises.
* **Entry point.** The thread data that say where a failure jumps to live on the stack
  of one call of `main`, and a call may end by a return, a failure, a stack overflow, an
  `exit` or a trap. Correct: no later jump goes to a block of a call that is gone.
* **Build.** Archives outlive a make, a generated stub is linked before them, and the
  tool that lists an archive for the stub generator may fail. Correct: a stub never
  replaces a function that an archive has, and the hand-written shims replace both.
* **Plots.** The result file may be cut off anywhere, and its data are stored column by
  column. Correct: what is plotted is what was simulated, and each sign change of a
  derivative between two points of time is marked where it happened.

`PROJECT.json` lists the hazards line by line, each with the properties that cover it
or the reason none does.

## 2. Modules

| module | models | depends on |
|---|---|---|
| `RunAbs` | what `runFull` promises a caller | |
| `Pipeline` | `pipeline.js`, await by await | refines `RunAbs` |
| `Playground` | `playground.jsx` composed with the pipeline: a step that calls a hook is the pipeline's step and the hook's effect | extends `Pipeline` |
| `WebApp` | `app.js` with the emception client | |
| `TmpTick` | the counters | |
| `LoadModelPath` | the library search | |
| `CStrings` | the string functions with growing buffers | |
| `OmcMain` | `omcweb_main.c` and `omcweb_gc_stub.c` over many calls | |
| `Blas` | `omcweb_blas_extras.c` | |
| `OmcBuild` | the build of `omc.wasm` with its stub generator | |
| `Trace` | `parseMat4` and `traceFromMat` of `pipeline.js` | |
| `PartsMC` | the seven sequential parts, one of them exercised per behaviour | extends the seven |
| other `…MC` | finite instances for TLC | |
| `PipelineProofs`, `PipelineRefinement`, `PlaygroundProofs`, `WebAppProofs`, `TraceProofs`, `ShimProofs` (of `CStrings` and `Blas`), `PartProofs` (of `OmcBuild`, `OmcMain`, `LoadModelPath`, `TmpTick`) | theorems and proofs | the modules they are about |
| `CompositionProofs` | what the run of the parts says of each of them | `PartsMC` and the proofs of the parts |

Data is kept as **provenance**: the content of a file is the source it was generated
from. A source declares a model name and may need the library; two sources may
declare the same name, and then their files collide, as in the code.

### Pipeline and RunAbs

`pc[r]` is the await at which call `r` is suspended:

| `pc` | code |
|---|---|
| `msl`, `mslok`, `mslerr` | `await stageMSL` in `callOMC`: pending, resolved, rejected and not yet resumed |
| `gen` | `callOMC` has returned to `runFull` |
| `zip` | the C bundle is being zipped |
| `em` | `await getEmception` |
| `stage` | fetching and writing asset `idx` |
| `write`, `cc`, `link`, `wasm`, `js` | the worker calls of `callEmception` |
| `sim` | `callSim` |
| `returned`, `threw` | settled |

`Start` is everything to the first await: take the sink, write `/X.mo`, unlink old
outputs, and either await the library or run omc (`CallMain`) at once. `CallMain` is
*whatever omc may leave*: no output, or the files of `/X.mo`; with the class pinned,
only if `/X.mo` still declares it. `Fairness` is weak fairness of the download, of the
worker's start, and of each call's own continuation: downloads end and a worker
answers, possibly with a failure. Nothing is assumed of stage 3: `callSim` has no
timeout, and a module that never comes up leaves the call in `sim`.

History variables: `result` (the sources that went into the trace), `mixed` (calls
that overlapped another), `omcLog` (the sink that got omc's output).

`callStatus` maps a call to `idle`, `running`, `returned`, `threw`. With `Abs == INSTANCE
RunAbs WITH status <- callStatus, source <- source, ...` `Pipeline` implements `RunAbs`, in which
`Return` of a call outside `mixed` must use exactly its
own source.

### Playground

`Run`, `Reset`, `PickExample`, `Edit` and `OmcReady` are the user's and the page's
actions; `StageHooks` is `onStageDone(i)` with `onStageStart(i+1)`, which no await
separates; `LastHooks` is `onStageDone(3)` with `onTrace`; `Finish` is the catch and
finally of `run`. Two constants name the user's habits that the page does not
prevent: `Shortcut` (Ctrl+Enter does not look at `running`) and `PickBusy` (the list
of examples opens during a run). The fairness is Pipeline's, and that the event loop
resumes `run` when `runFull` settles.

### WebApp

`off` is the set of disabled buttons. `Build` is the synchronous handler with its three
outcomes (usable files, unusable files, none). A call is one execution of compile, run
or downloadC: `init … read` are the awaits of `compileModel`, `load` is the module's
start-up in `run`, `zip` the zip in `downloadC`, which is saved (`ZipDone`) or rejected
without a catch (`ZipFails`). When a call ends its variables are
reset and the model may use it again, so `Calls` bounds how many handlers are in
flight and not how often buttons are pressed. `LoadFails` includes the 10 s watchdog,
and weak fairness of it *is* the watchdog; the other fairness is that the worker and the
zip library answer. `hurried` records whether Build was pressed while a run or a zip was
in flight, `mixedRun` whether a run staged files of another build, `saved` the last
download.

### TmpTick

One action per C function; `handed` and `given` record what a slot has given out.
Indices outside the table are included. Ticks beyond `MaxTick` are guarded away: in
C they overflow an `int`, and the bound stands for not getting there.

### LoadModelPath

One call reads the directories entry by entry in any order; `best` survives into the
next call, whose directories may be different. A name is the class, the character after
it, its length and a version *number* (its place in the order of versions).

### CStrings, OmcMain, Blas, OmcBuild, Trace

These are sequential: one step is one turn of a loop, one jump or one recipe.

* `CStrings`: `fn` is the function being called; `pos` the characters consumed; `toks`
  and `out` what was collected; `room` the capacity allocated for it. `RoomFor`,
  `RoomToKeep` and `RoomToReplace` are the growth rules of the code.
* `OmcMain`: `frames` are the blocks on the stack that hold a jump buffer, each with the
  jumper it saved; `mmcJumper` and `overflowJumper` are the two fields of `threadData`,
  `key` the thread key. `Enter` is `__omc_main` up to omc; `Try`, `Catch` and `Throw` are
  omc's own use of the macros, as `demo-app/headers/simrt/meta/meta_modelica_data.h` has
  them (when omc uses them is external); `StackOverflow`, `Returns`, `Unwound` and
  `OutOfMemory` are the ways out. `heap` is never given back.
* `Blas`: one call of one of the five routines, `ix` and `iy` advancing by the strides;
  the loops specialised for strides of one are the general loops at that stride.
  `dnrm2`'s `ssq` is kept as a fraction.
* `OmcBuild`: `archive`, `stubs` and `image` are what the build tree holds; `recipes` is
  what a make in progress still has to run. Sources change between makes and may stop
  compiling, and a make may be interrupted between any two recipes. `Library` pairs an
  archive with a function that one of its sources defines; a function may be in several
  archives, and in `omcweb_stubs.c` as well. `listed` records the archives that `emnm`
  could list when the stubs were written: any set of them, because it may be missing from
  the PATH or fail on one archive, and `gen-stubs.py` goes on either way
  (`_symbols_in_archive`).
* `Trace`: a result is written to a file that ends after any number of its bytes;
  `ReadMatrix` is a turn of `parseMat4`, `MakeSeries` and `MakeVar` are turns of
  `traceFromMat`'s loops, and `DetectEvents` compares one pair of neighbouring points of
  one variable (`turn` is the variable, `pt` the point). Times of crossings are fractions.

## 3. Runs

| run | checks | instance |
|---|---|---|
| `pipeline_overlap` | type, `SoloProvenance`, `SoloLog`, `OneGeneration`, `StagedBeforeUse`, `SinkOwned`, `UrlsReleased`; refinement `AbsSpec`; liveness `RunSettles` | 2 overlapping calls, 3 sources (two of one class, two using the library), 2 translation units, 2 assets: 44,515 states |
| `pipeline_lost_output` | **violated**: `OutputShown` | the same |
| `playground_buttons` | `PlayTypeOK`, `RunsApart`, `ShownIsOneRun`, `LabelMatches`, `SoloProvenance`, `BlameRight` | 3 runs one after the other, the same 3 sources: 276,615 states |
| `playground_any` | `PlottedOwnSource`, liveness `RunningEnds` | 2 runs, Ctrl+Enter and picking at any time: 737,236 states |
| `playground_stale_results` | **violated**: `NoStaleResults` | picking during a run |
| `playground_blame` | **violated**: `BlameRight` | Ctrl+Enter during a run |
| `webapp_buttons` | type, `CompileAlone`, `CompiledOfBuild`, `CompileUsable`, `ResultOfBuild`, `SavedUnderItsName`; liveness `Unblocked` | 2 handlers in flight, 2 sources of 2 models, any number of presses: 160,585 states |
| `webapp_mixed_files` | **violated**: `SupportFilesMatch` | the same |
| `parts` | type; `MaximumCovers`, `FreshFromMaximum`; `FirstDirectory`, `BestInDirectory`, `HighestWhenLonger`; `RoomInBuffer`, `PiecesRight`, liveness `CallEnds`; `JumpsLive`; `AtItsElement`, `BlasRight`; `RealWins`; `OnlyWholeFiles`, `PlotsItsVariables`, `EventsAtZeros` | the seven parts side by side: 256,993 states, see below |
| `library_highest_version` | **violated**: `HighestVersion` | two releases in one directory |
| `shims_memory` | **violated**: `FitsWhenFresh` | a memory of 3 units |
| `trace_missed_event` | **violated**: `EverySignChangeMarked` | 3 points of time |

The parts of `parts` share no variable: `active` chooses one at the start, and the others
stay in their first state, so that the states add up and do not multiply. Their bounds:

| part | instance | why it is enough |
|---|---|---|
| counters | 2 slots, an index outside on either side, blocks of 0 and 2, values 0, 1, 3, ticks to 5 | a value below, at and above what was given out |
| search | 2 directories of up to 2 of 7 kinds of entry, every reading order, call after call | a better, a worse and an unloadable entry before and behind the best, and a buffer filled by another call |
| strings | all strings over two letters up to length 5, all separators up to 2, replacements that are empty, longer, or hold the searched string; arrays begin with 2 slots | overlapping and adjacent occurrences; each growth rule fires more than once and after the other |
| main | up to 5 blocks on the stack, 3 units of memory, any number of calls | a block left by each way out, and a call behind each |
| BLAS | lengths 0, 1, 3, strides -2 to 2, two vectors of 5 cells, factors 0 and 3 | all signs; a zero, equal and growing elements for `dnrm2` |
| build | 2 archives; 6 needed functions: of the shims, of the shims and an archive, of one archive, of both, of an archive and not declared, of nobody; `emnm` lists any of the archives | each line of the stub generator's decision, and a function known from one archive only |
| trace | 0, 1 or 3 points of time, a derivative of any course over -2 to 1, two points at one time; the file ends after each of its bytes | two crossings in a row, a crossing at an event's double point, a constant, an empty result |

Why the bounds are enough to meet the cases: two calls are what an overlap needs, and
three in sequence what "a failed call, one that reuses its leftovers, one after that"
needs; two translation units and two assets let a loop fail half-way; sources that share
a class name make file names collide. In the plain front end two handlers in flight
are a compile beside a run, a run beside a zip, and so on; a third adds a second reader
of the same variables. The proofs lift the bounds for the properties they cover. In
`webapp_buttons` the sources have different models: two sources of one model are
covered by the proofs and were
left out of the run because they multiply its states.

`PROJECT.json` has a mutant for every property: a plausible bug in one definition that
TLC then finds. Mutated definitions stand in the modules before the definitions they
replace and are marked as mutants.

### What the violations show

1. **`pipeline_lost_output`**: `callOMC`'s `finally` (`pipeline.js:303`) sets the only
   sink to `null`. If another call is awaiting the library, its omc then prints to a
   hidden buffer instead of to that call's log.
2. **`playground_stale_results`**: `pickExample` clears the results and leaves the run
   in flight alone, whose hooks fill them again under the new source.
3. **`playground_blame`**: `currentStageRef` is one ref for all runs; when two overlap
   a failure is put on the stage of the other.
4. **`webapp_mixed_files`**: `run` captures the wasm before its await and reads
   `lastBuildFiles` behind it, while Build stays enabled: the support files and the
   wasm can be of different builds.
5. **`library_highest_version`**: "longer name = newer version" prefers 3.2.10 to 4.0.0,
   although the comment promises the highest version. `HighestWhenLonger` states what
   the rule does give.
6. **`shims_memory`**: the allocator is written for "a short-lived one-shot compiler
   process", but the page calls `main` of one instance for every run, so a call can run
   out of memory that earlier calls hold.
7. **`trace_missed_event`**: only two neighbouring points of strictly opposite sign are
   marked; a derivative that is exactly 0 at a point in between changes its sign without
   a mark. `EventsAtZeros` states what is marked.

One disagreement is a step of the model and no run is about it: when `emnm` is missing
(a warning) or fails on an archive (silently), `gen-stubs.py` takes that archive for
empty (164-170) and the build goes on, so stubs are linked in place of the declared
functions that only it has, which the comment at 209-214 says must not happen; the model
has these steps, and `RealWins` states what holds in spite of them: what is in an
archive that was listed is not replaced.

Others are outside of the models: `dscal_` with a negative stride indexes before its
vector, where BLAS does nothing (`Blas` excludes the call: no caller makes it);
`System_dirname("/x")` is empty and not `/` (`omcweb_stubs.c:157`, under "POSIX
basename/dirname"); `System_getHasInnerOuterDefinitions` answers 0 whatever
`System_setHasInnerOuterDefinitions` was told (394, 498); the pattern that finds the
functions `omcweb_stubs.c` provides takes only names that begin with a capital
(`gen-stubs.py:111`), so `lookup_ptr` of that file is not among them; `run-all.js:26`
calls its parser "identical" to `app.js`'s, but it keeps no data for the types 1 and 2.

### Fairness

`Pipeline`: downloads end, a worker answers, an await that has settled is resumed; nothing
of stage 3. `Playground` and `WebApp`: the same, and the event loop runs the continuation
of a settled handler; the 10 s watchdog is the fairness of `LoadFails`. No user action is
fair. `CStrings`: a call that has begun runs on, being the only thing on its thread.

## 4. Proofs

All for any number of calls, sources, names, translation units, assets, slots,
directories, strings, functions, lengths, strides, vectors, variables and points of time,
from the named assumptions on the constants. `ConstantsAssumption`, `WebAssumption`,
`TickAssumption`, `PathAssumption`, `StringsAssumption` and `MainAssumption` say no more
than that models are assigned to sources, that `None` is none of them, and that sizes are
positive. `OmcBuild` assumes nothing: the sets of declared, hand-written, archived and
needed functions may overlap in any way. Two say what callers see to: `BlasAssumption`
that a vector is as long as the length and the stride passed with it say, which is BLAS'
own contract, and `TraceAssumption` that a result has a row for the time, rows of equal
length, and no name twice.

Every safety invariant and every safety action property that a passing run checks is
stated by a theorem; with it the run is a check of the theorem on a small instance, and
the theorem lifts the run's bounds.

| theorem | states | argument |
|---|---|---|
| `PipelineProofs!TypeCorrect` | `TypeOK` | `TInv` adds what the types of a call's locals depend on: behind omc it has files, its loop index is in the range of its loop |
| `PipelineProofs!StagingCorrect` | `StagedBeforeUse` | `StagedInv`: a call staging asset `i` has all before `i` in the file system, and the flag implies all; assets are never removed, so calls staging at once cannot hurt each other |
| `PipelineProofs!GenerationCorrect` | `OneGeneration` | every write of `/X.mo` is followed by the unlink loop before the next await |
| `PipelineProofs!ProvenanceCorrect` | `SoloProvenance` | `IInv`: a call outside `mixed` is the only active one, and at each `pc` the files it has already written, compiled and linked are its own. The property alone says nothing of the calls still on their way, and is not inductive |
| `PipelineRefinement!SinkCorrect`, `UrlsCorrect`, `LogCorrect` | `SinkOwned`, `UrlsReleased`, `SoloLog` | only the awaits of `callOMC` hold the sink; only `sim` is behind `onStageStart(3)`; `IInv` says whose sink a call that runs alone finds when it resumes |
| `PipelineRefinement!Refinement` | `AbsSpec` | every step maps to a step of `RunAbs` or none. `RunAbs` wants traces made of sources, so `Filled` says that what is read back was written, compiled and linked by somebody; it is kept because no file of `/working` goes away (`Grows`). That a call alone uses its own source is `IInv` |
| `PlaygroundProofs!ApartCorrect` | `RunsApart`, if `Shortcut` is false | `ApartInv`: `running` is true exactly while one call has not had its `finally`; a call that is over but not settled still counts, which is what keeps `run`'s continuation and the next run apart |
| `PlaygroundProofs!PlottedCorrect` | `PlottedOwnSource` | every step of the page is a step of the pipeline or leaves it alone (`PageStep`), so `IInv` holds here too; what is plotted is of a call that has returned |
| `WebAppProofs!CompileAloneCorrect` | `CompileAlone` | `LockInv`: while a compile is in flight Build and Compile are off, so its inputs stay the page's, and whatever a run gives back meanwhile is not one of these two |
| `WebAppProofs!CompiledCorrect` | `CompiledOfBuild` | the same invariant follows the files through `/working` to the wasm |
| `WebAppProofs!UsableCorrect` | `CompileUsable` | the same invariant: the `finally` gives Compile back only for the build it was taken from |
| `WebAppProofs!ResultCorrect`, `SavedCorrect` | `ResultOfBuild`, `SavedUnderItsName` | `HistoryInv`: as long as `hurried` is false, runs and zips in flight still hold the present build, and while there is a run there is a wasm |
| `PartProofs!MaximumCorrect` | `MaximumCovers` | inductive with `TypeOK` |
| `PartProofs!FreshCorrect` | `FreshFromMaximum` | an action property, from `MaximumCovers` |
| `PartProofs!FirstDirectoryCorrect` | `FirstDirectory` | `SearchInv`: earlier directories had no candidate, and `best` beats every entry read so far if `found`; without `found` it says nothing of `best`, which is the stale buffer |
| `PartProofs!BestCorrect`, `HighestCorrect` | `BestInDirectory`, `HighestWhenLonger` | the same; the last follows from the first two theorems |
| `PlaygroundProofs!PageTypeCorrect`, `ShownCorrect`, `LabelCorrect`, `BlameCorrect` | `PlayTypeOK`, `ShownIsOneRun`, `LabelMatches`, `BlameRight`, if `Shortcut` and `PickBusy` are false | `PageInv`: the page shows the first `k` stages of one run `q`; if a run is in flight it is `q`, and `k` and the ref are the stage it has announced (`StageInv` reads that off its `pc`). `ShownIsOneRun` alone does not say whose the next artifact will be |
| `WebAppProofs!WebTypeCorrect`, `PartProofs!TickTypeCorrect`, `SearchTypeCorrect`, `BuildTypeCorrect`, `MainTypeCorrect`, `ShimProofs!StrTypeCorrect`, `BlasTypeCorrect` | the type invariants of these modules | inductive, in `WebApp` within `LockInv` and `HistoryInv` |
| `ShimProofs!BuffersCorrect` | `RoomInBuffer` | inductive with the types: each growth rule leaves room for what is stored next and the zero behind it, whichever rule grew the buffer last |
| `PartProofs!JumpsAreLive` | `JumpsLive` | an inductive description of the stack: the first block saved NULL, the second the first, and each block of omc's the one below it. It is what makes a catch put back a jumper that is still there |
| `PartProofs!RealFunctionsWin` | `RealWins` | the recipes are always the rest of one goal, and when only the link is left after the stubs, the stubs were generated from the archives as they are; an edit or a link alone cannot come between. So no stub is in an archive that was listed (`NoneInFront`); of an archive that was not, what only it has is replaced if it is declared, which no argument can exclude |
| `ShimProofs!ElementsAreRight` | `AtItsElement` | `BlasInv`: after `step` turns `ix` is the first index plus `step` times the stride; that it stays inside the vector needs products of two variables, which the two signs and `CellInside` split for the prover |
| `ShimProofs!RoutinesAreRight` | `BlasRight` | `BlasInv` also says what each routine has done after `step` turns (`RightAfter`): the cells passed hold what they should, the others what they held. Two turns never meet in one cell unless the stride is 0 (`CellsDiffer`); a sum over one more element is the sum plus that element (`SumsAdd`); `dnrm2`'s rescaling keeps `scale * scale * ssq` equal to the sum of squares (`Rescale`) |
| `ShimProofs!PiecesCorrect` | `PiecesRight` | `PieceInv` has a clause for each function. `strtok`: the tokens so far are the runs that begin before `pos`. With delimiters: the pieces so far put together are the first `pos` characters. `stringReplace`: `out` is what stands for the first `pos` characters, and no replaced occurrence reaches over `pos`, without which the choice of occurrences from the left (`Replaced`, shown to exist by `BoundedRecursion`) could not be followed locally. `trim`: what is outside `pos` and `fin` is to be trimmed |
| `ShimProofs!TurnsAreBounded` | `TurnGetsCloser` | `TurnsLeft`, twice the string and two, shrinks with every turn; an empty delimiter is the one case where the search does not move |
| `TraceProofs!WholeFilesCorrect` | `OnlyWholeFiles` | `ReadInv`: the offset is where the matrix to be read next begins and never beyond the file's end, and the matrices read are the file's; with a matrix still to come the offset is before the end of the whole file, so reading stops early only at a file cut off |
| `TraceProofs!PlotsCorrect` | `PlotsItsVariables` | `PlotInv`: the series up to `turn` are the rows under their names, because no name occurs twice, and what is shown are the varying ones up to `turn`, counted in their order |
| `TraceProofs!EventsCorrect` | `EventsAtZeros` | `EventInv`: the marks so far are those of the sign changes up to this variable and this point, one each, in order; that the mark is inside its step and at the zero of the line is arithmetic on fractions |
| `TraceProofs!TraceTypeCorrect` | `TraceTypeOK` | the four invariants above with `PageInv`, the state between two plots |
| `CompositionProofs!EveryPartIsKept`, `PartsTypeCorrect` | `PartsSpec` implies the specification of each part (of `CStrings` without its fairness); `PartsTypeOK` | a step of the composition is a step of one part and stutters in the others, so a theorem about a part holds in the run that exercises it |
| `PipelineProofs!AwaitsCorrect` | `AwaitsPending` | a call that joins a promise finds it pending, and its settlement moves every call that waits |
| `PipelineProofs!CallsAreBounded` | `CallsGetCloser` | `AwaitsLeft` reads off `pc` and the loop index how many awaits are left; each step of a call lowers it, and no step of another call raises it |
| `PlaygroundProofs!PageImplementsPipeline` | `PlaySpec => Spec` | every action of the page is a step of the pipeline or leaves its variables alone, whatever `Shortcut` and `PickBusy` are |
| `WebAppProofs!BuildLockCorrect` | `BuildComesBack` | by `Alone` of `LockInv` the compile that ends is the only one, and each of its ends gives Build back |
| `WebAppProofs!HandlersAreBounded` | `HandlersGetCloser` | `LeftAt` counts the awaits left of a handler; `pc` of a call is written by nobody else |
| `PlaygroundProofs!RunningIsOwed` | `RunningOwed` | only `Run` sets `running`, for a call that has its `finally` before it, and `settled` never names a call that is still to start; unlike `ApartCorrect` it needs nothing of `Shortcut` |

Six of these are the **safety halves of the liveness properties**: `AwaitsCorrect` and
`CallsAreBounded` of `RunSettles`, `RunningIsOwed` of `RunningEnds`, `BuildLockCorrect` and
`HandlersAreBounded` of `Unblocked`, `TurnsAreBounded` of `CallEnds`. Nobody waits for
something that is not coming, and there are finitely many steps to wait for; what is left
to the runs is that under the fairness assumed the steps are taken.

**Induction over data.** What a loop has computed after `n` turns is part of an invariant,
so the steps of the specification are the induction. Where a definition itself runs over
the data (a concatenation, a sum, the choice of occurrences), `ShimProofs` proves
induction in a form whose hypothesis is a *set* of numbers: `SmallestNat` (a nonempty set
of naturals has a least element, from the library's well-foundedness of `<`),
`NatSetInduction`, and `BoundedRecursion` for functions on `0 .. n`. `FlattenAppend` and
`SumsAdd` are shown with it.

**Only model-checked:** the liveness properties `RunSettles`, `RunningEnds`, `Unblocked` and
`CallEnds`, which rest on fairness and `ENABLED` and are beyond the proof system.

## 5. Not modelled

* What omc, emcc and the simulation compute: they are not in this repository. They are
  choices over every outcome the code around them handles. The same is true of the MMC
  blocks inside omc that guard against stack overflows of their own.
* Most lines of the tree are third-party headers (`demo-app/headers`), generated C and
  generated models. They have no behaviour of this project, so the share of all lines
  that is mapped stays small however much of the project's own code is modelled.
* Rendering, tabs, logs, the table of the plain front end, Clear, and the settings
  written into `init.xml`: nothing else reads them.
* `Trace`: matrices of number types the runtime does not write; names beyond the rows of
  `data_2`; a header that disagrees with its data. Whether the runtime names its rows in
  the order `traceFromMat` expects is not decided by code in this repository.
* Wrap-around of `int` counters (undefined in C; no caller gets there), rounding of
  `double`s, and NULL strings, which MetaModelica does not have.
* `make -j`, under which `libs` and `stubs`, neither of which asks for the other, could
  run at once; the makefiles call it serially.
* Of the build of `omc.wasm`: the three archives of `build-deps.sh`, which are built once;
  one of them (`libomcgc.a`) is listed by `gen-stubs.py` and not linked, so that what only
  it defines would be undefined, an error of the link. A definition that is dragged in
  with another function of its archive member beside one in an object file is an error of
  the link, too (`Interrupt`).
* `dispose` of the emception client: the page never calls it.
* The reference comparison of `run-all.js`: nothing calls it yet, every model is skipped.
* `iterate-stubs.sh` and the older copies under `re-poc`; one-step wrappers, generated
  stubs, `omcweb_rt_compat.c` (constant answers), linear build and test scripts.

## 6. Plan

1. `Pipeline`, `RunAbs`: the asynchronous core and its abstract promise. *Done.*
2. `Playground`, composed with it. *Done.*
3. `WebApp`. *Done.*
4. `TmpTick`, `LoadModelPath`. *Done.*
5. `CStrings` with `stringReplace`'s buffer. *Done.*
6. `Trace`. *Done.*
7. `OmcBuild`, `OmcMain`, `Blas`. *Done.*
8. Proofs of the page, of the buffers, of the jump buffers, of the link. *Done.*
9. Proofs of the loops: what the string functions, the BLAS routines and the plots
   compute, for any input; the composition; the safety halves of the liveness
   properties. *Done.*
10. Left: the comparison of `run-all.js` once its runner exists; a caller of the
    pipeline with hooks of its own for each call, to say where a worker's output goes.
