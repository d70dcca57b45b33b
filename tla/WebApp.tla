------------------------------- MODULE WebApp -------------------------------
(***************************************************************************)
(* web/src/app.js with projects/emception-bundle/overlay.js: the plain     *)
(* front end with its Build, Compile, Run and download buttons.  build()   *)
(* is synchronous; compile(), run() and downloadC() are asynchronous and   *)
(* read the page's variables again behind their awaits.  Nothing but the   *)
(* `disabled' flags of the buttons keeps the handlers apart.               *)
(*                                                                         *)
(* As in Pipeline a file is known by the source it was generated from; the *)
(* translation units of one compile are taken together, because compile    *)
(* stops at the first that fails.  A null and an empty lastBuildFiles are  *)
(* not told apart: no enabled button distinguishes them.                   *)
(***************************************************************************)
EXTENDS Integers, FiniteSets

CONSTANTS
    Calls,      \* bound: the calls of compile, run and downloadC in flight at a time
    Sources, Names,
    ModelOf,    \* the model a source declares
    None

ASSUME WebAssumption ==
    /\ ModelOf \in [Sources -> Names]
    /\ None \notin Sources \cup Names

VARIABLES
    omcReady,
    lastFiles,      \* lastBuildFiles: the source they were generated from
    lastName,       \* lastModelName
    lastCompiled,   \* the source of the wasm and js
    lastMat,        \* the sources that went into the result, {} for null
    off,            \* the buttons that are disabled
    emInit,         \* the EmceptionClient: none, pending, ok or failed
    staged,         \* client._staged
    working, objs, linked,  \* the worker's /working/<model>.c, .o, .wasm
    pc,             \* the await a call is suspended at
    arg,            \* what the call works on: the files, the wasm, the zip's files
    argName,        \* the model name it captured
    xml,            \* the _init.xml a run captured
    mixedRun,       \* did a run stage another source's support files? (history)
    saved,          \* what was saved last, and under which name (history)
    hurried         \* was Build pressed while a run or a zip was in flight? (history)

clientVars == <<emInit, staged, working, objs, linked>>
lastVars == <<lastFiles, lastName, lastCompiled, lastMat>>
vars == <<omcReady, lastVars, off, clientVars, pc, arg, argName, xml, mixedRun,
          saved, hurried>>

Buttons == {"build", "compile", "run", "dlc", "dlmat"}
CompilePCs == {"init", "stage", "write", "cc", "link", "read"}
PCs == {"idle", "load", "zip"} \cup CompilePCs
Content == Sources \cup {None}

Compiling == {c \in Calls : pc[c] \in CompilePCs}
Reading   == {c \in Calls : pc[c] \in {"load", "zip"}}

Init ==
    /\ omcReady = FALSE
    /\ lastFiles = None
    /\ lastName = None
    /\ lastCompiled = None
    /\ lastMat = {}
    /\ off = Buttons
    /\ emInit = "none"
    /\ staged = FALSE
    /\ working = [n \in Names |-> None]
    /\ objs    = [n \in Names |-> None]
    /\ linked  = [n \in Names |-> None]
    /\ pc      = [c \in Calls |-> "idle"]
    /\ arg     = [c \in Calls |-> None]
    /\ argName = [c \in Calls |-> None]
    /\ xml     = [c \in Calls |-> None]
    /\ mixedRun = FALSE
    /\ saved = [of |-> {}, name |-> None]
    /\ hurried = FALSE

Goto(c, where) == pc' = [pc EXCEPT ![c] = where]

\* A call ends and its local variables with it.
End(c) ==
    /\ Goto(c, "idle")
    /\ arg'     = [arg EXCEPT ![c] = None]
    /\ argName' = [argName EXCEPT ![c] = None]
    /\ xml'     = [xml EXCEPT ![c] = None]

-----------------------------------------------------------------------------
(* Build.                                                                  *)

OnOMCReady ==
    /\ ~omcReady
    /\ omcReady' = TRUE
    /\ off' = off \ {"build"}
    /\ UNCHANGED <<lastVars, clientVars, pc, arg, argName, xml, mixedRun, saved, hurried>>

\* Mutant: build() keeps the previous compile.
CompiledAfterBuild_kept == lastCompiled

CompiledAfterBuild == None

\* Mutant: build() keeps the previous result.
MatAfterBuild_kept == lastMat

MatAfterBuild == {}

\* Mutant: the model name of the first build is kept.
NameAfterBuild_first(s) == IF lastName = None THEN ModelOf[s] ELSE lastName

\* The makefile found among the files names the model.
NameAfterBuild(s) == ModelOf[s]

\* Mutant: Compile is enabled whenever there are files.
OffAfterBuild_anyFiles(files, usable) ==
    (off \cup {"compile", "run", "dlc", "dlmat"}) \ IF files THEN {"compile", "dlc"} ELSE {}

\* The buttons that are off after a build that emitted files, usable or not.
OffAfterBuild(files, usable) ==
    (off \cup {"compile", "run", "dlc", "dlmat"})
       \ ((IF usable THEN {"compile"} ELSE {}) \cup IF files THEN {"dlc"} ELSE {})

\* build(): omc emits the model's files; or files that lack a makefile or a .c;
\* or none.  A trap in omc is shown and treated like any other outcome.
Build(s) ==
    /\ omcReady
    /\ "build" \notin off
    /\ hurried' = (hurried \/ Reading # {})
    /\ lastCompiled' = CompiledAfterBuild
    /\ lastMat' = MatAfterBuild
    /\ \/ /\ lastFiles' = s
          /\ lastName' = NameAfterBuild(s)
          /\ off' = OffAfterBuild(TRUE, TRUE)
       \/ /\ lastFiles' = s
          /\ lastName' \in {None, NameAfterBuild(s)}
          /\ off' = OffAfterBuild(TRUE, FALSE)
       \/ /\ lastFiles' = None
          /\ lastName' = None
          /\ off' = OffAfterBuild(FALSE, FALSE)
    /\ UNCHANGED <<omcReady, clientVars, pc, arg, argName, xml, mixedRun, saved>>

-----------------------------------------------------------------------------
(* Compile: app.js compile() and EmceptionClient.compileModel().           *)

\* Mutant: compile() leaves Build enabled.
OffInCompile_notBuild == {"compile", "run"}

\* Mutant: a misspelt element id.
OffInCompile_typo == {"builds", "compile", "run"}

\* The buttons compile() disables.
OffInCompile == {"build", "compile", "run"}

\* compileModel(lastModelName, lastBuildFiles) is called.
CallCompileModel(c) ==
    /\ arg' = [arg EXCEPT ![c] = lastFiles]
    /\ argName' = [argName EXCEPT ![c] = lastName]
    /\ Goto(c, "stage")

\* The first compile makes the client and awaits its init; the page keeps the
\* client whatever becomes of the init.
Compile(c) ==
    /\ pc[c] = "idle"
    /\ "compile" \notin off
    /\ lastFiles # None /\ lastName # None
    /\ off' = off \cup OffInCompile
    /\ \/ /\ emInit = "none"
          /\ emInit' = "pending"
          /\ Goto(c, "init")
          /\ UNCHANGED <<arg, argName>>
       \/ /\ emInit # "none"
          /\ CallCompileModel(c)
          /\ UNCHANGED emInit
    /\ UNCHANGED <<omcReady, lastVars, staged, working, objs, linked, xml, mixedRun,
                   saved, hurried>>

\* The finally of compile().
OffAfterThrow == (off \ {"build"}) \ (IF lastFiles = None THEN {} ELSE {"compile"})

InitOk(c) ==
    /\ pc[c] = "init"
    /\ emInit' = "ok"
    /\ CallCompileModel(c)
    /\ UNCHANGED <<omcReady, lastVars, off, staged, working, objs, linked, xml, mixedRun,
                   saved, hurried>>

InitFails(c) ==
    /\ pc[c] = "init"
    /\ emInit' = "failed"
    /\ off' = OffAfterThrow
    /\ End(c)
    /\ UNCHANGED <<omcReady, lastVars, staged, working, objs, linked, mixedRun, saved, hurried>>

\* _stageRuntimeFS: once per client.  Its own call of init returns at once, since
\* _em is set, also behind an init that failed.
StageRuntimeFS(c) ==
    /\ pc[c] = "stage"
    /\ staged' = TRUE
    /\ Goto(c, "write")
    /\ UNCHANGED <<omcReady, lastVars, off, emInit, working, objs, linked, arg, argName,
                   xml, mixedRun, saved, hurried>>

WriteFiles(c) ==
    /\ pc[c] = "write"
    /\ working' = [working EXCEPT ![argName[c]] = arg[c]]
    /\ Goto(c, "cc")
    /\ UNCHANGED <<omcReady, lastVars, off, emInit, staged, objs, linked, arg, argName,
                   xml, mixedRun, saved, hurried>>

CompileTUs(c) ==
    /\ pc[c] = "cc"
    /\ objs' = [objs EXCEPT ![argName[c]] = working[argName[c]]]
    /\ Goto(c, "link")
    /\ UNCHANGED <<omcReady, lastVars, off, emInit, staged, working, linked, arg, argName,
                   xml, mixedRun, saved, hurried>>

Link(c) ==
    /\ pc[c] = "link"
    /\ linked' = [linked EXCEPT ![argName[c]] = objs[argName[c]]]
    /\ Goto(c, "read")
    /\ UNCHANGED <<omcReady, lastVars, off, emInit, staged, working, objs, arg, argName,
                   xml, mixedRun, saved, hurried>>

\* compileModel returns; compile() keeps the result and enables the buttons.
ReadBack(c) ==
    /\ pc[c] = "read"
    /\ lastCompiled' = linked[argName[c]]
    /\ off' = OffAfterThrow \ {"run"}
    /\ End(c)
    /\ UNCHANGED <<omcReady, lastFiles, lastName, lastMat, clientVars, mixedRun, saved, hurried>>

\* Any await of compileModel rejects, or emcc returns non-zero.
CompileThrows(c) ==
    /\ pc[c] \in CompilePCs \ {"init"}
    /\ off' = OffAfterThrow
    /\ End(c)
    /\ UNCHANGED <<omcReady, lastVars, clientVars, mixedRun, saved, hurried>>

-----------------------------------------------------------------------------
(* Run.                                                                    *)

\* run() captures the wasm and the patched _init.xml and instantiates.
Run(c) ==
    /\ pc[c] = "idle"
    /\ "run" \notin off
    /\ lastCompiled # None
    /\ arg' = [arg EXCEPT ![c] = lastCompiled]
    /\ argName' = [argName EXCEPT ![c] = lastName]
    /\ xml' = [xml EXCEPT ![c] = lastFiles]
    /\ off' = off \cup {"run"}
    /\ Goto(c, "load")
    /\ UNCHANGED <<omcReady, lastVars, clientVars, mixedRun, saved, hurried>>

\* Mutant: the watchdog reports but does not end the run.
LoadFails_hangs(c) == FALSE

\* The module aborts, its script throws, or the 10 s watchdog fires first.
LoadFails(c) ==
    /\ pc[c] = "load"
    /\ off' = off \ {"run"}
    /\ End(c)
    /\ UNCHANGED <<omcReady, lastVars, clientVars, mixedRun, saved, hurried>>

\* The _init.xml that run() patched is written if the present build has a file of
\* that name, and the result is looked up under the present model name.
ResultFound(c) ==
    /\ lastFiles # None
    /\ ModelOf[lastFiles] = argName[c]
    /\ lastName = ModelOf[arg[c]]

\* The module is up: the present build's files are staged, the simulation runs,
\* the result, if there is one, is kept and rendered.  An exception of the
\* rendering leaves Run disabled.
Loaded(c) ==
    /\ pc[c] = "load"
    /\ mixedRun' = (mixedRun \/ lastFiles # arg[c])
    /\ \/ /\ ResultFound(c)
          /\ lastMat' = {arg[c], xml[c], lastFiles}
          /\ off' \in {off \ {"run", "dlmat"}, off \ {"dlmat"}}
       \/ /\ off' = off \ {"run"}
          /\ UNCHANGED lastMat
    /\ End(c)
    /\ UNCHANGED <<omcReady, lastFiles, lastName, lastCompiled, clientVars, saved, hurried>>

-----------------------------------------------------------------------------
(* Downloads.                                                              *)

Save(content) == saved' = [of |-> content, name |-> lastName]

\* downloadC(): the files are captured, the name is read behind the await.
DownloadC(c) ==
    /\ pc[c] = "idle"
    /\ "dlc" \notin off
    /\ lastFiles # None
    /\ arg' = [arg EXCEPT ![c] = lastFiles]
    /\ Goto(c, "zip")
    /\ UNCHANGED <<omcReady, lastVars, off, clientVars, argName, xml, mixedRun, saved, hurried>>

ZipDone(c) ==
    /\ pc[c] = "zip"
    /\ Save({arg[c]})
    /\ End(c)
    /\ UNCHANGED <<omcReady, lastVars, off, clientVars, mixedRun,
                   hurried>>

\* The zip is not made: the handler rejects, and nothing catches it.
ZipFails(c) ==
    /\ pc[c] = "zip"
    /\ End(c)
    /\ UNCHANGED <<omcReady, lastVars, off, clientVars, mixedRun, saved, hurried>>

DownloadMat ==
    /\ "dlmat" \notin off
    /\ lastMat # {}
    /\ Save(lastMat)
    /\ UNCHANGED <<omcReady, lastVars, off, clientVars, pc, arg, argName, xml, mixedRun,
                   hurried>>

-----------------------------------------------------------------------------
\* What a call does once its await has settled.
Step(c) ==
    \/ InitOk(c) \/ InitFails(c) \/ StageRuntimeFS(c) \/ WriteFiles(c) \/ CompileTUs(c)
    \/ Link(c) \/ ReadBack(c) \/ CompileThrows(c)
    \/ ZipDone(c) \/ ZipFails(c)

Next ==
    \/ OnOMCReady
    \/ DownloadMat
    \/ \E s \in Sources : Build(s)
    \/ \E c \in Calls : Compile(c) \/ Run(c) \/ DownloadC(c)
    \/ \E c \in Calls : Step(c) \/ LoadFails(c) \/ Loaded(c)

Spec == Init /\ [][Next]_vars

\* The worker and the zip answer, and the watchdog's timer fires.
FairSpec ==
    /\ Spec
    /\ \A c \in Calls : WF_vars(Step(c)) /\ WF_vars(LoadFails(c))

-----------------------------------------------------------------------------
(* Properties.                                                             *)

TypeOK ==
    /\ omcReady \in BOOLEAN
    /\ lastFiles \in Content
    /\ lastName \in Names \cup {None}
    /\ lastCompiled \in Content
    /\ lastMat \subseteq Content
    /\ off \subseteq Buttons
    /\ emInit \in {"none", "pending", "ok", "failed"}
    /\ staged \in BOOLEAN
    /\ working \in [Names -> Content]
    /\ objs    \in [Names -> Content]
    /\ linked  \in [Names -> Content]
    /\ pc \in [Calls -> PCs]
    /\ arg \in [Calls -> Content]
    /\ argName \in [Calls -> Names \cup {None}]
    /\ xml \in [Calls -> Content]
    /\ mixedRun \in BOOLEAN
    /\ saved \in [of : SUBSET Content, name : Names \cup {None}]
    /\ hurried \in BOOLEAN

\* The flags are a lock: at most one compile is in flight, though a run that ends
\* meanwhile enables buttons of its own, and no build changes its inputs.
CompileAlone ==
    /\ \A c, d \in Compiling : c = d
    /\ Compiling # {} => {"build", "compile"} \subseteq off

\* What Run would load was compiled from the files of the present build, in every
\* order in which the user presses the buttons.
CompiledOfBuild == lastCompiled # None => lastCompiled = lastFiles

\* Compile is offered only when the last build can be compiled.
CompileUsable == "compile" \notin off => lastFiles # None /\ lastName = ModelOf[lastFiles]

\* As long as Build was never pressed while a run or a zip was in flight, the result
\* that is shown and offered is of the present build alone, and Run is offered only
\* with something to run.
ResultOfBuild ==
    ~hurried =>
        /\ lastMat # {} => lastMat = {lastFiles}
        /\ "run" \notin off => lastCompiled # None

\* ... and what is saved is saved under the name of its model.
SavedUnderItsName ==
    ~hurried => \A s \in saved.of : ModelOf[s] = saved.name \/ saved.name = None

\* A run loads "the just-compiled wasm" and stages its "support files into its
\* MEMFS" (the head of app.js): wasm and support files are of one build.
SupportFilesMatch == ~mixedRun

\* Every run ends, and the page always comes back to offering Build, whatever
\* fails: the watchdog and the finally see to it.
Unblocked ==
    /\ \A c \in Calls : pc[c] = "load" ~> pc[c] # "load"
    /\ omcReady ~> []<>("build" \notin off)

=============================================================================
