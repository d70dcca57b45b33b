----------------------------- MODULE WebAppProofs -----------------------------
(* The buttons of web/src/app.js as a lock, for any number of calls, sources   *)
(* and models.                                                                 *)
EXTENDS WebApp, TLAPS

\* The last build can be compiled.
Usable == lastFiles # None /\ lastName = ModelOf[lastFiles]

\* What a compile in flight relies on: the build it started from is still the present
\* one, and the worker holds its files as far as it has come.
CompileInv ==
    \A c \in Compiling :
        /\ Usable
        /\ {"build", "compile"} \subseteq off
        /\ pc[c] # "init" => arg[c] = lastFiles /\ argName[c] = lastName
        /\ pc[c] = "cc"   => working[lastName] = lastFiles
        /\ pc[c] = "link" => objs[lastName] = lastFiles
        /\ pc[c] = "read" => linked[lastName] = lastFiles

Alone == \A c, d \in Compiling : c = d

\* Before omc is up no button works, so nothing is in flight.
NotReady == ~omcReady => off = Buttons /\ \A c \in Calls : pc[c] = "idle"

LockInv == TypeOK /\ NotReady /\ Alone /\ CompileInv /\ CompiledOfBuild /\ CompileUsable

-----------------------------------------------------------------------------
\* The files and the name of a compile in flight are those of the present build.
LEMMA AtWork ==
    ASSUME LockInv, NEW c \in Calls, pc[c] \in CompilePCs \ {"init"}
    PROVE  /\ lastFiles \in Sources /\ lastName \in Names
           /\ lastName = ModelOf[lastFiles]
           /\ arg[c] = lastFiles /\ argName[c] = lastName
<1>1. c \in Compiling
  BY DEF Compiling
<1>2. Usable /\ arg[c] = lastFiles /\ argName[c] = lastName
  BY <1>1 DEF LockInv, CompileInv
<1> QED BY <1>2, WebAssumption DEF LockInv, TypeOK, Usable, Content

LEMMA EndType ==
    ASSUME TypeOK, NEW c \in Calls, End(c)
    PROVE  /\ pc' \in [Calls -> PCs]
           /\ arg' \in [Calls -> Content]
           /\ argName' \in [Calls -> Names \cup {None}]
           /\ xml' \in [Calls -> Content]
<1>1. None \in Content /\ "idle" \in PCs
  BY DEF Content, PCs
<1>2. pc' \in [Calls -> PCs] /\ arg' \in [Calls -> Content]
  BY <1>1 DEF TypeOK, End, Goto
<1>3. argName' \in [Calls -> Names \cup {None}] /\ xml' \in [Calls -> Content]
  BY <1>1 DEF TypeOK, End
<1> QED BY <1>2, <1>3

\* TypeOK, whatever is pressed and whatever fails.
LEMMA TypeStep ==
    ASSUME LockInv, [Next]_vars PROVE TypeOK'
<1>0. TypeOK
  BY DEF LockInv
<1> USE <1>0, WebAssumption DEF TypeOK, lastVars, clientVars, Goto, PCs, CompilePCs
<1>1. CASE OnOMCReady
  BY <1>1 DEF OnOMCReady, Buttons
<1>2. CASE DownloadMat
  BY <1>2 DEF DownloadMat, Save
<1>3. ASSUME NEW s \in Sources, Build(s) PROVE TypeOK'
  <2>1. lastFiles' \in Content /\ lastName' \in Names \cup {None}
    <3>1. NameAfterBuild(s) \in Names
      BY DEF NameAfterBuild
    <3>2. lastFiles' \in {s, None} /\ lastName' \in {None, NameAfterBuild(s)}
      BY <1>3 DEF Build
    <3> QED BY <3>1, <3>2 DEF Content
  <2>2. off' \subseteq Buttons
    <3>1. \A f, u \in BOOLEAN : OffAfterBuild(f, u) \subseteq Buttons
      BY DEF OffAfterBuild, Buttons
    <3>2. \E f, u \in BOOLEAN : off' = OffAfterBuild(f, u)
      BY <1>3 DEF Build
    <3> QED BY <3>1, <3>2
  <2>3. lastCompiled' \in Content /\ lastMat' \subseteq Content
    BY <1>3 DEF Build, CompiledAfterBuild, MatAfterBuild, Content
  <2> QED BY <1>3, <2>1, <2>2, <2>3 DEF Build
<1>4. ASSUME NEW c \in Calls, Compile(c) PROVE TypeOK'
  <2>1. off' \subseteq Buttons /\ emInit' \in {"none", "pending", "ok", "failed"}
        /\ pc' \in [Calls -> PCs]
    BY <1>4 DEF Compile, OffInCompile, Buttons, CallCompileModel
  <2>2. arg' \in [Calls -> Content] /\ argName' \in [Calls -> Names \cup {None}]
    BY <1>4 DEF Compile, CallCompileModel
  <2> QED BY <1>4, <2>1, <2>2 DEF Compile
<1>5. ASSUME NEW c \in Calls, Run(c) PROVE TypeOK'
  <2>1. arg' \in [Calls -> Content] /\ argName' \in [Calls -> Names \cup {None}]
        /\ xml' \in [Calls -> Content]
    BY <1>5 DEF Run
  <2>2. off' \subseteq Buttons /\ pc' \in [Calls -> PCs]
    BY <1>5 DEF Run, Buttons
  <2> QED BY <1>5, <2>1, <2>2 DEF Run
<1>6. ASSUME NEW c \in Calls, DownloadC(c) PROVE TypeOK'
  BY <1>6 DEF DownloadC
<1>7. ASSUME NEW c \in Calls, InitOk(c) PROVE TypeOK'
  BY <1>7 DEF InitOk, CallCompileModel
<1>8. ASSUME NEW c \in Calls, InitFails(c) PROVE TypeOK'
  <2>1. off' \subseteq Buttons
    BY <1>8 DEF InitFails, OffAfterThrow
  <2> QED BY <1>8, <2>1, EndType DEF InitFails
<1>9. ASSUME NEW c \in Calls, StageRuntimeFS(c) PROVE TypeOK'
  BY <1>9 DEF StageRuntimeFS
<1>10. ASSUME NEW c \in Calls, WriteFiles(c) PROVE TypeOK'
  BY <1>10 DEF WriteFiles
<1>11. ASSUME NEW c \in Calls, CompileTUs(c) PROVE TypeOK'
  <2>1. objs' \in [Names -> Content]
    BY <1>11, AtWork DEF CompileTUs
  <2>2. pc' \in [Calls -> PCs]
    BY <1>11 DEF CompileTUs
  <2> QED BY <1>11, <2>1, <2>2 DEF CompileTUs
<1>12. ASSUME NEW c \in Calls, Link(c) PROVE TypeOK'
  <2>1. linked' \in [Names -> Content]
    BY <1>12, AtWork DEF Link
  <2>2. pc' \in [Calls -> PCs]
    BY <1>12 DEF Link
  <2> QED BY <1>12, <2>1, <2>2 DEF Link
<1>13. ASSUME NEW c \in Calls, CompileThrows(c) PROVE TypeOK'
  <2>1. off' \subseteq Buttons
    BY <1>13 DEF CompileThrows, OffAfterThrow
  <2> QED BY <1>13, <2>1, EndType DEF CompileThrows
<1>14. ASSUME NEW c \in Calls, ZipDone(c) \/ ZipFails(c) PROVE TypeOK'
  <2>1. saved' \in [of : SUBSET Content, name : Names \cup {None}]
    BY <1>14 DEF ZipDone, ZipFails, Save
  <2> QED BY <1>14, <2>1, EndType DEF ZipDone, ZipFails
<1>15. ASSUME NEW c \in Calls, LoadFails(c) PROVE TypeOK'
  <2>1. off' \subseteq Buttons
    BY <1>15 DEF LoadFails
  <2> QED BY <1>15, <2>1, EndType DEF LoadFails
<1>16. ASSUME NEW c \in Calls, Loaded(c) PROVE TypeOK'
  <2>1. lastMat' \subseteq Content /\ off' \subseteq Buttons
    BY <1>16 DEF Loaded
  <2>2. mixedRun' \in BOOLEAN
    BY <1>16 DEF Loaded
  <2> QED BY <1>16, <2>1, <2>2, EndType DEF Loaded
<1>17. ASSUME NEW c \in Calls, ReadBack(c) PROVE TypeOK'
  <2>1. lastCompiled' \in Content
    BY <1>17, AtWork DEF ReadBack
  <2>2. off' \subseteq Buttons
    BY <1>17 DEF ReadBack, OffAfterThrow
  <2> QED BY <1>17, <2>1, <2>2, EndType DEF ReadBack
<1>18. CASE UNCHANGED vars
  BY <1>18 DEF vars
<1> QED BY <1>1, <1>2, <1>3, <1>4, <1>5, <1>6, <1>7, <1>8, <1>9, <1>10, <1>11, <1>12,
           <1>13, <1>14, <1>15, <1>16, <1>17, <1>18 DEF Next, Step

-----------------------------------------------------------------------------
\* A step of a run or a download touches neither the lock nor what it protects.
LEMMA Quiet ==
    ASSUME LockInv, TypeOK', omcReady, omcReady',
           UNCHANGED <<lastFiles, lastName, lastCompiled, working, objs, linked>>,
           NEW c \in Calls, pc[c] \notin CompilePCs, pc'[c] \notin CompilePCs,
           \A d \in Calls \ {c} : pc'[d] = pc[d] /\ arg'[d] = arg[d]
                                   /\ argName'[d] = argName[d],
           off' \cap {"build", "compile"} = off \cap {"build", "compile"}
    PROVE  LockInv'
<1>1. /\ Compiling' = Compiling
      /\ \A d \in Compiling : d \in Calls /\ pc'[d] = pc[d] /\ arg'[d] = arg[d]
                                 /\ argName'[d] = argName[d]
  BY DEF Compiling
<1>2. NotReady' /\ Alone' /\ CompiledOfBuild' /\ CompileUsable'
  BY <1>1 DEF LockInv, NotReady, Alone, CompiledOfBuild, CompileUsable
<1>3. CompileInv'
  <2> SUFFICES ASSUME NEW d \in Compiling
               PROVE  /\ Usable'
                      /\ {"build", "compile"} \subseteq off'
                      /\ pc'[d] # "init" => arg'[d] = lastFiles' /\ argName'[d] = lastName'
                      /\ pc'[d] = "cc"   => working'[lastName'] = lastFiles'
                      /\ pc'[d] = "link" => objs'[lastName'] = lastFiles'
                      /\ pc'[d] = "read" => linked'[lastName'] = lastFiles'
    BY <1>1 DEF CompileInv
  <2>1. Usable /\ {"build", "compile"} \subseteq off
    BY DEF LockInv, CompileInv
  <2>2. Usable' /\ {"build", "compile"} \subseteq off'
    BY <2>1 DEF Usable
  <2> QED BY <1>1, <2>2 DEF LockInv, CompileInv
<1> QED BY <1>2, <1>3 DEF LockInv

\* The one compile in flight takes a step of its own: nobody else is compiling, so it
\* is enough to look at that call.
LEMMA OwnStep ==
    ASSUME LockInv, TypeOK',
           UNCHANGED <<omcReady, lastFiles, lastName, lastCompiled, off>>,
           NEW c \in Calls, pc[c] \in CompilePCs, pc'[c] \in CompilePCs \ {"init"},
           \A d \in Calls \ {c} : pc'[d] = pc[d],
           arg'[c] = lastFiles, argName'[c] = lastName,
           pc'[c] = "cc"   => working'[lastName] = lastFiles,
           pc'[c] = "link" => objs'[lastName] = lastFiles,
           pc'[c] = "read" => linked'[lastName] = lastFiles
    PROVE  LockInv'
<1>1. Compiling = {c} /\ Compiling' = {c}
  BY DEF LockInv, Alone, Compiling
<1>2. Usable /\ {"build", "compile"} \subseteq off /\ omcReady
  BY <1>1 DEF LockInv, CompileInv, NotReady, CompilePCs
<1>3. NotReady' /\ Alone' /\ CompiledOfBuild' /\ CompileUsable'
  BY <1>1, <1>2 DEF LockInv, NotReady, Alone, CompiledOfBuild, CompileUsable
<1>4. CompileInv'
  BY <1>1, <1>2 DEF CompileInv, Usable
<1> QED BY <1>3, <1>4 DEF LockInv

\* A compile ends, well or not: the buttons come back for a build that can be compiled.
LEMMA EndOfCompile ==
    ASSUME LockInv, TypeOK',
           UNCHANGED <<omcReady, lastFiles, lastName>>,
           lastCompiled' \in {lastCompiled, lastFiles},
           NEW c \in Calls, pc[c] \in CompilePCs, pc'[c] = "idle",
           \A d \in Calls \ {c} : pc'[d] = pc[d]
    PROVE  LockInv'
<1>1. Compiling = {c} /\ Compiling' = {}
  BY DEF LockInv, Alone, Compiling, CompilePCs
<1>2. Usable /\ omcReady
  BY <1>1 DEF LockInv, CompileInv, NotReady, CompilePCs
<1>3. NotReady' /\ Alone' /\ CompiledOfBuild' /\ CompileUsable'
  BY <1>1, <1>2 DEF LockInv, NotReady, Alone, CompiledOfBuild, CompileUsable, Usable
<1>4. CompileInv'
  BY <1>1 DEF CompileInv
<1> QED BY <1>3, <1>4 DEF LockInv

LEMMA LockStep ==
    ASSUME LockInv, [Next]_vars PROVE LockInv'
<1>0. TypeOK /\ TypeOK'
  BY TypeStep DEF LockInv
<1> USE WebAssumption, <1>0 DEF Goto, End
<1>1. CASE OnOMCReady
  <2>1. Compiling = {} /\ Compiling' = {} /\ omcReady'
    BY <1>1 DEF OnOMCReady, LockInv, NotReady, Compiling, CompilePCs
  <2>2. CompiledOfBuild' /\ CompileUsable'
    BY <1>1 DEF OnOMCReady, LockInv, CompiledOfBuild, CompileUsable, lastVars
  <2> QED BY <2>1, <2>2 DEF LockInv, NotReady, Alone, CompileInv
<1>2. CASE DownloadMat
  <2>1. UNCHANGED <<omcReady, lastVars, off, clientVars, pc, arg, argName>>
    BY <1>2 DEF DownloadMat
  <2>2. NotReady' /\ Alone' /\ CompiledOfBuild' /\ CompileUsable' /\ CompileInv'
    BY <2>1 DEF LockInv, NotReady, Alone, Compiling, CompiledOfBuild, CompileUsable,
                CompileInv, Usable, lastVars, clientVars
  <2> QED BY <2>2 DEF LockInv
<1>3. ASSUME NEW s \in Sources, Build(s) PROVE LockInv'
  <2>1. Compiling = {}
    BY <1>3 DEF Build, LockInv, CompileInv
  <2>2. Compiling' = {} /\ omcReady'
    BY <1>3, <2>1 DEF Build, Compiling
  <2>3. CompiledOfBuild'
    BY <1>3 DEF Build, CompiledAfterBuild, CompiledOfBuild
  <2>4. CompileUsable'
    <3>1. CASE lastFiles' = s /\ lastName' = NameAfterBuild(s)
      BY <3>1 DEF NameAfterBuild, CompileUsable
    <3>2. CASE off' \in {OffAfterBuild(TRUE, FALSE), OffAfterBuild(FALSE, FALSE)}
      BY <3>2 DEF OffAfterBuild, CompileUsable
    <3> QED BY <1>3, <3>1, <3>2 DEF Build
  <2> QED BY <2>2, <2>3, <2>4 DEF LockInv, NotReady, Alone, CompileInv
<1>4. ASSUME NEW c \in Calls, Compile(c) PROVE LockInv'
  <2>1. Usable /\ omcReady /\ "compile" \notin off
    BY <1>4 DEF Compile, LockInv, CompileUsable, NotReady, Buttons, Usable
  <2>2. Compiling = {}
    BY <2>1 DEF LockInv, CompileInv
  <2>3. UNCHANGED <<omcReady, lastFiles, lastName, lastCompiled>>
        /\ {"build", "compile"} \subseteq off'
    BY <1>4 DEF Compile, OffInCompile, lastVars
  <2>4. Compiling' = {c}
    BY <1>4, <2>2 DEF Compile, CallCompileModel, Compiling, CompilePCs, TypeOK
  <2>5. /\ pc'[c] \in {"init", "stage"}
        /\ pc'[c] = "stage" => arg'[c] = lastFiles /\ argName'[c] = lastName
    BY <1>4 DEF Compile, CallCompileModel, TypeOK
  <2>6. CompileInv'
    BY <2>1, <2>3, <2>4, <2>5 DEF CompileInv, Usable
  <2>7. NotReady' /\ Alone' /\ CompiledOfBuild' /\ CompileUsable'
    BY <2>1, <2>3, <2>4 DEF NotReady, Alone, LockInv, CompiledOfBuild, CompileUsable
  <2> QED BY <2>6, <2>7 DEF LockInv
<1>5. ASSUME NEW c \in Calls, Run(c) PROVE LockInv'
  <2>1. omcReady /\ omcReady'
    BY <1>5 DEF Run, LockInv, NotReady, Buttons
  <2>2. pc[c] = "idle" /\ pc'[c] = "load"
        /\ \A d \in Calls \ {c} : pc'[d] = pc[d] /\ arg'[d] = arg[d]
                                  /\ argName'[d] = argName[d]
    BY <1>5 DEF Run, TypeOK
  <2> QED BY <1>5, <2>1, <2>2, Quiet DEF Run, lastVars, clientVars, CompilePCs
<1>6. ASSUME NEW c \in Calls, DownloadC(c) PROVE LockInv'
  <2>1. omcReady /\ omcReady'
    BY <1>6 DEF DownloadC, LockInv, NotReady, Buttons
  <2>2. pc[c] = "idle" /\ pc'[c] = "zip"
        /\ \A d \in Calls \ {c} : pc'[d] = pc[d] /\ arg'[d] = arg[d]
                                  /\ argName'[d] = argName[d]
    BY <1>6 DEF DownloadC, TypeOK
  <2> QED BY <1>6, <2>1, <2>2, Quiet DEF DownloadC, lastVars, clientVars, CompilePCs
<1>7. ASSUME NEW c \in Calls, ZipDone(c) \/ ZipFails(c) \/ LoadFails(c) \/ Loaded(c) PROVE LockInv'
  <2>1. pc[c] \in {"zip", "load"} /\ pc'[c] = "idle"
        /\ \A d \in Calls \ {c} : pc'[d] = pc[d] /\ arg'[d] = arg[d]
                                  /\ argName'[d] = argName[d]
    BY <1>7 DEF ZipDone, ZipFails, LoadFails, Loaded, TypeOK
  <2>2. omcReady /\ omcReady'
    BY <1>7, <2>1 DEF ZipDone, ZipFails, LoadFails, Loaded, LockInv, NotReady
  <2>3. off' \cap {"build", "compile"} = off \cap {"build", "compile"}
    BY <1>7 DEF ZipDone, ZipFails, LoadFails, Loaded
  <2>4. UNCHANGED <<lastFiles, lastName, lastCompiled, clientVars>>
    BY <1>7 DEF ZipDone, ZipFails, LoadFails, Loaded, lastVars
  <2> QED BY <2>1, <2>2, <2>3, <2>4, Quiet DEF clientVars, CompilePCs
<1>8. ASSUME NEW c \in Calls, InitOk(c) PROVE LockInv'
  <2>1. pc[c] = "init" /\ pc'[c] = "stage" /\ (\A d \in Calls \ {c} : pc'[d] = pc[d])
        /\ arg'[c] = lastFiles /\ argName'[c] = lastName
    BY <1>8 DEF InitOk, CallCompileModel, TypeOK
  <2> QED BY <1>8, <2>1, OwnStep DEF InitOk, lastVars, CompilePCs
<1>9. ASSUME NEW c \in Calls, StageRuntimeFS(c) PROVE LockInv'
  <2>1. pc[c] = "stage" /\ pc'[c] = "write" /\ (\A d \in Calls \ {c} : pc'[d] = pc[d])
    BY <1>9 DEF StageRuntimeFS, TypeOK
  <2>2. arg'[c] = lastFiles /\ argName'[c] = lastName
    BY <1>9, <2>1, AtWork DEF StageRuntimeFS, CompilePCs
  <2> QED BY <1>9, <2>1, <2>2, OwnStep DEF StageRuntimeFS, lastVars, CompilePCs
<1>10. ASSUME NEW c \in Calls, WriteFiles(c) PROVE LockInv'
  <2>1. pc[c] = "write" /\ pc'[c] = "cc" /\ (\A d \in Calls \ {c} : pc'[d] = pc[d])
    BY <1>10 DEF WriteFiles, TypeOK
  <2>2. arg'[c] = lastFiles /\ argName'[c] = lastName /\ working'[lastName] = lastFiles
    BY <1>10, <2>1, AtWork DEF WriteFiles, CompilePCs, TypeOK
  <2> QED BY <1>10, <2>1, <2>2, OwnStep DEF WriteFiles, lastVars, CompilePCs
<1>11. ASSUME NEW c \in Calls, CompileTUs(c) PROVE LockInv'
  <2>1. pc[c] = "cc" /\ pc'[c] = "link" /\ (\A d \in Calls \ {c} : pc'[d] = pc[d])
    BY <1>11 DEF CompileTUs, TypeOK
  <2>2. working[lastName] = lastFiles
    BY <2>1 DEF LockInv, CompileInv, Compiling, CompilePCs
  <2>3. arg'[c] = lastFiles /\ argName'[c] = lastName /\ objs'[lastName] = lastFiles
    BY <1>11, <2>1, <2>2, AtWork DEF CompileTUs, CompilePCs, TypeOK
  <2> QED BY <1>11, <2>1, <2>3, OwnStep DEF CompileTUs, lastVars, CompilePCs
<1>12. ASSUME NEW c \in Calls, Link(c) PROVE LockInv'
  <2>1. pc[c] = "link" /\ pc'[c] = "read" /\ (\A d \in Calls \ {c} : pc'[d] = pc[d])
    BY <1>12 DEF Link, TypeOK
  <2>2. objs[lastName] = lastFiles
    BY <2>1 DEF LockInv, CompileInv, Compiling, CompilePCs
  <2>3. arg'[c] = lastFiles /\ argName'[c] = lastName /\ linked'[lastName] = lastFiles
    BY <1>12, <2>1, <2>2, AtWork DEF Link, CompilePCs, TypeOK
  <2> QED BY <1>12, <2>1, <2>3, OwnStep DEF Link, lastVars, CompilePCs
<1>13. ASSUME NEW c \in Calls, ReadBack(c) PROVE LockInv'
  <2>1. pc[c] = "read" /\ pc'[c] = "idle" /\ (\A d \in Calls \ {c} : pc'[d] = pc[d])
    BY <1>13 DEF ReadBack, TypeOK
  <2>2. lastCompiled' = lastFiles
    <3>1. linked[lastName] = lastFiles
      BY <2>1 DEF LockInv, CompileInv, Compiling, CompilePCs
    <3> QED BY <1>13, <2>1, <3>1, AtWork DEF ReadBack, CompilePCs
  <2> QED BY <1>13, <2>1, <2>2, EndOfCompile DEF ReadBack, CompilePCs
<1>14. ASSUME NEW c \in Calls, InitFails(c) \/ CompileThrows(c) PROVE LockInv'
  <2>1. pc[c] \in CompilePCs /\ pc'[c] = "idle" /\ (\A d \in Calls \ {c} : pc'[d] = pc[d])
    BY <1>14 DEF InitFails, CompileThrows, TypeOK, CompilePCs
  <2> QED BY <1>14, <2>1, EndOfCompile DEF InitFails, CompileThrows, lastVars
<1>15. CASE UNCHANGED vars
  <2>1. NotReady' /\ Alone' /\ CompiledOfBuild' /\ CompileUsable' /\ CompileInv'
    BY <1>15 DEF LockInv, NotReady, Alone, Compiling, CompiledOfBuild, CompileUsable,
                 CompileInv, Usable, vars, lastVars, clientVars
  <2> QED BY <2>1 DEF LockInv
<1> QED BY <1>1, <1>2, <1>3, <1>4, <1>5, <1>6, <1>7, <1>8, <1>9, <1>10, <1>11, <1>12,
           <1>13, <1>14, <1>15 DEF Next, Step

LEMMA LockInductive == Spec => []LockInv
<1>1. Init => LockInv
  <2> SUFFICES ASSUME Init PROVE LockInv
    OBVIOUS
  <2>1. Compiling = {}
    BY DEF Init, Compiling, CompilePCs
  <2>2. TypeOK
    BY DEF Init, TypeOK, Content, PCs
  <2> QED BY <2>1, <2>2 DEF Init, LockInv, NotReady, Alone, CompileInv, CompiledOfBuild,
                           CompileUsable, Buttons
<1> QED BY <1>1, LockStep, PTL DEF Spec

\* The types of the page's state.
THEOREM WebTypeCorrect == Spec => []TypeOK
<1>1. LockInv => TypeOK
  BY DEF LockInv
<1> QED BY <1>1, LockInductive, PTL

-----------------------------------------------------------------------------
\* CompileAlone: the disabled buttons exclude a second compile and any build while one
\* is in flight, although runs that end meanwhile enable buttons of their own.
THEOREM CompileAloneCorrect == Spec => []CompileAlone
<1>1. LockInv => CompileAlone
  BY DEF LockInv, Alone, CompileInv, CompileAlone
<1> QED BY <1>1, LockInductive, PTL

\* CompiledOfBuild: what Run loads was compiled from the files of the present build.
THEOREM CompiledCorrect == Spec => []CompiledOfBuild
<1>1. LockInv => CompiledOfBuild
  BY DEF LockInv
<1> QED BY <1>1, LockInductive, PTL

\* CompileUsable: Compile is only offered for a build that can be compiled.
THEOREM UsableCorrect == Spec => []CompileUsable
<1>1. LockInv => CompileUsable
  BY DEF LockInv
<1> QED BY <1>1, LockInductive, PTL

-----------------------------------------------------------------------------
\* While Build has not been pressed in the middle of a run or a zip, those in flight
\* still work on the present build, and there is a wasm as long as there is a run.
HistoryInv ==
    /\ lastFiles # None => lastName \in {None, ModelOf[lastFiles]}
    /\ ~hurried =>
          /\ \A c \in Calls :
                /\ pc[c] = "load" => /\ arg[c] = lastFiles /\ xml[c] = lastFiles
                                     /\ lastCompiled # None
                /\ pc[c] = "zip" => arg[c] = lastFiles /\ lastFiles # None
          /\ lastMat # {} => lastMat = {lastFiles} /\ lastFiles # None
          /\ "run" \notin off => lastCompiled # None
          /\ \A s \in saved.of : ModelOf[s] = saved.name \/ saved.name = None

\* A step of a compile that does not bring a new wasm: no run and no zip sees it, and
\* Run is not given back.
LEMMA HistoryFrame ==
    ASSUME HistoryInv,
           UNCHANGED <<lastFiles, lastName, lastMat, lastCompiled, saved, hurried>>,
           NEW c \in Calls, pc'[c] \notin {"load", "zip"},
           \A d \in Calls \ {c} : pc'[d] = pc[d] /\ arg'[d] = arg[d] /\ xml'[d] = xml[d],
           "run" \in off => "run" \in off'
    PROVE  HistoryInv'
BY DEF HistoryInv

\* One thing is saved: under the name of its model.
LEMMA SavedRight ==
    ASSUME HistoryInv, NEW x, Save({x}), x = lastFiles, lastFiles # None
    PROVE  \A s \in saved'.of : ModelOf[s] = saved'.name \/ saved'.name = None
BY DEF HistoryInv, Save

LEMMA HistoryStep ==
    ASSUME LockInv, HistoryInv, [Next]_vars PROVE HistoryInv'
<1>0. TypeOK /\ TypeOK'
  BY TypeStep DEF LockInv
<1> USE WebAssumption, <1>0 DEF Goto, End
<1>1. CASE OnOMCReady
  BY <1>1 DEF OnOMCReady, lastVars, HistoryInv
<1>2. CASE DownloadMat
  <2>1. UNCHANGED <<lastVars, off, pc, arg, xml, hurried>> /\ Save(lastMat) /\ lastMat # {}
    BY <1>2 DEF DownloadMat
  <2>2. ~hurried => \A s \in saved'.of : ModelOf[s] = saved'.name \/ saved'.name = None
    BY <2>1, SavedRight DEF HistoryInv
  <2> QED BY <2>1, <2>2 DEF HistoryInv, lastVars
<1>3. ASSUME NEW s \in Sources, Build(s) PROVE HistoryInv'
  <2>1. lastFiles' # None => lastName' \in {None, ModelOf[lastFiles']}
    BY <1>3 DEF Build, NameAfterBuild
  <2>2. UNCHANGED <<pc, saved>> /\ lastMat' = {}
    BY <1>3 DEF Build, MatAfterBuild
  <2>3. "run" \in off'
    BY <1>3 DEF Build, OffAfterBuild
  <2>4. ~hurried' => ~hurried /\ \A c \in Calls : pc'[c] \notin {"load", "zip"}
    BY <1>3 DEF Build, Reading
  <2> QED BY <2>1, <2>2, <2>3, <2>4 DEF HistoryInv
<1>4. ASSUME NEW c \in Calls, Compile(c) PROVE HistoryInv'
  <2>1. /\ pc'[c] \in {"init", "stage"}
        /\ \A d \in Calls \ {c} : pc'[d] = pc[d] /\ arg'[d] = arg[d] /\ xml'[d] = xml[d]
    BY <1>4 DEF Compile, CallCompileModel, TypeOK
  <2>2. "run" \in off'
    BY <1>4 DEF Compile, OffInCompile
  <2> QED BY <1>4, <2>1, <2>2, HistoryFrame DEF Compile, lastVars
<1>5. ASSUME NEW c \in Calls, Run(c) PROVE HistoryInv'
  <2>1. /\ pc'[c] = "load" /\ arg'[c] = lastCompiled /\ xml'[c] = lastFiles
        /\ \A d \in Calls \ {c} : pc'[d] = pc[d] /\ arg'[d] = arg[d] /\ xml'[d] = xml[d]
    BY <1>5 DEF Run, TypeOK
  <2>2. lastCompiled # None /\ lastCompiled = lastFiles /\ "run" \in off'
    BY <1>5 DEF Run, LockInv, CompiledOfBuild
  <2> QED BY <1>5, <2>1, <2>2 DEF HistoryInv, Run, lastVars
<1>6. ASSUME NEW c \in Calls, DownloadC(c) PROVE HistoryInv'
  <2>1. /\ pc'[c] = "zip" /\ arg'[c] = lastFiles /\ lastFiles # None
        /\ \A d \in Calls \ {c} : pc'[d] = pc[d] /\ arg'[d] = arg[d] /\ xml'[d] = xml[d]
    BY <1>6 DEF DownloadC, TypeOK
  <2> QED BY <1>6, <2>1 DEF HistoryInv, DownloadC, lastVars
<1>7. ASSUME NEW c \in Calls, ZipDone(c) \/ ZipFails(c) PROVE HistoryInv'
  <2>1. /\ pc'[c] = "idle"
        /\ \A d \in Calls \ {c} : pc'[d] = pc[d] /\ arg'[d] = arg[d] /\ xml'[d] = xml[d]
    BY <1>7 DEF ZipDone, ZipFails, TypeOK
  <2>2. ~hurried => \A s \in saved'.of : ModelOf[s] = saved'.name \/ saved'.name = None
    BY <1>7, SavedRight DEF ZipDone, ZipFails, HistoryInv
  <2> QED BY <1>7, <2>1, <2>2 DEF HistoryInv, ZipDone, ZipFails, lastVars
<1>8. ASSUME NEW c \in Calls, LoadFails(c) PROVE HistoryInv'
  <2>1. /\ pc[c] = "load" /\ pc'[c] = "idle"
        /\ \A d \in Calls \ {c} : pc'[d] = pc[d] /\ arg'[d] = arg[d] /\ xml'[d] = xml[d]
    BY <1>8 DEF LoadFails, TypeOK
  <2> QED BY <1>8, <2>1 DEF HistoryInv, LoadFails, lastVars
<1>9. ASSUME NEW c \in Calls, Loaded(c) PROVE HistoryInv'
  <2>1. /\ pc[c] = "load" /\ pc'[c] = "idle"
        /\ \A d \in Calls \ {c} : pc'[d] = pc[d] /\ arg'[d] = arg[d] /\ xml'[d] = xml[d]
    BY <1>9 DEF Loaded, TypeOK
  <2>2. ~hurried => lastCompiled # None /\ arg[c] = lastFiles /\ xml[c] = lastFiles
    BY <2>1 DEF HistoryInv
  <2>3. UNCHANGED <<lastFiles, lastName, lastCompiled, saved, hurried>>
    BY <1>9 DEF Loaded
  <2>4. ~hurried => (lastMat' # {} => lastMat' = {lastFiles} /\ lastFiles # None)
    BY <1>9, <2>2 DEF Loaded, ResultFound, HistoryInv
  <2> QED BY <2>1, <2>2, <2>3, <2>4 DEF HistoryInv
<1>10. ASSUME NEW c \in Calls, ReadBack(c) PROVE HistoryInv'
  <2>1. /\ pc[c] = "read" /\ pc'[c] = "idle"
        /\ \A d \in Calls \ {c} : pc'[d] = pc[d] /\ arg'[d] = arg[d] /\ xml'[d] = xml[d]
    BY <1>10 DEF ReadBack, TypeOK
  <2>2. lastCompiled' # None
    <3>1. linked[lastName] = lastFiles
      BY <2>1 DEF LockInv, CompileInv, Compiling, CompilePCs
    <3> QED BY <1>10, <2>1, <3>1, AtWork DEF ReadBack, CompilePCs
  <2> QED BY <1>10, <2>1, <2>2 DEF HistoryInv, ReadBack
<1>11. ASSUME NEW c \in Calls, InitOk(c) PROVE HistoryInv'
  <2>1. /\ pc'[c] = "stage"
        /\ \A d \in Calls \ {c} : pc'[d] = pc[d] /\ arg'[d] = arg[d] /\ xml'[d] = xml[d]
    BY <1>11 DEF InitOk, CallCompileModel, TypeOK
  <2> QED BY <1>11, <2>1, HistoryFrame DEF InitOk, lastVars
<1>12. ASSUME NEW c \in Calls, InitFails(c) \/ CompileThrows(c) PROVE HistoryInv'
  <2>1. /\ pc'[c] = "idle"
        /\ \A d \in Calls \ {c} : pc'[d] = pc[d] /\ arg'[d] = arg[d] /\ xml'[d] = xml[d]
    BY <1>12 DEF InitFails, CompileThrows, TypeOK
  <2>2. "run" \in off => "run" \in off'
    BY <1>12 DEF InitFails, CompileThrows, OffAfterThrow
  <2> QED BY <1>12, <2>1, <2>2, HistoryFrame DEF InitFails, CompileThrows, lastVars
<1>13. ASSUME NEW c \in Calls, StageRuntimeFS(c) \/ WriteFiles(c) \/ CompileTUs(c) \/ Link(c)
       PROVE  HistoryInv'
  <2>1. /\ pc'[c] \in CompilePCs
        /\ \A d \in Calls \ {c} : pc'[d] = pc[d] /\ arg'[d] = arg[d] /\ xml'[d] = xml[d]
    BY <1>13 DEF StageRuntimeFS, WriteFiles, CompileTUs, Link, TypeOK, CompilePCs
  <2>2. UNCHANGED <<lastVars, off, saved, hurried>>
    BY <1>13 DEF StageRuntimeFS, WriteFiles, CompileTUs, Link
  <2> QED BY <2>1, <2>2, HistoryFrame DEF lastVars, CompilePCs
<1>14. CASE UNCHANGED vars
  BY <1>14 DEF vars, lastVars, HistoryInv
<1> QED BY <1>1, <1>2, <1>3, <1>4, <1>5, <1>6, <1>7, <1>8, <1>9, <1>10, <1>11, <1>12,
           <1>13, <1>14 DEF Next, Step

LEMMA HistoryInductive == Spec => []HistoryInv
<1>1. Init => HistoryInv
  BY DEF Init, HistoryInv, Buttons
<1> QED BY <1>1, HistoryStep, LockInductive, PTL DEF Spec

\* ResultOfBuild: without a Build pressed during a run or a zip, the result shown and
\* offered is of the present build alone, and Run is offered only with something to run.
THEOREM ResultCorrect == Spec => []ResultOfBuild
<1>1. HistoryInv => ResultOfBuild
  BY DEF HistoryInv, ResultOfBuild
<1> QED BY <1>1, HistoryInductive, PTL

\* SavedUnderItsName: ... and what is downloaded has the name of its model.
THEOREM SavedCorrect == Spec => []SavedUnderItsName
<1>1. HistoryInv => SavedUnderItsName
  BY DEF HistoryInv, SavedUnderItsName
<1> QED BY <1>1, HistoryInductive, PTL

-----------------------------------------------------------------------------
\* Once omc is up, Build is off exactly while a compile is in flight, whose end gives it
\* back: what remains for Unblocked to hold is that the compile ends.
BuildComesBack == omcReady => ("build" \in off <=> Compiling # {})

\* A step that neither starts nor ends a compile, nor touches Build.
LEMMA BuildFrame ==
    ASSUME BuildComesBack, UNCHANGED omcReady,
           NEW c \in Calls, pc[c] \in CompilePCs <=> pc'[c] \in CompilePCs,
           \A d \in Calls \ {c} : pc'[d] = pc[d],
           "build" \in off <=> "build" \in off'
    PROVE  BuildComesBack'
<1>1. Compiling' = Compiling
  BY DEF Compiling
<1> QED BY <1>1 DEF BuildComesBack

LEMMA BuildStep ==
    ASSUME LockInv, BuildComesBack, [Next]_vars PROVE BuildComesBack'
<1>0. TypeOK
  BY DEF LockInv
<1> USE <1>0 DEF Goto, End, CompilePCs
<1>1. CASE OnOMCReady
  BY <1>1 DEF OnOMCReady, LockInv, NotReady, Compiling, BuildComesBack
<1>2. CASE DownloadMat
  BY <1>2 DEF DownloadMat, Compiling, BuildComesBack
<1>3. ASSUME NEW s \in Sources, Build(s) PROVE BuildComesBack'
  <2>1. "build" \notin off' /\ UNCHANGED <<omcReady, pc>>
    BY <1>3 DEF Build, OffAfterBuild
  <2>2. Compiling = {} /\ Compiling' = {}
    BY <1>3, <2>1 DEF Build, BuildComesBack, Compiling
  <2> QED BY <2>1, <2>2 DEF BuildComesBack
<1>4. ASSUME NEW c \in Calls, Compile(c) PROVE BuildComesBack'
  <2>1. pc'[c] \in {"init", "stage"}
    BY <1>4 DEF Compile, CallCompileModel, TypeOK
  <2>2. c \in Compiling' /\ "build" \in off'
    BY <1>4, <2>1 DEF Compile, OffInCompile, Compiling
  <2> QED BY <2>2 DEF BuildComesBack
<1>5. ASSUME NEW c \in Calls, Run(c) \/ DownloadC(c) PROVE BuildComesBack'
  <2>1. /\ pc[c] = "idle" /\ pc'[c] \in {"load", "zip"}
        /\ \A d \in Calls \ {c} : pc'[d] = pc[d]
    BY <1>5 DEF Run, DownloadC, TypeOK
  <2> QED BY <1>5, <2>1, BuildFrame DEF Run, DownloadC
<1>6. ASSUME NEW c \in Calls, ZipDone(c) \/ ZipFails(c) \/ LoadFails(c) \/ Loaded(c) PROVE BuildComesBack'
  <2>1. /\ pc[c] \in {"load", "zip"} /\ pc'[c] = "idle"
        /\ \A d \in Calls \ {c} : pc'[d] = pc[d]
    BY <1>6 DEF ZipDone, ZipFails, LoadFails, Loaded, TypeOK
  <2>2. UNCHANGED omcReady /\ ("build" \in off <=> "build" \in off')
    BY <1>6 DEF ZipDone, ZipFails, LoadFails, Loaded
  <2> QED BY <2>1, <2>2, BuildFrame
<1>7. ASSUME NEW c \in Calls,
             InitOk(c) \/ StageRuntimeFS(c) \/ WriteFiles(c) \/ CompileTUs(c) \/ Link(c)
      PROVE  BuildComesBack'
  <2>1. /\ pc[c] \in CompilePCs /\ pc'[c] \in CompilePCs
        /\ \A d \in Calls \ {c} : pc'[d] = pc[d]
    BY <1>7 DEF InitOk, CallCompileModel, StageRuntimeFS, WriteFiles, CompileTUs, Link, TypeOK
  <2>2. UNCHANGED <<omcReady, off>>
    BY <1>7 DEF InitOk, StageRuntimeFS, WriteFiles, CompileTUs, Link
  <2> QED BY <2>1, <2>2, BuildFrame
<1>8. ASSUME NEW c \in Calls, InitFails(c) \/ CompileThrows(c) \/ ReadBack(c)
      PROVE  BuildComesBack'
  <2>1. c \in Compiling /\ pc'[c] = "idle" /\ \A d \in Calls \ {c} : pc'[d] = pc[d]
    BY <1>8 DEF InitFails, CompileThrows, ReadBack, Compiling, TypeOK
  <2>2. Compiling' = {}
    BY <2>1 DEF LockInv, Alone, Compiling
  <2>3. "build" \notin off'
    BY <1>8 DEF InitFails, CompileThrows, ReadBack, OffAfterThrow
  <2> QED BY <2>2, <2>3 DEF BuildComesBack
<1>9. CASE UNCHANGED vars
  BY <1>9 DEF vars, Compiling, BuildComesBack
<1> QED BY <1>1, <1>2, <1>3, <1>4, <1>5, <1>6, <1>7, <1>8, <1>9 DEF Next, Step

\* BuildComesBack: Build is never left disabled behind a compile that is over, well or
\* not, and never enabled in the middle of one.
THEOREM BuildLockCorrect == Spec => []BuildComesBack
<1>1. Init => BuildComesBack
  BY DEF Init, BuildComesBack
<1> QED BY <1>1, BuildStep, LockInductive, PTL DEF Spec

-----------------------------------------------------------------------------
\* How many awaits a handler has at most before it is over, the present one included.
LeftAt(p) ==
    CASE p = "init"  -> 6
      [] p = "stage" -> 5
      [] p = "write" -> 4
      [] p = "cc"    -> 3
      [] p = "link"  -> 2
      [] p \in {"read", "load", "zip"} -> 1
      [] OTHER       -> 0

\* A handler in flight comes closer to its end whenever it is resumed, and nothing that is
\* pressed meanwhile and no other handler moves it.
HandlersGetCloser ==
    \A c \in Calls :
        /\ Step(c) \/ LoadFails(c) \/ Loaded(c) => LeftAt(pc'[c]) \in 0 .. LeftAt(pc[c]) - 1
        /\ pc[c] # "idle" => pc'[c] = pc[c] \/ Step(c) \/ LoadFails(c) \/ Loaded(c)

LEMMA LeftAtEach ==
    /\ LeftAt("idle") = 0 /\ LeftAt("init") = 6 /\ LeftAt("stage") = 5 /\ LeftAt("write") = 4
    /\ LeftAt("cc") = 3 /\ LeftAt("link") = 2
    /\ LeftAt("read") = 1 /\ LeftAt("load") = 1 /\ LeftAt("zip") = 1
BY DEF LeftAt

LEMMA ResumedStep ==
    ASSUME TypeOK, NEW c \in Calls, Step(c) \/ LoadFails(c) \/ Loaded(c)
    PROVE  /\ LeftAt(pc'[c]) \in 0 .. LeftAt(pc[c]) - 1
           /\ \A d \in Calls \ {c} : pc'[d] = pc[d]
<1>0. pc \in [Calls -> PCs]
  BY DEF TypeOK
<1> USE <1>0 DEF Goto, End
<1>1. CASE InitFails(c) \/ CompileThrows(c) \/ ReadBack(c) \/ ZipDone(c) \/ ZipFails(c)
           \/ LoadFails(c) \/ Loaded(c)
  <2>1. /\ pc[c] \in CompilePCs \cup {"load", "zip"} /\ pc'[c] = "idle"
        /\ \A d \in Calls \ {c} : pc'[d] = pc[d]
    BY <1>1 DEF InitFails, CompileThrows, ReadBack, ZipDone, ZipFails, LoadFails, Loaded,
                 CompilePCs
  <2> QED BY <2>1, LeftAtEach DEF CompilePCs
<1>2. CASE InitOk(c) \/ StageRuntimeFS(c) \/ WriteFiles(c) \/ CompileTUs(c) \/ Link(c)
  <2>1. /\ \A d \in Calls \ {c} : pc'[d] = pc[d]
        /\ \/ pc[c] = "init" /\ pc'[c] = "stage"
           \/ pc[c] = "stage" /\ pc'[c] = "write"
           \/ pc[c] = "write" /\ pc'[c] = "cc"
           \/ pc[c] = "cc" /\ pc'[c] = "link"
           \/ pc[c] = "link" /\ pc'[c] = "read"
    BY <1>2 DEF InitOk, CallCompileModel, StageRuntimeFS, WriteFiles, CompileTUs, Link
  <2> QED BY <2>1, LeftAtEach
<1> QED BY <1>1, <1>2 DEF Step

LEMMA HandlersStep == ASSUME LockInv, [Next]_vars PROVE HandlersGetCloser
<1>0. TypeOK
  BY DEF LockInv
<1> SUFFICES ASSUME NEW c \in Calls, pc[c] # "idle"
             PROVE  pc'[c] = pc[c] \/ Step(c) \/ LoadFails(c) \/ Loaded(c)
  BY <1>0, ResumedStep DEF HandlersGetCloser
<1>1. CASE OnOMCReady \/ DownloadMat \/ (\E s \in Sources : Build(s)) \/ UNCHANGED vars
  BY <1>1 DEF OnOMCReady, DownloadMat, Build, vars
<1>2. ASSUME NEW d \in Calls, Compile(d) \/ Run(d) \/ DownloadC(d) PROVE pc'[c] = pc[c]
  BY <1>0, <1>2 DEF Compile, CallCompileModel, Run, DownloadC, Goto, TypeOK
<1>3. ASSUME NEW d \in Calls, d # c, Step(d) \/ LoadFails(d) \/ Loaded(d)
      PROVE  pc'[c] = pc[c]
  BY <1>0, <1>3, ResumedStep
<1> QED BY <1>1, <1>2, <1>3 DEF Next

\* HandlersGetCloser: a compile, a run or a zip in flight is over after at most six steps of
\* its own; with BuildLockCorrect and weak fairness of these steps that is Unblocked.
THEOREM HandlersAreBounded == Spec => [][HandlersGetCloser]_vars
BY LockInductive, HandlersStep, PTL DEF Spec
=============================================================================
