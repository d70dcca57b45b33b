------------------------- MODULE PipelineRefinement -------------------------
(***************************************************************************)
(* Pipeline implements RunAbs, for any sets of calls and sources and any   *)
(* number of translation units and assets; and the sink and the Blob URLs  *)
(* of the page are released.                                               *)
(***************************************************************************)
EXTENDS PipelineProofs

USE DEF PCs, OmcPCs, EmPCs, EndPCs, PostOmc

-----------------------------------------------------------------------------
(* The page's sink.                                                        *)

LEMMA SinkStep ==
    ASSUME TInv, SinkOwned, [Next]_vars PROVE SinkOwned'
<1> USE ConstantsAssumption DEF TInv, TypeOK, Goto, omcVars
<1>1. ASSUME NEW r \in Runs, NEW s \in Sources, Start(r, s) PROVE SinkOwned'
  <2>1. sink' = None \/ (sink' = r /\ pc'[r] \in {"msl", "mslok"})
    BY <1>1 DEF Start, CallMain
  <2>2. QED
    BY <2>1 DEF SinkOwned
<1>2. CASE MslSettles
  <2>1. sink' = sink /\ \A q \in Runs : pc[q] \in OmcPCs => pc'[q] \in OmcPCs
    BY <1>2 DEF MslSettles
  <2>2. QED
    BY <2>1 DEF SinkOwned
<1>3. CASE EmSettles \/ UNCHANGED vars
  BY <1>3 DEF EmSettles, vars, SinkOwned
<1>4. ASSUME NEW r \in Runs, ResumeOMC(r) \/ MslRejected(r) PROVE SinkOwned'
  BY <1>4 DEF ResumeOMC, CallMain, MslRejected, SinkOwned
<1>5. ASSUME NEW r \in Runs,
             \/ GenerateC(r) \/ ZipDone(r) \/ EmReady(r) \/ EmRejected(r)
             \/ StageAsset(r) \/ WriteFile(r) \/ CompileTU(r) \/ Link(r) \/ ReadWasm(r)
             \/ ReadJs(r) \/ AwaitRejects(r) \/ SimResult(r) \/ SimFails(r)
      PROVE  SinkOwned'
  <2>1. sink' = sink /\ pc[r] \notin OmcPCs /\ \A q \in Runs \ {r} : pc'[q] = pc[q]
    BY <1>5 DEF GenerateC, ZipDone, EmReady, EmRejected, StageAsset, WriteFile, CompileTU,
                AfterCompile, Link, ReadWasm, ReadJs, AwaitRejects, SimResult, SimFails
  <2>2. QED
    BY <2>1 DEF SinkOwned
<1>6. QED
  BY <1>1, <1>2, <1>3, <1>4, <1>5 DEF Next, Step

\* SinkOwned: no call leaves its sink installed, in whatever way it ends.
THEOREM SinkCorrect == Spec => []SinkOwned
<1>1. Init => SinkOwned
  BY DEF Init, SinkOwned
<1>2. QED
  BY InitTInv, TypeStep, SinkStep, <1>1, PTL DEF Spec

LEMMA LogStep ==
    ASSUME IInv, SoloLog, [Next]_vars PROVE SoloLog'
<1> USE ConstantsAssumption DEF IInv, TInv, TypeOK, Goto, omcVars, callVars
<1>1. ASSUME NEW r \in Runs, NEW s \in Sources, Start(r, s) PROVE SoloLog'
  <2>1. mixed \subseteq mixed'
    BY <1>1 DEF Start
  <2>2. /\ \A q \in Runs \ {r} : omcLog'[q] = omcLog[q] /\ files'[q] = files[q]
        /\ omcLog'[r] = r \/ (omcLog'[r] = omcLog[r] /\ files'[r] = files[r])
    BY <1>1 DEF Start, CallMain
  <2>3. QED
    BY <2>1, <2>2 DEF SoloLog
<1>2. ASSUME NEW r \in Runs, ResumeOMC(r) PROVE SoloLog'
  <2>1. r \notin mixed => sink = r
    BY <1>2 DEF ResumeOMC, SoloInv, OwnAt
  <2>2. /\ \A q \in Runs \ {r} : omcLog'[q] = omcLog[q] /\ files'[q] = files[q]
        /\ omcLog'[r] = sink /\ UNCHANGED mixed
    BY <1>2 DEF ResumeOMC, CallMain
  <2>3. QED
    BY <2>1, <2>2 DEF SoloLog
<1>3. CASE UNCHANGED <<omcLog, files, mixed>>
  BY <1>3 DEF SoloLog
<1>4. QED
  BY <1>1, <1>2, <1>3
     DEF Next, Step, vars, MslSettles, EmSettles, MslRejected, GenerateC, ZipDone,
         EmReady, EmRejected, StageAsset, WriteFile, CompileTU, Link, ReadWasm, ReadJs,
         AwaitRejects, SimResult, SimFails

LEMMA IInductive == Spec => []IInv
<1>1. IInv /\ [Next]_vars => IInv'
  BY TypeStep, GenerationStep, SoloStep DEF IInv
<1>2. QED
  BY InitIInv, <1>1, PTL DEF Spec

\* SoloLog: what omc prints for a call that no other call overlapped is the call's.
THEOREM LogCorrect == Spec => []SoloLog
<1>1. Init => SoloLog
  BY DEF Init, SoloLog
<1>2. QED
  BY LogStep, IInductive, <1>1, PTL DEF Spec

-----------------------------------------------------------------------------
(* Blob URLs.                                                              *)

\* A call is in its simulation only behind onStageStart(3).
UrlInv == UrlsReleased /\ \A r \in Runs : pc[r] = "sim" => stage[r] = 3

LEMMA UrlStep ==
    ASSUME TInv, UrlInv, [Next]_vars PROVE UrlInv'
<1> USE DEF TInv, TypeOK, Goto, UrlInv, UrlsReleased
<1>1. ASSUME NEW r \in Runs, ReadJs(r) PROVE UrlInv'
  <2>1. /\ pc'[r] = "sim" /\ stage'[r] = 3 /\ urls' = urls \cup {r}
        /\ \A q \in Runs \ {r} : pc'[q] = pc[q] /\ stage'[q] = stage[q]
    BY <1>1 DEF ReadJs
  <2>2. QED
    BY <2>1
<1>2. ASSUME NEW r \in Runs, SimResult(r) \/ SimFails(r) PROVE UrlInv'
  <2>1. /\ pc[r] = "sim" /\ UNCHANGED stage /\ urls' \subseteq urls
        /\ pc'[r] = "threw" \/ (pc'[r] = "returned" /\ r \notin urls')
        /\ \A q \in Runs \ {r} : pc'[q] = pc[q]
    BY <1>2 DEF SimResult, SimFails
  <2>2. QED
    BY <2>1
<1>3. CASE MslSettles
  <2>1. /\ \A q \in Runs : pc'[q] = pc[q] \/ {pc[q], pc'[q]} \subseteq OmcPCs
        /\ UNCHANGED <<urls, stage>>
    BY <1>3 DEF MslSettles
  <2>2. QED
    BY <2>1
\* Elsewhere a call is not in its simulation, so it holds no URL.
<1>4. ASSUME NEW r \in Runs,
             \/ \E s \in Sources : Start(r, s)
             \/ ResumeOMC(r) \/ MslRejected(r) \/ GenerateC(r) \/ ZipDone(r) \/ EmReady(r)
             \/ EmRejected(r) \/ StageAsset(r) \/ WriteFile(r) \/ CompileTU(r) \/ Link(r)
             \/ ReadWasm(r) \/ AwaitRejects(r)
      PROVE  UrlInv'
  <2>1. /\ pc[r] \notin {"sim", "threw"} /\ pc'[r] # "sim" /\ UNCHANGED urls
        /\ \A q \in Runs \ {r} : pc'[q] = pc[q] /\ stage'[q] = stage[q]
    BY <1>4 DEF Start, ResumeOMC, CallMain, MslRejected, GenerateC, ZipDone, EmReady,
                EmRejected, StageAsset, WriteFile, CompileTU, AfterCompile, Link, ReadWasm,
                AwaitRejects
  <2>2. QED
    BY <2>1
<1>5. CASE EmSettles \/ UNCHANGED vars
  BY <1>5 DEF EmSettles, vars
<1>6. QED
  BY <1>1, <1>2, <1>3, <1>4, <1>5 DEF Next, Step

\* UrlsReleased: a Blob URL is held by a call that simulates, or was lost by one whose
\* simulation failed, and by no other.
THEOREM UrlsCorrect == Spec => []UrlsReleased
<1>1. Init => UrlInv
  BY DEF Init, UrlInv, UrlsReleased
<1>2. UrlInv => UrlsReleased
  BY DEF UrlInv
<1>3. QED
  BY InitTInv, TypeStep, UrlStep, <1>1, <1>2, PTL DEF Spec

-----------------------------------------------------------------------------
(* Refinement.  RunAbs wants a trace made of sources, so what a call reads *)
(* back must have been written, compiled and linked, by it or by another.  *)

FilledAt(r) ==
    /\ pc[r] = "write" => \A t \in TU : t < idx[r] => working[modelName(r)][t] # None
    /\ pc[r] = "cc" =>
          /\ \A t \in TU : working[modelName(r)][t] # None
          /\ ~bad[r] => \A t \in TU : t < idx[r] => objs[modelName(r)][t] # None
    /\ pc[r] = "link" => \A t \in TU : objs[modelName(r)][t] # None
    /\ pc[r] \in {"wasm", "js"} => \A t \in TU : linked[modelName(r)][t] # None
    /\ pc[r] \in {"js", "sim"} => \A t \in TU : image[r][t] # None
    /\ pc[r] = "sim" => \A t \in TU : glue[r][t] # None

Filled == \A r \in Runs : FilledAt(r)

\* No file of /working ever goes away again.
Grows ==
    \A n \in Names, t \in TU :
       /\ working[n][t] # None => working'[n][t] # None
       /\ objs[n][t] # None => objs'[n][t] # None
       /\ linked[n][t] # None => linked'[n][t] # None

LEMMA FilesGrow ==
    ASSUME TInv, Filled, [Next]_vars PROVE Grows
<1> USE ConstantsAssumption DEF Grows
<1>1. ASSUME NEW r \in Runs, WriteFile(r) PROVE Grows
  <2>1. files[r] # None /\ modelName(r) \in Names /\ UNCHANGED <<objs, linked>>
    BY <1>1 DEF WriteFile, TInv, LocalOK, modelName
  <2>2. QED
    BY <1>1, <2>1 DEF WriteFile, TInv, TypeOK
<1>2. ASSUME NEW r \in Runs, CompileTU(r) PROVE Grows
  <2>1. /\ pc[r] = "cc" /\ modelName(r) \in Names /\ idx[r] \in TU
        /\ UNCHANGED <<working, linked>>
    BY <1>2 DEF CompileTU, TInv, LocalOK, modelName
  <2>2. working[modelName(r)][idx[r]] # None
    BY <2>1 DEF Filled, FilledAt
  <2>3. \/ UNCHANGED objs
        \/ objs' = [objs EXCEPT ![modelName(r)][idx[r]] = working[modelName(r)][idx[r]]]
    BY <1>2 DEF CompileTU
  <2>4. objs \in [Names -> [TU -> Content]] /\ objs[modelName(r)] \in [TU -> Content]
    BY <2>1 DEF TInv, TypeOK
  <2>5. \A n \in Names, t \in TU : objs[n][t] # None => objs'[n][t] # None
    BY <2>1, <2>2, <2>3, <2>4
  <2>6. QED
    BY <2>1, <2>5
<1>3. ASSUME NEW r \in Runs, Link(r) PROVE Grows
  <2>1. pc[r] = "link" /\ modelName(r) \in Names /\ UNCHANGED <<working, objs>>
    BY <1>3 DEF Link, TInv, LocalOK, modelName
  <2>2. \A t \in TU : objs[modelName(r)][t] # None
    BY <2>1 DEF Filled, FilledAt
  <2>3. QED
    BY <1>3, <2>1, <2>2 DEF Link, TInv, TypeOK
<1>4. CASE UNCHANGED workVars
  BY <1>4 DEF workVars
<1>5. QED
  BY <1>1, <1>2, <1>3, <1>4
     DEF Next, Step, vars, Start, MslSettles, EmSettles, ResumeOMC, CallMain, MslRejected,
         GenerateC, ZipDone, EmReady, EmRejected, StageAsset, ReadWasm, ReadJs,
         AwaitRejects, SimResult, SimFails

\* A call that does not step itself keeps what it found.
LEMMA FilledFrame ==
    ASSUME TInv, Filled, Grows, NEW q \in Runs,
           pc'[q] = pc[q] \/ pc'[q] \in OmcPCs \cup EndPCs,
           idx'[q] = idx[q], bad'[q] = bad[q], files'[q] = files[q],
           image'[q] = image[q], glue'[q] = glue[q]
    PROVE  FilledAt(q)'
<1>1. CASE pc'[q] \in OmcPCs \cup EndPCs
  BY <1>1 DEF FilledAt
<1>2. CASE pc'[q] = pc[q] /\ pc[q] \in PostOmc
  <2>1. modelName(q) \in Names /\ modelName(q)' = modelName(q)
    BY <1>2, ConstantsAssumption DEF TInv, LocalOK, modelName
  <2>2. FilledAt(q)
    BY DEF Filled
  <2>3. QED
    BY <1>2, <2>1, <2>2 DEF FilledAt, Grows
<1>3. CASE pc'[q] = pc[q] /\ pc[q] \notin PostOmc
  BY <1>3 DEF FilledAt
<1>4. QED
  BY <1>1, <1>2, <1>3

LEMMA FilledStep ==
    ASSUME TInv, Filled, [Next]_vars PROVE Filled'
<1> USE ConstantsAssumption
<1>0. Grows
  BY FilesGrow
<1>1. CASE UNCHANGED <<pc, idx, bad, files, image, glue>>
  BY <1>0, <1>1, FilledFrame DEF Filled
<1>2. CASE MslSettles
  <2>1. \A q \in Runs : pc'[q] = pc[q] \/ pc'[q] \in OmcPCs
    BY <1>2 DEF MslSettles, TInv, TypeOK
  <2>2. UNCHANGED <<idx, bad, files, image, glue>>
    BY <1>2 DEF MslSettles
  <2>3. QED
    BY <1>0, <2>1, <2>2, FilledFrame DEF Filled
<1>3. ASSUME NEW r \in Runs, (\E s \in Sources : Start(r, s)) \/ Step(r)
                               \/ SimResult(r) \/ SimFails(r)
      PROVE  Filled'
  <2>1. \A q \in Runs \ {r} : /\ pc'[q] = pc[q] /\ idx'[q] = idx[q] /\ bad'[q] = bad[q]
                              /\ files'[q] = files[q] /\ image'[q] = image[q]
                              /\ glue'[q] = glue[q]
    BY <1>3 DEF Start, Step, ResumeOMC, CallMain, MslRejected, GenerateC, ZipDone, EmReady,
                EmRejected, StageAsset, WriteFile, CompileTU, AfterCompile, Link, ReadWasm,
                ReadJs, AwaitRejects, SimResult, SimFails, Goto, TInv, TypeOK
  <2>2. FilledAt(r)'
    <3> DEFINE n == modelName(r)
    <3>1. pc[r] \in PostOmc => files[r] \in Sources /\ n \in Names
      BY DEF TInv, LocalOK, modelName
    <3>2. FilledAt(r)
      BY DEF Filled
    <3>3. CASE pc'[r] \in OmcPCs \cup EndPCs \cup {"gen", "zip", "em", "stage"}
      BY <3>3 DEF FilledAt
    <3>4. CASE EmReady(r) \/ StageAsset(r)
      <4>1. pc'[r] = "stage" \/ (pc'[r] = "write" /\ idx'[r] = 1)
        BY <3>4 DEF EmReady, StageAsset, Goto, TInv, TypeOK
      <4>2. QED
        BY <4>1 DEF FilledAt, TU
    <3>5. CASE WriteFile(r)
      <4>1. /\ pc[r] = "write" /\ files[r] # None /\ idx[r] \in TU /\ n \in Names
            /\ n' = n
        BY <3>1, <3>5 DEF WriteFile, TInv, LocalOK, modelName
      <4>2. /\ working'[n][idx[r]] = files[r]
            /\ \A t \in TU : t # idx[r] => working'[n][t] = working[n][t]
        BY <3>5, <4>1 DEF WriteFile, TInv, TypeOK
      <4>3. \A t \in TU : t <= idx[r] => working'[n][t] # None
        BY <3>2, <4>1, <4>2 DEF FilledAt, TU
      <4>4. \/ idx[r] = NTU /\ pc'[r] = "cc" /\ idx'[r] = 1
            \/ pc'[r] = "write" /\ idx'[r] = idx[r] + 1
        BY <3>5 DEF WriteFile, Goto, TInv, TypeOK
      <4>5. CASE pc'[r] = "cc"
        BY <4>1, <4>3, <4>4, <4>5 DEF FilledAt, TU
      <4>6. CASE pc'[r] = "write"
        BY <4>1, <4>3, <4>4, <4>6 DEF FilledAt, TU
      <4>7. QED BY <4>4, <4>5, <4>6
    <3>6. CASE CompileTU(r)
      <4>1. /\ pc[r] = "cc" /\ idx[r] \in TU /\ n \in Names /\ n' = n /\ UNCHANGED working
        BY <3>1, <3>6 DEF CompileTU, TInv, LocalOK, modelName
      <4>2. ~bad'[r] => ~bad[r] /\ objs' = [objs EXCEPT ![n][idx[r]] = working[n][idx[r]]]
        BY <3>6 DEF CompileTU, TInv, TypeOK
      <4>3. ASSUME ~bad'[r], NEW t \in TU, t <= idx[r] PROVE objs'[n][t] # None
        <5>1. working[n][idx[r]] # None /\ (t < idx[r] => objs[n][t] # None)
          BY <3>2, <4>1, <4>2, <4>3 DEF FilledAt
        <5>2. t = idx[r] \/ t < idx[r]
          BY <4>1, <4>3 DEF TU
        <5>3. objs[n] \in [TU -> Content] /\ objs \in [Names -> [TU -> Content]]
          BY <4>1 DEF TInv, TypeOK
        <5>4. QED
          BY <4>1, <4>2, <4>3, <5>1, <5>2, <5>3
      <4>4. \/ idx[r] = NTU /\ (pc'[r] = "threw" \/ (pc'[r] = "link" /\ ~bad'[r]))
            \/ pc'[r] = "cc" /\ idx'[r] = idx[r] + 1
        BY <3>6, <4>1 DEF CompileTU, AfterCompile, Goto, TInv, TypeOK
      <4>5. CASE pc'[r] = "cc"
        BY <3>2, <4>1, <4>3, <4>4, <4>5 DEF FilledAt, TU
      <4>6. CASE pc'[r] = "link"
        BY <4>1, <4>3, <4>4, <4>6 DEF FilledAt, TU
      <4>7. CASE pc'[r] = "threw"
        BY <4>7 DEF FilledAt
      <4>8. QED BY <4>4, <4>5, <4>6, <4>7
    <3>7. CASE Link(r)
      <4>1. /\ pc[r] = "link" /\ pc'[r] = "wasm" /\ n \in Names /\ n' = n
            /\ linked'[n] = objs[n]
        BY <3>1, <3>7 DEF Link, Goto, TInv, TypeOK, modelName
      <4>2. QED
        BY <3>2, <4>1 DEF FilledAt
    <3>8. CASE ReadWasm(r)
      <4>1. /\ pc[r] = "wasm" /\ pc'[r] = "js" /\ n \in Names /\ n' = n
            /\ UNCHANGED linked /\ image'[r] = linked[n]
        BY <3>1, <3>8 DEF ReadWasm, Goto, TInv, TypeOK, modelName, workVars
      <4>2. QED
        BY <3>2, <4>1 DEF FilledAt
    <3>9. CASE ReadJs(r)
      <4>1. /\ pc[r] = "js" /\ pc'[r] = "sim" /\ n \in Names
            /\ UNCHANGED image /\ glue'[r] = linked[n]
        BY <3>1, <3>9 DEF ReadJs, Goto, TInv, TypeOK, modelName
      <4>2. QED
        BY <3>2, <4>1 DEF FilledAt
    <3>10. CASE ResumeOMC(r) \/ \E s \in Sources : Start(r, s)
      <4>1. pc'[r] \in OmcPCs \cup {"gen", "threw"}
        BY <3>10 DEF Start, ResumeOMC, CallMain, Goto, TInv, TypeOK
      <4>2. QED BY <3>3, <4>1
    <3>11. CASE MslRejected(r) \/ GenerateC(r) \/ ZipDone(r) \/ EmRejected(r)
                \/ AwaitRejects(r) \/ SimResult(r) \/ SimFails(r)
      <4>1. pc'[r] \in EndPCs \cup {"zip", "em"}
        BY <3>11 DEF MslRejected, GenerateC, ZipDone, EmRejected, AwaitRejects, SimResult,
                     SimFails, Goto, TInv, TypeOK
      <4>2. QED BY <3>3, <4>1
    <3>12. QED
      BY <1>3, <3>4, <3>5, <3>6, <3>7, <3>8, <3>9, <3>10, <3>11 DEF Step
  <2>3. QED
    BY <1>0, <2>1, <2>2, FilledFrame DEF Filled
<1>4. QED
  BY <1>1, <1>2, <1>3 DEF Next, EmSettles, vars

\* What the caller sees of a call.
LEMMA StatusOf ==
    ASSUME TInv, NEW r \in Runs
    PROVE  /\ pc[r] = "idle" => callStatus[r] = "idle"
           /\ pc[r] = "returned" => callStatus[r] = "returned"
           /\ pc[r] = "threw" => callStatus[r] = "threw"
           /\ pc[r] \notin {"idle"} \cup EndPCs => callStatus[r] = "running"
BY DEF callStatus

\* A step of one call is, to its caller, a step of that call or none at all.
LEMMA StatusStep ==
    ASSUME TInv, TInv', NEW r \in Runs, \A q \in Runs \ {r} : pc'[q] = pc[q],
           NEW st, st = callStatus'[r]
    PROVE  callStatus' = [callStatus EXCEPT ![r] = st]
<1>1. \A q \in Runs \ {r} : callStatus'[q] = callStatus[q]
  BY DEF callStatus
<1>2. callStatus \in [Runs -> {"idle", "running", "returned", "threw"}]
      /\ callStatus' = [q \in Runs |-> callStatus'[q]]
  BY DEF callStatus
<1>3. QED
  BY <1>1, <1>2

LEMMA InitRefines == Init => Abs!Init
BY DEF Init, Abs!Init, callStatus

LEMMA StepRefines ==
    ASSUME IInv, Filled, IInv', [Next]_vars PROVE [Abs!Next]_Abs!vars
<1> USE ConstantsAssumption
<1>0. TInv /\ TInv'
  BY DEF IInv
<1>1. Active = Abs!Running
  BY <1>0, StatusOf DEF Active, Abs!Running
<1>2. ASSUME NEW r \in Runs, NEW s \in Sources, Start(r, s) PROVE Abs!Start(r, s)
  <2>1. /\ pc[r] = "idle" /\ pc'[r] \in {"msl", "mslok", "gen", "threw"}
        /\ \A q \in Runs \ {r} : pc'[q] = pc[q]
    BY <1>0, <1>2 DEF Start, CallMain, Goto, TInv, TypeOK
  <2>2. callStatus[r] = "idle" /\ callStatus'[r] \in {"running", "threw"}
    BY <1>0, <2>1, StatusOf DEF callStatus
  <2>3. callStatus' \in {[callStatus EXCEPT ![r] = "running"], [callStatus EXCEPT ![r] = "threw"]}
    BY <1>0, <2>1, <2>2, StatusStep
  <2>4. QED
    BY <1>1, <1>2, <2>2, <2>3 DEF Start, Abs!Start
<1>3. ASSUME NEW r \in Runs, SimResult(r) PROVE Abs!Return(r)
  <2>1. /\ pc[r] = "sim" /\ pc'[r] = "returned" /\ \A q \in Runs \ {r} : pc'[q] = pc[q]
        /\ UNCHANGED <<source, mixed>>
    BY <1>0, <1>3 DEF SimResult, Goto, TInv, TypeOK, callVars
  <2>2. callStatus[r] = "running" /\ callStatus'[r] = "returned"
    BY <1>0, <2>1, StatusOf DEF callStatus
  <2>3. callStatus' = [callStatus EXCEPT ![r] = "returned"]
    BY <1>0, <2>1, <2>2, StatusStep
  <2> DEFINE used == {image[r][t] : t \in TU} \cup {glue[r][t] : t \in TU} \cup {files[r]}
  <2>4. result' = [result EXCEPT ![r] = used]
    BY <1>3 DEF SimResult
  <2>5. used \in SUBSET Sources
    <3>1. files[r] \in Sources
      BY <1>0, <2>1 DEF TInv, LocalOK
    <3>2. \A t \in TU : /\ image[r][t] \in Content /\ image[r][t] # None
                        /\ glue[r][t] \in Content /\ glue[r][t] # None
      BY <1>0, <2>1 DEF TInv, TypeOK, Filled, FilledAt
    <3>3. QED
      BY <3>1, <3>2 DEF Content
  <2>6. r \notin mixed => used = {source[r]}
    <3>1. r \notin mixed => result'[r] = {source[r]}
      BY <2>1 DEF IInv, SoloInv, OwnAt
    <3>2. result'[r] = used
      BY <1>0, <2>4 DEF TInv, TypeOK
    <3>3. QED
      BY <3>1, <3>2
  <2>7. QED
    BY <2>1, <2>2, <2>3, <2>4, <2>5, <2>6 DEF Abs!Return
\* Every other step of a call is unseen, or the call throws.
<1>4. ASSUME NEW r \in Runs, Step(r) \/ SimFails(r)
      PROVE  Abs!Throw(r) \/ UNCHANGED Abs!vars
  <2>1. /\ pc[r] \notin {"idle"} \cup EndPCs /\ pc'[r] \notin {"idle", "returned"}
        /\ \A q \in Runs \ {r} : pc'[q] = pc[q]
        /\ UNCHANGED <<source, result, mixed>>
    BY <1>0, <1>4
       DEF Step, ResumeOMC, CallMain, MslRejected, GenerateC, ZipDone, EmReady, EmRejected,
           StageAsset, WriteFile, CompileTU, AfterCompile, Link, ReadWasm, ReadJs,
           AwaitRejects, SimFails, Goto, TInv, TypeOK, callVars
  <2>2. callStatus[r] = "running" /\ callStatus'[r] \in {"running", "threw"}
    BY <1>0, <2>1, StatusOf DEF callStatus
  <2>3. callStatus' = [callStatus EXCEPT ![r] = callStatus'[r]]
    BY <1>0, <2>1, StatusStep
  <2>4. callStatus \in [Runs -> {"idle", "running", "returned", "threw"}]
    BY DEF callStatus
  <2>5. QED
    BY <2>1, <2>2, <2>3, <2>4 DEF Abs!Throw, Abs!vars
<1>5. CASE MslSettles \/ EmSettles \/ UNCHANGED vars
  <2>1. \A q \in Runs : pc'[q] = pc[q] \/ {pc[q], pc'[q]} \subseteq OmcPCs
    BY <1>0, <1>5 DEF MslSettles, EmSettles, vars, TInv, TypeOK
  <2>2. callStatus' = callStatus
    BY <2>1 DEF callStatus
  <2>3. UNCHANGED <<source, result, mixed>>
    BY <1>5 DEF MslSettles, EmSettles, vars, callVars
  <2>4. QED
    BY <2>2, <2>3 DEF Abs!vars
<1>6. QED
  BY <1>2, <1>3, <1>4, <1>5 DEF Next, Abs!Next

\* AbsSpec: the interleaved pipeline with all its shared state is, to the callers of
\* runFull, the abstract run of RunAbs.
THEOREM Refinement == Spec => AbsSpec
<1>1. Init => Filled
  BY DEF Init, Filled, FilledAt
<1>2. TInv /\ Filled /\ [Next]_vars => Filled'
  BY FilledStep
<1>3. Spec => []Filled
  BY InitTInv, TypeStep, <1>1, <1>2, PTL DEF Spec
<1>4. IInv /\ IInv' /\ Filled /\ [Next]_vars => [Abs!Next]_Abs!vars
  BY StepRefines
<1>5. QED
  BY InitRefines, IInductive, <1>3, <1>4, PTL DEF Spec, AbsSpec, Abs!Spec

=============================================================================
