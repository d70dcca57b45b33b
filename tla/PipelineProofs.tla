--------------------------- MODULE PipelineProofs ---------------------------
(***************************************************************************)
(* Proofs about Pipeline, for any sets of calls and sources and any number *)
(* of translation units and assets.                                        *)
(***************************************************************************)
EXTENDS Pipeline, TLAPS

\* The awaits of a call that has its generated files.
PostOmc == {"gen", "zip", "em", "sim"} \cup EmPCs

\* What the steps of a call rely on at their await.
LocalOK ==
    \A r \in Runs :
       /\ pc[r] # "idle" => source[r] \in Sources /\ xmo \in Sources
       /\ pc[r] \in PostOmc => files[r] \in Sources
       /\ pc[r] \in {"write", "cc"} => idx[r] \in TU
       /\ pc[r] = "stage" => idx[r] \in Assets

TInv == TypeOK /\ LocalOK

USE DEF PCs, OmcPCs, EmPCs, EndPCs, PostOmc

-----------------------------------------------------------------------------
(* Type correctness.                                                       *)

LEMMA InitTInv == Init => TInv
<1>1. 1 \in TU /\ 1 \in Assets
  BY ConstantsAssumption DEF TU, Assets
<1>2. Init => LocalOK
  BY DEF Init, LocalOK
<1>3. ASSUME Init PROVE TypeOK
  <2>1. /\ [t \in TU |-> None] \in [TU -> Content]
        /\ None \in Content
    BY DEF Content
  <2>2. /\ image \in [Runs -> [TU -> Content]] /\ glue \in [Runs -> [TU -> Content]]
        /\ working \in [Names -> [TU -> Content]]
        /\ objs \in [Names -> [TU -> Content]]
        /\ linked \in [Names -> [TU -> Content]]
    BY <2>1, <1>3 DEF Init
  <2>3. /\ result \in [Runs -> SUBSET Content]
        /\ idx \in [Runs -> TU \cup Assets]
    BY <1>1, <1>3 DEF Init
  <2>4. /\ pc \in [Runs -> PCs] /\ source \in [Runs -> Content]
        /\ stage \in [Runs -> Stages] /\ files \in [Runs -> Content]
        /\ bad \in [Runs -> BOOLEAN] /\ omcLog \in [Runs -> Runs \cup {None}]
    BY <2>1, <1>3 DEF Init, Stages
  <2>5. QED
    BY <2>1, <2>2, <2>3, <2>4, <1>3 DEF Init, TypeOK
<1>4. QED
  BY <1>2, <1>3 DEF TInv

\* callMain and the collection behind it leave a well-formed state.
LEMMA CallMainType ==
    ASSUME TypeOK, NEW r \in Runs, NEW x \in Sources, NEW o \in SUBSET Sources,
           NEW pin, NEW snk \in Runs \cup {None}, CallMain(r, x, o, pin, snk)
    PROVE  /\ pc' \in [Runs -> PCs]
           /\ files' \in [Runs -> Content]
           /\ out' \subseteq Sources
           /\ sink' = None
           /\ omcLog' \in [Runs -> Runs \cup {None}]
           /\ pc' = [pc EXCEPT ![r] = "threw"] \/ pc' = [pc EXCEPT ![r] = "gen"]
           /\ pc'[r] = "gen" => files'[r] \in Sources
           /\ \A q \in Runs \ {r} : files'[q] = files[q]
<1>1. PICK o2 \in OmcOutputs(x, o, pin) :
         /\ out' = o2
         /\ omcLog' = [omcLog EXCEPT ![r] = snk]
         /\ sink' = None
         /\ \/ Goto(r, "threw") /\ UNCHANGED files
            \/ \E s \in o2 : /\ files' = [files EXCEPT ![r] = s]
                             /\ Goto(r, "gen")
  BY DEF CallMain
<1>2. o2 \subseteq Sources
  BY DEF OmcOutputs
<1>3. QED
  BY <1>1, <1>2 DEF TypeOK, Content, Goto

LEMMA TypeStep == TInv /\ [Next]_vars => TInv'
<1> SUFFICES ASSUME TInv, [Next]_vars PROVE TInv'
  OBVIOUS
<1> USE DEF TInv
<1> USE ConstantsAssumption
<1> USE DEF omcVars, emVars, workVars, callVars
<1>1. ASSUME NEW r \in Runs, NEW s \in Sources, Start(r, s) PROVE TInv'
  <2>1. CASE s \in UsesMSL
    <3>1. /\ pc' \in [Runs -> PCs] /\ pc'[r] \in OmcPCs
          /\ \A q \in Runs \ {r} : pc'[q] = pc[q]
      BY <1>1, <2>1 DEF Start, CallMain, Goto, TypeOK
    <3>2. /\ source' \in [Runs -> Content] /\ source'[r] = s /\ xmo' = s
          /\ \A q \in Runs \ {r} : source'[q] = source[q]
          /\ mixed' \subseteq Runs /\ out' \subseteq Sources
          /\ sink' \in Runs \cup {None}
          /\ msl' \in {"none", "loading", "done"}
          /\ UNCHANGED <<files, omcLog>>
      BY <1>1, <2>1 DEF Start, CallMain, Unlinked, TypeOK, Content, Active
    <3>3. QED
      BY <1>1, <3>1, <3>2 DEF Start, TypeOK, LocalOK, Content
  <2>2. CASE s \notin UsesMSL
    <3>1. CallMain(r, s, {}, None, r) /\ UNCHANGED msl
      BY <1>1, <2>2 DEF Start, Unlinked
    <3>2. QED
      <4>1. mixed' \subseteq Runs
        BY <1>1 DEF Start, TypeOK, Active
      <4>2. /\ pc' \in [Runs -> PCs] /\ files' \in [Runs -> Content]
            /\ out' \subseteq Sources /\ sink' = None
            /\ omcLog' \in [Runs -> Runs \cup {None}]
            /\ pc' = [pc EXCEPT ![r] = "threw"] \/ pc' = [pc EXCEPT ![r] = "gen"]
            /\ pc'[r] = "gen" => files'[r] \in Sources
            /\ \A q \in Runs \ {r} : files'[q] = files[q]
        BY <3>1, CallMainType
      <4>3. /\ source' = [source EXCEPT ![r] = s] /\ xmo' = s
            /\ UNCHANGED <<stage, idx, bad, image, glue, result, urls, emVars, workVars>>
        BY <1>1 DEF Start
      <4>4. TypeOK'
        BY <3>1, <4>1, <4>2, <4>3 DEF TypeOK, Content
      <4>5. LocalOK'
        BY <3>1, <4>2, <4>3 DEF TypeOK, LocalOK
      <4>6. QED
        BY <4>4, <4>5
  <2>3. QED BY <2>1, <2>2
<1>2. CASE MslSettles
  BY <1>2 DEF MslSettles, TypeOK, LocalOK
<1>3. CASE EmSettles
  BY <1>3 DEF EmSettles, TypeOK, LocalOK
<1>4. ASSUME NEW r \in Runs, ResumeOMC(r) PROVE TInv'
  <2>1. /\ xmo \in Sources /\ out \in SUBSET Sources /\ sink \in Runs \cup {None}
        /\ CallMain(r, xmo, out, ModelOf[source[r]], sink)
    BY <1>4 DEF ResumeOMC, TypeOK, LocalOK
  <2>2. /\ pc' \in [Runs -> PCs] /\ files' \in [Runs -> Content]
        /\ out' \subseteq Sources /\ sink' = None
        /\ omcLog' \in [Runs -> Runs \cup {None}]
        /\ pc' = [pc EXCEPT ![r] = "threw"] \/ pc' = [pc EXCEPT ![r] = "gen"]
        /\ pc'[r] = "gen" => files'[r] \in Sources
        /\ \A q \in Runs \ {r} : files'[q] = files[q]
    BY <2>1, CallMainType
  <2>3. UNCHANGED <<callVars, stage, idx, bad, image, glue, result, xmo, msl, urls,
                    emVars, workVars>>
    BY <1>4 DEF ResumeOMC
  <2>4. TypeOK'
    BY <2>1, <2>2, <2>3 DEF TypeOK
  <2>5. LocalOK'
    BY <1>4, <2>1, <2>2, <2>3 DEF ResumeOMC, TypeOK, LocalOK
  <2>6. QED
    BY <2>4, <2>5
<1>5. ASSUME NEW r \in Runs, MslRejected(r) PROVE TInv'
  BY <1>5 DEF MslRejected, Goto, TypeOK, LocalOK
<1>6. ASSUME NEW r \in Runs, GenerateC(r) PROVE TInv'
  BY <1>6 DEF GenerateC, Goto, TypeOK, LocalOK, Stages
<1>7. ASSUME NEW r \in Runs, ZipDone(r) PROVE TInv'
  BY <1>7 DEF ZipDone, Goto, TypeOK, LocalOK, Stages
<1>8. ASSUME NEW r \in Runs, EmReady(r) PROVE TInv'
  BY <1>8 DEF EmReady, Goto, TypeOK, LocalOK, TU, Assets
<1>9. ASSUME NEW r \in Runs, EmRejected(r) PROVE TInv'
  BY <1>9 DEF EmRejected, Goto, TypeOK, LocalOK
<1>10. ASSUME NEW r \in Runs, StageAsset(r) PROVE TInv'
  <2>1. idx[r] \in Assets /\ 1 \in TU
    BY <1>10 DEF StageAsset, LocalOK, TU
  <2>2. idx[r] = NAssets \/ idx[r] + 1 \in Assets
    BY <2>1 DEF Assets
  <2>3. assets' \subseteq Assets /\ emceStaged' \in BOOLEAN
    BY <1>10, <2>1 DEF StageAsset, StagedAfter, TypeOK
  <2>4. /\ \/ idx' = [idx EXCEPT ![r] = 1] /\ pc' = [pc EXCEPT ![r] = "write"]
           \/ idx[r] + 1 \in Assets /\ idx' = [idx EXCEPT ![r] = idx[r] + 1] /\ pc' = pc
        /\ UNCHANGED <<callVars, stage, files, bad, image, glue, result, omcVars, urls,
                       emce, workVars>>
    BY <1>10, <2>2 DEF StageAsset, LastAsset, Goto
  <2>5. idx' \in [Runs -> TU \cup Assets] /\ pc' \in [Runs -> PCs]
    <3>1. pc' \in [Runs -> PCs]
      BY <2>4 DEF TypeOK
    <3>2. \A i \in TU \cup Assets : [idx EXCEPT ![r] = i] \in [Runs -> TU \cup Assets]
      BY DEF TypeOK
    <3>3. idx \in [Runs -> TU \cup Assets]
      BY DEF TypeOK
    <3>4. QED
      BY <2>1, <2>4, <3>1, <3>2, <3>3
  <2>6. TypeOK'
    BY <2>3, <2>4, <2>5 DEF TypeOK
  <2>7. LocalOK'
    <3>1. \A q \in Runs \ {r} : pc'[q] = pc[q] /\ idx'[q] = idx[q]
      BY <2>4 DEF TypeOK
    <3>2. \/ pc'[r] = "write" /\ idx'[r] = 1
          \/ pc'[r] = "stage" /\ idx'[r] \in Assets
      BY <1>10, <2>4 DEF StageAsset, TypeOK
    <3>3. pc[r] = "stage"
      BY <1>10 DEF StageAsset
    <3>4. QED
      BY <2>1, <2>4, <3>1, <3>2, <3>3 DEF LocalOK
  <2>8. QED
    BY <2>6, <2>7
<1>11. ASSUME NEW r \in Runs, WriteFile(r) PROVE TInv'
  <2>1. idx[r] \in TU /\ 1 \in TU /\ modelName(r) \in Names /\ files[r] \in Content
    BY <1>11 DEF WriteFile, LocalOK, TU, modelName, Content
  <2>2. idx[r] = NTU \/ idx[r] + 1 \in TU
    BY <2>1 DEF TU
  <2>3. working' \in [Names -> [TU -> Content]]
    BY <1>11, <2>1 DEF WriteFile, TypeOK
  <2>4. /\ \/ idx' = [idx EXCEPT ![r] = 1] /\ pc' = [pc EXCEPT ![r] = "cc"]
           \/ idx[r] + 1 \in TU /\ idx' = [idx EXCEPT ![r] = idx[r] + 1] /\ pc' = pc
        /\ UNCHANGED <<callVars, stage, files, bad, image, glue, result, omcVars, urls,
                       emVars, objs, linked>>
    BY <1>11, <2>2 DEF WriteFile, Goto
  <2>5. idx' \in [Runs -> TU \cup Assets] /\ pc' \in [Runs -> PCs]
    <3>1. pc' \in [Runs -> PCs]
      BY <2>4 DEF TypeOK
    <3>2. \A i \in TU \cup Assets : [idx EXCEPT ![r] = i] \in [Runs -> TU \cup Assets]
      BY DEF TypeOK
    <3>3. idx \in [Runs -> TU \cup Assets]
      BY DEF TypeOK
    <3>4. QED
      BY <2>1, <2>4, <3>1, <3>2, <3>3
  <2>6. TypeOK'
    BY <2>3, <2>4, <2>5 DEF TypeOK
  <2>7. LocalOK'
    <3>1. \A q \in Runs \ {r} : pc'[q] = pc[q] /\ idx'[q] = idx[q]
      BY <2>4 DEF TypeOK
    <3>2. /\ pc'[r] = "cc" \/ pc'[r] = "write"
          /\ idx'[r] \in TU
      BY <1>11, <2>1, <2>4 DEF WriteFile, TypeOK
    <3>3. pc[r] = "write"
      BY <1>11 DEF WriteFile
    <3>4. QED
      BY <2>1, <2>4, <3>1, <3>2, <3>3 DEF LocalOK
  <2>8. QED
    BY <2>6, <2>7
<1>12. ASSUME NEW r \in Runs, CompileTU(r) PROVE TInv'
  <2>1. idx[r] \in TU /\ modelName(r) \in Names
    BY <1>12 DEF CompileTU, LocalOK, modelName
  <2>2. idx[r] = NTU \/ idx[r] + 1 \in TU
    BY <2>1 DEF TU
  <2>3. /\ objs' \in [Names -> [TU -> Content]]
        /\ bad' \in [Runs -> BOOLEAN]
    <3>1. CASE bad' = bad /\ objs' = [objs EXCEPT ![modelName(r)][idx[r]] =
                                                  working[modelName(r)][idx[r]]]
      BY <2>1, <3>1 DEF TypeOK
    <3>2. CASE objs' = objs /\ bad' = [bad EXCEPT ![r] = TRUE]
      BY <3>2 DEF TypeOK
    <3>3. QED
      BY <1>12, <3>1, <3>2 DEF CompileTU
  <2>4. /\ \/ idx' = idx /\ pc' = [pc EXCEPT ![r] = "link"]
           \/ idx' = idx /\ pc' = [pc EXCEPT ![r] = "threw"]
           \/ idx[r] + 1 \in TU /\ idx' = [idx EXCEPT ![r] = idx[r] + 1] /\ pc' = pc
        /\ UNCHANGED <<callVars, stage, files, image, glue, result, omcVars, urls,
                       emVars, working, linked>>
    BY <1>12, <2>2 DEF CompileTU, AfterCompile, Goto
  <2>5. idx' \in [Runs -> TU \cup Assets] /\ pc' \in [Runs -> PCs]
    <3>1. pc' \in [Runs -> PCs]
      BY <2>4 DEF TypeOK
    <3>2. \A i \in TU \cup Assets : [idx EXCEPT ![r] = i] \in [Runs -> TU \cup Assets]
      BY DEF TypeOK
    <3>3. idx \in [Runs -> TU \cup Assets]
      BY DEF TypeOK
    <3>4. QED
      BY <2>1, <2>4, <3>1, <3>2, <3>3
  <2>6. TypeOK'
    BY <2>3, <2>4, <2>5 DEF TypeOK
  <2>7. LocalOK'
    <3>1. \A q \in Runs \ {r} : pc'[q] = pc[q] /\ idx'[q] = idx[q]
      BY <2>4 DEF TypeOK
    <3>2. \/ pc'[r] \in {"link", "threw"}
          \/ pc'[r] = "cc" /\ idx'[r] \in TU
      BY <1>12, <2>4 DEF CompileTU, TypeOK
    <3>3. pc[r] = "cc"
      BY <1>12 DEF CompileTU
    <3>4. QED
      BY <2>1, <2>4, <3>1, <3>2, <3>3 DEF LocalOK
  <2>8. QED
    BY <2>6, <2>7
<1>13. ASSUME NEW r \in Runs, Link(r) PROVE TInv'
  BY <1>13 DEF Link, Goto, TypeOK, LocalOK, modelName
<1>14. ASSUME NEW r \in Runs, ReadWasm(r) PROVE TInv'
  BY <1>14 DEF ReadWasm, Goto, TypeOK, LocalOK, modelName
<1>15. ASSUME NEW r \in Runs, ReadJs(r) PROVE TInv'
  BY <1>15 DEF ReadJs, Goto, TypeOK, LocalOK, modelName, Stages
<1>16. ASSUME NEW r \in Runs, AwaitRejects(r) PROVE TInv'
  BY <1>16 DEF AwaitRejects, Goto, TypeOK, LocalOK
<1>17. ASSUME NEW r \in Runs, SimResult(r) PROVE TInv'
  BY <1>17 DEF SimResult, Goto, TypeOK, LocalOK, Content
<1>18. ASSUME NEW r \in Runs, SimFails(r) PROVE TInv'
  BY <1>18 DEF SimFails, Goto, TypeOK, LocalOK
<1>19. CASE UNCHANGED vars
  BY <1>19 DEF vars, TypeOK, LocalOK
<1>20. QED
  BY <1>1, <1>2, <1>3, <1>4, <1>5, <1>6, <1>7, <1>8, <1>9, <1>10, <1>11, <1>12,
     <1>13, <1>14, <1>15, <1>16, <1>17, <1>18, <1>19 DEF Next, Step

\* Every variable of the pipeline keeps its type, whatever the calls do.
THEOREM TypeCorrect == Spec => []TypeOK
<1>1. TInv => TypeOK
  BY DEF TInv
<1>2. QED
  BY InitTInv, TypeStep, <1>1, PTL DEF Spec

-----------------------------------------------------------------------------
(* Staging.                                                                *)

\* A call that stages has written the assets in front of its position, and no
\* call takes an asset away.
StagedInv ==
    /\ emceStaged => assets = Assets
    /\ \A r \in Runs : pc[r] = "stage" => \A i \in Assets : i < idx[r] => i \in assets
    /\ StagedBeforeUse

\* A step that leaves the assets alone and takes no call into or along staging.
LEMMA StagedFrame ==
    ASSUME StagedInv, UNCHANGED <<assets, emceStaged>>,
           \A q \in Runs :
              /\ pc'[q] = "stage" => pc[q] = "stage" /\ idx'[q] = idx[q]
              /\ pc'[q] \in EmPCs \ {"stage"} => pc[q] \in EmPCs \ {"stage"}
    PROVE  StagedInv'
<1>1. StagedBeforeUse'
  BY DEF StagedInv, StagedBeforeUse
<1>2. ASSUME NEW q \in Runs, pc'[q] = "stage", NEW i \in Assets, i < idx'[q]
      PROVE  i \in assets'
  <2>1. pc[q] = "stage" /\ i < idx[q] /\ assets' = assets
    BY <1>2
  <2>2. QED
    BY <2>1 DEF StagedInv
<1>3. QED
  BY <1>1, <1>2 DEF StagedInv

LEMMA StagedStep == TInv /\ StagedInv /\ [Next]_vars => StagedInv'
<1> SUFFICES ASSUME TInv, StagedInv, [Next]_vars PROVE StagedInv'
  OBVIOUS
<1> USE ConstantsAssumption
<1> USE DEF emVars
<1>1. ASSUME NEW r \in Runs, EmReady(r) PROVE StagedInv'
  <2>1. \A q \in Runs \ {r} : pc'[q] = pc[q] /\ idx'[q] = idx[q]
    BY <1>1 DEF EmReady, Goto, TInv, TypeOK
  <2>2. /\ idx'[r] = 1
        /\ pc'[r] = IF emceStaged THEN "write" ELSE "stage"
        /\ UNCHANGED <<assets, emceStaged>>
    BY <1>1 DEF EmReady, Goto, TInv, TypeOK
  <2>3. QED
    BY <2>1, <2>2 DEF StagedInv, StagedBeforeUse, Assets
<1>2. ASSUME NEW r \in Runs, StageAsset(r) PROVE StagedInv'
  <2>1. \A q \in Runs \ {r} : pc'[q] = pc[q] /\ idx'[q] = idx[q]
    BY <1>2 DEF StageAsset, Goto, TInv, TypeOK
  <2>2. /\ assets' = assets \cup {idx[r]}
        /\ pc[r] = "stage" /\ idx[r] \in Assets
        /\ emceStaged' = (emceStaged \/ idx[r] = NAssets)
    BY <1>2 DEF StageAsset, StagedAfter, TInv, LocalOK
  <2>3. assets' \subseteq Assets
    BY <2>2 DEF TInv, TypeOK
  <2>4. idx[r] = NAssets => assets' = Assets
    <3>1. ASSUME idx[r] = NAssets, NEW i \in Assets PROVE i \in assets'
      <4>1. i = idx[r] \/ i < idx[r]
        BY <3>1 DEF Assets
      <4>2. QED
        BY <2>2, <4>1 DEF StagedInv
    <3>2. QED
      BY <2>3, <3>1
  <2>5. assets = Assets => assets' = Assets
    BY <2>2, <2>3
  <2>6. \/ idx[r] = NAssets /\ pc'[r] = "write"
        \/ pc'[r] = "stage" /\ idx'[r] = idx[r] + 1
    BY <1>2, <2>2 DEF StageAsset, LastAsset, Goto, TInv, TypeOK
  <2>7. \A i \in Assets : i < idx[r] + 1 => i \in assets'
    BY <2>2 DEF StagedInv, Assets
  <2>8. StagedBeforeUse'
    BY <2>1, <2>4, <2>5, <2>6 DEF StagedInv, StagedBeforeUse
  <2>9. ASSUME NEW q \in Runs, pc'[q] = "stage", NEW i \in Assets, i < idx'[q]
        PROVE  i \in assets'
    BY <2>1, <2>2, <2>6, <2>7, <2>9 DEF StagedInv
  <2>10. QED
    BY <2>2, <2>4, <2>5, <2>8, <2>9 DEF StagedInv, Assets
<1>3. ASSUME NEW r \in Runs, NEW s \in Sources, Start(r, s) PROVE StagedInv'
  <2>1. /\ UNCHANGED <<assets, emceStaged, idx>>
        /\ \E where \in OmcPCs \cup {"threw", "gen"} : pc' = [pc EXCEPT ![r] = where]
    BY <1>3 DEF Start, CallMain, Goto
  <2>2. QED
    BY <2>1, StagedFrame DEF TInv, TypeOK
<1>4. CASE MslSettles
  BY <1>4, StagedFrame DEF MslSettles, TInv, TypeOK
<1>5. CASE EmSettles
  BY <1>5, StagedFrame DEF EmSettles
<1>6. ASSUME NEW r \in Runs,
             \/ ResumeOMC(r) \/ MslRejected(r) \/ GenerateC(r) \/ ZipDone(r)
             \/ EmRejected(r) \/ AwaitRejects(r) \/ SimResult(r) \/ SimFails(r)
      PROVE  StagedInv'
  <2>1. /\ UNCHANGED <<assets, emceStaged, idx>>
        /\ \E where \in {"threw", "gen", "zip", "em", "returned"} :
               pc' = [pc EXCEPT ![r] = where]
    BY <1>6 DEF ResumeOMC, CallMain, MslRejected, GenerateC, ZipDone, EmRejected,
                AwaitRejects, SimResult, SimFails, Goto
  <2>2. QED
    BY <2>1, StagedFrame DEF TInv, TypeOK
<1>7. ASSUME NEW r \in Runs,
             WriteFile(r) \/ CompileTU(r) \/ Link(r) \/ ReadWasm(r) \/ ReadJs(r)
      PROVE  StagedInv'
  <2>1. /\ UNCHANGED <<assets, emceStaged>>
        /\ pc[r] \in EmPCs \ {"stage"}
        /\ \/ pc' = pc
           \/ \E where \in {"cc", "link", "wasm", "js", "sim", "threw"} :
                 pc' = [pc EXCEPT ![r] = where]
        /\ \A q \in Runs \ {r} : idx'[q] = idx[q]
    BY <1>7 DEF WriteFile, CompileTU, AfterCompile, Link, ReadWasm, ReadJs, Goto, TInv,
                TypeOK
  <2>2. QED
    BY <2>1, StagedFrame DEF TInv, TypeOK
<1>8. CASE UNCHANGED vars
  BY <1>8, StagedFrame DEF vars
<1>9. QED
  BY <1>1, <1>2, <1>3, <1>4, <1>5, <1>6, <1>7, <1>8 DEF Next, Step

\* No call writes to /working, compiles or links before everything is staged,
\* in every interleaving of any number of calls.
THEOREM StagingCorrect == Spec => []StagedBeforeUse
<1>1. Init => StagedInv
  BY DEF Init, StagedInv, StagedBeforeUse
<1>2. StagedInv => StagedBeforeUse
  BY DEF StagedInv
<1>3. QED
  BY InitTInv, TypeStep, StagedStep, <1>1, <1>2, PTL DEF Spec

-----------------------------------------------------------------------------
(* Waiting: what RunSettles rests on besides fairness.                     *)

\* A call waits for the library only while it is being loaded, and for the worker only
\* when somebody has started it, so that something is still to settle.
AwaitsPending ==
    \A r \in Runs : /\ pc[r] = "msl" => msl = "loading"
                    /\ pc[r] = "em" => emce # "none"

LEMMA AwaitsStep == TInv /\ AwaitsPending /\ [Next]_vars => AwaitsPending'
<1> SUFFICES ASSUME TInv, AwaitsPending, [Next]_vars PROVE AwaitsPending'
  OBVIOUS
<1>0. pc \in [Runs -> PCs] /\ msl \in {"none", "loading", "done"}
  BY DEF TInv, TypeOK
<1>1. ASSUME NEW r \in Runs, NEW s \in Sources, Start(r, s) PROVE AwaitsPending'
  <2>1. \A q \in Runs \ {r} : pc'[q] = pc[q]
    BY <1>0, <1>1 DEF Start, CallMain, Goto
  <2>2. /\ pc'[r] \in {"msl", "mslok", "gen", "threw"}
        /\ pc'[r] = "msl" => msl' = "loading"
        /\ msl = "loading" => msl' = "loading"
    BY <1>0, <1>1 DEF Start, CallMain, Goto
  <2>3. emce' = emce
    BY <1>1 DEF Start, emVars
  <2> QED BY <2>1, <2>2, <2>3 DEF AwaitsPending
<1>2. CASE MslSettles
  <2>1. \A q \in Runs : pc'[q] # "msl" /\ (pc'[q] = "em" => pc[q] = "em")
    BY <1>0, <1>2 DEF MslSettles
  <2> QED BY <1>2, <2>1 DEF MslSettles, emVars, AwaitsPending
<1>3. CASE EmSettles
  BY <1>3 DEF EmSettles, omcVars, AwaitsPending
<1>4. ASSUME NEW r \in Runs, ZipDone(r) PROVE AwaitsPending'
  <2>1. emce' # "none" /\ pc'[r] = "em" /\ msl' = msl /\ \A q \in Runs \ {r} : pc'[q] = pc[q]
    BY <1>0, <1>4 DEF ZipDone, Goto, omcVars
  <2> QED BY <2>1 DEF AwaitsPending
<1>5. ASSUME NEW r \in Runs,
             \/ ResumeOMC(r) \/ MslRejected(r) \/ GenerateC(r) \/ EmReady(r) \/ EmRejected(r)
             \/ StageAsset(r) \/ WriteFile(r) \/ CompileTU(r) \/ Link(r) \/ ReadWasm(r)
             \/ ReadJs(r) \/ AwaitRejects(r) \/ SimResult(r) \/ SimFails(r)
      PROVE  AwaitsPending'
  <2>1. msl' = msl /\ emce' = emce
    BY <1>5 DEF ResumeOMC, MslRejected, GenerateC, EmReady, EmRejected, StageAsset, WriteFile,
                CompileTU, Link, ReadWasm, ReadJs, AwaitRejects, SimResult, SimFails,
                omcVars, emVars
  <2>2. \A q \in Runs : pc'[q] \in {"msl", "em"} => pc'[q] = pc[q]
    BY <1>0, <1>5 DEF ResumeOMC, CallMain, MslRejected, GenerateC, EmReady, EmRejected,
                StageAsset, WriteFile, CompileTU, AfterCompile, Link, ReadWasm, ReadJs,
                AwaitRejects, SimResult, SimFails, Goto
  <2> QED BY <2>1, <2>2 DEF AwaitsPending
<1>6. CASE UNCHANGED vars
  BY <1>6 DEF vars, omcVars, emVars, AwaitsPending
<1> QED BY <1>1, <1>2, <1>3, <1>4, <1>5, <1>6 DEF Next, Step

\* getEmception, stageMSL: in every interleaving, no call is left waiting for a promise
\* that is not there, or for a download that has ended.
THEOREM AwaitsCorrect == Spec => []AwaitsPending
<1>1. Init => AwaitsPending
  BY DEF Init, AwaitsPending
<1> QED BY InitTInv, TypeStep, AwaitsStep, <1>1, PTL DEF Spec

\* How many awaits are left at most, counting the one at p with the loop at i, until a call
\* simulates or is over.
LeftAt(p, i) ==
    CASE p = "js"    -> 1
      [] p = "wasm"  -> 2
      [] p = "link"  -> 3
      [] p = "cc"    -> 4 + (NTU - i)
      [] p = "write" -> 4 + NTU + (NTU - i)
      [] p = "stage" -> 4 + 2 * NTU + (NAssets - i)
      [] p = "em"    -> 4 + 2 * NTU + NAssets
      [] p = "zip"   -> 5 + 2 * NTU + NAssets
      [] p = "gen"   -> 6 + 2 * NTU + NAssets
      [] p \in {"mslok", "mslerr"} -> 7 + 2 * NTU + NAssets
      [] p = "msl"   -> 8 + 2 * NTU + NAssets
      [] OTHER       -> 0

AwaitsLeft(r) == LeftAt(pc[r], idx[r])

\* A step of a call brings it closer to its simulation or its end, and no step of another
\* call, of the library's download or of the worker sets it back.
CallsGetCloser ==
    \A r \in Runs :
       /\ Step(r) => AwaitsLeft(r)' \in 0 .. AwaitsLeft(r) - 1
       /\ pc[r] # "idle" => AwaitsLeft(r)' \in 0 .. AwaitsLeft(r)

LEMMA LeftAtEach ==
    ASSUME NEW i
    PROVE  /\ LeftAt("js", i) = 1 /\ LeftAt("wasm", i) = 2 /\ LeftAt("link", i) = 3
           /\ LeftAt("cc", i) = 4 + (NTU - i)
           /\ LeftAt("write", i) = 4 + NTU + (NTU - i)
           /\ LeftAt("stage", i) = 4 + 2 * NTU + (NAssets - i)
           /\ LeftAt("em", i) = 4 + 2 * NTU + NAssets
           /\ LeftAt("zip", i) = 5 + 2 * NTU + NAssets
           /\ LeftAt("gen", i) = 6 + 2 * NTU + NAssets
           /\ LeftAt("mslok", i) = 7 + 2 * NTU + NAssets
           /\ LeftAt("mslerr", i) = 7 + 2 * NTU + NAssets
           /\ LeftAt("msl", i) = 8 + 2 * NTU + NAssets
           /\ \A p \in {"idle", "sim", "returned", "threw"} : LeftAt(p, i) = 0
BY DEF LeftAt

LEMMA AwaitsLeftIsNat == ASSUME TInv, NEW r \in Runs PROVE AwaitsLeft(r) \in Nat
<1>1. NTU \in Nat /\ NAssets \in Nat
  BY ConstantsAssumption
<1>2. /\ pc[r] \in {"write", "cc"} => idx[r] \in 1 .. NTU
      /\ pc[r] = "stage" => idx[r] \in 1 .. NAssets
  BY DEF TInv, LocalOK, TU, Assets
<1> QED BY <1>1, <1>2 DEF AwaitsLeft, LeftAt

\* What a step of a call does to its own program counter and index.
LEMMA OwnAwait ==
    ASSUME TInv, NEW r \in Runs, Step(r)
    PROVE  /\ AwaitsLeft(r)' \in 0 .. AwaitsLeft(r) - 1
           /\ \A q \in Runs \ {r} : pc'[q] = pc[q] /\ idx'[q] = idx[q]
<1>0. /\ pc \in [Runs -> PCs] /\ idx \in [Runs -> TU \cup Assets] /\ bad \in [Runs -> BOOLEAN]
      /\ NTU \in Nat \ {0} /\ NAssets \in Nat \ {0}
  BY ConstantsAssumption DEF TInv, TypeOK
<1>1. CASE ResumeOMC(r)
  <2>1. pc[r] = "mslok" /\ pc'[r] \in {"gen", "threw"} /\ UNCHANGED idx
        /\ \A q \in Runs \ {r} : pc'[q] = pc[q]
    BY <1>0, <1>1 DEF ResumeOMC, CallMain, Goto
  <2> QED BY <1>0, <2>1, LeftAtEach DEF AwaitsLeft
<1>2. CASE \/ MslRejected(r) \/ EmRejected(r) \/ AwaitRejects(r)
  <2>1. /\ pc[r] \in {"mslerr", "em", "zip"} \cup EmPCs /\ pc'[r] = "threw" /\ UNCHANGED idx
        /\ \A q \in Runs \ {r} : pc'[q] = pc[q]
    BY <1>0, <1>2 DEF MslRejected, EmRejected, AwaitRejects, Goto
  <2>2. /\ pc[r] \in {"write", "cc"} => idx[r] \in 1 .. NTU
        /\ pc[r] = "stage" => idx[r] \in 1 .. NAssets
    BY DEF TInv, LocalOK, TU, Assets
  <2>3. AwaitsLeft(r)' = 0
    BY <2>1, LeftAtEach DEF AwaitsLeft
  <2>4. AwaitsLeft(r) > 0
    BY <1>0, <2>1, <2>2, LeftAtEach DEF AwaitsLeft
  <2>5. AwaitsLeft(r) \in Nat
    BY AwaitsLeftIsNat
  <2> QED BY <2>1, <2>3, <2>4, <2>5
<1>3. CASE GenerateC(r)
  <2>1. pc[r] = "gen" /\ pc'[r] = "zip" /\ UNCHANGED idx
        /\ \A q \in Runs \ {r} : pc'[q] = pc[q]
    BY <1>0, <1>3 DEF GenerateC, Goto
  <2> QED BY <1>0, <2>1, LeftAtEach DEF AwaitsLeft
<1>4. CASE ZipDone(r)
  <2>1. pc[r] = "zip" /\ pc'[r] = "em" /\ UNCHANGED idx
        /\ \A q \in Runs \ {r} : pc'[q] = pc[q]
    BY <1>0, <1>4 DEF ZipDone, Goto
  <2> QED BY <1>0, <2>1, LeftAtEach DEF AwaitsLeft
<1>5. CASE EmReady(r)
  <2>1. pc[r] = "em" /\ pc'[r] \in {"write", "stage"} /\ idx'[r] = 1
        /\ \A q \in Runs \ {r} : pc'[q] = pc[q] /\ idx'[q] = idx[q]
    BY <1>0, <1>5 DEF EmReady, Goto
  <2> QED BY <1>0, <2>1, LeftAtEach DEF AwaitsLeft
<1>6. CASE StageAsset(r)
  <2>1. /\ pc[r] = "stage" /\ idx[r] \in 1 .. NAssets
        /\ \A q \in Runs \ {r} : pc'[q] = pc[q] /\ idx'[q] = idx[q]
    BY <1>0, <1>6 DEF StageAsset, LastAsset, Goto, TInv, LocalOK, Assets
  <2>2. \/ pc'[r] = "write" /\ idx'[r] = 1
        \/ pc'[r] = "stage" /\ idx'[r] = idx[r] + 1 /\ idx[r] # NAssets
    BY <1>0, <1>6, <2>1 DEF StageAsset, LastAsset, Goto
  <2> QED BY <1>0, <2>1, <2>2, LeftAtEach DEF AwaitsLeft
<1>7. CASE WriteFile(r)
  <2>1. /\ pc[r] = "write" /\ idx[r] \in 1 .. NTU
        /\ \A q \in Runs \ {r} : pc'[q] = pc[q] /\ idx'[q] = idx[q]
    BY <1>0, <1>7 DEF WriteFile, Goto, TInv, LocalOK, TU
  <2>2. \/ pc'[r] = "cc" /\ idx'[r] = 1
        \/ pc'[r] = "write" /\ idx'[r] = idx[r] + 1 /\ idx[r] # NTU
    BY <1>0, <1>7, <2>1 DEF WriteFile, Goto
  <2> QED BY <1>0, <2>1, <2>2, LeftAtEach DEF AwaitsLeft
<1>8. CASE CompileTU(r)
  <2>1. /\ pc[r] = "cc" /\ idx[r] \in 1 .. NTU
        /\ \A q \in Runs \ {r} : pc'[q] = pc[q] /\ idx'[q] = idx[q]
    BY <1>0, <1>8 DEF CompileTU, Goto, TInv, LocalOK, TU
  <2>2. \/ pc'[r] \in {"link", "threw"}
        \/ pc'[r] = "cc" /\ idx'[r] = idx[r] + 1 /\ idx[r] # NTU
    BY <1>0, <1>8, <2>1 DEF CompileTU, AfterCompile, Goto
  <2> QED BY <1>0, <2>1, <2>2, LeftAtEach DEF AwaitsLeft
<1>9. CASE Link(r) \/ ReadWasm(r) \/ ReadJs(r)
  <2>1. /\ UNCHANGED idx /\ \A q \in Runs \ {r} : pc'[q] = pc[q]
        /\ \/ pc[r] = "link" /\ pc'[r] = "wasm"
           \/ pc[r] = "wasm" /\ pc'[r] = "js"
           \/ pc[r] = "js" /\ pc'[r] = "sim"
    BY <1>0, <1>9 DEF Link, ReadWasm, ReadJs, Goto
  <2> QED BY <1>0, <2>1, LeftAtEach DEF AwaitsLeft
<1> QED BY <1>1, <1>2, <1>3, <1>4, <1>5, <1>6, <1>7, <1>8, <1>9 DEF Step

LEMMA CloserStep == TInv /\ [Next]_vars => CallsGetCloser
<1> SUFFICES ASSUME TInv, [Next]_vars, NEW r \in Runs
             PROVE  /\ Step(r) => AwaitsLeft(r)' \in 0 .. AwaitsLeft(r) - 1
                    /\ pc[r] # "idle" => AwaitsLeft(r)' \in 0 .. AwaitsLeft(r)
  BY DEF CallsGetCloser
<1>0. AwaitsLeft(r) \in Nat /\ pc \in [Runs -> PCs]
  BY AwaitsLeftIsNat DEF TInv, TypeOK
<1>1. Step(r) => AwaitsLeft(r)' \in 0 .. AwaitsLeft(r) - 1
  BY OwnAwait
<1>2. ASSUME pc'[r] = pc[r], idx'[r] = idx[r]
      PROVE  AwaitsLeft(r)' \in 0 .. AwaitsLeft(r)
  <2>1. AwaitsLeft(r)' = AwaitsLeft(r)
    BY <1>2 DEF AwaitsLeft
  <2> QED BY <1>0, <2>1
<1>3. pc[r] # "idle" => AwaitsLeft(r)' \in 0 .. AwaitsLeft(r)
  <2>1. CASE Step(r)
    BY <1>0, <1>1, <2>1
  <2>2. ASSUME NEW q \in Runs, q # r, Step(q) PROVE AwaitsLeft(r)' \in 0 .. AwaitsLeft(r)
    BY <1>2, <2>2, OwnAwait
  <2>3. ASSUME NEW q \in Runs, NEW s \in Sources, Start(q, s), pc[r] # "idle"
        PROVE  AwaitsLeft(r)' \in 0 .. AwaitsLeft(r)
    <3>1. q # r /\ pc'[r] = pc[r] /\ idx'[r] = idx[r]
      BY <1>0, <2>3 DEF Start, CallMain, Goto
    <3> QED BY <1>2, <3>1
  <2>4. ASSUME NEW q \in Runs, SimResult(q) \/ SimFails(q)
        PROVE  AwaitsLeft(r)' \in 0 .. AwaitsLeft(r)
    <3>1. idx'[r] = idx[r] /\ (pc'[r] = pc[r] \/ pc'[r] \in {"returned", "threw"})
      BY <1>0, <2>4 DEF SimResult, SimFails, Goto
    <3>2. pc'[r] \in {"returned", "threw"} => AwaitsLeft(r)' = 0
      BY LeftAtEach DEF AwaitsLeft
    <3> QED BY <1>0, <1>2, <3>1, <3>2
  <2>5. CASE MslSettles
    <3>1. idx'[r] = idx[r]
          /\ (pc'[r] = pc[r] \/ (pc[r] = "msl" /\ pc'[r] \in {"mslok", "mslerr"}))
      BY <1>0, <2>5 DEF MslSettles
    <3>2. pc[r] = "msl" /\ pc'[r] \in {"mslok", "mslerr"}
            => AwaitsLeft(r)' = AwaitsLeft(r) - 1 /\ AwaitsLeft(r) > 0
      BY ConstantsAssumption, LeftAtEach DEF AwaitsLeft
    <3> QED BY <1>0, <1>2, <3>1, <3>2
  <2>6. CASE EmSettles \/ UNCHANGED vars
    <3>1. idx'[r] = idx[r] /\ pc'[r] = pc[r]
      BY <2>6 DEF EmSettles, vars
    <3> QED BY <1>2, <3>1
  <2> QED BY <2>1, <2>2, <2>3, <2>4, <2>5, <2>6 DEF Next
<1> QED BY <1>1, <1>3

\* CallsGetCloser: in every interleaving a call of runFull is through with its awaits up to
\* the simulation after at most NAssets + 2 * NTU + 8 steps; with AwaitsCorrect and weak
\* fairness of each step that is RunSettles.
THEOREM CallsAreBounded == Spec => [][CallsGetCloser]_vars
BY InitTInv, TypeStep, CloserStep, PTL DEF Spec

-----------------------------------------------------------------------------
(* Provenance.                                                             *)

\* What holds at each await of a call that nothing overlapped: the state it
\* will read next is its own, up to the point its loop has reached.
OwnAt(r) ==
    /\ pc[r] \in OmcPCs => xmo = source[r] /\ out = {} /\ sink = r
    /\ pc[r] \in PostOmc => files[r] = source[r]
    /\ pc[r] = "write" =>
          \A t \in TU : t < idx[r] => working[modelName(r)][t] = source[r]
    /\ pc[r] = "cc" =>
          /\ \A t \in TU : working[modelName(r)][t] = source[r]
          /\ ~bad[r] => \A t \in TU : t < idx[r] => objs[modelName(r)][t] = source[r]
    /\ pc[r] = "link" => \A t \in TU : objs[modelName(r)][t] = source[r]
    /\ pc[r] \in {"wasm", "js"} => \A t \in TU : linked[modelName(r)][t] = source[r]
    /\ pc[r] \in {"js", "sim"} => \A t \in TU : image[r][t] = source[r]
    /\ pc[r] = "sim" => \A t \in TU : glue[r][t] = source[r]
    /\ pc[r] = "returned" => result[r] = {source[r]}

\* A call in progress that nothing overlapped is the only one in progress.
OnlyOne(r) == pc[r] \notin {"idle"} \cup EndPCs => Active = {r}

SoloInv == \A r \in Runs \ mixed : OwnAt(r) /\ OnlyOne(r)

IInv == TInv /\ OneGeneration /\ SoloInv

LEMMA InitIInv == Init => IInv
BY InitTInv DEF Init, IInv, OneGeneration, SoloInv, OwnAt, OnlyOne, TInv

\* omc only ever adds files of the source in /X.mo to files of that source.
LEMMA GenerationStep == TInv /\ OneGeneration /\ [Next]_vars => OneGeneration'
<1> SUFFICES ASSUME TInv, OneGeneration, [Next]_vars PROVE OneGeneration'
  OBVIOUS
<1>1. ASSUME NEW r \in Runs, NEW s \in Sources, Start(r, s) PROVE OneGeneration'
  BY <1>1 DEF Start, CallMain, Unlinked, OmcOutputs, OneGeneration
<1>2. ASSUME NEW r \in Runs, ResumeOMC(r) PROVE OneGeneration'
  BY <1>2 DEF ResumeOMC, CallMain, OmcOutputs, OneGeneration
<1>3. CASE UNCHANGED <<xmo, out>>
  BY <1>3 DEF OneGeneration
<1>4. QED
  BY <1>1, <1>2, <1>3
     DEF Next, Step, vars, omcVars, MslSettles, EmSettles, MslRejected, GenerateC,
         ZipDone, EmReady, EmRejected, StageAsset, WriteFile, CompileTU, Link, ReadWasm,
         ReadJs, AwaitRejects, SimResult, SimFails

\* In every interleaving, whatever callOMC collects is of one source.
THEOREM GenerationCorrect == Spec => []OneGeneration
<1>1. Init => OneGeneration
  BY DEF Init, OneGeneration
<1>2. QED
  BY InitTInv, TypeStep, GenerationStep, <1>1, PTL DEF Spec

\* A step of one call in progress keeps SoloInv if it keeps what that call
\* relies on: had it touched another call's state, they would have overlapped.
LEMMA SoloFrame ==
    ASSUME TInv, SoloInv, NEW r \in Runs, r \in Active, UNCHANGED mixed,
           \A q \in Runs \ {r} : /\ pc'[q] = pc[q] /\ source'[q] = source[q]
                                /\ result'[q] = result[q],
           r \notin mixed => OwnAt(r)'
    PROVE  SoloInv'
<1>1. ASSUME NEW q \in Runs \ mixed, q # r PROVE pc[q] \in {"idle"} \cup EndPCs
  BY <1>1 DEF SoloInv, OnlyOne, Active
<1>2. ASSUME NEW q \in Runs \ mixed, q # r PROVE OwnAt(q)' /\ OnlyOne(q)'
  <2>1. pc'[q] = pc[q] /\ source'[q] = source[q] /\ result'[q] = result[q]
    BY <1>2
  <2>2. pc[q] = "returned" => result[q] = {source[q]}
    BY <1>2 DEF SoloInv, OwnAt
  <2>3. QED
    BY <1>1, <1>2, <2>1, <2>2 DEF OwnAt, OnlyOne
<1>3. ASSUME r \notin mixed PROVE OnlyOne(r)'
  <2>1. Active = {r}
    BY <1>3 DEF SoloInv, OnlyOne, Active
  <2>2. Active' \subseteq {r}
    BY <2>1 DEF Active
  <2>3. QED
    BY <2>2 DEF OnlyOne, Active
<1>4. QED
  BY <1>2, <1>3 DEF SoloInv

LEMMA SoloStep == IInv /\ [Next]_vars => SoloInv'
<1> SUFFICES ASSUME IInv, [Next]_vars PROVE SoloInv'
  OBVIOUS
<1> USE DEF IInv
<1> USE ConstantsAssumption
<1> USE DEF omcVars, emVars, workVars, callVars
\* A call that starts alone finds nothing of its predecessors in omc's "/".
<1>1. ASSUME NEW r \in Runs, NEW s \in Sources, Start(r, s) PROVE SoloInv'
  <2>1. /\ \A q \in Runs \ {r} : /\ pc'[q] = pc[q] /\ source'[q] = source[q]
                                /\ result'[q] = result[q]
        /\ source'[r] = s /\ xmo' = s /\ pc'[r] \in OmcPCs \cup {"gen", "threw"}
    BY <1>1 DEF Start, CallMain, Goto, TInv, TypeOK
  <2>2. OwnAt(r)'
    <3>1. CASE s \in UsesMSL
      BY <1>1, <2>1, <3>1 DEF Start, Unlinked, Goto, OwnAt, TInv, TypeOK
    <3>2. CASE s \notin UsesMSL
      <4>1. CallMain(r, s, {}, None, r)
        BY <1>1, <3>2 DEF Start, Unlinked
      <4>2. pc'[r] = "threw" \/ (pc'[r] = "gen" /\ files'[r] = s)
        BY <4>1 DEF CallMain, OmcOutputs, Goto, TInv, TypeOK
      <4>3. QED
        BY <2>1, <4>2 DEF OwnAt
    <3>3. QED BY <3>1, <3>2
  <2>3. mixed' = IF Active = {} THEN mixed ELSE mixed \cup Active \cup {r}
    BY <1>1 DEF Start
  <2>4. ASSUME NEW q \in Runs \ mixed', q # r PROVE OwnAt(q)' /\ OnlyOne(q)'
    <3>1. q \notin mixed /\ q \notin Active
      BY <2>3, <2>4
    <3>2. pc[q] \in {"idle"} \cup EndPCs /\ (pc[q] = "returned" => result[q] = {source[q]})
      BY <3>1 DEF SoloInv, OwnAt, Active
    <3>3. pc'[q] = pc[q] /\ source'[q] = source[q] /\ result'[q] = result[q]
      BY <2>1, <2>4
    <3>4. QED
      BY <3>2, <3>3 DEF OwnAt, OnlyOne
  <2>5. ASSUME r \notin mixed' PROVE OnlyOne(r)'
    <3>1. Active = {}
      BY <2>3, <2>5
    <3>2. \A q \in Runs \ {r} : pc'[q] \in {"idle"} \cup EndPCs
      BY <2>1, <3>1 DEF Active
    <3>3. QED
      BY <3>2 DEF OnlyOne, Active
  <2>6. QED
    BY <2>2, <2>4, <2>5 DEF SoloInv
<1>2. CASE MslSettles
  <2>1. /\ \A q \in Runs :
              pc'[q] = pc[q] \/ (pc[q] = "msl" /\ pc'[q] \in {"mslok", "mslerr"})
        /\ UNCHANGED <<mixed, source, files, result, xmo, out, sink, working, objs,
                       linked, image, glue, bad, idx>>
    BY <1>2 DEF MslSettles, TInv, TypeOK
  <2>2. Active' = Active
    BY <2>1 DEF Active
  <2>3. ASSUME NEW q \in Runs \ mixed PROVE OwnAt(q)' /\ OnlyOne(q)'
    <3>1. OwnAt(q) /\ OnlyOne(q)
      BY <2>3 DEF SoloInv
    <3>2. OnlyOne(q)'
      BY <2>1, <2>2, <3>1 DEF OnlyOne
    <3>3. OwnAt(q)'
      BY <2>1, <3>1 DEF OwnAt, modelName
    <3>4. QED BY <3>2, <3>3
  <2>4. QED
    BY <2>1, <2>3 DEF SoloInv
<1>3. CASE EmSettles
  BY <1>3 DEF EmSettles, SoloInv, OwnAt, OnlyOne, Active, modelName
<1>4. CASE UNCHANGED vars
  BY <1>4 DEF vars, SoloInv, OwnAt, OnlyOne, Active, modelName
<1>5. ASSUME NEW r \in Runs, Step(r) \/ SimResult(r) \/ SimFails(r)
      PROVE  SoloInv'
  <2>1. r \in Active
    BY <1>5 DEF Active, Step, ResumeOMC, MslRejected, GenerateC, ZipDone, EmReady,
                EmRejected, StageAsset, WriteFile, CompileTU, Link, ReadWasm, ReadJs,
                AwaitRejects, SimResult, SimFails
  <2>2. \A q \in Runs \ {r} : pc'[q] = pc[q] /\ result'[q] = result[q]
    BY <1>5 DEF Step, ResumeOMC, CallMain, MslRejected, GenerateC, ZipDone, EmReady,
                EmRejected, StageAsset, WriteFile, CompileTU, Link, ReadWasm, ReadJs,
                AwaitRejects, SimResult, SimFails, Goto, TInv, TypeOK
  <2>3. UNCHANGED <<mixed, source>>
    BY <1>5 DEF Step, ResumeOMC, CallMain, MslRejected, GenerateC, ZipDone, EmReady,
                EmRejected, StageAsset, WriteFile, CompileTU, Link, ReadWasm, ReadJs,
                AwaitRejects, SimResult, SimFails
  <2>4. ASSUME r \notin mixed PROVE OwnAt(r)'
    <3> DEFINE s == source[r]
               n == modelName(r)
    <3>1. OwnAt(r)
      BY <2>4 DEF SoloInv
    <3>2. pc[r] \in PostOmc => files[r] \in Sources /\ n \in Names
      BY DEF TInv, LocalOK, modelName
    <3>3. CASE ResumeOMC(r)
      <4>1. xmo = s /\ out = {}
        BY <3>1, <3>3 DEF ResumeOMC, OwnAt
      <4>2. pc'[r] = "threw" \/ (pc'[r] = "gen" /\ files'[r] = s)
        BY <3>3, <4>1 DEF ResumeOMC, CallMain, OmcOutputs, Goto, TInv, TypeOK
      <4>3. QED
        BY <2>3, <4>2 DEF OwnAt
    <3>4. CASE MslRejected(r) \/ EmRejected(r) \/ AwaitRejects(r) \/ SimFails(r)
      <4>1. pc'[r] = "threw"
        BY <3>4 DEF MslRejected, EmRejected, AwaitRejects, SimFails, Goto, TInv, TypeOK
      <4>2. QED
        BY <4>1 DEF OwnAt
    <3>5. CASE GenerateC(r) \/ ZipDone(r)
      <4>1. /\ pc'[r] \in {"zip", "em"} /\ pc[r] \in {"gen", "zip"}
            /\ UNCHANGED files
        BY <3>5 DEF GenerateC, ZipDone, Goto, TInv, TypeOK
      <4>2. QED
        BY <2>3, <3>1, <4>1 DEF OwnAt
    <3>6. CASE EmReady(r)
      <4>1. /\ pc'[r] \in {"stage", "write"} /\ pc[r] = "em" /\ idx'[r] = 1
            /\ UNCHANGED files
        BY <3>6 DEF EmReady, Goto, TInv, TypeOK
      <4>2. QED
        BY <2>3, <3>1, <4>1 DEF OwnAt, TU
    <3>7. CASE StageAsset(r)
      <4>1. /\ pc'[r] = "stage" \/ (pc'[r] = "write" /\ idx'[r] = 1)
            /\ pc[r] = "stage"
            /\ UNCHANGED files
        BY <3>7 DEF StageAsset, Goto, TInv, TypeOK
      <4>2. QED
        BY <2>3, <3>1, <4>1 DEF OwnAt, TU
    \* Each file the call has written stays until it is compiled.
    <3>8. CASE WriteFile(r)
      <4>1. /\ pc[r] = "write" /\ files[r] = s /\ idx[r] \in TU /\ n \in Names
            /\ modelName(r)' = n
            /\ UNCHANGED <<files, bad>>
        BY <3>1, <3>2, <3>8 DEF WriteFile, OwnAt, TInv, LocalOK, modelName
      <4>2. /\ working'[n][idx[r]] = s
            /\ \A t \in TU : t # idx[r] => working'[n][t] = working[n][t]
        BY <3>8, <4>1 DEF WriteFile, TInv, TypeOK
      <4>3. \A t \in TU : t <= idx[r] => working'[n][t] = s
        BY <3>1, <4>1, <4>2 DEF OwnAt, TU
      <4>4. \/ idx[r] = NTU /\ pc'[r] = "cc" /\ idx'[r] = 1
            \/ pc'[r] = "write" /\ idx'[r] = idx[r] + 1
        BY <3>8 DEF WriteFile, Goto, TInv, TypeOK
      <4>5. CASE pc'[r] = "cc"
        BY <2>3, <4>1, <4>3, <4>4, <4>5 DEF OwnAt, TU
      <4>6. CASE pc'[r] = "write"
        BY <2>3, <4>1, <4>3, <4>4, <4>6 DEF OwnAt, TU
      <4>7. QED BY <4>4, <4>5, <4>6
    <3>9. CASE CompileTU(r)
      <4>1. /\ pc[r] = "cc" /\ files[r] = s /\ idx[r] \in TU /\ n \in Names
            /\ modelName(r)' = n
            /\ UNCHANGED <<files, working>>
        BY <3>1, <3>2, <3>9 DEF CompileTU, OwnAt, TInv, LocalOK, modelName
      <4>2. ~bad'[r] => ~bad[r] /\ objs' = [objs EXCEPT ![n][idx[r]] = working[n][idx[r]]]
        BY <3>9 DEF CompileTU, TInv, TypeOK
      <4>3. ~bad'[r] => \A t \in TU : t <= idx[r] => objs'[n][t] = s
        <5>1. ASSUME ~bad'[r], NEW t \in TU, t <= idx[r] PROVE objs'[n][t] = s
          <6>1. working[n][idx[r]] = s /\ (t < idx[r] => objs[n][t] = s)
            BY <3>1, <4>1, <4>2, <5>1 DEF OwnAt
          <6>2. t = idx[r] \/ t < idx[r]
            BY <4>1, <5>1 DEF TU
          <6>3. objs[n] \in [TU -> Content] /\ objs \in [Names -> [TU -> Content]]
            BY <4>1 DEF TInv, TypeOK
          <6>4. QED
            BY <4>1, <4>2, <5>1, <6>1, <6>2, <6>3
        <5>2. QED BY <5>1
      <4>4. \/ idx[r] = NTU /\ (pc'[r] = "threw" \/ (pc'[r] = "link" /\ ~bad'[r]))
            \/ pc'[r] = "cc" /\ idx'[r] = idx[r] + 1
        BY <3>9, <4>1 DEF CompileTU, AfterCompile, Goto, TInv, TypeOK
      <4>5. CASE pc'[r] = "cc"
        BY <2>3, <3>1, <4>1, <4>3, <4>4, <4>5 DEF OwnAt, TU
      <4>6. CASE pc'[r] = "link"
        BY <2>3, <4>1, <4>3, <4>4, <4>6 DEF OwnAt, TU
      <4>7. CASE pc'[r] = "threw"
        BY <4>7 DEF OwnAt
      <4>8. QED BY <4>4, <4>5, <4>6, <4>7
    <3>10. CASE Link(r)
      <4>1. /\ pc[r] = "link" /\ pc'[r] = "wasm" /\ n \in Names
            /\ modelName(r)' = n /\ UNCHANGED files
            /\ linked'[n] = objs[n]
        BY <3>2, <3>10 DEF Link, Goto, TInv, TypeOK, modelName
      <4>2. QED
        BY <2>3, <3>1, <4>1 DEF OwnAt
    <3>11. CASE ReadWasm(r)
      <4>1. /\ pc[r] = "wasm" /\ pc'[r] = "js" /\ n \in Names
            /\ modelName(r)' = n /\ UNCHANGED <<files, linked>>
            /\ image'[r] = linked[n]
        BY <3>2, <3>11 DEF ReadWasm, Goto, TInv, TypeOK, modelName
      <4>2. QED
        BY <2>3, <3>1, <4>1 DEF OwnAt
    <3>12. CASE ReadJs(r)
      <4>1. /\ pc[r] = "js" /\ pc'[r] = "sim" /\ n \in Names
            /\ UNCHANGED <<files, image>>
            /\ glue'[r] = linked[n]
        BY <3>2, <3>12 DEF ReadJs, Goto, TInv, TypeOK, modelName
      <4>2. QED
        BY <2>3, <3>1, <4>1 DEF OwnAt
    <3>13. CASE SimResult(r)
      <4>1. /\ pc[r] = "sim" /\ pc'[r] = "returned"
            /\ result'[r] = {image[r][t] : t \in TU} \cup {glue[r][t] : t \in TU}
                                                  \cup {files[r]}
        BY <3>13 DEF SimResult, Goto, TInv, TypeOK
      <4>2. result'[r] = {s}
        BY <3>1, <4>1 DEF OwnAt
      <4>3. QED
        BY <2>3, <4>1, <4>2 DEF OwnAt
    <3>14. QED
      BY <1>5, <3>3, <3>4, <3>5, <3>6, <3>7, <3>8, <3>9, <3>10, <3>11, <3>12, <3>13
         DEF Step
  <2>5. QED
    BY <2>1, <2>2, <2>3, <2>4, SoloFrame
<1>6. QED
  BY <1>1, <1>2, <1>3, <1>4, <1>5 DEF Next

\* The trace of a call that no other call overlapped is made of its own source
\* alone, after any history of earlier calls.
THEOREM ProvenanceCorrect == Spec => []SoloProvenance
<1>1. IInv /\ [Next]_vars => IInv'
  BY TypeStep, GenerationStep, SoloStep DEF IInv
<1>2. IInv => SoloProvenance
  BY DEF IInv, SoloInv, OwnAt, SoloProvenance
<1>3. QED
  BY InitIInv, <1>1, <1>2, PTL DEF Spec

=============================================================================
