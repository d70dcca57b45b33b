------------------------------ MODULE PartProofs ------------------------------
(***************************************************************************)
(* The build, omc's entry point, the library search and the counters, for  *)
(* any functions, any depth and memory, any directories and any indices.   *)
(***************************************************************************)
EXTENDS OmcBuild, OmcMain, LoadModelPath, TmpTick, TLAPS

-----------------------------------------------------------------------------
(* OmcBuild.  A stub can only stand in front of a function of a listed     *)
(* archive at a link if the stubs were written before the archives grew;   *)
(* the recipes of one make leave nothing between the two and the link.     *)

Goals == {"link", "libs", "stubs", "clean"}

Lists == {<<>>, <<"libs", "stubs", "link">>, <<"stubs", "link">>, <<"link">>,
          <<"libs">>, <<"stubs">>, <<"clean">>}

\* No stub stands in front of a function of a listed archive.
NoneInFront == \A a \in listed : \A f \in stubs : <<a, f>> \notin archive

BuildInv ==
    /\ BuildTypeOK
    /\ recipes \in Lists
    /\ recipes = <<"link">> => NoneInFront

LEMMA ListsAreTyped == \A p \in Lists : p \in Seq(Goals)
<1>1. /\ <<"libs", "stubs", "link">> \in Seq(Goals)
      /\ <<"stubs", "link">> \in Seq(Goals) /\ <<"link">> \in Seq(Goals)
      /\ <<"libs">> \in Seq(Goals) /\ <<"stubs">> \in Seq(Goals)
      /\ <<"clean">> \in Seq(Goals)
  BY DEF Goals
<1>2. <<>> \in Seq(Goals)
  OBVIOUS
<1> QED BY <1>1, <1>2, Zenon DEF Lists

\* What is left of a list once its first recipe has run.
LEMMA ListsGoOn ==
    ASSUME NEW p \in Lists, p # <<>>
    PROVE  /\ Head(p) = "libs" => Tail(p) \in {<<"stubs", "link">>, <<>>}
           /\ Head(p) = "stubs" => Tail(p) \in {<<"link">>, <<>>}
           /\ Head(p) = "link" => p = <<"link">> /\ Tail(p) = <<>>
           /\ Head(p) = "clean" => Tail(p) = <<>>
<1>1. /\ Tail(<<"libs", "stubs", "link">>) = <<"stubs", "link">>
      /\ Tail(<<"stubs", "link">>) = <<"link">>
      /\ Tail(<<"link">>) = <<>> /\ Tail(<<"libs">>) = <<>>
      /\ Tail(<<"stubs">>) = <<>> /\ Tail(<<"clean">>) = <<>>
  OBVIOUS
<1>2. Head(p) = "libs" => p \in {<<"libs", "stubs", "link">>, <<"libs">>}
  BY DEF Lists
<1>3. Head(p) = "stubs" => p \in {<<"stubs", "link">>, <<"stubs">>}
  BY DEF Lists
<1>4. (Head(p) = "link" => p = <<"link">>) /\ (Head(p) = "clean" => p = <<"clean">>)
  BY DEF Lists
<1> QED BY <1>1, <1>2, <1>3, <1>4, Zenon

LEMMA ListsDiffer == /\ <<"stubs", "link">> # <<"link">> /\ <<>> # <<"link">>
                     /\ {<<"stubs", "link">>, <<"link">>, <<>>} \subseteq Lists
BY DEF Lists

LEMMA BuildInitially == BuildInit => BuildInv
BY ListsAreTyped, ListsDiffer
   DEF BuildInit, StubsFor, BuildInv, NoneInFront, BuildTypeOK, Sources, Goals

LEMMA BuildInductive ==
    ASSUME BuildInv, [BuildNext]_buildVars PROVE BuildInv'
<1>0. BuildTypeOK /\ recipes \in Lists /\ (recipes = <<"link">> => NoneInFront)
  BY DEF BuildInv
<1>1. CASE EditSources
  BY <1>0, <1>1, ListsDiffer DEF EditSources, BuildInv, NoneInFront, BuildTypeOK
<1>2. CASE Make
  <2>1. recipes' \in {<<"libs", "stubs", "link">>, <<"libs">>, <<"stubs">>, <<"clean">>}
    <3>1. PICK goal \in Goals : recipes' = Recipes(goal)
      BY <1>2 DEF Make, Goals
    <3>2. recipes' \in {<<"libs", "stubs", "link">>, <<goal>>}
          /\ (goal = "link" => recipes' = <<"libs", "stubs", "link">>)
      BY <3>1 DEF Recipes
    <3> QED
      BY <3>2, Zenon DEF Goals
  <2>2. recipes' # <<"link">> /\ recipes' \in Lists
    BY <2>1 DEF Lists
  <2>3. recipes' \in Seq(Goals)
    BY <2>2, ListsAreTyped
  <2>4. UNCHANGED <<compiles, archive, stubs, listed, image>>
    BY <1>2 DEF Make
  <2> QED BY <1>0, <2>2, <2>3, <2>4, Zenon DEF BuildInv, BuildTypeOK, Goals
<1>3. CASE Interrupt
  <2>1. recipes' = <<>> /\ UNCHANGED <<compiles, archive, stubs, listed, image>>
    BY <1>3 DEF Interrupt
  <2> QED BY <1>0, <2>1, ListsDiffer, ListsAreTyped DEF BuildInv, BuildTypeOK, Goals
<1>4. CASE BuildLibs
  <2>1. recipes' \in Lists /\ recipes' # <<"link">> /\ recipes' \in Seq(Goals)
    BY <1>0, <1>4, ListsGoOn, ListsDiffer, ListsAreTyped, Zenon DEF BuildLibs, Runs
  <2>2. archive' \subseteq Library /\ UNCHANGED <<compiles, stubs, listed, image>>
    BY <1>0, <1>4 DEF BuildLibs, BuildTypeOK
  <2> QED BY <1>0, <2>1, <2>2, Zenon DEF BuildInv, BuildTypeOK, Goals
<1>5. CASE GenStubs
  <2>1. recipes' \in Lists /\ recipes' \in Seq(Goals)
    BY <1>0, <1>5, ListsGoOn, ListsDiffer, ListsAreTyped, Zenon DEF GenStubs, Runs
  <2>2. /\ stubs' \subseteq Declared \ Hand /\ listed' \subseteq Archives
        /\ NoneInFront' /\ UNCHANGED <<compiles, archive, image>>
    BY <1>0, <1>5 DEF GenStubs, StubsFor, NoneInFront, BuildTypeOK
  <2> QED BY <1>0, <2>1, <2>2, Zenon DEF BuildInv, BuildTypeOK, Goals
<1>6. CASE Link
  <2>1. recipes' = <<>>
    BY <1>0, <1>6, ListsGoOn, Zenon DEF Link, Runs
  <2>2. image' \in [Needed -> Sources] /\ UNCHANGED <<compiles, archive, stubs, listed>>
    BY <1>0, <1>6 DEF Link, Resolve, Sources, BuildTypeOK
  <2> QED BY <1>0, <2>1, <2>2, ListsDiffer, ListsAreTyped DEF BuildInv, BuildTypeOK, Goals
<1>7. CASE Clean
  <2>1. recipes' = <<>>
    BY <1>0, <1>7, ListsGoOn, Zenon DEF Clean, Runs
  <2>2. image' \in [Needed -> Sources] /\ archive' = {} /\ UNCHANGED <<compiles, stubs, listed>>
    BY <1>0, <1>7 DEF Clean, Sources, BuildTypeOK
  <2> QED BY <1>0, <2>1, <2>2, ListsDiffer, ListsAreTyped DEF BuildInv, BuildTypeOK, Goals
<1>8. CASE UNCHANGED buildVars
  BY <1>0, <1>8 DEF buildVars, BuildInv, NoneInFront, BuildTypeOK
<1> QED BY <1>1, <1>2, <1>3, <1>4, <1>5, <1>6, <1>7, <1>8 DEF BuildNext

\* The types of the build's state.
THEOREM BuildTypeCorrect == BuildSpec => []BuildTypeOK
<1>1. BuildInv => BuildTypeOK
  BY DEF BuildInv
<1> QED BY <1>1, BuildInitially, BuildInductive, PTL DEF BuildSpec

\* build-link.sh: whatever was built, edited, broken off or left unlisted before, a link
\* takes nothing for a function of omcweb_stubs.c, and no stub for one of an archive that
\* gen-stubs.py could list.
THEOREM RealFunctionsWin == BuildSpec => RealWins
<1> DEFINE Right(f) == /\ f \in Hand => image'[f] = "hand"
                       /\ f \notin Hand /\ (\E a \in listed : <<a, f>> \in archive)
                             => image'[f] = "real"
<1>1. ASSUME BuildInv, [BuildNext]_buildVars, Linked, NEW f \in Needed
      PROVE  Right(f)
  <2>1. recipes = <<"link">>
    BY <1>1, ListsGoOn, Zenon DEF BuildInv, Linked
  <2>2. Link
    BY <1>1, <2>1 DEF Linked, BuildNext, buildVars, EditSources, Make, Interrupt, BuildLibs,
                      GenStubs, Clean, Runs
  <2>3. image' = [g \in Needed |-> Resolve(g)]
    BY <1>1, <2>2 DEF Link, Linked
  <2>4. (\E a \in listed : <<a, f>> \in archive) => f \notin stubs
    BY <1>1, <2>1 DEF BuildInv, NoneInFront
  <2> QED BY <2>3, <2>4 DEF Resolve
<1>2. BuildInv /\ [BuildNext]_buildVars => [Linked => \A f \in Needed : Right(f)]_buildVars
  BY <1>1
<1> QED BY <1>2, BuildInitially, BuildInductive, PTL DEF BuildSpec, RealWins

-----------------------------------------------------------------------------
(* OmcMain.  Each block but the first has saved the jumper of the one      *)
(* around it, so that leaving any of them leads one block out.             *)

Around(b) == IF b > Guard THEN b ELSE Top

MainInv ==
    /\ MainTypeOK
    /\ place = "page" => key # "present"
    /\ place # "page" =>
          /\ key = "present"
          /\ Guard <= Len(frames)
          /\ frames[1] = 0 /\ frames[Guard] = Top
          /\ \A b \in 3 .. Len(frames) : frames[b] = Around(b - 1)
          /\ mmcJumper = Around(Len(frames))
          /\ overflowJumper = Guard
    /\ place = "overflowed" => Len(frames) = Guard

LEMMA MainInitially == MainInit => MainInv
<1>1. <<>> \in Seq(Nat) /\ Len(<<>>) = 0
  OBVIOUS
<1>2. 0 \in Nat /\ 0 \in 0 .. Memory /\ 0 \in 0 .. 0 /\ 0 <= MaxDepth
  BY MainAssumption
<1> SUFFICES ASSUME MainInit PROVE MainInv
  OBVIOUS
<1>3. Len(frames) <= MaxDepth /\ frames \in Seq(Nat)
  BY <1>1, <1>2 DEF MainInit
<1>4. key # "present" /\ place = "page"
  BY DEF MainInit, Null
<1>5. MainTypeOK
  BY <1>2, <1>3 DEF MainInit, MainTypeOK
<1> QED BY <1>4, <1>5 DEF MainInv

\* However a call ends, the page's next one finds an empty stack.
LEMMA LeavesClean ==
    ASSUME MainInv, NEW k \in {key, oldThreadData}, Leave(k) PROVE MainInv'
BY MainAssumption DEF MainInv, MainTypeOK, Leave, Null

\* A block of omc's own is left for the one around it.
LEMMA OneBlockLess ==
    ASSUME MainInv, place = "omc", 3 <= Len(frames),
           mmcJumper' = frames[Len(frames)],
           frames' = SubSeq(frames, 1, Len(frames) - 1),
           UNCHANGED <<place, overflowJumper, key, oldThreadData, heap, mine, failedAlloc>>
    PROVE  MainInv'
<1> USE MainAssumption DEF MainInv, MainTypeOK, Around, Top, Guard
<1>1. /\ frames' \in Seq(Nat) /\ Len(frames') = Len(frames) - 1
      /\ \A b \in 1 .. Len(frames) - 1 : frames'[b] = frames[b]
  OBVIOUS
<1>2. mmcJumper' = Around(Len(frames'))
  BY <1>1
<1> QED BY <1>1, <1>2

LEMMA MainInductive ==
    ASSUME MainInv, [MainNext]_mainVars PROVE MainInv'
<1> USE MainAssumption DEF MainInv, MainTypeOK, Around, Top, Guard
<1>1. CASE Enter
  <2>1. /\ <<0, 1>> \in Seq(Nat) /\ Len(<<0, 1>>) = 2
        /\ <<0, 1>>[1] = 0 /\ <<0, 1>>[2] = 1
    OBVIOUS
  <2>2. 2 <= MaxDepth
    OBVIOUS
  <2>3. /\ place' = "omc" /\ frames' = <<0, 1>> /\ mmcJumper' = 1 /\ overflowJumper' = 2
        /\ oldThreadData' = key /\ key' = "present"
        /\ mine' = 0 /\ failedAlloc' = FALSE /\ UNCHANGED heap
        /\ key \in {Null, "past"}
    BY <1>1 DEF Enter, KeyOnEntry
  <2>4. mine' \in 0 .. heap' /\ heap' \in 0 .. Memory
    BY <2>3
  <2>5. /\ key' = "present" /\ Guard <= Len(frames')
        /\ frames'[1] = 0 /\ frames'[Guard] = Top
        /\ Len(frames') = 2
        /\ mmcJumper' = Around(Len(frames')) /\ overflowJumper' = Guard
    BY <2>1, <2>3
  <2>6. frames' \in Seq(Nat) /\ Len(frames') <= MaxDepth
        /\ mmcJumper' \in Nat /\ overflowJumper' \in Nat
    BY <2>1, <2>2, <2>3
  <2>7. MainTypeOK'
    BY <2>3, <2>4, <2>6
  <2>8. \A b \in 3 .. Len(frames') : frames'[b] = Around(b - 1)
    BY <2>5
  <2> QED BY <2>3, <2>5, <2>7, <2>8
<1>2. CASE Try
  BY <1>2 DEF Try
<1>3. CASE Catch
  <2>1. /\ mmcJumper' = frames[Len(frames)]
        /\ frames' = SubSeq(frames, 1, Len(frames) - 1)
        /\ 3 <= Len(frames)
    BY <1>3 DEF Catch, JumperBehind
  <2> QED BY <1>3, <2>1, OneBlockLess DEF Catch
<1>4. CASE Throw
  <2>1. CASE mmcJumper > Guard
    <3>1. mmcJumper = Len(frames)
      BY <1>4, <2>1 DEF Throw
    <3>2. /\ mmcJumper' = frames[Len(frames)]
          /\ frames' = SubSeq(frames, 1, Len(frames) - 1)
          /\ 3 <= Len(frames)
      BY <1>4, <2>1, <3>1 DEF Throw, JumperBehind
    <3>4. place = "omc"
      BY <1>4 DEF Throw
    <3>3. UNCHANGED <<place, overflowJumper, key, oldThreadData, heap, mine, failedAlloc>>
      BY <1>4, <2>1 DEF Throw
    <3> QED BY <3>2, <3>3, <3>4, OneBlockLess
  <2>2. CASE ~(mmcJumper > Guard)
    <3>1. Leave(oldThreadData)
      BY <1>4, <2>2 DEF Throw
    <3> QED BY <3>1, LeavesClean
  <2> QED BY <2>1, <2>2
<1>5. CASE StackOverflow
  BY <1>5 DEF StackOverflow, JumperInElse
<1>6. CASE OverflowReturns \/ Unwound
  BY <1>6, LeavesClean DEF OverflowReturns, Unwound
<1>7. CASE Returns
  BY <1>7, LeavesClean DEF Returns
<1>8. CASE Allocate
  BY <1>8 DEF Allocate
<1>9. CASE OutOfMemory
  BY <1>9 DEF OutOfMemory, Null
<1>10. CASE UNCHANGED mainVars
  BY <1>10 DEF mainVars
<1> QED
  BY <1>1, <1>2, <1>3, <1>4, <1>5, <1>6, <1>7, <1>8, <1>9, <1>10 DEF MainNext

\* The types of the entry point's state.
THEOREM MainTypeCorrect == MainSpec => []MainTypeOK
<1>1. MainInv => MainTypeOK
  BY DEF MainInv
<1> QED BY <1>1, MainInitially, MainInductive, PTL DEF MainSpec

\* omcweb_main.c: in any sequence of calls and of their ends, a failure or a stack
\* overflow never jumps into a block that has been left.
THEOREM JumpsAreLive == MainSpec => []JumpsLive
<1>1. MainInv => JumpsLive
  BY DEF MainInv, JumpsLive, Around
<1> QED BY <1>1, MainInitially, MainInductive, PTL DEF MainSpec

-----------------------------------------------------------------------------
(* LoadModelPath.  The library search, for any directories, entries and    *)
(* order of reading.                                                       *)

\* The scan so far: nothing to load in an earlier directory; in this one, what was
\* found is the best of the entries read, and what was not found was not there.
ScanInv ==
    /\ \A i \in 1 .. at - 1 : Candidates(i) = {}
    /\ found => /\ best \in Candidates(at)
                /\ \A e \in Candidates(at) \ left : Score(e) <= Score(best)
    /\ ~found => Candidates(at) \subseteq left
    /\ pc = "done" => /\ left = {}
                      /\ found \/ at = Dirs
                      /\ result = IF found THEN best ELSE None
    /\ pc = "scan" => result = None

SearchInv == SearchTypeOK /\ ScanInv

\* A candidate is an entry with a natural score.
LEMMA ScoreNat == \A e \in Entry : Score(e) \in Nat
  BY DEF Entry, Score

LEMMA SearchInitially == SearchInit => SearchInv
<1> SUFFICES ASSUME SearchInit PROVE SearchInv
  OBVIOUS
<1>1. dirs = [i \in 1 .. Dirs |-> {}] /\ at = Dirs /\ Dirs \in 1 .. Dirs
      /\ left = {} /\ found = FALSE /\ best = None /\ result = None /\ pc = "done"
  BY PathAssumption DEF SearchInit
<1>2. SearchTypeOK
  BY <1>1 DEF SearchTypeOK
<1>3. ScanInv
  BY <1>1 DEF ScanInv, Candidates
<1> QED BY <1>2, <1>3 DEF SearchInv

LEMMA SearchInductive ==
    ASSUME SearchInv, [SearchNext]_searchVars PROVE SearchInv'
<1> USE PathAssumption
<1>0. SearchTypeOK /\ ScanInv
  BY DEF SearchInv
<1>1. ASSUME NEW e \in left, ReadEntry(e) PROVE SearchInv'
  <2>1. SearchTypeOK'
    BY <1>0, <1>1 DEF SearchTypeOK, ReadEntry
  <2>2. e \in Entry /\ e \in dirs[at] /\ Score(e) \in Nat
    BY <1>0, ScoreNat DEF SearchTypeOK
  <2>3. \A i \in 1 .. Dirs : Candidates(i)' = Candidates(i)
    BY <1>1 DEF ReadEntry, Candidates
  <2>4. at' = at /\ at \in 1 .. Dirs /\ pc' = "scan" /\ result' = None
        /\ left' = left \ {e}
    BY <1>0, <1>1 DEF ReadEntry, SearchTypeOK, ScanInv
  <2>5. CASE Candidate(e) /\ Better(e)
    <3>1. found' = TRUE /\ best' = e
      BY <1>1, <2>5 DEF ReadEntry
    <3>2. e \in Candidates(at)
      BY <2>2, <2>5 DEF Candidates
    <3>3. \A f \in Candidates(at) \ (left \ {e}) : Score(f) <= Score(e)
      <4> SUFFICES ASSUME NEW f \in Candidates(at), f \notin left \ {e}, f # e
                   PROVE  Score(f) <= Score(e)
        BY <2>2
      <4>1. f \in Entry /\ Score(f) \in Nat
        BY <1>0, ScoreNat DEF SearchTypeOK, Candidates
      <4>2. CASE found
        <5>1. best \in Entry /\ Score(best) \in Nat /\ Score(e) > Score(best)
              /\ Score(f) <= Score(best)
          BY <1>0, <2>5, <4>2, ScoreNat DEF ScanInv, SearchTypeOK, Candidates, Better
        <5> QED BY <2>2, <4>1, <5>1
      <4>3. CASE ~found
        BY <1>0, <4>3 DEF ScanInv
      <4> QED BY <4>2, <4>3
    <3> QED BY <1>0, <2>1, <2>3, <2>4, <3>1, <3>2, <3>3 DEF SearchInv, ScanInv
  <2>6. CASE ~(Candidate(e) /\ Better(e))
    <3>1. found' = found /\ best' = best
      BY <1>1, <2>6 DEF ReadEntry
    <3>2. CASE found
      <4>1. \A f \in Candidates(at) \ (left \ {e}) : Score(f) <= Score(best)
        <5> SUFFICES ASSUME e \in Candidates(at) PROVE Score(e) <= Score(best)
          BY <1>0, <3>2 DEF ScanInv
        <5>1. best \in Entry /\ Score(best) \in Nat /\ ~(Score(e) > Score(best))
          BY <1>0, <2>6, <3>2, ScoreNat DEF ScanInv, SearchTypeOK, Candidates, Better
        <5> QED BY <2>2, <5>1
      <4> QED BY <1>0, <2>1, <2>3, <2>4, <3>1, <3>2, <4>1 DEF SearchInv, ScanInv
    <3>3. CASE ~found
      <4>1. e \notin Candidates(at)
        BY <2>6, <3>3 DEF Candidates, Better
      <4> QED BY <1>0, <2>1, <2>3, <2>4, <3>1, <3>3, <4>1 DEF SearchInv, ScanInv
    <3> QED BY <3>2, <3>3
  <2> QED BY <2>5, <2>6
<1>2. ASSUME CloseDir PROVE SearchInv'
  <2>1. SearchTypeOK'
    BY <1>0, <1>2 DEF SearchTypeOK, CloseDir, StopsHere, Listing
  <2>2. \A i \in 1 .. Dirs : Candidates(i)' = Candidates(i)
    BY <1>2 DEF CloseDir, Candidates
  <2>3. ~found /\ Candidates(at) = {} /\ at' = at + 1 /\ at \in 1 .. Dirs - 1
    BY <1>0, <1>2 DEF CloseDir, StopsHere, SearchTypeOK, ScanInv
  <2>4. \A i \in 1 .. at' - 1 : i \in 1 .. Dirs /\ Candidates(i) = {}
    BY <1>0, <2>3 DEF ScanInv, SearchTypeOK
  <2>5. left' = dirs[at + 1] /\ dirs' = dirs /\ found' = FALSE /\ pc' = "scan"
        /\ result' = None
    BY <1>0, <1>2, <2>3 DEF CloseDir, Listing, ScanInv
  <2>6. ScanInv'
    <3>1. \A i \in 1 .. at' - 1 : Candidates(i)' = {}
      BY <2>2, <2>4
    <3>2. {e \in dirs'[at'] : Candidate(e)} \subseteq left'
      BY <2>3, <2>5
    <3> QED BY <2>5, <3>1, <3>2 DEF ScanInv, Candidates
  <2> QED BY <2>1, <2>6 DEF SearchInv
<1>3. ASSUME Return PROVE SearchInv'
  <2>1. SearchTypeOK' /\ \A i \in 1 .. Dirs : Candidates(i)' = Candidates(i)
    BY <1>0, <1>3 DEF SearchTypeOK, Return, Out, Candidates
  <2>2. at' = at /\ at \in 1 .. Dirs /\ found' = found /\ best' = best /\ left' = left
        /\ left = {} /\ pc' = "done" /\ (found \/ at = Dirs)
        /\ result' = IF found THEN best ELSE None
    BY <1>0, <1>3 DEF Return, StopsHere, Out, SearchTypeOK
  <2> QED BY <1>0, <2>1, <2>2 DEF SearchInv, ScanInv
<1>4. ASSUME Again PROVE SearchInv'
  <2>1. PICK layout \in Layouts : StartCall(layout)
    BY <1>4 DEF Again
  <2>2. best' = best
    BY <1>4 DEF Again
  <2>3. dirs' \in [1 .. Dirs -> SUBSET Entry] /\ at' = 1 /\ 1 \in 1 .. Dirs
        /\ left' = dirs'[1] /\ found' = FALSE /\ best' \in Entry \cup {None}
        /\ result' = None /\ pc' = "scan"
    BY <1>0, <2>1, <2>2 DEF StartCall, Listing, SearchTypeOK
  <2>4. SearchTypeOK'
    BY <2>3 DEF SearchTypeOK
  <2>5. ScanInv'
    BY <2>3 DEF ScanInv, Candidates
  <2> QED BY <2>4, <2>5 DEF SearchInv
<1>5. CASE UNCHANGED searchVars
  BY <1>0, <1>5 DEF searchVars, SearchInv, SearchTypeOK, ScanInv, Candidates
<1> QED BY <1>1, <1>2, <1>3, <1>4, <1>5 DEF SearchNext

LEMMA SearchCorrect == SearchSpec => []SearchInv
BY SearchInitially, SearchInductive, PTL DEF SearchSpec

\* SearchTypeOK: what is kept of an earlier call and what the present one has read is
\* always an entry, and the entries left are of the directory being read.
THEOREM SearchTypeCorrect == SearchSpec => []SearchTypeOK
BY SearchCorrect, PTL DEF SearchInv

\* FirstDirectory: MODELICAPATH order is honoured, and a class that is on the path is
\* found, in every order of reading and after every earlier call.
THEOREM FirstDirectoryCorrect == SearchSpec => []FirstDirectory
<1>1. SearchInv => FirstDirectory
  <2> SUFFICES ASSUME SearchInv, pc = "done"
               PROVE  IF result = None
                      THEN \A i \in 1 .. Dirs : Candidates(i) = {}
                      ELSE /\ result \in Candidates(at)
                           /\ \A i \in 1 .. at - 1 : Candidates(i) = {}
    BY DEF FirstDirectory
  <2>1. CASE found
    <3>1. best \in Entry
      BY <2>1 DEF SearchInv, ScanInv, SearchTypeOK, Candidates
    <3> QED BY <2>1, <3>1, PathAssumption DEF SearchInv, ScanInv
  <2>2. CASE ~found
    <3>1. at = Dirs /\ Candidates(at) = {} /\ result = None
      BY <2>2 DEF SearchInv, ScanInv
    <3>2. \A i \in 1 .. Dirs : i \in 1 .. at - 1 \/ i = at
      BY <3>1, PathAssumption
    <3> QED BY <3>1, <3>2 DEF SearchInv, ScanInv
  <2> QED BY <2>1, <2>2
<1> QED BY <1>1, SearchCorrect, PTL

\* BestInDirectory: the entry returned is the longest of its directory, and of the
\* longest a package if one of them is.
THEOREM BestCorrect == SearchSpec => []BestInDirectory
<1>1. SearchInv => BestInDirectory
  <2> SUFFICES ASSUME SearchInv, pc = "done", result # None, NEW e \in Candidates(at)
               PROVE  /\ e.length <= result.length
                      /\ e.length = result.length /\ IsDir(e) => IsDir(result)
    BY DEF BestInDirectory
  <2>1. result = best /\ e \in Entry /\ result \in Entry /\ Score(e) <= Score(result)
    BY DEF SearchInv, ScanInv, SearchTypeOK, Candidates
  <2>2. e.length \in Nat /\ result.length \in Nat
    BY <2>1 DEF Entry
  <2>3. 2 * e.length <= 2 * result.length + 1
    BY <2>1, <2>2 DEF Score
  <2>4. e.length <= result.length
    BY <2>2, <2>3
  <2>5. ASSUME e.length = result.length, IsDir(e) PROVE IsDir(result)
    BY <2>1, <2>2, <2>5 DEF Score
  <2> QED BY <2>4, <2>5
<1> QED BY <1>1, SearchCorrect, PTL

\* HighestWhenLonger: where a longer name is a newer version, the newest is returned.
THEOREM HighestCorrect == SearchSpec => []HighestWhenLonger
<1>1. SearchInv /\ FirstDirectory /\ BestInDirectory => HighestWhenLonger
  <2> SUFFICES ASSUME SearchInv, FirstDirectory, BestInDirectory, pc = "done",
                      result # None, LongerIsNewer(Candidates(at)), NEW e \in Candidates(at)
               PROVE  e.version <= result.version
    BY DEF HighestWhenLonger
  <2>1. result \in Candidates(at) /\ e.length <= result.length
    BY DEF FirstDirectory, BestInDirectory
  <2>2. e \in Entry /\ result \in Entry
    BY <2>1 DEF SearchInv, SearchTypeOK, Candidates
  <2>3. ~(e.version > result.version)
    BY <2>1, <2>2 DEF LongerIsNewer, Entry
  <2> QED BY <2>2, <2>3 DEF Entry
<1> QED BY <1>1, SearchCorrect, FirstDirectoryCorrect, BestCorrect, PTL

-----------------------------------------------------------------------------
(* TmpTick.  The counters give out fresh numbers, for any table, indices   *)
(* and values.                                                             *)

LEMMA TickInitially == TickInit => TickTypeOK /\ MaximumCovers
BY TickAssumption DEF TickInit, TickTypeOK, MaximumCovers, Slot

\* Every step gives slots integers again.
LEMMA TickTypeInductive ==
    ASSUME TickTypeOK, [TickNext]_tickVars PROVE TickTypeOK'
<1> USE TickAssumption
<1>1. ASSUME NEW i \in Indices, OutOfRange(i) PROVE TickTypeOK'
  BY <1>1 DEF OutOfRange, TickTypeOK
<1>2. ASSUME NEW i \in Indices, NEW n \in Nat, GiveOut(i, n) PROVE TickTypeOK'
  <2>1. given' \in [idx : Int, vals : SUBSET Int]
    BY <1>2 DEF GiveOut, TickTypeOK, Slot
  <2>2. ticks' \in [Slot -> Int] /\ maxima' \in [Slot -> Int]
    BY <1>2 DEF GiveOut, TickTypeOK, Slot, RaiseMaximum
  <2>3. handed' \in [Slot -> SUBSET Int]
    BY <1>2, <2>1 DEF GiveOut, TickTypeOK
  <2> QED BY <2>1, <2>2, <2>3 DEF TickTypeOK
<1>3. ASSUME NEW v \in Values, Reset(v) PROVE TickTypeOK'
  BY <1>3 DEF Reset, AllSlots, TickTypeOK
<1>4. ASSUME NEW v \in Values, NEW i \in Indices, ResetIndex(v, i) PROVE TickTypeOK'
  BY <1>4, <1>1 DEF ResetIndex, TickTypeOK
<1>5. ASSUME NEW i \in Indices, SetIndex(i) PROVE TickTypeOK'
  <2>1. Values \cup {Maximum(i)} \subseteq Int
    <3>1. Maximum(i) \in Int
      BY DEF Maximum, TickTypeOK
    <3> QED BY <3>1
  <2> QED BY <2>1, <1>1, <1>5 DEF SetIndex, MaximumAfterSet, TickTypeOK
<1>6. CASE UNCHANGED tickVars
  BY <1>6 DEF tickVars, TickTypeOK
<1> QED BY <1>1, <1>2, <1>3, <1>4, <1>5, <1>6 DEF TickNext, TickIndex, TickIndexReserve

\* TickTypeOK: every slot holds integers, whatever index and value a call is given.
THEOREM TickTypeCorrect == TickSpec => []TickTypeOK
BY TickInitially, TickTypeInductive, PTL DEF TickSpec

\* Giving out raises the maximum past the block and setting a counter never lowers it.
LEMMA MaximumInductive ==
    ASSUME TickTypeOK, MaximumCovers, [TickNext]_tickVars PROVE MaximumCovers'
<1> USE TickAssumption
<1> SUFFICES ASSUME NEW j \in Slot
             PROVE  /\ ticks'[j] <= maxima'[j]
                    /\ \A w \in handed'[j] : w < maxima'[j]
  BY DEF MaximumCovers
<1>0. /\ ticks[j] \in Int /\ maxima[j] \in Int /\ handed[j] \subseteq Int
      /\ ticks[j] <= maxima[j]
      /\ \A w \in handed[j] : w < maxima[j]
  BY DEF TickTypeOK, MaximumCovers
<1>1. ASSUME NEW i \in Indices, OutOfRange(i)
      PROVE  UNCHANGED <<ticks, maxima, handed>>
  BY <1>1 DEF OutOfRange
<1>2. ASSUME NEW i \in Indices, NEW n \in Nat, GiveOut(i, n)
      PROVE  /\ ticks'[j] <= maxima'[j]
             /\ \A w \in handed'[j] : w < maxima'[j]
  <2>1. CASE j # i
    BY <1>0, <1>2, <2>1 DEF GiveOut, TickTypeOK
  <2>2. CASE j = i
    <3>1. /\ ticks'[j] = ticks[j] + n
          /\ maxima'[j] = RaiseMaximum(maxima[j], ticks[j] + n)
          /\ handed'[j] = handed[j] \cup (ticks[j] .. ticks[j] + n - 1)
      BY <1>2, <2>2 DEF GiveOut, TickTypeOK
    <3>2. maxima[j] <= maxima'[j] /\ ticks'[j] <= maxima'[j] /\ maxima'[j] \in Int
      BY <1>0, <3>1 DEF RaiseMaximum
    <3> QED BY <1>0, <3>1, <3>2
  <2> QED BY <2>1, <2>2
<1>3. ASSUME NEW v \in Values, Reset(v)
      PROVE  /\ ticks'[j] <= maxima'[j]
             /\ \A w \in handed'[j] : w < maxima'[j]
  BY <1>3 DEF Reset, AllSlots
<1>4. ASSUME NEW v \in Values, NEW i \in Indices, ResetIndex(v, i)
      PROVE  /\ ticks'[j] <= maxima'[j]
             /\ \A w \in handed'[j] : w < maxima'[j]
  BY <1>0, <1>1, <1>4 DEF ResetIndex, TickTypeOK
<1>5. ASSUME NEW i \in Indices, SetIndex(i)
      PROVE  /\ ticks'[j] <= maxima'[j]
             /\ \A w \in handed'[j] : w < maxima'[j]
  <2>1. Values \cup {Maximum(i)} \subseteq Int
    <3>1. Maximum(i) \in Int
      BY DEF Maximum, TickTypeOK
    <3> QED BY <3>1
  <2>2. CASE i \in Slot
    <3>0. PICK v \in Int : /\ ticks' = [ticks EXCEPT ![i] = v]
                           /\ maxima' = [maxima EXCEPT ![i] = MaximumAfterSet(@, v)]
      BY <1>5, <2>1, <2>2 DEF SetIndex, OutOfRange
    <3>1. /\ ticks' = [ticks EXCEPT ![i] = v]
          /\ maxima' = [maxima EXCEPT ![i] = MaximumAfterSet(@, v)]
          /\ handed' = handed
      BY <1>5, <2>2, <3>0 DEF SetIndex, OutOfRange
    <3>2. maxima[j] <= maxima'[j] /\ ticks'[j] <= maxima'[j] /\ maxima'[j] \in Int
      BY <1>0, <2>1, <3>1 DEF MaximumAfterSet, TickTypeOK
    <3> QED BY <1>0, <3>1, <3>2
  <2>3. CASE i \notin Slot
    BY <1>0, <1>5, <1>1, <2>3 DEF SetIndex
  <2> QED BY <2>2, <2>3
<1>6. CASE UNCHANGED tickVars
  BY <1>0, <1>6 DEF tickVars
<1> QED BY <1>0, <1>1, <1>2, <1>3, <1>4, <1>5, <1>6 DEF TickNext, TickIndex, TickIndexReserve

\* MaximumCovers: what tmpTickMaximum answers is above everything given out since the
\* reset, whatever indices and values the calls pass.
THEOREM MaximumCorrect == TickSpec => []MaximumCovers
BY TickInitially, TickTypeInductive, MaximumInductive, PTL DEF TickSpec

\* FreshFromMaximum: a slot at its maximum gives out numbers at or above it, and
\* everything it gave out before is below.
THEOREM FreshCorrect == TickSpec => FreshFromMaximum
<1> USE TickAssumption
<1> DEFINE Fresh == \A i \in Slot : given'.idx = i /\ ticks[i] = maxima[i]
                       => given'.vals \cap handed[i] = {}
<1>1. TickTypeOK /\ MaximumCovers /\ TickNext => Fresh
  <2> SUFFICES ASSUME TickTypeOK, MaximumCovers, TickNext, NEW j \in Slot,
                      given'.idx = j, ticks[j] = maxima[j]
               PROVE  given'.vals \cap handed[j] = {}
    OBVIOUS
  <2>1. ASSUME NEW i \in Indices, NEW n \in Nat, GiveOut(i, n)
        PROVE  given'.vals \cap handed[j] = {}
    <3>1. i = j /\ given'.vals = ticks[j] .. ticks[j] + n - 1
      BY <2>1 DEF GiveOut
    <3>2. ticks[j] \in Int /\ \A w \in handed[j] : w \in Int /\ w < ticks[j]
      BY DEF TickTypeOK, MaximumCovers
    <3> QED BY <3>1, <3>2
  <2>2. CASE given'.vals = {}
    BY <2>2
  <2> QED BY <2>1, <2>2 DEF TickNext, TickIndex, TickIndexReserve, OutOfRange, Reset,
                            ResetIndex, SetIndex
<1>2. TickTypeOK /\ MaximumCovers /\ [TickNext]_tickVars => [Fresh]_tickVars
  BY <1>1
<1> QED BY <1>2, TickTypeCorrect, MaximumCorrect, PTL DEF TickSpec, FreshFromMaximum

=============================================================================
