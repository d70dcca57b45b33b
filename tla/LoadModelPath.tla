---------------------------- MODULE LoadModelPath ----------------------------
(***************************************************************************)
(* common-shims/omcweb_stubs.c, System_getLoadModelPath: which entry of    *)
(* MODELICAPATH omc loads for a class name.  The directories are scanned   *)
(* in order, the entries of one in whatever order readdir returns them;    *)
(* the entry is remembered in static buffers that outlive the call.        *)
(*                                                                         *)
(* A name is the class name, what follows it, and its length; a version is *)
(* a number, ordered as the versions are.  A directory that cannot be      *)
(* opened is an empty one: both are passed over.                           *)
(***************************************************************************)
EXTENDS Integers

CONSTANTS
    Dirs,       \* the number of directories on MODELICAPATH
    Layouts,    \* what the directories may hold when the function is called
    None

\* sep is the character after the class name: "end", "space", "dot", or any other.
Entry == [class : BOOLEAN, sep : {"end", "space", "dot", "other"}, version : Nat,
          length : Nat, packageMo : BOOLEAN, moFile : BOOLEAN]

ASSUME PathAssumption ==
    /\ Dirs \in Nat \ {0}
    /\ Layouts \subseteq [1 .. Dirs -> SUBSET Entry]
    /\ None \notin Entry

VARIABLES
    dirs,       \* the directories as this call finds them
    at, left,   \* the directory being read, and its entries not yet read
    found,
    best,       \* best_dir_buf and best_name_buf: static
    result,     \* dirOut and nameOut, None for two empty strings
    pc          \* "scan" or "done"

searchVars == <<dirs, at, left, found, best, result, pc>>

SepEnds(e) == e.sep \in {"end", "space", "dot"}

IsDir(e) == e.packageMo
Loadable(e) == IsDir(e) \/ e.moFile

Candidate(e) == e.class /\ SepEnds(e) /\ Loadable(e)

\* Mutant: the form of the entry does not count.
Score_length(e) == 2 * e.length

Score(e) == 2 * e.length + IF IsDir(e) THEN 1 ELSE 0

Listing(layout, i) == layout[i]

\* best as a call finds it, from the call before it if there was one.
StartCall(layout) ==
    /\ dirs' = layout
    /\ at' = 1
    /\ left' = Listing(layout, 1)
    /\ found' = FALSE
    /\ result' = None
    /\ pc' = "scan"

\* No call yet: as behind a call that found empty directories.
SearchInit ==
    /\ dirs = [i \in 1 .. Dirs |-> {}]
    /\ at = Dirs
    /\ left = {}
    /\ found = FALSE
    /\ best = None
    /\ result = None
    /\ pc = "done"

\* Mutant: the last candidate that is read wins.
Better_last(e) == TRUE

Better(e) == ~found \/ Score(e) > Score(best)

ReadEntry(e) ==
    /\ pc = "scan"
    /\ e \in left
    /\ left' = left \ {e}
    /\ IF Candidate(e) /\ Better(e)
       THEN found' = TRUE /\ best' = e
       ELSE UNCHANGED <<found, best>>
    /\ UNCHANGED <<dirs, at, result, pc>>

StopsHere == found \/ at = Dirs

CloseDir ==
    /\ pc = "scan"
    /\ left = {}
    /\ ~StopsHere
    /\ at' = at + 1
    /\ left' = Listing(dirs, at + 1)
    /\ UNCHANGED <<dirs, found, best, result, pc>>

\* Mutant: the buffers are returned whether or not this call filled them.
Out_buffers == best

Out == IF found THEN best ELSE None

Return ==
    /\ pc = "scan"
    /\ left = {}
    /\ StopsHere
    /\ result' = Out
    /\ pc' = "done"
    /\ UNCHANGED <<dirs, at, left, found, best>>

Again ==
    /\ pc = "done"
    /\ \E layout \in Layouts : StartCall(layout)
    /\ UNCHANGED best

SearchNext ==
    \/ \E e \in left : ReadEntry(e)
    \/ CloseDir \/ Return \/ Again

SearchSpec == SearchInit /\ [][SearchNext]_searchVars

-----------------------------------------------------------------------------
SearchTypeOK ==
    /\ dirs \in [1 .. Dirs -> SUBSET Entry]
    /\ at \in 1 .. Dirs
    /\ left \subseteq dirs[at]
    /\ found \in BOOLEAN
    /\ best \in Entry \cup {None}
    /\ result \in Entry \cup {None}
    /\ pc \in {"scan", "done"}

Candidates(i) == {e \in dirs[i] : Candidate(e)}

\* Whatever order readdir returns the entries in, and whatever an earlier call left
\* in the static buffers: a call returns an entry of the first directory of
\* MODELICAPATH that holds one to load, and nothing only if none does.
FirstDirectory ==
    pc = "done" =>
        IF result = None
        THEN \A i \in 1 .. Dirs : Candidates(i) = {}
        ELSE /\ result \in Candidates(at)
             /\ \A i \in 1 .. at - 1 : Candidates(i) = {}

\* ... and no entry of that directory scores higher: among names of one length a
\* directory is preferred to a file, as the comment on ties says.
BestInDirectory ==
    pc = "done" /\ result # None =>
        \A e \in Candidates(at) :
            /\ e.length <= result.length
            /\ e.length = result.length /\ IsDir(e) => IsDir(result)

\* "Returns the highest version" (the comment above the function).
HighestVersion ==
    pc = "done" /\ result # None =>
        \A e \in Candidates(at) : e.version <= result.version

\* What "longer name = newer version" buys: where it is true of the entries that
\* can be loaded, the highest version is returned.
LongerIsNewer(S) ==
    \A e, f \in S : e.version > f.version => e.length > f.length

HighestWhenLonger ==
    pc = "done" /\ result # None /\ LongerIsNewer(Candidates(at)) =>
        \A e \in Candidates(at) : e.version <= result.version

=============================================================================
