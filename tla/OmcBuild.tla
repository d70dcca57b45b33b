------------------------------ MODULE OmcBuild ------------------------------
(***************************************************************************)
(* projects/omc-wasm: where each C function of omc.wasm comes from.        *)
(* build-libs.sh compiles the libraries, gen-stubs.py then writes a stub   *)
(* that answers a constant for every declared function it finds nowhere    *)
(* else, and build-link.sh links, where an object file is taken before an  *)
(* archive.  So a stub that should not have been written silently replaces *)
(* the real function ("the bouncing-ball crash").                          *)
(*                                                                         *)
(* The build tree outlives a make, the sources change between two, and a   *)
(* make may be interrupted after any of its recipes.  emnm, by which       *)
(* gen-stubs.py lists an archive, may fail; the build goes on all the same.*)
(***************************************************************************)
EXTENDS Integers, Sequences

CONSTANTS
    Declared,   \* functions declared extern in one of SHIM_HEADERS
    Hand,       \* functions that omcweb_stubs.c defines, or libc
    Archives,   \* the archives of build/
    Library,    \* pairs <<a, f>>: a source file of archive a defines f, if Hand has it or not
    Needed      \* functions that the linked program calls

Sources == {"hand", "default", "real", "none"}

VARIABLES
    compiles,   \* the pairs of Library whose source file compiles today
    archive,    \* the pairs <<a, f>> such that f is in archive a
    stubs,      \* omcweb_stubs_auto.c
    listed,     \* the archives emnm could list when stubs was written (history)
    recipes,    \* what make still has to run
    image       \* out/omc.wasm: where each needed function comes from

buildVars == <<compiles, archive, stubs, listed, recipes, image>>

\* What gen-stubs.py writes once emnm has listed the archives seen: a stub for every
\* declared function that it knows neither from omcweb_stubs.c nor from one of them.
StubsFor(contents, seen) ==
    {f \in Declared \ Hand : \A a \in seen : <<a, f>> \notin contents}

\* A clone: omcweb_stubs_auto.c is checked in, written from complete archives.
BuildInit ==
    /\ compiles = Library
    /\ archive = {}
    /\ stubs = StubsFor(Library, Archives)
    /\ listed = {}
    /\ recipes = <<>>
    /\ image = [f \in Needed |-> "none"]

\* Sources change, and may or may not compile afterwards.
EditSources ==
    /\ recipes = <<>>
    /\ compiles' \in SUBSET Library
    /\ UNCHANGED <<archive, stubs, listed, recipes, image>>

\* Mutant: link names stubs before libs.
Recipes_swapped(goal) ==
    IF goal = "link" THEN <<"stubs", "libs", "link">> ELSE <<goal>>

\* The recipes of a goal in the order a serial make runs its prerequisites: from the
\* left, and neither of libs and stubs asks for the other.
Recipes(goal) == IF goal = "link" THEN <<"libs", "stubs", "link">> ELSE <<goal>>

Make ==
    /\ recipes = <<>>
    /\ \E goal \in {"link", "libs", "stubs", "clean"} : recipes' = Recipes(goal)
    /\ UNCHANGED <<compiles, archive, stubs, listed, image>>

Interrupt ==
    /\ recipes # <<>>
    /\ recipes' = <<>>
    /\ UNCHANGED <<compiles, archive, stubs, listed, image>>

Runs(recipe) ==
    /\ recipes # <<>> /\ Head(recipes) = recipe
    /\ recipes' = Tail(recipes)

\* build-libs.sh: a file that does not compile is counted and passed over, and emar adds
\* and replaces members but removes none.
BuildLibs ==
    /\ Runs("libs")
    /\ archive' = archive \cup compiles
    /\ UNCHANGED <<compiles, stubs, listed, image>>

\* gen-stubs.py: an archive counts as empty when it does not exist, when emnm is not on
\* the PATH (then every one does), or when emnm fails on it; nothing stops the build.
GenStubs ==
    /\ Runs("stubs")
    /\ listed' \in SUBSET Archives
    /\ stubs' = StubsFor(archive, listed')
    /\ UNCHANGED <<compiles, archive, image>>

InArchive(f) == \E a \in Archives : <<a, f>> \in archive

Undefined == {f \in Needed \ (Hand \cup stubs) : ~InArchive(f)}

\* Object files first, archives for what is then still undefined.
Resolve(f) == IF f \in Hand THEN "hand" ELSE IF f \in stubs THEN "default" ELSE "real"

\* build-link.sh: an undefined symbol is an error and leaves the image of the last link.
\* (A second definition that comes in with its archive member's other functions is an
\* error, too; that way out is Interrupt.)
Link ==
    /\ Runs("link")
    /\ image' = IF Undefined = {} THEN [f \in Needed |-> Resolve(f)] ELSE image
    /\ UNCHANGED <<compiles, archive, stubs, listed>>

Clean ==
    /\ Runs("clean")
    /\ archive' = {}
    /\ image' = [f \in Needed |-> "none"]
    /\ UNCHANGED <<compiles, stubs, listed>>

BuildNext == EditSources \/ Make \/ Interrupt \/ BuildLibs \/ GenStubs \/ Link \/ Clean

BuildSpec == BuildInit /\ [][BuildNext]_buildVars

-----------------------------------------------------------------------------
BuildTypeOK ==
    /\ compiles \subseteq Library
    /\ archive \subseteq Library
    /\ stubs \subseteq Declared \ Hand
    /\ listed \subseteq Archives
    /\ recipes \in Seq({"link", "libs", "stubs", "clean"})
    /\ image \in [Needed -> Sources]

\* A new image was linked.
Linked == recipes # <<>> /\ Head(recipes) = "link" /\ image' # image

\* Whatever was built, generated, broken off or changed before: the functions of
\* omcweb_stubs.c are linked before all others, and no stub takes the place of a function
\* in an archive that emnm listed for the stubs, though archives change in between and
\* emnm may have failed on others.  (What only those have is replaced, if it is declared.)
RealWins ==
    [][Linked =>
          \A f \in Needed :
              /\ f \in Hand => image'[f] = "hand"
              /\ f \notin Hand /\ (\E a \in listed : <<a, f>> \in archive)
                    => image'[f] = "real"]_buildVars

=============================================================================
