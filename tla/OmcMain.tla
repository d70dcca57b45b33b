------------------------------- MODULE OmcMain -------------------------------
(***************************************************************************)
(* common-shims/omcweb_main.c: omc's main, which the page calls again and  *)
(* again on one instance, and the jump buffers behind it: the thread data  *)
(* of a call lives on its stack, is reached through a thread key, and says *)
(* where a failure and a stack overflow jump to.  A call may end by        *)
(* returning, by a failure, by a stack overflow, by exit() anywhere, or by *)
(* a trap of the wasm; the last two leave everything as it is.             *)
(*                                                                         *)
(* The allocator is omcweb_gc_stub.c: nothing is collected, so that what a *)
(* call has allocated stays allocated.  omc itself is external: it opens   *)
(* and leaves MMC_TRY blocks of its own and allocates as it likes.         *)
(***************************************************************************)
EXTENDS Integers, Sequences

CONSTANTS
    MaxDepth,   \* bound: blocks that hold a jump buffer at one time
    Memory      \* what the linear memory can grow to, in units a call allocates

ASSUME MainAssumption ==
    /\ MaxDepth \in Nat \ {0, 1}
    /\ Memory \in Nat \ {0}

VARIABLES
    place,          \* "page": no call; "omc": in omc_Main_main; "overflowed": in main's MMC_ELSE
    frames,         \* the blocks with a jmp_buf on the stack, with the old_jumper of each
    mmcJumper,      \* threadData->mmc_jumper, as the number of a block, 0 for NULL
    overflowJumper, \* threadData->mmc_stack_overflow_jumper
    key,            \* the thread key: NULL, the "present" call's data, or those of a "past" one
    oldThreadData,  \* the key as the present call found it
    heap, mine,     \* what is allocated in all, and by the present call
    failedAlloc     \* the present call has asked for more than there was

mainVars == <<place, frames, mmcJumper, overflowJumper, key, oldThreadData,
              heap, mine, failedAlloc>>

Null == "null"

\* The blocks of __omc_main: MMC_TRY_TOP, and MMC_TRY_STACK in it.
Top == 1
Guard == 2

MainInit ==
    /\ place = "page"
    /\ frames = <<>>
    /\ mmcJumper = 0 /\ overflowJumper = 0
    /\ key = Null /\ oldThreadData = Null
    /\ heap = 0 /\ mine = 0
    /\ failedAlloc = FALSE

\* Mutant: the thread data of the last call are used again, as if they were static.
KeyOnEntry_kept == IF key = Null THEN "present" ELSE key

KeyOnEntry == "present"

\* __omc_main up to omc_Main_main: MMC_TRY_TOP sets both jumpers to its block, and
\* MMC_TRY_STACK the second to the block within.
Enter ==
    /\ place = "page"
    /\ place' = "omc"
    /\ frames' = <<0, Top>>
    /\ mmcJumper' = Top
    /\ overflowJumper' = Guard
    /\ oldThreadData' = key
    /\ key' = KeyOnEntry
    /\ mine' = 0
    /\ failedAlloc' = FALSE
    /\ UNCHANGED heap

\* MMC_TRY: a block of omc's own.
Try ==
    /\ place = "omc"
    /\ Len(frames) < MaxDepth
    /\ frames' = Append(frames, mmcJumper)
    /\ mmcJumper' = Len(frames) + 1
    /\ UNCHANGED <<place, overflowJumper, key, oldThreadData, heap, mine, failedAlloc>>

\* MMC_CATCH puts back what MMC_TRY has saved.
JumperBehind(b) == frames[b]

\* The innermost block of omc's own ends.
Catch ==
    /\ place = "omc"
    /\ Len(frames) > Guard
    /\ mmcJumper' = JumperBehind(Len(frames))
    /\ frames' = SubSeq(frames, 1, Len(frames) - 1)
    /\ UNCHANGED <<place, overflowJumper, key, oldThreadData, heap, mine, failedAlloc>>

\* The stack is gone, and with it the thread data of the call.
Leave(k) ==
    /\ place' = "page"
    /\ frames' = <<>>
    /\ mmcJumper' = 0 /\ overflowJumper' = 0
    /\ key' = IF k = "present" THEN "past" ELSE k
    /\ oldThreadData' = Null
    /\ UNCHANGED <<heap, mine, failedAlloc>>

\* A failure jumps to mmcJumper: to the end of a block of omc's, or to the top, which
\* puts the key back and returns.
Throw ==
    /\ place = "omc"
    /\ \/ /\ mmcJumper > Guard
          /\ frames' = SubSeq(frames, 1, mmcJumper - 1)
          /\ mmcJumper' = JumperBehind(mmcJumper)
          /\ UNCHANGED <<place, overflowJumper, key, oldThreadData, heap, mine, failedAlloc>>
       \/ mmcJumper <= Guard /\ Leave(oldThreadData)

\* MMC_ELSE sets mmc_jumper to what MMC_TRY_STACK saved of the other jumper.
JumperInElse == frames[overflowJumper]

\* The check for a stack overflow jumps to overflowJumper, the block of __omc_main.
StackOverflow ==
    /\ place = "omc"
    /\ place' = "overflowed"
    /\ mmcJumper' = JumperInElse
    /\ frames' = SubSeq(frames, 1, overflowJumper)
    /\ UNCHANGED <<overflowJumper, key, oldThreadData, heap, mine, failedAlloc>>

\* "return 1" in the block: the key is not put back.
OverflowReturns ==
    /\ place = "overflowed"
    /\ Leave(key)

\* MMC_CATCH_STACK, MMC_CATCH_TOP and EXIT(0).
Returns ==
    /\ place = "omc"
    /\ Len(frames) = Guard
    /\ Leave(oldThreadData)

\* exit() in omc, or a trap: a JavaScript exception takes the stack away.
Unwound ==
    /\ place = "omc"
    /\ Leave(key)

\* GC_malloc and its kin; GC_gcollect and the rest do nothing.
Allocate ==
    /\ place = "omc"
    /\ heap < Memory
    /\ heap' = heap + 1
    /\ mine' = mine + 1
    /\ UNCHANGED <<place, frames, mmcJumper, overflowJumper, key, oldThreadData, failedAlloc>>

\* The memory cannot grow: malloc returns NULL, which omc does not survive.
OutOfMemory ==
    /\ place = "omc"
    /\ heap = Memory
    /\ failedAlloc' = TRUE
    /\ place' = "page"
    /\ frames' = <<>>
    /\ mmcJumper' = 0 /\ overflowJumper' = 0
    /\ key' = "past"
    /\ oldThreadData' = Null
    /\ UNCHANGED <<heap, mine>>

MainNext ==
    \/ Enter \/ Try \/ Catch \/ Throw \/ StackOverflow \/ OverflowReturns
    \/ Returns \/ Unwound \/ Allocate \/ OutOfMemory

MainSpec == MainInit /\ [][MainNext]_mainVars

-----------------------------------------------------------------------------
MainTypeOK ==
    /\ place \in {"page", "omc", "overflowed"}
    /\ frames \in Seq(Nat) /\ Len(frames) <= MaxDepth
    /\ mmcJumper \in Nat /\ overflowJumper \in Nat
    /\ key \in {Null, "present", "past"} /\ oldThreadData \in {Null, "past"}
    /\ heap \in 0 .. Memory /\ mine \in 0 .. heap
    /\ failedAlloc \in BOOLEAN

\* Whatever way the calls before ended, while omc runs a failure jumps into the
\* innermost block that is on the stack of this call and waits for one, a stack
\* overflow into the block of __omc_main, and the thread key leads to the data that
\* say so: no jump goes to a block that has been left.
JumpsLive ==
    place # "page" =>
        /\ key = "present"
        /\ mmcJumper = IF Len(frames) > Guard THEN Len(frames) ELSE Top
        /\ overflowJumper = Guard
        /\ Guard <= Len(frames)

\* "The result leaks until the wasm exits, but the wasm IS a short-lived one-shot
\* compiler process" (omcweb_gc_stub.c): a call fails for memory only if it has
\* itself filled what there is.
FitsWhenFresh == failedAlloc => mine = Memory

=============================================================================
