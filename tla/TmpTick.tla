------------------------------- MODULE TmpTick -------------------------------
(***************************************************************************)
(* common-shims/omcweb_stubs.c, tmpTick: the counters from which the       *)
(* compiler takes the numbers of its temporary names.  They are static, so *)
(* one page keeps them over all the compilations it runs, and omc sets them*)
(* back and reads their maxima to number nested scopes.                    *)
(***************************************************************************)
EXTENDS Integers

CONSTANTS
    Slots,      \* OMCWEB_TMPTICK_SLOTS
    Indices,    \* the indices omc passes, which the code does not trust
    Values,     \* the values omc resets and sets a counter to
    Reserves,   \* the lengths of the blocks it reserves
    MaxTick     \* bound: an int counter is not taken further (2^31 - 1 in C)

ASSUME TickAssumption ==
    /\ Slots \in Nat \ {0}
    /\ Indices \subseteq Int
    /\ Values \subseteq Int
    /\ Reserves \subseteq Nat
    /\ MaxTick \in Int

Slot == 0 .. Slots - 1

VARIABLES
    ticks, maxima,  \* omcweb_tmpticks, omcweb_tmptick_maxima
    handed,         \* what a slot has given out since its last reset (history)
    given           \* the index of the last call and what it gave out (history)

tickVars == <<ticks, maxima, handed, given>>

TickInit ==
    /\ ticks  = [i \in Slot |-> 0]
    /\ maxima = [i \in Slot |-> 0]
    /\ handed = [i \in Slot |-> {}]
    /\ given = [idx |-> 0, vals |-> {}]

\* Mutant: the maximum is what the last call returned, not what the next one will.
RaiseMaximum_tooEarly(max, tick) == IF tick - 1 > max THEN tick - 1 ELSE max

RaiseMaximum(max, tick) == IF tick > max THEN tick ELSE max

\* An index outside the table is answered with 0 and changes nothing.
OutOfRange(i) ==
    /\ i \notin Slot
    /\ given' = [idx |-> i, vals |-> {}]
    /\ UNCHANGED <<ticks, maxima, handed>>

\* Slot i gives out the next n numbers.
GiveOut(i, n) ==
    /\ i \in Slot
    /\ ticks[i] + n <= MaxTick
    /\ ticks' = [ticks EXCEPT ![i] = @ + n]
    /\ maxima' = [maxima EXCEPT ![i] = RaiseMaximum(@, ticks[i] + n)]
    /\ given' = [idx |-> i, vals |-> ticks[i] .. ticks[i] + n - 1]
    /\ handed' = [handed EXCEPT ![i] = @ \cup given'.vals]

TickIndex(i) == GiveOut(i, 1) \/ OutOfRange(i)

TickIndexReserve(i, n) == GiveOut(i, n) \/ OutOfRange(i)

\* Mutant: the loop stops one slot early.
AllSlots_short(v) == [i \in 0 .. Slots - 2 |-> v]

AllSlots(v) == [i \in Slot |-> v]

Reset(v) ==
    /\ ticks'  = AllSlots(v)
    /\ maxima' = AllSlots(v)
    /\ handed' = [i \in Slot |-> {}]
    /\ given' = [idx |-> 0, vals |-> {}]

ResetIndex(v, i) ==
    \/ OutOfRange(i)
    \/ /\ i \in Slot
       /\ ticks'  = [ticks EXCEPT ![i] = v]
       /\ maxima' = [maxima EXCEPT ![i] = v]
       /\ handed' = [handed EXCEPT ![i] = {}]
       /\ given' = [idx |-> i, vals |-> {}]

\* Mutant: setting an index back takes its maximum back too.
MaximumAfterSet_follows(max, v) == v

MaximumAfterSet(max, v) == IF v > max THEN v ELSE max

Maximum(i) == IF i \in Slot THEN maxima[i] ELSE 0

\* An index is set to a value of the caller's, or to what tmpTickMaximum has told it.
SetIndex(i) ==
    \/ OutOfRange(i)
    \/ /\ i \in Slot
       /\ \E v \in Values \cup {Maximum(i)} :
             /\ ticks'  = [ticks EXCEPT ![i] = v]
             /\ maxima' = [maxima EXCEPT ![i] = MaximumAfterSet(@, v)]
       /\ given' = [idx |-> i, vals |-> {}]
       /\ UNCHANGED handed

TickNext ==
    \/ \E i \in Indices : TickIndex(i)
    \/ \E i \in Indices, n \in Reserves : TickIndexReserve(i, n)
    \/ \E v \in Values : Reset(v)
    \/ \E v \in Values, i \in Indices : ResetIndex(v, i)
    \/ \E i \in Indices : SetIndex(i)

TickSpec == TickInit /\ [][TickNext]_tickVars

-----------------------------------------------------------------------------
TickTypeOK ==
    /\ ticks  \in [Slot -> Int]
    /\ maxima \in [Slot -> Int]
    /\ handed \in [Slot -> SUBSET Int]
    /\ given \in [idx : Int, vals : SUBSET Int]

\* What tmpTickMaximum answers is above every number the slot has given out since
\* its reset, and the counter itself is never above it, whatever was set in between.
MaximumCovers ==
    \A i \in Slot :
        /\ ticks[i] <= maxima[i]
        /\ \A v \in handed[i] : v < maxima[i]

\* A slot that stands at its maximum gives out numbers that it has not given out
\* since its reset: so going on from tmpTickMaximum never repeats a name, however
\* the counter was set back and forth before.
FreshFromMaximum ==
    [][\A i \in Slot : given'.idx = i /\ ticks[i] = maxima[i]
                         => given'.vals \cap handed[i] = {}]_tickVars

=============================================================================
