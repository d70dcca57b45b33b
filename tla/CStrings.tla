------------------------------ MODULE CStrings ------------------------------
(***************************************************************************)
(* common-shims/omcweb_stubs.c: the string functions of omc that walk a    *)
(* string and grow a buffer while they do: System_strtok,                  *)
(* System_strtokIncludingDelimiters, System_stringReplace, System_trim.    *)
(* One call at a time, one turn of the loop per step.                      *)
(*                                                                         *)
(* A string is the sequence of its characters, without the terminating     *)
(* zero; omc passes MetaModelica strings, which are never NULL.  The lists *)
(* returned are the token arrays, which the code conses from the back.     *)
(***************************************************************************)
EXTENDS Integers, SequencesExt

CONSTANTS
    Chars,      \* the characters
    Strings,    \* the strings omc passes to be split, trimmed or searched
    Seps,       \* the separators, searched strings and trimmed characters
    Tos,        \* the replacements
    FirstRoom,  \* the slots of a token array when it is first needed: 8 in the code
    MaxToks     \* bound: a token array is not grown further

ASSUME StringsAssumption ==
    /\ Strings \subseteq Seq(Chars)
    /\ Seps \subseteq Seq(Chars)
    /\ Tos \subseteq Seq(Chars)
    /\ FirstRoom \in Nat \ {0}
    /\ MaxToks \in Nat

StrFunctions == {"strtok", "strtokIncludingDelimiters", "stringReplace", "trim"}

VARIABLES
    fn,         \* the function being called, "idle" when none
    str,        \* its first argument
    sep,        \* sep, from or chars
    to,         \* the replacement
    pos,        \* the characters of str consumed: i, p or save of the code; start in trim
    fin,        \* trim's end
    toks,       \* toks[0 .. n-1]
    out,        \* out[0 .. w-1]
    room,       \* cap: how many tokens or bytes are allocated
    ended       \* the loop is over and the result complete

strVars == <<fn, str, sep, to, pos, fin, toks, out, room, ended>>

StrInit ==
    /\ fn = "idle"
    /\ str = <<>> /\ sep = <<>> /\ to = <<>>
    /\ pos = 0 /\ fin = 0
    /\ toks = <<>> /\ out = <<>>
    /\ room = 0
    /\ ended = FALSE

\* stringReplace allocates what a result as long as the source takes.
RoomAtStart(f, s) == IF f = "stringReplace" THEN Len(s) + 1 ELSE 0

CallString ==
    /\ fn = "idle"
    /\ fn' \in StrFunctions
    /\ str' \in Strings
    /\ sep' \in Seps
    /\ to' \in IF fn' = "stringReplace" THEN Tos ELSE {<<>>}
    /\ pos' = 0
    /\ fin' = Len(str')
    /\ toks' = <<>> /\ out' = <<>>
    /\ room' = RoomAtStart(fn', str')
    /\ ended' = FALSE

Finish ==
    /\ ended' = TRUE
    /\ UNCHANGED <<fn, str, sep, to, pos, fin, toks, out, room>>

-----------------------------------------------------------------------------
IsSep(k) == str[k] \in ToSet(sep)

\* Where sep begins in str at or behind position k.
FoundAt(k) == {j \in k .. Len(str) - Len(sep) + 1 :
                  SubSeq(str, j, j + Len(sep) - 1) = sep}

\* The first position of S, if it has one.
First(S) == {k \in S : \A j \in S : k <= j}

\* The array of r slots before its n-th element (from 0) is stored.
RoomFor(n, r) == IF n = r THEN (IF r = 0 THEN FirstRoom ELSE 2 * r) ELSE r

AddToken(t) ==
    /\ toks' = Append(toks, t)
    /\ room' = RoomFor(Len(toks), room)

\* A turn of strtok's loop: the run of other characters that begins next; strtok_r has
\* written a zero over the separator behind it and goes on after that.
Strtok ==
    /\ fn = "strtok" /\ ~ended
    /\ LET starts == {k \in pos + 1 .. Len(str) : ~IsSep(k)}
           stops(k) == {j \in k .. Len(str) : IsSep(j)} \cup {Len(str) + 1} IN
       \/ starts = {} /\ Finish
       \/ \E k \in First(starts) : \E stop \in First(stops(k)) :
             /\ AddToken(SubSeq(str, k, stop - 1))
             /\ pos' = IF stop > Len(str) THEN Len(str) ELSE stop
             /\ UNCHANGED <<fn, str, sep, to, fin, out, ended>>

\* Mutants: the delimiter is stepped over by one character; not at all.
BehindSep_one(k) == k
BehindSep_stays(k) == k - 1

BehindSep(k) == k + Len(sep) - 1

\* A turn of strtokIncludingDelimiters' loop.  The whole of sep is one delimiter, and an
\* empty one is found where the search begins, so that the loop stays there.
StrtokIncludingDelimiters ==
    /\ fn = "strtokIncludingDelimiters" /\ ~ended
    /\ Len(toks) < MaxToks
    /\ LET here == FoundAt(pos + 1) IN
       \/ pos = Len(str) /\ Finish
       \/ /\ pos < Len(str) /\ here = {}
          /\ AddToken(SubSeq(str, pos + 1, Len(str)))
          /\ ended' = TRUE
          /\ UNCHANGED <<fn, str, sep, to, pos, fin, out>>
       \/ \E p \in First(here) :
          /\ pos < Len(str)
          /\ IF p > pos + 1
             THEN /\ toks' = toks \o <<SubSeq(str, pos + 1, p - 1), sep>>
                  /\ room' = RoomFor(Len(toks) + 1, RoomFor(Len(toks), room))
             ELSE AddToken(sep)
          /\ pos' = BehindSep(p)
          /\ UNCHANGED <<fn, str, sep, to, fin, out, ended>>

\* Mutant: no room is kept for the terminating zero.
RoomToKeep_exact(w) == IF w + 1 > room THEN 2 * room ELSE room

RoomToKeep(w)    == IF w + 2 > room THEN 2 * room ELSE room
RoomToReplace(w) == IF w + Len(to) + 1 > room THEN 2 * (w + Len(to) + 1) ELSE room

\* A turn of stringReplace's loop; an empty from returns a copy.
StringReplace ==
    /\ fn = "stringReplace" /\ ~ended
    /\ UNCHANGED <<fn, str, sep, to, fin, toks>>
    /\ \/ /\ sep = <<>>
          /\ out' = str /\ pos' = Len(str)
          /\ ended' = TRUE
          /\ UNCHANGED room
       \/ /\ sep # <<>> /\ pos < Len(str)
          /\ IF pos + 1 \in FoundAt(pos + 1)
             THEN /\ out' = out \o to
                  /\ pos' = pos + Len(sep)
                  /\ room' = RoomToReplace(Len(out))
             ELSE /\ out' = Append(out, str[pos + 1])
                  /\ pos' = pos + 1
                  /\ room' = RoomToKeep(Len(out))
          /\ UNCHANGED ended
       \/ /\ sep # <<>> /\ pos = Len(str)
          /\ ended' = TRUE
          /\ UNCHANGED <<out, pos, room>>

\* trim's loops: start goes up, then end comes down, never past start.
Trim ==
    /\ fn = "trim" /\ ~ended
    /\ UNCHANGED <<fn, str, sep, to, toks>>
    /\ IF pos < fin /\ IsSep(pos + 1)
       THEN pos' = pos + 1 /\ UNCHANGED <<fin, out, room, ended>>
       ELSE IF fin > pos /\ IsSep(fin)
       THEN fin' = fin - 1 /\ UNCHANGED <<pos, out, room, ended>>
       ELSE /\ out' = SubSeq(str, pos + 1, fin)
            /\ room' = fin - pos + 1
            /\ ended' = TRUE
            /\ UNCHANGED <<pos, fin>>

\* The call returns; what it worked with is gone.
ReturnString ==
    /\ ended
    /\ fn' = "idle"
    /\ str' = <<>> /\ sep' = <<>> /\ to' = <<>>
    /\ pos' = 0 /\ fin' = 0
    /\ toks' = <<>> /\ out' = <<>>
    /\ room' = 0
    /\ ended' = FALSE

Turn == Strtok \/ StrtokIncludingDelimiters \/ StringReplace \/ Trim \/ ReturnString

StrNext == CallString \/ Turn

\* A call that has begun runs: nothing else is scheduled on the thread.
StrSpec == StrInit /\ [][StrNext]_strVars /\ WF_strVars(Turn)

-----------------------------------------------------------------------------
StrTypeOK ==
    /\ fn \in StrFunctions \cup {"idle"}
    /\ str \in Seq(Chars) /\ sep \in Seq(Chars) /\ to \in Seq(Chars)
    /\ pos \in 0 .. Len(str) /\ fin \in 0 .. Len(str)
    /\ toks \in Seq(Seq(Chars))
    /\ out \in Seq(Chars)
    /\ room \in Nat
    /\ ended \in BOOLEAN

\* The buffer a function writes to always holds what is written: the token arrays their
\* tokens, and stringReplace's, grown by two different rules, its result so far and the
\* terminating zero, whichever of the two cases wrote last.
RoomInBuffer ==
    /\ Len(toks) <= room
    /\ fn = "stringReplace" \/ (fn = "trim" /\ ended) => Len(out) + 1 <= room

\* The runs of characters that are not in sep.
RunStarts == {k \in 1 .. Len(str) : ~IsSep(k) /\ (k = 1 \/ IsSep(k - 1))}
RunFrom(k) == SubSeq(str, k, Max({j \in k .. Len(str) : \A m \in k .. j : ~IsSep(m)}))

\* The occurrences of sep that are replaced: from the left, none inside another.
Before(k) == k - Len(sep) + 1 .. k - 1
Replaced ==
    CHOOSE K \in SUBSET FoundAt(1) :
        \A k \in FoundAt(1) : k \in K <=> K \cap Before(k) = {}

\* What stands in the result for character k.
InPlaceOf(k) ==
    IF k \in Replaced THEN to ELSE IF Replaced \cap Before(k) # {} THEN <<>> ELSE <<str[k]>>

Holds(s, t) == \E k \in 1 .. Len(s) - Len(t) + 1 : SubSeq(s, k, k + Len(t) - 1) = t

\* The runs of characters between separators, in their order.
RunsInOrder ==
    /\ Len(toks) = Cardinality(RunStarts)
    /\ \A k \in RunStarts : toks[Cardinality({j \in RunStarts : j <= k})] = RunFrom(k)

\* Pieces that put together are the source, each the delimiter or without one in it.
PiecesOfSource ==
    /\ FlattenSeq(toks) = str
    /\ \A n \in 1 .. Len(toks) :
          toks[n] = sep \/ (toks[n] # <<>> /\ ~Holds(toks[n], sep))

\* The occurrences that a search from the left finds are replaced, and what was put
\* there is not looked into.
EachReplaced ==
    out = IF sep = <<>> THEN str ELSE FlattenSeq([k \in 1 .. Len(str) |-> InPlaceOf(k)])

\* Characters of the set are gone from both ends, and no others.
EndsTrimmed ==
    /\ \A k \in {1, Len(out)} \cap DOMAIN out : out[k] \notin ToSet(sep)
    /\ \E n \in 0 .. Len(str) :
          /\ out = SubSeq(str, n + 1, n + Len(out))
          /\ \A k \in 1 .. Len(str) : k <= n \/ k > n + Len(out) => IsSep(k)

\* What a call has returned is what its name promises.
PiecesRight ==
    ended => CASE fn = "strtok" -> RunsInOrder
               [] fn = "strtokIncludingDelimiters" -> PiecesOfSource
               [] fn = "stringReplace" -> EachReplaced
               [] fn = "trim" -> EndsTrimmed

\* Every call returns, except of strtokIncludingDelimiters with an empty delimiter.
CallEnds ==
    fn # "idle" /\ (sep # <<>> \/ fn # "strtokIncludingDelimiters") ~> fn = "idle"

=============================================================================
