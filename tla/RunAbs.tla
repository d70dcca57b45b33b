------------------------------- MODULE RunAbs -------------------------------
(***************************************************************************)
(* What runFull (demo-app/pipeline.js) promises its caller: a call takes a *)
(* source, and either throws or returns a trace.  The trace of a call that *)
(* no other call overlapped is the trace of its own source; calls that     *)
(* overlapped share the page's file systems and may get each other's.      *)
(***************************************************************************)
CONSTANTS Runs, Sources, None

VARIABLES
    status,     \* idle, running, returned or threw
    source,     \* the source a call was given
    result,     \* the sources its trace was made from
    mixed       \* the calls that overlapped another

vars == <<status, source, result, mixed>>

Running == {r \in Runs : status[r] = "running"}

Init ==
    /\ status = [r \in Runs |-> "idle"]
    /\ source = [r \in Runs |-> None]
    /\ result = [r \in Runs |-> {}]
    /\ mixed  = {}

\* A call may throw before it first awaits anything.
Start(r, s) ==
    /\ status[r] = "idle"
    /\ status' \in {[status EXCEPT ![r] = "running"], [status EXCEPT ![r] = "threw"]}
    /\ source' = [source EXCEPT ![r] = s]
    /\ mixed' = IF Running = {} THEN mixed ELSE mixed \cup Running \cup {r}
    /\ UNCHANGED result

Return(r) ==
    /\ status[r] = "running"
    /\ status' = [status EXCEPT ![r] = "returned"]
    /\ \E used \in SUBSET Sources :
          /\ r \notin mixed => used = {source[r]}
          /\ result' = [result EXCEPT ![r] = used]
    /\ UNCHANGED <<source, mixed>>

Throw(r) ==
    /\ status[r] = "running"
    /\ status' = [status EXCEPT ![r] = "threw"]
    /\ UNCHANGED <<source, result, mixed>>

Next == \E r \in Runs : \/ \E s \in Sources : Start(r, s)
                        \/ Return(r)
                        \/ Throw(r)

Spec == Init /\ [][Next]_vars

=============================================================================
