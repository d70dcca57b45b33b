-------------------------------- MODULE Trace --------------------------------
(***************************************************************************)
(* pipeline.js, parseMat4 and traceFromMat: what the page plots is taken   *)
(* out of the file that the simulation has left, which may break off       *)
(* anywhere when the simulation ended early.  One turn of a loop per step. *)
(* parseMat4 of web/src/app.js is the same for these files.                *)
(*                                                                         *)
(* The file is the simulation runtime's (external, documented in           *)
(* headers/simrt/util/read_matlab4.h): matrices one behind another, of     *)
(* which data_2 has a row for each variable that varies and a column for   *)
(* each point of time, and "name" begins with the names of those rows; a   *)
(* header stands as in the whole file.  Numbers are integers, and a name   *)
(* is one element.                                                         *)
(***************************************************************************)
EXTENDS Integers, Sequences, FiniteSets

CONSTANTS
    Vars,       \* the names of variables
    Results,    \* the results: for each, its variables with their trajectories
    Units,      \* the bytes of a number in data_2
    Time,       \* the name "time"
    Ders        \* the names "der(...)"

ASSUME TraceAssumption ==
    /\ Units \subseteq Nat
    /\ Ders \subseteq Vars \ {Time}
    /\ Results \subseteq Seq([name : Vars, data : Seq(Int)])
    /\ \A r \in Results :
          /\ \E v \in DOMAIN r : r[v].name = Time
          /\ \A v \in DOMAIN r : Len(r[v].data) = Len(r[1].data)
          /\ \A v, w \in DOMAIN r : r[v].name = r[w].name => v = w

VARIABLES
    simulated,  \* what was simulated
    file, size, \* the file, and how many of its bytes were written
    read, off,  \* the matrices read, and the offset behind them
    parsed,     \* what parseMat4 returns: name to matrix
    phase,      \* "page", "parse", "parsed", "series", "vars", "events", "done" or "threw"
    turn,       \* the turn of the loop: v, i, or the index of a variable
    pt,         \* the step that the search for events is at
    series,     \* name to trajectory
    shown,      \* vars: the sequence of the variables plotted
    events      \* the sequence of the events marked

traceVars == <<simulated, file, size, read, off, parsed, phase, turn, pt, series, shown, events>>

Header == 20

DataBytes(m) == m.rows * m.cols * m.unit

Bytes(m) == Header + m.bytes + DataBytes(m)

\* The offset behind the three matrices of f.
WholeSize(f) == Bytes(f[1]) + Bytes(f[2]) + Bytes(f[3])

\* What the runtime writes; numbers of a matrix stand column by column.
Written(r, unit) ==
    LET rows == Len(r)
        cols == Len(r[1].data)
    IN << [name |-> "name", bytes |-> 5, unit |-> 1, rows |-> 1, cols |-> rows,
           data |-> [v \in 1 .. rows |-> r[v].name]],
          [name |-> "other", bytes |-> 7, unit |-> unit, rows |-> 1, cols |-> 1,
           data |-> <<0>>],
          [name |-> "data_2", bytes |-> 7, unit |-> unit, rows |-> rows, cols |-> cols,
           data |-> [k \in 1 .. rows * cols |->
                        r[((k - 1) % rows) + 1].data[((k - 1) \div rows) + 1]]] >>

Nothing == [n \in {} |-> <<>>]

TraceInit ==
    /\ simulated = <<>>
    /\ file = <<>> /\ size = 0
    /\ read = 0 /\ off = 0
    /\ parsed = Nothing
    /\ phase = "page"
    /\ turn = 0 /\ pt = 0
    /\ series = Nothing
    /\ shown = <<>>
    /\ events = <<>>

\* callSim has read a result file, whole or cut off.
TraceFromMat ==
    /\ phase = "page"
    /\ \E r \in Results, unit \in Units :
          /\ simulated' = r
          /\ file' = Written(r, unit)
          /\ size' \in 0 .. WholeSize(file')
    /\ read' = 0 /\ off' = 0
    /\ parsed' = Nothing
    /\ phase' = "parse"
    /\ turn' = 1 /\ pt' = 2
    /\ series' = Nothing
    /\ shown' = <<>>
    /\ events' = <<>>

With(f, n, v) == [x \in DOMAIN f \cup {n} |-> IF x = n THEN v ELSE f[x]]

Throws ==
    /\ phase' = "threw"
    /\ UNCHANGED <<simulated, file, size, read, off, parsed, turn, pt, series, shown, events>>

\* Mutant: a matrix is taken when its header is there.
Fits_header(m) == TRUE

Fits(m) == off + Bytes(m) <= size

\* A turn of parseMat4: reading a name past the end throws, data past the end end it.
ReadMatrix ==
    /\ phase = "parse"
    /\ off + Header <= size
    /\ LET m == file[read + 1] IN
       \/ off + Header + m.bytes > size /\ Throws
       \/ /\ off + Header + m.bytes <= size
          /\ IF Fits(m)
             THEN /\ parsed' = With(parsed, m.name, m)
                  /\ off' = off + Bytes(m)
                  /\ read' = read + 1
                  /\ UNCHANGED phase
             ELSE phase' = "parsed" /\ UNCHANGED <<parsed, off, read>>
          /\ UNCHANGED <<simulated, file, size, turn, pt, series, shown, events>>

EndOfMatrices ==
    /\ phase = "parse"
    /\ off + Header > size
    /\ phase' = "parsed"
    /\ UNCHANGED <<simulated, file, size, read, off, parsed, turn, pt, series, shown, events>>

\* "MAT4: missing data_2/name".
Needs ==
    /\ phase = "parsed"
    /\ IF {"data_2", "name"} \subseteq DOMAIN parsed
       THEN /\ phase' = "series"
            /\ UNCHANGED <<simulated, file, size, read, off, parsed, turn, pt, series, shown, events>>
       ELSE Throws

Names  == parsed["name"].data
Rows   == parsed["data_2"].rows
Steps  == parsed["data_2"].cols

\* Mutant: the data are taken as stored row by row.
ValueAt_rowMajor(v, s) == parsed["data_2"].data[(v - 1) * Steps + s]

\* Column by column, with v and s from 1.
ValueAt(v, s) == parsed["data_2"].data[(s - 1) * Rows + v]

\* The next turn of the loop of this phase, or the first of the next phase.
GoOn(last, next) ==
    IF turn < last THEN turn' = turn + 1 /\ UNCHANGED phase
    ELSE turn' = 1 /\ phase' = next

MakeSeries ==
    /\ phase = "series"
    /\ series' = With(series, Names[turn], [s \in 1 .. Steps |-> ValueAt(turn, s)])
    /\ GoOn(Rows, "vars")
    /\ UNCHANGED <<simulated, file, size, read, off, parsed, pt, shown, events>>

\* Constants and parameters are hidden (max - min < 1e-9); so are variables of no value.
Hidden(data) == \A s, t \in DOMAIN data : data[s] = data[t]

MakeVar ==
    /\ phase = "vars"
    /\ LET n == Names[turn] IN
       shown' = IF n = Time \/ Hidden(series[n]) THEN shown
                ELSE Append(shown, [name |-> n, data |-> series[n]])
    /\ GoOn(Rows, "events")
    /\ UNCHANGED <<simulated, file, size, read, off, parsed, pt, series, events>>

Magnitude(a) == IF a < 0 THEN -a ELSE a

Crosses(a, b) == (a < 0 /\ b > 0) \/ (a > 0 /\ b < 0)

\* Mutant: the shares of the two sides are swapped.
CrossingTime_swapped(t, u, a, b) ==
    [num |-> t * (Magnitude(a) + Magnitude(b)) + (u - t) * Magnitude(b), den |-> Magnitude(a) + Magnitude(b)]

\* Linearly interpolated between times t and u, as a fraction.
CrossingTime(t, u, a, b) ==
    [num |-> t * (Magnitude(a) + Magnitude(b)) + (u - t) * Magnitude(a), den |-> Magnitude(a) + Magnitude(b)]

\* The step pt of v is compared with the one before it.
MarkAt(v) ==
    LET a == v.data[pt - 1]
        b == v.data[pt]
        time == series[Time]
    IN events' = IF Crosses(a, b)
                 THEN Append(events, [var |-> v.name,
                                      t |-> CrossingTime(time[pt - 1], time[pt], a, b)])
                 ELSE events

\* A turn of the search: a step of a derivative, or on to the next variable.
DetectEvents ==
    /\ phase = "events"
    /\ \/ /\ turn <= Len(shown) /\ shown[turn].name \in Ders /\ pt <= Len(shown[turn].data)
          /\ MarkAt(shown[turn])
          /\ pt' = pt + 1
          /\ UNCHANGED <<turn, phase>>
       \/ /\ turn <= Len(shown)
          /\ shown[turn].name \in Ders => pt > Len(shown[turn].data)
          /\ turn' = turn + 1 /\ pt' = 2
          /\ UNCHANGED <<events, phase>>
       \/ /\ turn > Len(shown)
          /\ phase' = "done"
          /\ UNCHANGED <<events, turn, pt>>
    /\ UNCHANGED <<simulated, file, size, read, off, parsed, series, shown>>

\* The page plots the trace, or shows the error.
Plot ==
    /\ phase \in {"done", "threw"}
    /\ simulated' = <<>>
    /\ file' = <<>> /\ size' = 0
    /\ read' = 0 /\ off' = 0
    /\ parsed' = Nothing
    /\ phase' = "page"
    /\ turn' = 0 /\ pt' = 0
    /\ series' = Nothing
    /\ shown' = <<>>
    /\ events' = <<>>

TraceNext ==
    \/ TraceFromMat \/ ReadMatrix \/ EndOfMatrices \/ Needs
    \/ MakeSeries \/ MakeVar \/ DetectEvents \/ Plot

TraceSpec == TraceInit /\ [][TraceNext]_traceVars

-----------------------------------------------------------------------------
TraceTypeOK ==
    /\ phase \in {"page", "parse", "parsed", "series", "vars", "events", "done", "threw"}
    /\ size \in Nat /\ off \in Nat
    /\ read \in 0 .. Len(file) /\ turn \in Nat /\ pt \in Nat
    /\ DOMAIN parsed \subseteq {"name", "other", "data_2"}
    /\ \A n \in DOMAIN series : series[n] \in Seq(Int)
    /\ \A k \in DOMAIN shown : shown[k].name \in DOMAIN series
    /\ \A k \in DOMAIN events : events[k].t.den \in Nat \ {0}

\* A file that is cut off, wherever it is, never gives a plot, and a whole one always
\* does: no matrix is taken from a part of it, and none needed is passed over.
OnlyWholeFiles ==
    /\ phase = "done" => size = WholeSize(file)
    /\ phase = "threw" => size < WholeSize(file)

\* The variables that vary.
Varying ==
    {v \in DOMAIN simulated : /\ simulated[v].name # Time
                              /\ \E s, t \in DOMAIN simulated[v].data :
                                    simulated[v].data[s] # simulated[v].data[t]}

\* The place of variable v among them.
PlaceOf(v) == Cardinality({w \in Varying : w <= v})

\* What is plotted is what was simulated: each variable that varies, time apart, once,
\* in the order of the file, under its own name and with its own trajectory.
PlotsItsVariables ==
    phase = "done" =>
        /\ Len(shown) = Cardinality(Varying)
        /\ \A v \in Varying : shown[PlaceOf(v)] = simulated[v]

TimeAt(s) == simulated[CHOOSE v \in DOMAIN simulated : simulated[v].name = Time].data[s]

\* The steps <<v, s>> over which derivative v changes its sign.
SignChanges ==
    {w \in (DOMAIN simulated) \X (2 .. Len(simulated[1].data)) :
        LET v == simulated[w[1]] IN v.name \in Ders /\ v.data[w[2]] * v.data[w[2] - 1] < 0}

\* By variables, and for each by time.
NotBehind(x, w) == x[1] < w[1] \/ (x[1] = w[1] /\ x[2] <= w[2])

\* The place of sign change w among them.
MarkOf(w) == Cardinality({x \in SignChanges : NotBehind(x, w)})

\* Mark e is of sign change w: of its variable, and where the line through the two
\* values is zero.
IsMarkOf(e, w) ==
    LET v == simulated[w[1]]
        s == w[2]
    IN /\ e.var = v.name
       /\ (v.data[s] - v.data[s - 1]) * (e.t.num - TimeAt(s - 1) * e.t.den)
             + v.data[s - 1] * (TimeAt(s) - TimeAt(s - 1)) * e.t.den = 0

\* Each step over which a derivative changes its sign has its own mark, in order, and
\* there are no other marks.
EventsAtZeros ==
    phase = "done" =>
        /\ Len(events) = Cardinality(SignChanges)
        /\ \A w \in SignChanges : IsMarkOf(events[MarkOf(w)], w)

\* "Detect events: sign-changes in any state derivative" (pipeline.js): a derivative
\* that was below zero and then is above it, or the other way round, has a mark.
EverySignChangeMarked ==
    phase = "done" =>
        \A v \in DOMAIN simulated : simulated[v].name \in Ders =>
            LET d == simulated[v].data IN
            (\E s, u \in DOMAIN d : d[s] * d[u] < 0)
                => \E k \in DOMAIN events : events[k].var = simulated[v].name

=============================================================================
