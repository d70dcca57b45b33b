---------------------------- MODULE TraceProofs ----------------------------
(***************************************************************************)
(* What the page plots, for any result of the simulation: any variables    *)
(* with any trajectories, and a file cut off anywhere.                     *)
(***************************************************************************)
EXTENDS Trace, FiniteSetTheorems, TLAPS

-----------------------------------------------------------------------------
(* The file.                                                               *)

\* A number written as so many rows and a rest is taken apart again.
LEMMA RowsAndRest ==
    ASSUME NEW n \in Nat \ {0}, NEW a \in Nat, NEW b \in 0 .. n - 1
    PROVE  (a * n + b) % n = b /\ (a * n + b) \div n = a
<1>1. (a * n + b) % n = b
  OBVIOUS
<1>2. \A k \in Int : k = n * a + b => k \div n = a
  OBVIOUS
<1>3. a * n + b \in Int /\ a * n + b = n * a + b
  OBVIOUS
<1> QED BY <1>1, <1>2, <1>3

LEMMA RowsLeft ==
    ASSUME NEW a \in Int, NEW b \in Int, NEW n \in Int
    PROVE  n * a - (b - 1) * n = (a - (b - 1)) * n
OBVIOUS

\* What is used of a result file: its three matrices and where data_2 has a value.
IsFileOf(f, r) ==
    /\ Len(f) = 3
    /\ f[1].name = "name" /\ f[2].name = "other" /\ f[3].name = "data_2"
    /\ \A k \in 1 .. 3 : /\ f[k].bytes \in Nat /\ Bytes(f[k]) \in Nat
                         /\ Header + f[k].bytes <= Bytes(f[k])
    /\ f[1].data = [v \in 1 .. Len(r) |-> r[v].name]
    /\ f[3].rows = Len(r) /\ f[3].cols = Len(r[1].data)
    /\ \A v \in 1 .. Len(r), s \in 1 .. Len(r[1].data) :
          f[3].data[(s - 1) * Len(r) + v] = r[v].data[s]

LEMMA SequenceParts ==
    ASSUME NEW S, NEW s \in Seq(S)
    PROVE  Len(s) \in Nat /\ DOMAIN s = 1 .. Len(s) /\ \A k \in 1 .. Len(s) : s[k] \in S
OBVIOUS

LEMMA ResultType ==
    ASSUME NEW r \in Results
    PROVE  /\ Len(r) \in Nat \ {0} /\ DOMAIN r = 1 .. Len(r)
           /\ Len(r[1].data) \in Nat
           /\ \A v \in 1 .. Len(r) :
                 /\ r[v] \in [name : Vars, data : Seq(Int)]
                 /\ Len(r[v].data) = Len(r[1].data)
           /\ \A v, w \in 1 .. Len(r) : r[v].name = r[w].name => v = w
           /\ \E v \in 1 .. Len(r) : r[v].name = Time
<1>1. r \in Seq([name : Vars, data : Seq(Int)])
  BY TraceAssumption
<1>2. DOMAIN r = 1 .. Len(r) /\ Len(r) \in Nat
      /\ \A v \in 1 .. Len(r) : r[v] \in [name : Vars, data : Seq(Int)]
  BY <1>1, SequenceParts
<1>3. \E v \in 1 .. Len(r) : r[v].name = Time
  BY <1>2, TraceAssumption
<1>4. \A v \in 1 .. Len(r) : Len(r[v].data) = Len(r[1].data)
  BY <1>2, TraceAssumption
<1>5. \A v, w \in 1 .. Len(r) : r[v].name = r[w].name => v = w
  BY <1>2, TraceAssumption
<1>6. 1 \in 1 .. Len(r) /\ Len(r[1].data) \in Nat
  BY <1>2, <1>3
<1> QED BY <1>2, <1>3, <1>4, <1>5, <1>6

LEMMA WrittenIsFile ==
    ASSUME NEW r \in Results, NEW u \in Units
    PROVE  IsFileOf(Written(r, u), r)
<1> DEFINE f == Written(r, u)
           rows == Len(r)
           cols == Len(r[1].data)
<1>1. rows \in Nat \ {0} /\ cols \in Nat /\ u \in Nat
  BY ResultType, TraceAssumption
<1>2. /\ Len(f) = 3
      /\ f[1] = [name |-> "name", bytes |-> 5, unit |-> 1, rows |-> 1, cols |-> rows,
                 data |-> [v \in 1 .. rows |-> r[v].name]]
      /\ f[2] = [name |-> "other", bytes |-> 7, unit |-> u, rows |-> 1, cols |-> 1,
                 data |-> <<0>>]
      /\ f[3] = [name |-> "data_2", bytes |-> 7, unit |-> u, rows |-> rows, cols |-> cols,
                 data |-> [k \in 1 .. rows * cols |->
                              r[((k - 1) % rows) + 1].data[((k - 1) \div rows) + 1]]]
  BY DEF Written
<1>3. rows * cols \in Nat /\ rows * cols * u \in Nat /\ 1 * rows * 1 \in Nat /\ 1 * 1 * u \in Nat
  BY <1>1
<1>4. \A k \in 1 .. 3 : /\ f[k].bytes \in Nat /\ Bytes(f[k]) \in Nat
                        /\ Header + f[k].bytes <= Bytes(f[k])
  <2>1. DataBytes(f[1]) \in Nat /\ DataBytes(f[2]) \in Nat /\ DataBytes(f[3]) \in Nat
    <3>1. /\ f[1].rows = 1 /\ f[1].cols = rows /\ f[1].unit = 1
          /\ f[2].rows = 1 /\ f[2].cols = 1 /\ f[2].unit = u
          /\ f[3].rows = rows /\ f[3].cols = cols /\ f[3].unit = u
      BY <1>2
    <3> HIDE DEF f
    <3> QED BY <1>3, <3>1, Zenon DEF DataBytes
  <2>2. f[1].bytes = 5 /\ f[2].bytes = 7 /\ f[3].bytes = 7
    BY <1>2
  <2> HIDE DEF f
  <2> QED BY <2>1, <2>2 DEF Bytes, Header
<1>5. ASSUME NEW v \in 1 .. rows, NEW s \in 1 .. cols
      PROVE  f[3].data[(s - 1) * rows + v] = r[v].data[s]
  <2> DEFINE k == (s - 1) * rows + v
  <2>1. k - 1 = (s - 1) * rows + (v - 1) /\ s - 1 \in Nat /\ v - 1 \in 0 .. rows - 1
    BY <1>1
  <2>2. (k - 1) % rows = v - 1 /\ (k - 1) \div rows = s - 1
    BY <1>1, <2>1, RowsAndRest
  <2>3. k \in 1 .. rows * cols
    <3>1. (s - 1) * rows \in Nat
      BY <1>1
    <3>3. rows * cols - (s - 1) * rows = (cols - (s - 1)) * rows
      <4>1. cols \in Int /\ s \in Int /\ rows \in Int
        BY <1>1
      <4> HIDE DEF rows, cols
      <4> QED BY <4>1, RowsLeft, Zenon
    <3>2. (cols - (s - 1)) * rows >= rows
      BY <1>1
    <3> QED BY <1>1, <3>1, <3>2, <3>3
  <2>4. f[3].data[k] = r[((k - 1) % rows) + 1].data[((k - 1) \div rows) + 1]
    BY <1>2, <2>3
  <2>5. v - 1 + 1 = v /\ s - 1 + 1 = s
    OBVIOUS
  <2> QED BY <2>2, <2>4, <2>5
<1>6. /\ f[1].name = "name" /\ f[2].name = "other" /\ f[3].name = "data_2"
      /\ f[1].data = [v \in 1 .. rows |-> r[v].name]
      /\ f[3].rows = rows /\ f[3].cols = cols
  BY <1>2
<1> QED BY <1>2, <1>4, <1>5, <1>6 DEF IsFileOf

-----------------------------------------------------------------------------
(* Reading: off stands behind the matrices read, which are the first ones  *)
(* of the file, and reading ends before the last only where the file does. *)

Loops == {"series", "vars", "events", "done"}

FileInv ==
    phase # "page" =>
        /\ simulated \in Results
        /\ IsFileOf(file, simulated)
        /\ size \in 0 .. WholeSize(file)

Offset(f, k) ==
    CASE k = 0 -> 0
      [] k = 1 -> Bytes(f[1])
      [] k = 2 -> Bytes(f[1]) + Bytes(f[2])
      [] k = 3 -> WholeSize(f)

ReadInv ==
    phase # "page" =>
        /\ read \in 0 .. 3
        /\ off = Offset(file, read) /\ off <= size
        /\ DOMAIN parsed = {file[k].name : k \in 1 .. read}
        /\ \A k \in 1 .. read : parsed[file[k].name] = file[k]
        /\ phase = "parsed" /\ read < 3 => size < WholeSize(file)
        /\ phase = "threw" => size < WholeSize(file)
        /\ phase \in Loops => read = 3

\* As long as a matrix is left, the offset leaves it before the end of the whole file.
LEMMA OffsetGoesOn ==
    ASSUME NEW f, NEW r, IsFileOf(f, r), NEW k \in 0 .. 3
    PROVE  /\ Offset(f, k) \in Nat /\ WholeSize(f) \in Nat
           /\ Offset(f, 3) = WholeSize(f) /\ Offset(f, 0) = 0
           /\ k < 3 => /\ Offset(f, k + 1) = Offset(f, k) + Bytes(f[k + 1])
                       /\ Offset(f, k) + Header + f[k + 1].bytes <= WholeSize(f)
                       /\ f[k + 1].bytes \in Nat
<1> DEFINE b(i) == Bytes(f[i])
           h(i) == f[i].bytes
           o(i) == Offset(f, i)
<1>1. /\ b(1) \in Nat /\ b(2) \in Nat /\ b(3) \in Nat
      /\ h(1) \in Nat /\ h(2) \in Nat /\ h(3) \in Nat
      /\ Header + h(1) <= b(1) /\ Header + h(2) <= b(2) /\ Header + h(3) <= b(3)
  BY DEF IsFileOf
<1>2. /\ o(0) = 0 /\ o(1) = b(1) /\ o(2) = b(1) + b(2)
      /\ o(3) = b(1) + b(2) + b(3) /\ WholeSize(f) = b(1) + b(2) + b(3)
  BY DEF Offset, WholeSize
<1> SUFFICES /\ o(k) \in Nat /\ WholeSize(f) \in Nat /\ o(3) = WholeSize(f) /\ o(0) = 0
             /\ k < 3 => /\ o(k + 1) = o(k) + b(k + 1)
                         /\ o(k) + Header + h(k + 1) <= WholeSize(f)
                         /\ h(k + 1) \in Nat
  OBVIOUS
<1>3. k \in {0, 1, 2, 3} /\ 0 + 1 = 1 /\ 1 + 1 = 2 /\ 2 + 1 = 3
  OBVIOUS
<1> HIDE DEF b, h, o
<1>4. CASE k = 0
  BY <1>1, <1>2, <1>4 DEF Header
<1>5. CASE k = 1
  BY <1>1, <1>2, <1>5 DEF Header
<1>6. CASE k = 2
  BY <1>1, <1>2, <1>6 DEF Header
<1>7. CASE k = 3
  BY <1>1, <1>2, <1>7
<1> QED BY <1>3, <1>4, <1>5, <1>6, <1>7

LEMMA NothingIsEmpty == DOMAIN Nothing = {}
BY DEF Nothing

\* A step that goes on with the same file.
LEMMA FileStays ==
    ASSUME FileInv, phase # "page", UNCHANGED <<simulated, file, size>>
    PROVE  FileInv'
BY DEF FileInv, IsFileOf, WholeSize

\* A step that reads nothing and goes on to a phase that the matrices read allow.
LEMMA ReadStays ==
    ASSUME ReadInv, phase # "page", UNCHANGED <<simulated, file, size, read, off, parsed>>,
           phase' = "parsed" /\ read < 3 => size < WholeSize(file),
           phase' = "threw" => size < WholeSize(file),
           phase' \in Loops => read = 3
    PROVE  ReadInv'
BY DEF ReadInv, Offset, WholeSize

LEMMA ReadInductive ==
    ASSUME FileInv, ReadInv, [TraceNext]_traceVars
    PROVE  FileInv' /\ ReadInv'
<1>1. CASE TraceFromMat
  <2>1. PICK r \in Results, u \in Units : simulated' = r /\ file' = Written(r, u)
                                         /\ size' \in 0 .. WholeSize(file')
    BY <1>1 DEF TraceFromMat
  <2>2. IsFileOf(file', simulated')
    BY <2>1, WrittenIsFile
  <2>3. FileInv'
    BY <2>1, <2>2 DEF FileInv
  <2>4. read' = 0 /\ off' = 0 /\ parsed' = Nothing /\ phase' = "parse"
    BY <1>1 DEF TraceFromMat
  <2>5. WholeSize(file)' \in Nat
    BY <2>2, OffsetGoesOn
  <2>6. size' \in Nat /\ off' = Offset(file', read') /\ off' <= size'
    BY <2>1, <2>4, <2>5 DEF Offset
  <2>7. 1 .. read' = {} /\ DOMAIN parsed' = {}
    BY <2>4, NothingIsEmpty
  <2>8. /\ read' \in 0 .. 3 /\ phase' # "parsed" /\ phase' # "threw" /\ phase' \notin Loops
    BY <2>4 DEF Loops
  <2>9. DOMAIN parsed' = {file'[k].name : k \in 1 .. read'}
    BY <2>7
  <2> QED BY <2>3, <2>6, <2>7, <2>8, <2>9 DEF ReadInv
<1>2. CASE ReadMatrix
  <2>0. /\ phase = "parse" /\ read \in 0 .. 3 /\ off = Offset(file, read) /\ off <= size
        /\ off + Header <= size /\ IsFileOf(file, simulated) /\ size \in 0 .. WholeSize(file)
    BY <1>2 DEF ReadMatrix, FileInv, ReadInv
  <2>1. read < 3
    BY <2>0, OffsetGoesOn DEF Header
  <2>2. /\ Offset(file, read + 1) = off + Bytes(file[read + 1]) /\ off \in Nat
        /\ off + Header + file[read + 1].bytes <= WholeSize(file)
        /\ file[read + 1].bytes \in Nat /\ WholeSize(file) \in Nat
    BY <2>0, <2>1, OffsetGoesOn
  <2>3. CASE off + Header + file[read + 1].bytes > size /\ Throws
    <3>1. size < WholeSize(file)
      BY <2>0, <2>2, <2>3 DEF Header
    <3> QED BY <2>0, <2>3, <3>1, FileStays, ReadStays DEF Throws, Loops
  <2>4. CASE /\ Fits(file[read + 1])
             /\ parsed' = With(parsed, file[read + 1].name, file[read + 1])
             /\ off' = off + Bytes(file[read + 1])
             /\ read' = read + 1
             /\ UNCHANGED <<phase, simulated, file, size, turn, pt, series, shown, events>>
    <3> DEFINE n == read + 1
               m == file[n]
    <3>1. off' = Offset(file, n) /\ off' <= size /\ read' = n /\ n \in 1 .. 3
      BY <2>0, <2>1, <2>2, <2>4 DEF Fits
    <3>2. /\ DOMAIN parsed' = {file[k].name : k \in 1 .. read} \cup {m.name}
          /\ parsed'[m.name] = m
          /\ \A x \in DOMAIN parsed : x # m.name => parsed'[x] = parsed[x]
      <4>1. parsed' = With(parsed, m.name, m)
        BY <2>4
      <4>2. DOMAIN parsed = {file[k].name : k \in 1 .. read}
        BY <2>0 DEF ReadInv
      <4>3. /\ DOMAIN parsed' = DOMAIN parsed \cup {m.name}
            /\ parsed'[m.name] = m
            /\ \A x \in DOMAIN parsed : x # m.name => parsed'[x] = parsed[x]
        <5> HIDE DEF m
        <5> QED BY <4>1 DEF With
      <4> QED BY <4>2, <4>3
    <3>3. 1 .. n = (1 .. read) \cup {n}
      BY <2>0
    <3>4. \A k \in 1 .. read : file[k].name # m.name
      BY <2>0, <2>1 DEF IsFileOf
    <3>5. \A k \in 1 .. read : parsed[file[k].name] = file[k] /\ file[k].name \in DOMAIN parsed
      BY <2>0 DEF ReadInv
    <3>6. \A k \in 1 .. n : parsed'[file[k].name] = file[k]
      BY <3>2, <3>3, <3>4, <3>5
    <3>7. DOMAIN parsed' = {file[k].name : k \in 1 .. n}
      BY <3>2, <3>3
    <3>8. UNCHANGED <<file, size, phase>>
      BY <2>4
    <3>9. ReadInv'
      <4> HIDE DEF n
      <4>1. file' = file /\ size' = size /\ phase' = "parse" /\ n \in 0 .. 3
        BY <2>0, <3>1, <3>8
      <4> QED BY <4>1, <3>1, <3>6, <3>7 DEF ReadInv, Loops
    <3> QED BY <2>0, <2>4, <3>9, FileStays
  <2>5. CASE /\ ~Fits(file[read + 1])
             /\ phase' = "parsed"
             /\ UNCHANGED <<parsed, off, read, simulated, file, size, turn, pt, series, shown, events>>
    <3>1. size < WholeSize(file)
      <4>1. Offset(file, read + 1) <= WholeSize(file)
        <5>1. CASE read + 1 = 3
          BY <2>0, <5>1, OffsetGoesOn
        <5>2. CASE read + 1 < 3
          <6>1. Offset(file, read + 1) + Header + file[read + 1 + 1].bytes <= WholeSize(file)
                /\ file[read + 1 + 1].bytes \in Nat /\ Offset(file, read + 1) \in Nat
            BY <2>0, <5>2, OffsetGoesOn
          <6> QED BY <2>2, <6>1 DEF Header
        <5> QED BY <2>0, <2>1, <5>1, <5>2
      <4> QED BY <2>0, <2>2, <2>5, <4>1 DEF Fits
    <3> QED BY <2>0, <2>5, <3>1, FileStays, ReadStays DEF Loops
  <2> QED BY <1>2, <2>3, <2>4, <2>5 DEF ReadMatrix
<1>3. CASE EndOfMatrices
  <2>0. /\ phase = "parse" /\ read \in 0 .. 3 /\ off = Offset(file, read) /\ off <= size
        /\ off + Header > size /\ IsFileOf(file, simulated) /\ size \in 0 .. WholeSize(file)
    BY <1>3 DEF EndOfMatrices, FileInv, ReadInv
  <2>1. read < 3 => size < WholeSize(file)
    BY <2>0, OffsetGoesOn DEF Header
  <2> QED BY <1>3, <2>0, <2>1, FileStays, ReadStays DEF EndOfMatrices, Loops
<1>4. CASE Needs
  <2>0. /\ phase = "parsed" /\ read \in 0 .. 3 /\ IsFileOf(file, simulated)
        /\ DOMAIN parsed = {file[k].name : k \in 1 .. read}
        /\ read < 3 => size < WholeSize(file)
    BY <1>4 DEF Needs, FileInv, ReadInv
  <2>1. read = 3 <=> {"data_2", "name"} \subseteq DOMAIN parsed
    <3>1. file[1].name = "name" /\ file[2].name = "other" /\ file[3].name = "data_2"
      BY <2>0 DEF IsFileOf
    <3>2. ASSUME read = 3 PROVE {"data_2", "name"} \subseteq DOMAIN parsed
      <4>1. 1 \in 1 .. read /\ 3 \in 1 .. read
        BY <3>2
      <4> QED BY <2>0, <3>1, <4>1
    <3>3. ASSUME "data_2" \in DOMAIN parsed PROVE read = 3
      <4>1. PICK k \in 1 .. read : file[k].name = "data_2"
        BY <2>0, <3>3
      <4> QED BY <2>0, <3>1, <4>1
    <3> QED BY <3>2, <3>3
  <2>2. CASE read = 3 /\ phase' = "series" /\ UNCHANGED <<simulated, file, size, read, off, parsed>>
    BY <2>0, <2>2, FileStays, ReadStays
  <2>3. CASE read < 3 /\ Throws
    BY <2>0, <2>3, FileStays, ReadStays DEF Throws, Loops
  <2> QED BY <1>4, <2>0, <2>1, <2>2, <2>3 DEF Needs
<1>5. CASE MakeSeries \/ MakeVar \/ DetectEvents
  <2>1. /\ phase \in {"series", "vars", "events"} /\ phase' \in Loops
        /\ UNCHANGED <<simulated, file, size, read, off, parsed>>
    BY <1>5 DEF MakeSeries, MakeVar, DetectEvents, GoOn, Loops
  <2>2. read = 3 /\ phase' # "parsed" /\ phase' # "threw" /\ phase # "page"
    BY <2>1 DEF ReadInv, Loops
  <2> QED BY <2>1, <2>2, FileStays, ReadStays
<1>6. CASE Plot
  BY <1>6 DEF Plot, FileInv, ReadInv
<1>7. CASE UNCHANGED traceVars
  BY <1>7 DEF traceVars, FileInv, ReadInv, IsFileOf, WholeSize, Offset
<1> QED BY <1>1, <1>2, <1>3, <1>4, <1>5, <1>6, <1>7 DEF TraceNext

LEMMA ReadInitially == TraceInit => FileInv /\ ReadInv
BY DEF TraceInit, FileInv, ReadInv

\* parseMat4: a result file is plotted when it is whole and never when it is cut off.
THEOREM WholeFilesCorrect == TraceSpec => []OnlyWholeFiles
<1>1. FileInv /\ ReadInv => OnlyWholeFiles
  <2> SUFFICES ASSUME FileInv, ReadInv, phase \in {"done", "threw"} PROVE OnlyWholeFiles
    BY DEF OnlyWholeFiles
  <2>1. /\ IsFileOf(file, simulated) /\ size \in 0 .. WholeSize(file)
        /\ off = Offset(file, read) /\ off <= size
        /\ phase = "done" => read = 3
        /\ phase = "threw" => size < WholeSize(file)
    BY DEF FileInv, ReadInv, Loops
  <2>2. Offset(file, 3) = WholeSize(file) /\ WholeSize(file) \in Nat
    BY <2>1, OffsetGoesOn
  <2> QED BY <2>1, <2>2 DEF OnlyWholeFiles
<1> QED BY <1>1, ReadInitially, ReadInductive, PTL DEF TraceSpec

-----------------------------------------------------------------------------
(* The variables: the loop that takes the trajectories out of data_2, and  *)
(* the loop that leaves out those that do not vary.                        *)

LEMMA SameSequence ==
    ASSUME NEW S, NEW s \in Seq(S), NEW n \in Nat, Len(s) = n, NEW f,
           f = [k \in 1 .. n |-> s[k]]
    PROVE  f = s
OBVIOUS

\* What the loops find in a whole file.
LEMMA DataRead ==
    ASSUME FileInv, ReadInv, phase \in Loops
    PROVE  /\ simulated \in Results
           /\ Rows = Len(simulated)
           /\ \A v \in 1 .. Rows :
                 /\ Names[v] = simulated[v].name
                 /\ [s \in 1 .. Steps |-> ValueAt(v, s)] = simulated[v].data
<1>1. /\ simulated \in Results /\ IsFileOf(file, simulated) /\ read = 3
  BY DEF FileInv, ReadInv, Loops
<1>2. parsed["name"] = file[1] /\ parsed["data_2"] = file[3]
  <2>1. 1 \in 1 .. read /\ 3 \in 1 .. read
    BY <1>1
  <2>2. parsed[file[1].name] = file[1] /\ parsed[file[3].name] = file[3]
    BY <2>1 DEF ReadInv, Loops
  <2> QED BY <1>1, <2>2 DEF IsFileOf
<1>3. /\ Rows = Len(simulated) /\ Steps = Len(simulated[1].data)
      /\ \A v \in 1 .. Rows : Names[v] = simulated[v].name
      /\ \A v \in 1 .. Rows, s \in 1 .. Steps : ValueAt(v, s) = simulated[v].data[s]
  <2>1. Rows = Len(simulated) /\ Steps = Len(simulated[1].data)
    BY <1>1, <1>2 DEF IsFileOf, Rows, Steps
  <2>2. \A v \in 1 .. Rows : Names[v] = simulated[v].name
    BY <1>1, <1>2, <2>1 DEF IsFileOf, Names
  <2>3. ASSUME NEW v \in 1 .. Rows, NEW s \in 1 .. Steps
        PROVE  ValueAt(v, s) = simulated[v].data[s]
    <3>1. ValueAt(v, s) = file[3].data[(s - 1) * Rows + v]
      BY <1>2 DEF ValueAt
    <3>2. (s - 1) * Rows + v = (s - 1) * Len(simulated) + v
      BY <2>1
    <3>3. v \in 1 .. Len(simulated) /\ s \in 1 .. Len(simulated[1].data)
      BY <2>1
    <3>4. file[3].data[(s - 1) * Len(simulated) + v] = simulated[v].data[s]
      BY <1>1, <3>3, Zenon DEF IsFileOf
    <3> QED BY <3>1, <3>2, <3>4, Zenon
  <2> QED BY <2>1, <2>2, <2>3
<1>4. ASSUME NEW v \in 1 .. Rows
      PROVE  [s \in 1 .. Steps |-> ValueAt(v, s)] = simulated[v].data
  <2>1. [s \in 1 .. Steps |-> ValueAt(v, s)] = [s \in 1 .. Steps |-> simulated[v].data[s]]
    BY <1>3
  <2>2. simulated[v].data \in Seq(Int) /\ Len(simulated[v].data) = Steps /\ Steps \in Nat
    BY <1>1, <1>3, ResultType
  <2> QED BY <2>1, <2>2, SameSequence
<1> QED BY <1>1, <1>3, <1>4

SeriesUpTo(k) ==
    /\ DOMAIN series = {simulated[v].name : v \in 1 .. k}
    /\ \A v \in 1 .. k : series[simulated[v].name] = simulated[v].data

UpTo(k) == {v \in Varying : v <= k}

ShownUpTo(k) ==
    /\ shown \in Seq([name : Vars, data : Seq(Int)])
    /\ Len(shown) = Cardinality(UpTo(k))
    /\ \A v \in UpTo(k) : PlaceOf(v) \in 1 .. Len(shown) /\ shown[PlaceOf(v)] = simulated[v]
    /\ \A p \in 1 .. Len(shown) : \E v \in UpTo(k) : PlaceOf(v) = p

PlotInv ==
    /\ phase \in {"parse", "parsed", "series"} =>
          shown = <<>> /\ events = <<>> /\ pt = 2
    /\ phase \in {"parse", "parsed"} => series = Nothing /\ turn = 1
    /\ phase = "series" => turn \in 1 .. Len(simulated) /\ SeriesUpTo(turn - 1)
    /\ phase \in {"vars", "events", "done"} => SeriesUpTo(Len(simulated))
    /\ phase = "vars" => /\ turn \in 1 .. Len(simulated) /\ ShownUpTo(turn - 1)
                         /\ events = <<>> /\ pt = 2
    /\ phase \in {"events", "done"} => ShownUpTo(Len(simulated))

\* The places of the variables that vary are counted in their order.
LEMMA Places ==
    ASSUME simulated \in Results
    PROVE  /\ IsFiniteSet(Varying) /\ Varying \subseteq 1 .. Len(simulated)
           /\ UpTo(0) = {} /\ UpTo(Len(simulated)) = Varying
           /\ \A k \in Nat : IsFiniteSet(UpTo(k)) /\ Cardinality(UpTo(k)) \in Nat
           /\ \A v \in Varying : PlaceOf(v) = Cardinality(UpTo(v))
           /\ \A k \in Nat \ {0} :
                 IF k \in Varying
                 THEN /\ UpTo(k) = UpTo(k - 1) \cup {k} /\ k \notin UpTo(k - 1)
                      /\ Cardinality(UpTo(k)) = Cardinality(UpTo(k - 1)) + 1
                 ELSE UpTo(k) = UpTo(k - 1)
<1>1. Len(simulated) \in Nat /\ Varying \subseteq 1 .. Len(simulated)
  BY ResultType DEF Varying
<1>2. IsFiniteSet(Varying)
  <2>1. IsFiniteSet(1 .. Len(simulated)) /\ Varying \in SUBSET (1 .. Len(simulated))
    BY <1>1, FS_Interval
  <2> QED BY <2>1, FS_Subset, Zenon
<1>0. \A v \in Varying : v \in Int /\ 1 <= v /\ v <= Len(simulated)
  BY <1>1
<1>3. \A k \in Nat : IsFiniteSet(UpTo(k)) /\ Cardinality(UpTo(k)) \in Nat
  <2>1. \A k \in Nat : UpTo(k) \in SUBSET Varying
    BY DEF UpTo
  <2> QED BY <1>2, <2>1, FS_Subset, FS_CardinalityType
<1>4. UpTo(0) = {} /\ UpTo(Len(simulated)) = Varying
  <2>1. \A v : v \notin UpTo(0)
    BY <1>0 DEF UpTo
  <2>2. \A v \in Varying : v \in UpTo(Len(simulated))
    BY <1>0 DEF UpTo
  <2>3. UpTo(Len(simulated)) \subseteq Varying
    BY DEF UpTo
  <2> QED BY <2>1, <2>2, <2>3
<1>5. \A v \in Varying : PlaceOf(v) = Cardinality(UpTo(v))
  BY DEF PlaceOf, UpTo
<1>6. ASSUME NEW k \in Nat \ {0}
      PROVE  IF k \in Varying
             THEN /\ UpTo(k) = UpTo(k - 1) \cup {k} /\ k \notin UpTo(k - 1)
                  /\ Cardinality(UpTo(k)) = Cardinality(UpTo(k - 1)) + 1
             ELSE UpTo(k) = UpTo(k - 1)
  <2>1. CASE k \in Varying
    <3>1. UpTo(k) = UpTo(k - 1) \cup {k} /\ k \notin UpTo(k - 1)
      <4>1. \A v \in Varying : v <= k <=> v <= k - 1 \/ v = k
        BY <1>0
      <4>2. k <= k /\ ~(k <= k - 1)
        OBVIOUS
      <4> QED BY <2>1, <4>1, <4>2, Zenon DEF UpTo
    <3>2. k - 1 \in Nat
      OBVIOUS
    <3> QED BY <1>3, <2>1, <3>1, <3>2, FS_AddElement
  <2>2. CASE k \notin Varying
    BY <1>0, <2>2 DEF UpTo
  <2> QED BY <2>1, <2>2
<1> QED BY <1>1, <1>2, <1>3, <1>4, <1>5, <1>6

LEMMA SeriesStays ==
    ASSUME NEW k, SeriesUpTo(k), UNCHANGED <<simulated, series>>
    PROVE  /\ DOMAIN series' = {simulated'[v].name : v \in 1 .. k}
           /\ \A v \in 1 .. k : series'[simulated'[v].name] = simulated'[v].data
BY DEF SeriesUpTo

\* One more trajectory.
LEMMA SeriesGrows ==
    ASSUME simulated \in Results, NEW k \in 1 .. Len(simulated), SeriesUpTo(k - 1),
           series' = With(series, simulated[k].name, simulated[k].data),
           simulated' = simulated
    PROVE  /\ DOMAIN series' = {simulated'[v].name : v \in 1 .. k}
           /\ \A v \in 1 .. k : series'[simulated'[v].name] = simulated'[v].data
<1> DEFINE n == simulated[k].name
<1>1. Len(simulated) \in Nat /\ 1 .. k = (1 .. k - 1) \cup {k}
  BY ResultType
<1>2. \A v \in 1 .. k - 1 : simulated[v].name # n
  <2>1. \A v \in 1 .. k - 1 : v \in 1 .. Len(simulated) /\ v # k
    BY <1>1
  <2> QED BY <2>1, ResultType
<1>3. DOMAIN series = {simulated[v].name : v \in 1 .. k - 1}
      /\ \A v \in 1 .. k - 1 : series[simulated[v].name] = simulated[v].data
  BY DEF SeriesUpTo
<1>4. /\ DOMAIN series' = DOMAIN series \cup {n} /\ series'[n] = simulated[k].data
      /\ \A x \in DOMAIN series : x # n => series'[x] = series[x]
  <2> HIDE DEF n
  <2>1. series' = With(series, n, simulated[k].data)
    BY DEF n
  <2> QED BY <2>1 DEF With
<1>5. \A v \in 1 .. k - 1 : series'[simulated[v].name] = simulated[v].data
  BY <1>2, <1>3, <1>4
<1>6. \A v \in 1 .. k : series'[simulated[v].name] = simulated[v].data
  BY <1>1, <1>4, <1>5
<1>7. DOMAIN series' = {simulated[v].name : v \in 1 .. k}
  BY <1>1, <1>3, <1>4
<1> QED BY <1>6, <1>7

LEMMA ShownStays ==
    ASSUME NEW k, ShownUpTo(k), UNCHANGED <<simulated, shown>>
    PROVE  ShownUpTo(k)'
<1>1. /\ Varying' = Varying /\ UpTo(k)' = UpTo(k)
      /\ \A v : PlaceOf(v)' = PlaceOf(v)
  BY DEF Varying, UpTo, PlaceOf
<1> QED BY <1>1 DEF ShownUpTo

\* One more variable, which is shown if it varies.
LEMMA ShownGrows ==
    ASSUME simulated \in Results, NEW k \in 1 .. Len(simulated), ShownUpTo(k - 1),
           simulated' = simulated,
           shown' = IF k \in Varying THEN Append(shown, simulated[k]) ELSE shown
    PROVE  ShownUpTo(k)'
<1> DEFINE Rec == [name : Vars, data : Seq(Int)]
<1>1. k \in Nat \ {0} /\ k - 1 \in Nat /\ simulated[k] \in Rec
  BY ResultType
<1>2. /\ shown \in Seq(Rec) /\ Len(shown) = Cardinality(UpTo(k - 1))
      /\ \A v \in UpTo(k - 1) : PlaceOf(v) \in 1 .. Len(shown) /\ shown[PlaceOf(v)] = simulated[v]
      /\ \A p \in 1 .. Len(shown) : \E v \in UpTo(k - 1) : PlaceOf(v) = p
  BY DEF ShownUpTo
<1>3. /\ Varying' = Varying /\ UpTo(k)' = UpTo(k)
      /\ \A v : PlaceOf(v)' = PlaceOf(v)
  BY DEF Varying, UpTo, PlaceOf
<1>4. CASE k \notin Varying
  <2>1. UpTo(k) = UpTo(k - 1) /\ shown' = shown
    BY <1>1, <1>4, Places
  <2> QED BY <1>2, <1>3, <2>1 DEF ShownUpTo
<1>5. CASE k \in Varying
  <2>1. /\ UpTo(k) = UpTo(k - 1) \cup {k} /\ PlaceOf(k) = Len(shown) + 1
        /\ Cardinality(UpTo(k)) = Len(shown) + 1
    BY <1>1, <1>2, <1>5, Places
  <2>2. shown' = Append(shown, simulated[k])
    BY <1>5
  <2>3. /\ shown' \in Seq(Rec) /\ Len(shown') = Len(shown) + 1 /\ Len(shown) \in Nat
        /\ \A p \in 1 .. Len(shown) : shown'[p] = shown[p]
        /\ shown'[Len(shown) + 1] = simulated[k]
    <3> HIDE DEF Rec
    <3> QED BY <1>1, <1>2, <2>2
  <2>4. \A v \in UpTo(k) :
           PlaceOf(v) \in 1 .. Len(shown') /\ shown'[PlaceOf(v)] = simulated'[v]
    <3>1. \A v \in UpTo(k - 1) :
             PlaceOf(v) \in 1 .. Len(shown') /\ shown'[PlaceOf(v)] = simulated'[v]
      BY <1>2, <2>3
    <3>2. PlaceOf(k) \in 1 .. Len(shown') /\ shown'[PlaceOf(k)] = simulated'[k]
      BY <2>1, <2>3
    <3> QED BY <2>1, <3>1, <3>2
  <2>5. \A p \in 1 .. Len(shown') : \E v \in UpTo(k) : PlaceOf(v) = p
    <3>1. \A p \in 1 .. Len(shown') : p \in 1 .. Len(shown) \/ p = Len(shown) + 1
      BY <2>3
    <3> QED BY <1>2, <2>1, <3>1
  <2> QED BY <1>3, <2>1, <2>3, <2>4, <2>5 DEF ShownUpTo
<1> QED BY <1>4, <1>5

\* Where the trajectory of a name is looked up, it is that of its variable.
LEMMA SeriesOfName ==
    ASSUME simulated \in Results, SeriesUpTo(Len(simulated)), NEW v \in 1 .. Len(simulated)
    PROVE  /\ series[simulated[v].name] = simulated[v].data
           /\ [name |-> simulated[v].name, data |-> series[simulated[v].name]] = simulated[v]
<1>1. series[simulated[v].name] = simulated[v].data
  BY DEF SeriesUpTo
<1>2. simulated[v] \in [name : Vars, data : Seq(Int)]
  BY ResultType
<1> QED BY <1>1, <1>2

LEMMA PlotInitially == TraceInit => PlotInv
BY DEF TraceInit, PlotInv

LEMMA PlotInductive ==
    ASSUME FileInv, ReadInv, PlotInv, [TraceNext]_traceVars
    PROVE  PlotInv'
<1>1. CASE TraceFromMat
  BY <1>1 DEF TraceFromMat, PlotInv
<1>2. CASE ReadMatrix \/ EndOfMatrices
  BY <1>2 DEF ReadMatrix, EndOfMatrices, Throws, PlotInv
<1>3. CASE Needs
  <2>1. CASE Throws
    BY <2>1 DEF Throws, PlotInv
  <2>2. CASE ~Throws
    <3>1. /\ phase = "parsed" /\ phase' = "series"
          /\ UNCHANGED <<simulated, turn, pt, series, shown, events>>
      BY <1>3, <2>2 DEF Needs
    <3>2. simulated \in Results /\ series = Nothing /\ turn = 1
          /\ shown = <<>> /\ events = <<>> /\ pt = 2
      BY <3>1 DEF FileInv, PlotInv
    <3>3. turn' \in 1 .. Len(simulated') /\ 1 .. turn' - 1 = {}
      BY <3>1, <3>2, ResultType
    <3>4. SeriesUpTo(turn - 1)'
      BY <3>1, <3>2, <3>3, NothingIsEmpty DEF SeriesUpTo
    <3> QED BY <3>1, <3>2, <3>3, <3>4 DEF PlotInv
  <2> QED BY <2>1, <2>2
<1>4. CASE MakeSeries
  <2>0. /\ phase = "series" /\ simulated \in Results /\ Rows = Len(simulated)
        /\ turn \in 1 .. Len(simulated) /\ SeriesUpTo(turn - 1)
        /\ shown = <<>> /\ events = <<>> /\ pt = 2
        /\ UNCHANGED <<simulated, file, size, read, off, parsed, pt, shown, events>>
    BY <1>4, DataRead DEF MakeSeries, PlotInv, Loops
  <2>1. PICK k \in 1 .. Len(simulated) : k = turn
    BY <2>0
  <2>2. series' = With(series, simulated[k].name, simulated[k].data)
    <3>1. /\ Names[turn] = simulated[turn].name
          /\ [s \in 1 .. Steps |-> ValueAt(turn, s)] = simulated[turn].data
      BY <2>0, DataRead DEF Loops
    <3> QED BY <1>4, <2>1, <3>1 DEF MakeSeries
  <2>3. /\ DOMAIN series' = {simulated'[v].name : v \in 1 .. k}
        /\ \A v \in 1 .. k : series'[simulated'[v].name] = simulated'[v].data
    BY <2>0, <2>1, <2>2, SeriesGrows
  <2>4. CASE turn < Rows
    <3>1. turn' = turn + 1 /\ phase' = "series" /\ turn' - 1 = k
      BY <1>4, <2>0, <2>1, <2>4 DEF MakeSeries, GoOn
    <3>2. SeriesUpTo(turn - 1)'
      BY <2>3, <3>1 DEF SeriesUpTo
    <3>3. turn' \in 1 .. Len(simulated')
      BY <2>0, <2>4, <3>1, ResultType
    <3> QED BY <2>0, <3>1, <3>2, <3>3 DEF PlotInv
  <2>5. CASE ~(turn < Rows)
    <3>1. turn' = 1 /\ phase' = "vars" /\ k = Len(simulated) /\ 1 \in 1 .. Len(simulated)
      BY <1>4, <2>0, <2>1, <2>5, ResultType DEF MakeSeries, GoOn
    <3>2. SeriesUpTo(Len(simulated))'
      BY <2>0, <2>3, <3>1 DEF SeriesUpTo
    <3>3. ShownUpTo(turn - 1)'
      <4>1. UpTo(0) = {} /\ UpTo(0)' = UpTo(0)
        BY <2>0, Places DEF UpTo, Varying
      <4>2. shown' = <<>> /\ turn' - 1 = 0 /\ Cardinality({}) = 0
        BY <2>0, <3>1, FS_EmptySet
      <4>3. ShownUpTo(0)'
        <5>1. shown' \in Seq([name : Vars, data : Seq(Int)]) /\ Len(shown') = 0
              /\ 1 .. Len(shown') = {}
          BY <4>2
        <5> QED BY <4>1, <4>2, <5>1 DEF ShownUpTo
      <4> QED BY <4>2, <4>3
    <3> QED BY <2>0, <3>1, <3>2, <3>3 DEF PlotInv
  <2> QED BY <2>4, <2>5
<1>5. CASE MakeVar
  <2>0. /\ phase = "vars" /\ simulated \in Results /\ Rows = Len(simulated)
        /\ turn \in 1 .. Len(simulated) /\ SeriesUpTo(Len(simulated))
        /\ ShownUpTo(turn - 1) /\ events = <<>> /\ pt = 2
        /\ UNCHANGED <<simulated, file, size, read, off, parsed, pt, series, events>>
    BY <1>5, DataRead DEF MakeVar, PlotInv, Loops
  <2>1. PICK k \in 1 .. Len(simulated) : k = turn
    BY <2>0
  <2>2. Names[turn] = simulated[k].name
    BY <2>0, <2>1, DataRead DEF Loops
  <2>3. shown' = IF simulated[k].name = Time \/ Hidden(simulated[k].data) THEN shown
                 ELSE Append(shown, simulated[k])
    BY <1>5, <2>0, <2>2, SeriesOfName DEF MakeVar
  <2>4. k \in Varying <=> ~(simulated[k].name = Time \/ Hidden(simulated[k].data))
    BY <2>0, ResultType DEF Varying, Hidden
  <2>5. ShownUpTo(k)'
    BY <2>0, <2>1, <2>3, <2>4, ShownGrows
  <2>6. SeriesUpTo(Len(simulated))'
    BY <2>0 DEF SeriesUpTo
  <2>7. CASE turn < Rows
    <3>1. turn' = turn + 1 /\ phase' = "vars" /\ turn' - 1 = k
      BY <1>5, <2>0, <2>1, <2>7 DEF MakeVar, GoOn
    <3>2. ShownUpTo(turn - 1)'
      BY <2>5, <3>1
    <3>3. turn' \in 1 .. Len(simulated')
      BY <2>0, <2>7, <3>1, ResultType
    <3> QED BY <2>0, <2>6, <3>1, <3>2, <3>3 DEF PlotInv
  <2>8. CASE ~(turn < Rows)
    <3>1. phase' = "events" /\ k = Len(simulated')
      BY <1>5, <2>0, <2>1, <2>8, ResultType DEF MakeVar, GoOn
    <3>2. ShownUpTo(Len(simulated))'
      BY <2>5, <3>1
    <3> QED BY <2>0, <2>6, <3>1, <3>2 DEF PlotInv
  <2> QED BY <2>7, <2>8
<1>6. CASE DetectEvents
  <2>1. /\ phase = "events" /\ phase' \in {"events", "done"}
        /\ UNCHANGED <<simulated, series, shown>>
    BY <1>6 DEF DetectEvents
  <2>2. SeriesUpTo(Len(simulated))' /\ ShownUpTo(Len(simulated))'
    <3>1. PICK k : k = Len(simulated)
      OBVIOUS
    <3>2. SeriesUpTo(k) /\ ShownUpTo(k)
      BY <2>1, <3>1 DEF PlotInv
    <3>3. ShownUpTo(k)' /\ SeriesUpTo(k)' /\ k = Len(simulated')
      BY <2>1, <3>1, <3>2, ShownStays DEF SeriesUpTo
    <3> QED BY <3>3
  <2> QED BY <2>1, <2>2 DEF PlotInv
<1>7. CASE Plot
  BY <1>7 DEF Plot, PlotInv
<1>8. CASE UNCHANGED traceVars
  <2>1. UNCHANGED <<simulated, phase, turn, pt, series, shown, events>>
    BY <1>8 DEF traceVars
  <2>2. \A k : SeriesUpTo(k)' = SeriesUpTo(k)
    BY <2>1 DEF SeriesUpTo
  <2>3. ASSUME NEW k PROVE ShownUpTo(k) => ShownUpTo(k)'
    BY <2>1, ShownStays
  <2> QED BY <2>1, <2>2, <2>3 DEF PlotInv
<1> QED BY <1>1, <1>2, <1>3, <1>4, <1>5, <1>6, <1>7, <1>8 DEF TraceNext

\* traceFromMat: what is plotted is each variable that varies, under its own name and
\* with its own trajectory, in the order of the file, for any result.
THEOREM PlotsCorrect == TraceSpec => []PlotsItsVariables
<1>1. FileInv /\ PlotInv => PlotsItsVariables
  <2> SUFFICES ASSUME FileInv, PlotInv, phase = "done" PROVE PlotsItsVariables
    BY DEF PlotsItsVariables
  <2>1. simulated \in Results /\ ShownUpTo(Len(simulated))
    BY DEF FileInv, PlotInv
  <2>2. UpTo(Len(simulated)) = Varying
    BY <2>1, Places
  <2> QED BY <2>1, <2>2 DEF PlotsItsVariables, ShownUpTo
<1>2. FileInv /\ ReadInv /\ PlotInv /\ [TraceNext]_traceVars => FileInv' /\ ReadInv' /\ PlotInv'
  BY ReadInductive, PlotInductive
<1> QED BY <1>1, <1>2, ReadInitially, PlotInitially, PTL DEF TraceSpec

-----------------------------------------------------------------------------
(* The events: the marks made so far are of the sign changes gone past, in *)
(* the order of the variables and, for each, of the steps.                 *)

\* Variables that vary have their places in their order, without gaps before the first.
LEMMA PlacesAreOrdered ==
    ASSUME simulated \in Results, NEW u \in Varying, NEW v \in Varying
    PROVE  /\ PlaceOf(v) \in 1 .. Cardinality(Varying) /\ Cardinality(Varying) \in Nat
           /\ u < v <=> PlaceOf(u) < PlaceOf(v)
           /\ u = v <=> PlaceOf(u) = PlaceOf(v)
<1>1. /\ IsFiniteSet(Varying) /\ Cardinality(Varying) \in Nat
      /\ \A w \in Varying : w \in Nat /\ PlaceOf(w) = Cardinality(UpTo(w))
                                       /\ IsFiniteSet(UpTo(w))
  <2>1. \A w \in Varying : w \in Nat
    BY Places, ResultType
  <2> QED BY <2>1, Places, FS_CardinalityType
<1>2. ASSUME NEW w \in Varying
      PROVE  PlaceOf(w) \in 1 .. Cardinality(Varying)
  <2>1. UpTo(w) \in SUBSET Varying /\ w \in UpTo(w)
    <3>1. w <= w
      BY <1>1
    <3> QED BY <3>1, Zenon DEF UpTo
  <2>2. Cardinality(UpTo(w)) <= Cardinality(Varying) /\ Cardinality(UpTo(w)) \in Nat
    BY <1>1, <2>1, FS_Subset, FS_CardinalityType
  <2>3. Cardinality(UpTo(w)) # 0
    BY <1>1, <2>1, FS_EmptySet
  <2> QED BY <1>1, <2>2, <2>3
<1>3. ASSUME NEW w \in Varying, NEW x \in Varying, w < x
      PROVE  PlaceOf(w) < PlaceOf(x)
  <2>1. UpTo(w) \cup {x} \in SUBSET UpTo(x) /\ x \notin UpTo(w)
    <3>1. x <= x /\ ~(x <= w) /\ \A y \in Varying : y <= w => y <= x
      BY <1>1, <1>3
    <3> QED BY <3>1, Zenon DEF UpTo
  <2>2. Cardinality(UpTo(w) \cup {x}) = Cardinality(UpTo(w)) + 1
    BY <1>1, <2>1, FS_AddElement
  <2>3. Cardinality(UpTo(w) \cup {x}) <= Cardinality(UpTo(x))
    BY <1>1, <2>1, FS_Subset
  <2> QED BY <1>1, <1>2, <2>2, <2>3
<1>4. PlaceOf(u) \in Nat /\ PlaceOf(v) \in Nat /\ u \in Nat /\ v \in Nat
  BY <1>1, <1>2
<1>5. (u < v => PlaceOf(u) < PlaceOf(v)) /\ (v < u => PlaceOf(v) < PlaceOf(u))
  BY <1>3
<1> QED BY <1>1, <1>2, <1>4, <1>5

LEMMA SignOfProduct ==
    ASSUME NEW a \in Int, NEW b \in Int
    PROVE  b * a < 0 <=> Crosses(a, b)
BY DEF Crosses

LEMMA SignChangeParts ==
    ASSUME simulated \in Results
    PROVE  /\ IsFiniteSet(SignChanges)
           /\ \A w \in SignChanges :
                 /\ w = <<w[1], w[2]>> /\ w[1] \in Varying /\ simulated[w[1]].name \in Ders
                 /\ w[2] \in 2 .. Len(simulated[w[1]].data)
           /\ \A v \in 1 .. Len(simulated), s \in Int :
                 <<v, s>> \in SignChanges <=>
                    /\ simulated[v].name \in Ders
                    /\ s \in 2 .. Len(simulated[v].data)
                    /\ Crosses(simulated[v].data[s - 1], simulated[v].data[s])
<1> DEFINE V == 1 .. Len(simulated)
           S == 2 .. Len(simulated[1].data)
<1>1. /\ Len(simulated) \in Nat /\ Len(simulated[1].data) \in Nat
      /\ DOMAIN simulated = V
      /\ \A v \in V : simulated[v].data \in Seq(Int) /\ Len(simulated[v].data) = Len(simulated[1].data)
  BY ResultType
<1>2. \A v \in V, s \in S : /\ simulated[v].data[s - 1] \in Int /\ simulated[v].data[s] \in Int
                            /\ s - 1 \in DOMAIN simulated[v].data /\ s \in DOMAIN simulated[v].data
  BY <1>1
<1>3. IsFiniteSet(SignChanges)
  <2>1. IsFiniteSet(V \X S)
    <3>1. IsFiniteSet(V) /\ IsFiniteSet(S)
      <4>1. 1 \in Int /\ 2 \in Int /\ Len(simulated) \in Int /\ Len(simulated[1].data) \in Int
        BY <1>1
      <4> QED BY <4>1, FS_Interval, Zenon
    <3> HIDE DEF V, S
    <3> QED BY <3>1, FS_Product
  <2>2. SignChanges \in SUBSET (V \X S)
    BY <1>1 DEF SignChanges
  <2> QED BY <2>1, <2>2, FS_Subset, Zenon
<1>4. ASSUME NEW v \in V, NEW s \in Int
      PROVE  <<v, s>> \in SignChanges <=>
                /\ simulated[v].name \in Ders
                /\ s \in 2 .. Len(simulated[v].data)
                /\ Crosses(simulated[v].data[s - 1], simulated[v].data[s])
  <2>1. <<v, s>> \in SignChanges <=>
           s \in S /\ simulated[v].name \in Ders /\ simulated[v].data[s] * simulated[v].data[s - 1] < 0
    BY <1>1 DEF SignChanges
  <2>2. S = 2 .. Len(simulated[v].data)
    BY <1>1
  <2>3. s \in S => (simulated[v].data[s] * simulated[v].data[s - 1] < 0
                      <=> Crosses(simulated[v].data[s - 1], simulated[v].data[s]))
    BY <1>2, SignOfProduct
  <2> QED BY <2>1, <2>2, <2>3
<1>5. ASSUME NEW w \in SignChanges
      PROVE  /\ w = <<w[1], w[2]>> /\ w[1] \in Varying /\ simulated[w[1]].name \in Ders
             /\ w[2] \in 2 .. Len(simulated[w[1]].data)
  <2>1. w = <<w[1], w[2]>> /\ w[1] \in V /\ w[2] \in S
    BY <1>1 DEF SignChanges
  <2>2. /\ simulated[w[1]].name \in Ders /\ w[2] \in 2 .. Len(simulated[w[1]].data)
        /\ Crosses(simulated[w[1]].data[w[2] - 1], simulated[w[1]].data[w[2]])
    <3>1. w[2] \in Int /\ <<w[1], w[2]>> \in SignChanges
      BY <2>1
    <3> QED BY <1>4, <2>1, <3>1
  <2>3. simulated[w[1]].name # Time
    BY <2>2, TraceAssumption
  <2>4. simulated[w[1]].data[w[2] - 1] # simulated[w[1]].data[w[2]]
    BY <1>2, <2>1, <2>2 DEF Crosses
  <2> QED BY <1>1, <1>2, <2>1, <2>2, <2>3, <2>4 DEF Varying
<1> QED BY <1>3, <1>4, <1>5

\* The interpolated time is where the line through both values is zero.
LEMMA LineThroughZero ==
    ASSUME NEW t \in Int, NEW u \in Int, NEW a \in Int, NEW b \in Int, Crosses(a, b)
    PROVE  LET c == CrossingTime(t, u, a, b) IN
           /\ c \in [num : Int, den : Nat \ {0}]
           /\ (b - a) * (c.num - t * c.den) + a * (u - t) * c.den = 0
<1> DEFINE p == Magnitude(a)
           q == Magnitude(b)
           c == CrossingTime(t, u, a, b)
<1>1. p \in Nat \ {0} /\ q \in Nat \ {0} /\ ((p = -a /\ q = b) \/ (p = a /\ q = -b))
  BY DEF Crosses, Magnitude
<1> HIDE DEF p, q
<1>2. c.num = t * (p + q) + (u - t) * p /\ c.den = p + q /\ c = [num |-> c.num, den |-> c.den]
  BY DEF CrossingTime, p, q
<1>3. c.num \in Int /\ c.den \in Nat \ {0}
  BY <1>1, <1>2
<1>4. c.num - t * c.den = (u - t) * p
  BY <1>1, <1>2
<1>5. (b - a) * ((u - t) * p) + a * (u - t) * (p + q) = 0
  <2>1. CASE p = -a /\ q = b
    <3>1. a * (u - t) * (b - a) = (b - a) * ((u - t) * a)
      OBVIOUS
    <3>2. (b - a) * ((u - t) * (-a)) = -((b - a) * ((u - t) * a))
      OBVIOUS
    <3>3. p + q = b - a /\ (b - a) * ((u - t) * a) \in Int
      BY <2>1
    <3> QED BY <2>1, <3>1, <3>2, <3>3
  <2>2. CASE p = a /\ q = -b
    <3>1. a * (u - t) * (a - b) = -((b - a) * ((u - t) * a))
      OBVIOUS
    <3>3. p + q = a - b /\ (b - a) * ((u - t) * a) \in Int
      BY <2>2
    <3> QED BY <2>2, <3>1, <3>3
  <2> QED BY <1>1, <2>1, <2>2
<1> HIDE DEF c
<1> QED BY <1>2, <1>3, <1>4, <1>5 DEF c

Marks == [var : Vars, t : [num : Int, den : Nat \ {0}]]

\* The sign changes before step a of the variable with place p.
Seen(p, a) ==
    {w \in SignChanges : PlaceOf(w[1]) < p \/ (PlaceOf(w[1]) = p /\ w[2] < a)}

EventInv ==
    phase \in {"events", "done"} =>
        /\ turn \in 1 .. Len(shown) + 1 /\ pt \in Nat /\ pt >= 2
        /\ events \in Seq(Marks)
        /\ Len(events) = Cardinality(Seen(turn, pt))
        /\ \A w \in Seen(turn, pt) :
              MarkOf(w) \in 1 .. Len(events) /\ IsMarkOf(events[MarkOf(w)], w)
        /\ phase = "done" => turn = Len(shown) + 1

\* The variable that the search is at.
LEMMA AtVariable ==
    ASSUME FileInv, PlotInv, phase = "events", turn \in 1 .. Len(shown)
    PROVE  \E v \in Varying : /\ PlaceOf(v) = turn /\ v \in 1 .. Len(simulated)
                              /\ shown[turn] = simulated[v]
<1>1. simulated \in Results /\ ShownUpTo(Len(simulated)) /\ UpTo(Len(simulated)) = Varying
      /\ Varying \subseteq 1 .. Len(simulated)
  BY Places DEF FileInv, PlotInv
<1> QED BY <1>1 DEF ShownUpTo

LEMMA TimesAreRead ==
    ASSUME simulated \in Results, SeriesUpTo(Len(simulated))
    PROVE  /\ series[Time] \in Seq(Int) /\ Len(series[Time]) = Len(simulated[1].data)
           /\ \A s : TimeAt(s) = series[Time][s]
<1> DEFINE T == CHOOSE v \in DOMAIN simulated : simulated[v].name = Time
<1>1. T \in 1 .. Len(simulated) /\ simulated[T].name = Time
  BY ResultType
<1>2. series[Time] = simulated[T].data
  BY <1>1 DEF SeriesUpTo
<1>3. \A s : TimeAt(s) = simulated[T].data[s]
  BY DEF TimeAt
<1> HIDE DEF T
<1>4. simulated[T].data \in Seq(Int) /\ Len(simulated[T].data) = Len(simulated[1].data)
  BY <1>1, ResultType
<1> QED BY <1>2, <1>3, <1>4

\* The mark made for a sign change is its mark.
LEMMA MarkIsRight ==
    ASSUME simulated \in Results, SeriesUpTo(Len(simulated)), NEW v \in 1 .. Len(simulated),
           <<v, pt>> \in SignChanges
    PROVE  LET d == simulated[v].data
               e == [var |-> simulated[v].name,
                     t |-> CrossingTime(series[Time][pt - 1], series[Time][pt], d[pt - 1], d[pt])]
           IN  e \in Marks /\ IsMarkOf(e, <<v, pt>>)
<1> DEFINE d == simulated[v].data
           c == CrossingTime(series[Time][pt - 1], series[Time][pt], d[pt - 1], d[pt])
           e == [var |-> simulated[v].name, t |-> c]
<1>1. pt \in 2 .. Len(d) /\ d \in Seq(Int) /\ Len(d) = Len(simulated[1].data)
      /\ simulated[v].name \in Vars
  <2>1. <<v, pt>>[1] = v /\ <<v, pt>>[2] = pt
    OBVIOUS
  <2>2. pt \in 2 .. Len(d)
    BY <2>1, SignChangeParts, Zenon
  <2> QED BY <2>2, ResultType
<1>2. Crosses(d[pt - 1], d[pt])
  BY <1>1, SignChangeParts
<1>3. d[pt - 1] \in Int /\ d[pt] \in Int
  BY <1>1
<1>4. series[Time][pt - 1] \in Int /\ series[Time][pt] \in Int
  <2>1. series[Time] \in Seq(Int) /\ Len(series[Time]) = Len(d)
    BY <1>1, TimesAreRead, Zenon
  <2>2. pt - 1 \in 1 .. Len(d) /\ pt \in 1 .. Len(d)
    BY <1>1
  <2> QED BY <2>1, <2>2, SequenceParts
<1>5. /\ c \in [num : Int, den : Nat \ {0}]
      /\ (d[pt] - d[pt - 1]) * (c.num - series[Time][pt - 1] * c.den)
            + d[pt - 1] * (series[Time][pt] - series[Time][pt - 1]) * c.den = 0
  <2> DEFINE t == series[Time][pt - 1]
             u == series[Time][pt]
             x == d[pt - 1]
             y == d[pt]
  <2>1. t \in Int /\ u \in Int /\ x \in Int /\ y \in Int /\ Crosses(x, y)
    BY <1>2, <1>3, <1>4
  <2> HIDE DEF t, u, x, y
  <2> DEFINE k == CrossingTime(t, u, x, y)
  <2>2. k \in [num : Int, den : Nat \ {0}] /\ (y - x) * (k.num - t * k.den) + x * (u - t) * k.den = 0
    BY <2>1, LineThroughZero
  <2> QED BY <2>2 DEF t, u, x, y
<1>6. TimeAt(pt - 1) = series[Time][pt - 1] /\ TimeAt(pt) = series[Time][pt]
  BY TimesAreRead
<1>7. e \in Marks
  BY <1>1, <1>5 DEF Marks
<1>8. IsMarkOf(e, <<v, pt>>)
  <2> HIDE DEF c
  <2>1. <<v, pt>>[1] = v /\ <<v, pt>>[2] = pt /\ e.var = simulated[v].name /\ e.t = c
    OBVIOUS
  <2> QED BY <1>5, <1>6, <2>1, Zenon DEF IsMarkOf
<1> QED BY <1>7, <1>8

LEMMA SeenStays ==
    ASSUME simulated' = simulated
    PROVE  /\ SignChanges' = SignChanges /\ Varying' = Varying
           /\ \A v : PlaceOf(v)' = PlaceOf(v)
           /\ \A w : MarkOf(w)' = MarkOf(w)
           /\ \A e, w : IsMarkOf(e, w)' = IsMarkOf(e, w)
           /\ \A p, a : Seen(p, a)' = Seen(p, a)
<1>1. SignChanges' = SignChanges /\ Varying' = Varying
  BY DEF SignChanges, Varying
<1>2. \A v : PlaceOf(v)' = PlaceOf(v)
  BY <1>1 DEF PlaceOf
<1>3. \A w : MarkOf(w)' = MarkOf(w)
  BY <1>1 DEF MarkOf, NotBehind
<1>4. \A s : TimeAt(s)' = TimeAt(s)
  BY DEF TimeAt
<1>5. \A e, w : IsMarkOf(e, w)' = IsMarkOf(e, w)
  BY <1>4 DEF IsMarkOf
<1>6. \A p, a : Seen(p, a)' = Seen(p, a)
  BY <1>1, <1>2 DEF Seen
<1> QED BY <1>1, <1>2, <1>3, <1>5, <1>6

\* What is seen with one more step of a variable.
LEMMA OneMoreStep ==
    ASSUME simulated \in Results, NEW v \in Varying, NEW a \in Nat
    PROVE  LET p == PlaceOf(v) IN
           IF <<v, a>> \in SignChanges
           THEN /\ Seen(p, a + 1) = Seen(p, a) \cup {<<v, a>>} /\ <<v, a>> \notin Seen(p, a)
                /\ MarkOf(<<v, a>>) = Cardinality(Seen(p, a)) + 1
                /\ Cardinality(Seen(p, a + 1)) = Cardinality(Seen(p, a)) + 1
           ELSE Seen(p, a + 1) = Seen(p, a)
<1> DEFINE p == PlaceOf(v)
           w0 == <<v, a>>
<1>1. \A w \in SignChanges : /\ w = <<w[1], w[2]>> /\ w[1] \in Varying /\ w[2] \in Int
                             /\ PlaceOf(w[1]) \in Int /\ p \in Int
                             /\ w[1] < v <=> PlaceOf(w[1]) < p
                             /\ w[1] = v <=> PlaceOf(w[1]) = p
  BY SignChangeParts, PlacesAreOrdered
<1>2. w0[1] = v /\ w0[2] = a /\ \A w : w = <<w[1], w[2]>> => (w = w0 <=> w[1] = v /\ w[2] = a)
  OBVIOUS
<1>3. \A w \in SignChanges : w \in Seen(p, a + 1) <=> w \in Seen(p, a) \/ w = w0
  <2>1. \A w \in SignChanges : w[2] < a + 1 <=> w[2] < a \/ w[2] = a
    BY <1>1
  <2> HIDE DEF w0
  <2> QED BY <1>1, <1>2, <2>1, Zenon DEF Seen
<1>4. w0 \notin Seen(p, a)
  <2>1. ~(PlaceOf(v) < PlaceOf(v)) /\ ~(a < a)
    BY PlacesAreOrdered
  <2> HIDE DEF w0
  <2> QED BY <1>2, <2>1, Zenon DEF Seen
<1>5. Seen(p, a) \subseteq SignChanges /\ Seen(p, a + 1) \subseteq SignChanges
  BY DEF Seen
<1>6. IsFiniteSet(Seen(p, a))
  BY <1>5, SignChangeParts, FS_Subset
<1>7. CASE w0 \in SignChanges
  <2> HIDE DEF w0
  <2>1. Seen(p, a + 1) = Seen(p, a) \cup {w0}
    BY <1>3, <1>5, <1>7
  <2>2. {x \in SignChanges : NotBehind(x, w0)} = Seen(p, a + 1)
    <3>1. \A x \in SignChanges : NotBehind(x, w0) <=> x \in Seen(p, a + 1)
      <4>1. \A x \in SignChanges : x[2] <= a <=> x[2] < a + 1
        BY <1>1
      <4> QED BY <1>1, <1>2, <4>1, Zenon DEF Seen, NotBehind
    <3> QED BY <1>5, <3>1
  <2>3. Cardinality(Seen(p, a + 1)) = Cardinality(Seen(p, a)) + 1
    BY <1>4, <1>6, <2>1, FS_AddElement
  <2>4. MarkOf(w0) = Cardinality(Seen(p, a + 1))
    BY <2>2 DEF MarkOf
  <2> QED BY <1>4, <1>7, <2>1, <2>3, <2>4 DEF w0
<1>8. CASE w0 \notin SignChanges
  <2> HIDE DEF w0
  <2>1. Seen(p, a + 1) = Seen(p, a)
    BY <1>3, <1>5, <1>8
  <2> QED BY <1>8, <2>1 DEF w0
<1> QED BY <1>7, <1>8

LEMMA EventInitially == TraceInit => EventInv
BY DEF TraceInit, EventInv

LEMMA EventInductive ==
    ASSUME FileInv, ReadInv, PlotInv, EventInv, [TraceNext]_traceVars
    PROVE  EventInv'
<1>1. CASE TraceFromMat \/ ReadMatrix \/ EndOfMatrices \/ Needs \/ Plot
  <2>1. phase' \notin {"events", "done"}
    <3>1. CASE TraceFromMat
      BY <3>1 DEF TraceFromMat
    <3>2. CASE ReadMatrix
      BY <3>2 DEF ReadMatrix, Throws
    <3>3. CASE EndOfMatrices \/ Needs \/ Plot
      BY <3>3 DEF EndOfMatrices, Needs, Throws, Plot
    <3> QED BY <1>1, <3>1, <3>2, <3>3
  <2> QED BY <2>1 DEF EventInv
<1>2. CASE MakeSeries
  BY <1>2 DEF MakeSeries, GoOn, EventInv
<1>3. CASE MakeVar
  <2>1. CASE phase' # "events"
    BY <1>3, <2>1 DEF MakeVar, GoOn, EventInv
  <2>2. CASE phase' = "events"
    <3>1. /\ turn' = 1 /\ pt' = 2 /\ events' = <<>> /\ simulated' = simulated
          /\ simulated \in Results
      BY <1>3, <2>2 DEF MakeVar, GoOn, PlotInv, FileInv
    <3>2. Seen(1, 2) = {}
      <4>1. \A w \in SignChanges : ~(PlaceOf(w[1]) < 1) /\ ~(w[2] < 2)
        BY <3>1, SignChangeParts, PlacesAreOrdered
      <4> QED BY <4>1, Zenon DEF Seen
    <3>3. PlotInv'
      BY PlotInductive
    <3>4. turn' \in 1 .. Len(shown') + 1
      BY <2>2, <3>1, <3>3 DEF PlotInv, ShownUpTo
    <3>5. Seen(turn, pt)' = {}
      BY <3>1, <3>2, SeenStays
    <3>6. events' \in Seq(Marks) /\ Len(events') = 0 /\ Cardinality({}) = 0
      BY <3>1, FS_EmptySet
    <3>7. Len(events') = Cardinality(Seen(turn, pt)') /\ \A w \in Seen(turn, pt)' : FALSE
      BY <3>5, <3>6
    <3>8. pt' \in Nat /\ pt' >= 2 /\ phase' # "done"
      BY <2>2, <3>1
    <3> QED BY <3>4, <3>6, <3>7, <3>8 DEF EventInv
  <2> QED BY <2>1, <2>2
<1>4. CASE DetectEvents
  <2>0. /\ phase = "events" /\ simulated \in Results /\ SeriesUpTo(Len(simulated))
        /\ turn \in 1 .. Len(shown) + 1 /\ pt \in Nat /\ pt >= 2
        /\ events \in Seq(Marks) /\ Len(events) = Cardinality(Seen(turn, pt))
        /\ \A w \in Seen(turn, pt) :
              MarkOf(w) \in 1 .. Len(events) /\ IsMarkOf(events[MarkOf(w)], w)
        /\ UNCHANGED <<simulated, series, shown>>
        /\ Len(shown) \in Nat
    BY <1>4 DEF DetectEvents, PlotInv, FileInv, EventInv, ShownUpTo
  <2>1. CASE /\ turn <= Len(shown) /\ shown[turn].name \in Ders /\ pt <= Len(shown[turn].data)
             /\ MarkAt(shown[turn])
             /\ pt' = pt + 1
             /\ UNCHANGED <<turn, phase>>
    <3>1. PICK v \in Varying : PlaceOf(v) = turn /\ v \in 1 .. Len(simulated)
                               /\ shown[turn] = simulated[v]
      BY <2>0, <2>1, AtVariable
    <3>2. PICK a \in Nat : a = pt
      BY <2>0
    <3> DEFINE d == simulated[v].data
               e == [var |-> simulated[v].name,
                     t |-> CrossingTime(series[Time][pt - 1], series[Time][pt], d[pt - 1], d[pt])]
    <3>3. <<v, a>> \in SignChanges <=> Crosses(d[pt - 1], d[pt])
      <4>1. simulated[v].name \in Ders /\ a \in 2 .. Len(d) /\ a \in Int
        BY <2>0, <2>1, <3>1, <3>2, ResultType
      <4>2. <<v, a>> \in SignChanges <=> Crosses(d[a - 1], d[a])
        BY <2>0, <3>1, <4>1, SignChangeParts, Zenon
      <4> QED BY <3>2, <4>2
    <3>4. events' = IF Crosses(d[pt - 1], d[pt]) THEN Append(events, e) ELSE events
      BY <2>1, <3>1 DEF MarkAt
    <3>5. /\ Seen(turn, pt)' = Seen(turn, a + 1) /\ Seen(turn, pt) = Seen(turn, a)
          /\ turn' = turn /\ phase' = "events" /\ pt' \in Nat /\ pt' >= 2
      BY <2>0, <2>1, <3>2, SeenStays
    <3>6. CASE <<v, a>> \notin SignChanges
      <4>1. Seen(turn, a + 1) = Seen(turn, a) /\ events' = events
        BY <2>0, <3>1, <3>3, <3>4, <3>6, OneMoreStep
      <4> QED BY <2>0, <3>5, <4>1, SeenStays DEF EventInv
    <3>7. CASE <<v, a>> \in SignChanges
      <4> DEFINE w0 == <<v, a>>
      <4>1. /\ Seen(turn, a + 1) = Seen(turn, a) \cup {w0}
            /\ MarkOf(w0) = Len(events) + 1
            /\ Cardinality(Seen(turn, a + 1)) = Len(events) + 1
        BY <2>0, <3>1, <3>5, <3>7, OneMoreStep
      <4>2. e \in Marks /\ IsMarkOf(e, w0)
        BY <2>0, <3>1, <3>2, <3>7, MarkIsRight
      <4>3. events' = Append(events, e)
        BY <3>3, <3>4, <3>7
      <4> HIDE DEF e, w0
      <4>4. /\ events' \in Seq(Marks) /\ Len(events') = Len(events) + 1 /\ Len(events) \in Nat
            /\ events'[Len(events) + 1] = e
            /\ \A k \in 1 .. Len(events) : events'[k] = events[k]
        BY <2>0, <4>2, <4>3
      <4>5. \A w \in Seen(turn, a + 1) :
               MarkOf(w) \in 1 .. Len(events') /\ IsMarkOf(events'[MarkOf(w)], w)
        <5>1. \A w \in Seen(turn, a) :
                 MarkOf(w) \in 1 .. Len(events') /\ events'[MarkOf(w)] = events[MarkOf(w)]
                 /\ IsMarkOf(events[MarkOf(w)], w)
          BY <2>0, <3>5, <4>4
        <5>2. MarkOf(w0) \in 1 .. Len(events') /\ events'[MarkOf(w0)] = e
          BY <4>1, <4>4
        <5> QED BY <4>1, <4>2, <5>1, <5>2, Zenon
      <4>6. \A w \in Seen(turn, pt)' :
               MarkOf(w)' \in 1 .. Len(events') /\ IsMarkOf(events[MarkOf(w)], w)'
        <5>1. \A w : MarkOf(w)' = MarkOf(w)
          BY <2>0, SeenStays
        <5>2. \A w : IsMarkOf(events'[MarkOf(w)], w) => IsMarkOf(events[MarkOf(w)], w)'
          BY <2>0, <5>1, SeenStays DEF IsMarkOf, TimeAt
        <5> QED BY <3>5, <4>5, <5>1, <5>2
      <4> QED BY <2>0, <3>5, <4>1, <4>4, <4>6 DEF EventInv
    <3> QED BY <3>6, <3>7
  <2>2. CASE /\ turn <= Len(shown)
             /\ shown[turn].name \in Ders => pt > Len(shown[turn].data)
             /\ turn' = turn + 1 /\ pt' = 2
             /\ UNCHANGED <<events, phase>>
    <3>1. PICK v \in Varying : PlaceOf(v) = turn /\ v \in 1 .. Len(simulated)
                               /\ shown[turn] = simulated[v]
      BY <2>0, <2>2, AtVariable
    <3>2. ASSUME NEW w \in SignChanges
          PROVE  PlaceOf(w[1]) < turn + 1 \/ (PlaceOf(w[1]) = turn + 1 /\ w[2] < 2)
                 <=> PlaceOf(w[1]) < turn \/ (PlaceOf(w[1]) = turn /\ w[2] < pt)
      <4>1. /\ w[1] \in Varying /\ simulated[w[1]].name \in Ders
            /\ w[2] \in 2 .. Len(simulated[w[1]].data) /\ PlaceOf(w[1]) \in Int
            /\ PlaceOf(w[1]) = turn => w[1] = v
        BY <2>0, <3>1, SignChangeParts, PlacesAreOrdered
      <4>2. Len(simulated[v].data) \in Int
        BY <2>0, <3>1, ResultType
      <4>3. PlaceOf(w[1]) = turn => w[2] < pt
        BY <2>0, <2>2, <3>1, <4>1, <4>2
      <4> QED BY <2>0, <4>1, <4>3
    <3>3. Seen(turn + 1, 2) = Seen(turn, pt)
      BY <3>2, Zenon DEF Seen
    <3>4. Seen(turn, pt)' = Seen(turn, pt)
      BY <2>0, <2>2, <3>3, SeenStays
    <3>5. turn' \in 1 .. Len(shown') + 1 /\ pt' \in Nat /\ pt' >= 2 /\ phase' = "events"
      BY <2>0, <2>2
    <3> QED BY <2>0, <2>2, <3>4, <3>5, SeenStays DEF EventInv
  <2>3. CASE turn > Len(shown) /\ phase' = "done" /\ UNCHANGED <<events, turn, pt>>
    <3>1. Seen(turn, pt)' = Seen(turn, pt) /\ turn = Len(shown) + 1
      BY <2>0, <2>3, SeenStays
    <3> QED BY <2>0, <2>3, <3>1, SeenStays DEF EventInv
  <2> QED BY <1>4, <2>1, <2>2, <2>3 DEF DetectEvents
<1>5. CASE UNCHANGED traceVars
  BY <1>5, SeenStays DEF traceVars, EventInv
<1> QED BY <1>1, <1>2, <1>3, <1>4, <1>5 DEF TraceNext

\* traceFromMat: each step over which a derivative changes its sign has its own mark,
\* in order and where the line through both values is zero, for any trajectories.
THEOREM EventsCorrect == TraceSpec => []EventsAtZeros
<1>1. FileInv /\ PlotInv /\ EventInv => EventsAtZeros
  <2> SUFFICES ASSUME FileInv, PlotInv, EventInv, phase = "done" PROVE EventsAtZeros
    BY DEF EventsAtZeros
  <2>1. /\ simulated \in Results /\ ShownUpTo(Len(simulated)) /\ UpTo(Len(simulated)) = Varying
        /\ turn = Len(shown) + 1
    BY Places DEF FileInv, PlotInv, EventInv
  <2>2. Len(shown) = Cardinality(Varying)
    BY <2>1 DEF ShownUpTo
  <2>3. \A w \in SignChanges : PlaceOf(w[1]) < turn
    BY <2>1, <2>2, SignChangeParts, PlacesAreOrdered
  <2>4. Seen(turn, pt) = SignChanges
    BY <2>3, Zenon DEF Seen
  <2> QED BY <2>4 DEF EventInv, EventsAtZeros
<1>2. FileInv /\ ReadInv /\ PlotInv /\ EventInv /\ [TraceNext]_traceVars
        => FileInv' /\ ReadInv' /\ PlotInv' /\ EventInv'
  BY ReadInductive, PlotInductive, EventInductive
<1> QED BY <1>1, <1>2, ReadInitially, PlotInitially, EventInitially, PTL DEF TraceSpec

-----------------------------------------------------------------------------
(* The types of all of it, which the page leaves as they were at first.    *)

Phases == {"page", "parse", "parsed", "series", "vars", "events", "done", "threw"}

PageInv ==
    /\ phase \in Phases
    /\ turn \in Nat /\ pt \in Nat
    /\ phase = "page" =>
          /\ file = <<>> /\ size = 0 /\ read = 0 /\ off = 0
          /\ parsed = Nothing /\ series = Nothing /\ shown = <<>> /\ events = <<>>
    /\ phase = "threw" => series = Nothing /\ shown = <<>> /\ events = <<>>

LEMMA PageInitially == TraceInit => PageInv
BY DEF TraceInit, PageInv, Phases

LEMMA PageInductive ==
    ASSUME PlotInv, PageInv, [TraceNext]_traceVars PROVE PageInv'
<1> USE DEF PageInv, Phases
<1>1. CASE TraceFromMat
  BY <1>1 DEF TraceFromMat
<1>2. CASE ReadMatrix
  BY <1>2 DEF ReadMatrix, Throws, PlotInv
<1>3. CASE EndOfMatrices
  BY <1>3 DEF EndOfMatrices
<1>4. CASE Needs
  BY <1>4 DEF Needs, Throws, PlotInv
<1>5. CASE MakeSeries
  BY <1>5 DEF MakeSeries, GoOn
<1>6. CASE MakeVar
  BY <1>6 DEF MakeVar, GoOn
<1>7. CASE DetectEvents
  BY <1>7 DEF DetectEvents
<1>8. CASE Plot
  BY <1>8 DEF Plot
<1>9. CASE UNCHANGED traceVars
  BY <1>9 DEF traceVars
<1> QED BY <1>1, <1>2, <1>3, <1>4, <1>5, <1>6, <1>7, <1>8, <1>9 DEF TraceNext

TraceInv == FileInv /\ ReadInv /\ PlotInv /\ EventInv /\ PageInv

LEMMA TraceInitially == TraceInit => TraceInv
BY ReadInitially, PlotInitially, EventInitially, PageInitially DEF TraceInv

LEMMA TraceInductive == TraceInv /\ [TraceNext]_traceVars => TraceInv'
BY ReadInductive, PlotInductive, EventInductive, PageInductive DEF TraceInv

LEMMA TraceInvTyped == TraceInv => TraceTypeOK
<1> SUFFICES ASSUME FileInv, ReadInv, PlotInv, EventInv, PageInv PROVE TraceTypeOK
  BY DEF TraceInv
<1>1. CASE phase = "page"
  BY <1>1, NothingIsEmpty DEF PageInv, Phases, TraceTypeOK
<1>2. CASE phase # "page"
  <2>1. /\ simulated \in Results /\ IsFileOf(file, simulated) /\ size \in 0 .. WholeSize(file)
        /\ read \in 0 .. 3 /\ off = Offset(file, read)
        /\ DOMAIN parsed = {file[k].name : k \in 1 .. read}
    BY <1>2 DEF FileInv, ReadInv
  <2>2. size \in Nat /\ off \in Nat /\ read \in 0 .. Len(file)
    <3>1. WholeSize(file) \in Nat /\ Offset(file, read) \in Nat
      BY <2>1, OffsetGoesOn
    <3>2. Len(file) = 3
      BY <2>1 DEF IsFileOf
    <3> QED BY <2>1, <3>1, <3>2
  <2>3. DOMAIN parsed \subseteq {"name", "other", "data_2"}
    <3>1. \A k \in 1 .. read : k \in {1, 2, 3}
      BY <2>1
    <3> QED BY <2>1, <3>1 DEF IsFileOf
  <2>4. \A v \in 1 .. Len(simulated) :
           simulated[v].data \in Seq(Int) /\ Len(simulated) \in Nat
    BY <2>1, ResultType
  <2>5. ASSUME NEW k \in 0 .. Len(simulated), SeriesUpTo(k)
        PROVE  \A n \in DOMAIN series : series[n] \in Seq(Int)
    <3>1. \A v \in 1 .. k : v \in 1 .. Len(simulated)
      BY <2>1, <2>5, ResultType
    <3> QED BY <2>4, <2>5, <3>1 DEF SeriesUpTo
  <2>6. Len(simulated) \in Nat
    BY <2>1, ResultType
  <2>7. /\ \A n \in DOMAIN series : series[n] \in Seq(Int)
        /\ \A k \in DOMAIN shown : shown[k].name \in DOMAIN series
        /\ \A k \in DOMAIN events : events[k].t.den \in Nat \ {0}
    <3>1. CASE phase \in {"parse", "parsed", "threw"}
      <4>1. series = Nothing /\ shown = <<>> /\ events = <<>>
        BY <3>1 DEF PlotInv, PageInv
      <4> QED BY <4>1, NothingIsEmpty
    <3>2. CASE phase = "series"
      <4>1. shown = <<>> /\ events = <<>> /\ SeriesUpTo(turn - 1) /\ turn - 1 \in 0 .. Len(simulated)
        BY <2>6, <3>2 DEF PlotInv
      <4>2. \A n \in DOMAIN series : series[n] \in Seq(Int)
        BY <2>5, <4>1
      <4> QED BY <4>1, <4>2
    <3>3. CASE phase \in {"vars", "events", "done"}
      <4>1. SeriesUpTo(Len(simulated))
        BY <3>3 DEF PlotInv
      <4>2. \A n \in DOMAIN series : series[n] \in Seq(Int)
        <5>1. Len(simulated) \in 0 .. Len(simulated)
          BY <2>6
        <5> QED BY <2>5, <4>1, <5>1
      <4>3. PICK k : ShownUpTo(k)
        BY <3>3 DEF PlotInv
      <4>4. \A p \in DOMAIN shown : shown[p].name \in DOMAIN series
        <5>1. ASSUME NEW p \in DOMAIN shown
              PROVE  shown[p].name \in DOMAIN series
          <6>1. p \in 1 .. Len(shown)
            BY <4>3, <5>1 DEF ShownUpTo
          <6>2. PICK v \in UpTo(k) : PlaceOf(v) = p
            BY <4>3, <6>1 DEF ShownUpTo
          <6>3. shown[p] = simulated[v]
            BY <4>3, <6>2 DEF ShownUpTo
          <6>4. v \in 1 .. Len(simulated)
            BY <2>1, <6>2, Places DEF UpTo
          <6> QED BY <4>1, <6>3, <6>4 DEF SeriesUpTo
        <5> QED BY <5>1
      <4>5. \A p \in DOMAIN events : events[p].t.den \in Nat \ {0}
        <5>1. CASE phase = "vars"
          BY <5>1 DEF PlotInv
        <5>2. CASE phase \in {"events", "done"}
          <6>1. events \in Seq(Marks)
            BY <5>2 DEF EventInv
          <6>2. \A p \in DOMAIN events : events[p] \in Marks
            BY <6>1
          <6> QED BY <6>2 DEF Marks
        <5> QED BY <3>3, <5>1, <5>2
      <4> QED BY <4>2, <4>4, <4>5
    <3> QED BY <1>2, <3>1, <3>2, <3>3 DEF PageInv, Phases
  <2> QED BY <2>2, <2>3, <2>7 DEF PageInv, Phases, TraceTypeOK
<1> QED BY <1>1, <1>2

\* TraceTypeOK: whatever was simulated, the offsets stay inside the file, what is
\* plotted has its trajectory, and no mark divides by zero.
THEOREM TraceTypeCorrect == TraceSpec => []TraceTypeOK
BY TraceInitially, TraceInductive, TraceInvTyped, PTL DEF TraceSpec
=============================================================================
