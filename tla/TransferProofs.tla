---------------------------- MODULE TransferProofs ----------------------------
(***************************************************************************)
(* That a Finished mms transfer was read to its last byte                  *)
(* (FinishedHasEveryPart).  MmsTransfer only compares two numbers, the     *)
(* length of the stream and how many readings MmsDownload has counted, and *)
(* the count goes on in a later download from what serialization saved.    *)
(* What the invariant says is why that number cannot be too large.         *)
(***************************************************************************)
EXTENDS MmsDownload, FiniteSetTheorems, TLAPS

-----------------------------------------------------------------------------
(* The inductive invariant.                                                *)

StreamPositions == 0..(StreamLength - 1)
Ends      == 0..StreamLength

\* What m_mapEndIni says is still to read.
Left(parts) == {p \in StreamPositions : \E e \in DOMAIN parts : parts[e] <= p /\ p < e}

\* The parts are parts of the stream, and no two of them overlap.
Parted(parts) ==
  /\ DOMAIN parts \subseteq Ends
  /\ \A e \in DOMAIN parts : parts[e] \in 0..e
  /\ \A e, f \in DOMAIN parts : e < f => e <= parts[f]

\* Of the parts and the count that go with them, in memory or in the file: as much
\* as is counted has been tried to read, outside of what is left.
Accounted(parts, size, done) ==
  /\ Parted(parts)
  /\ size \in Nat
  /\ size <= Cardinality({p \in StreamPositions : p \in done /\ p \notin Left(parts)})

Signals ==
  [kind : {"brokenUrl", "finished", "connected", "notConnected", "threadFinished"}, end : Ends]
  \cup [kind : {"reading"}, end : Ends, begin : Int]

\* The readings of the part that ends at `end` which are on their way: one for each
\* number above `from` up to `to`, in that order.
IsReading(s, end) == s.kind = "reading" /\ s.end = end
InTurn(q, end, from, to) ==
  /\ \A i \in 1..Len(q) : IsReading(q[i], end) => q[i].begin \in from + 1..to
  /\ \A i, j \in 1..Len(q) :
       IsReading(q[i], end) /\ IsReading(q[j], end) /\ i < j => q[i].begin < q[j].begin
  /\ \A b \in from + 1..to : \E i \in 1..Len(q) : IsReading(q[i], end) /\ q[i].begin = b

\* How far the GUI thread knows the part to be read, and how far its thread is.
Known(d, end)   == IF end \in DOMAIN d.parts THEN d.parts[end] ELSE end
Reached(d, end) == IF end \in DOMAIN d.thread THEN d.thread[end].begin ELSE Known(d, end)

\* The thread of a part is ahead of what is known by the readings on their way,
\* and it has tried to read everything between.
Ahead(d, q, done) ==
  \A e \in Ends :
    /\ InTurn(q, e, Known(d, e), Reached(d, e))
    /\ Known(d, e) <= Reached(d, e) /\ Reached(d, e) \in 0..e
    /\ \A p \in StreamPositions : Known(d, e) <= p /\ p < Reached(d, e) => p \in done

MmsFields == {"seekable", "status", "may", "amount", "retry", "total", "downloaded", "file", "written"}
DownloadFields ==
  {"state", "amount", "fails", "connections", "size", "parts", "toStart", "list", "quit", "thread"}
ThreadFields == {"state", "begin", "download"}

\* The transfer: a count that is whole is of a stream that was read, and so is a
\* Finished transfer.
TransferOK(m, done) ==
  /\ DOMAIN m = MmsFields
  /\ m.amount \in Int /\ m.total \in {0, StreamLength}
  /\ Accounted(m.file.parts, m.file.size, done)
  /\ m.downloaded = StreamLength => StreamPositions \subseteq done
  /\ m.status = "Finished" => StreamPositions \subseteq done

\* The download and its threads; nothing is on its way before there are threads.
DownloadOK(d, q, done) ==
  /\ DOMAIN d = DownloadFields /\ q \in Seq(Signals)
  /\ d.amount \in Int /\ d.connections \in Int
  /\ \A e \in DOMAIN d.thread : DOMAIN d.thread[e] = ThreadFields
  /\ Accounted(d.parts, d.size, done)
  /\ d.toStart \subseteq DOMAIN d.parts /\ d.toStart \cap DOMAIN d.thread = {}
  /\ DOMAIN d.thread \subseteq Ends
  /\ Ahead(d, q, done)
  /\ d.state \in {"none", "connecting"} => d.parts = <<>> /\ d.thread = <<>> /\ q = <<>>

Attempted == mms.written \cup missed
MmsInv ==
  /\ TransferOK(mms, Attempted) /\ DownloadOK(download, posted, Attempted)

-----------------------------------------------------------------------------
(* Counting positions.                                                     *)

\* More that was tried to read accounts for all that was accounted for.
LEMMA StillAccounted ==
    ASSUME NEW parts, NEW size, NEW done, NEW more, done \subseteq more, Accounted(parts, size, done)
    PROVE  Accounted(parts, size, more)
<1> DEFINE Count(set) == {p \in StreamPositions : p \in set /\ p \notin Left(parts)}
<1>1. IsFiniteSet(StreamPositions)
  BY MmsAssumption, FS_Interval DEF StreamPositions
<1>2. Count(done) \subseteq Count(more) /\ Count(more) \subseteq StreamPositions
  OBVIOUS
<1>3. IsFiniteSet(Count(more))
  BY <1>1, <1>2, FS_Subset
<1>4. IsFiniteSet(Count(done)) /\ Cardinality(Count(done)) <= Cardinality(Count(more))
  BY <1>2, <1>3, FS_Subset
<1>5. Cardinality(Count(done)) \in Nat /\ Cardinality(Count(more)) \in Nat
  BY <1>3, <1>4, FS_CardinalityType
<1> QED
  BY <1>4, <1>5 DEF Accounted

\* A count of the whole length means that everything was tried to read.
LEMMA WholeCountIsWhole ==
    ASSUME NEW parts, NEW done, Accounted(parts, StreamLength, done)
    PROVE  StreamPositions \subseteq done
<1> DEFINE Count == {p \in StreamPositions : p \in done /\ p \notin Left(parts)}
<1>1. IsFiniteSet(StreamPositions) /\ Cardinality(StreamPositions) = StreamLength
  <2>1. 0 \in Int /\ StreamLength - 1 \in Int /\ StreamLength \in Nat /\ ~(0 > StreamLength - 1)
    BY MmsAssumption
  <2>2. /\ IsFiniteSet(0..(StreamLength - 1))
        /\ Cardinality(0..(StreamLength - 1)) = (StreamLength - 1) - 0 + 1
    BY <2>1, FS_Interval
  <2> QED
    BY <2>1, <2>2 DEF StreamPositions
<1>2. Count \subseteq StreamPositions
  OBVIOUS
<1>3. IsFiniteSet(Count) /\ Cardinality(Count) <= Cardinality(StreamPositions)
  BY <1>1, <1>2, FS_Subset
<1>4. Cardinality(Count) >= StreamLength /\ Cardinality(Count) \in Nat
  BY <1>3, FS_CardinalityType, MmsAssumption DEF Accounted
<1>5. Count = StreamPositions
  <2>1. Cardinality(Count) = Cardinality(StreamPositions)
    BY <1>1, <1>3, <1>4, MmsAssumption
  <2> HIDE DEF Count
  <2> QED
    BY <1>1, <1>2, <2>1, FS_Subset
<1> QED
  BY <1>5

\* slotRead moves the begin of one part by one, and counts one more.
LEMMA ReadIsAccounted ==
    ASSUME NEW parts, NEW size, NEW done, Accounted(parts, size, done),
           NEW end \in DOMAIN parts, parts[end] < end, parts[end] \in done,
           NEW more,
           \/ /\ parts[end] + 1 = end
              /\ more = [e \in DOMAIN parts \ {end} |-> parts[e]]
           \/ more = [e \in DOMAIN parts |-> IF e = end THEN parts[end] + 1 ELSE parts[e]]
    PROVE  Accounted(more, size + 1, done)
<1> DEFINE Count(set) == {p \in StreamPositions : p \in done /\ p \notin set}
           at == parts[end]
<1>1. Parted(parts) /\ end \in Ends /\ at \in 0..end /\ at \in StreamPositions
  BY MmsAssumption DEF Accounted, Parted, Ends, StreamPositions
<1>2. Parted(more)
  BY <1>1, MmsAssumption DEF Parted, Ends
<1>3. at \in Left(parts)
  BY <1>1 DEF Left
<1>4. at \notin Left(more)
  <2> SUFFICES ASSUME NEW e \in DOMAIN more, more[e] <= at, at < e PROVE FALSE
    BY DEF Left
  <2>1. e \in DOMAIN parts /\ e # end /\ more[e] = parts[e]
    BY <1>1
  <2>2. e \in Ends /\ parts[e] \in 0..e
    BY <2>1, <1>1 DEF Parted
  <2>3. CASE e < end
    BY <2>1, <2>2, <2>3, <1>1 DEF Parted, Ends
  <2>4. CASE end < e
    BY <2>1, <2>2, <2>4, <1>1 DEF Parted, Ends
  <2> QED
    BY <2>1, <2>2, <2>3, <2>4, <1>1 DEF Ends
<1>5. Left(more) \subseteq Left(parts)
  BY <1>1 DEF Left, Parted, Ends, StreamPositions
<1>6. Count(Left(parts)) \cup {at} \subseteq Count(Left(more))
  BY <1>1, <1>4, <1>5
<1>7. IsFiniteSet(Count(Left(more)))
  <2>1. IsFiniteSet(StreamPositions)
    BY MmsAssumption, FS_Interval DEF StreamPositions
  <2>2. Count(Left(more)) \subseteq StreamPositions
    OBVIOUS
  <2> QED
    BY <2>1, <2>2, FS_Subset
<1>8. IsFiniteSet(Count(Left(parts))) /\ at \notin Count(Left(parts))
  BY <1>3, <1>6, <1>7, FS_Subset
<1>9. Cardinality(Count(Left(parts)) \cup {at}) = Cardinality(Count(Left(parts))) + 1
  <2> HIDE DEF Count, at
  <2> QED
    BY <1>8, FS_AddElement
<1>10. Cardinality(Count(Left(parts)) \cup {at}) <= Cardinality(Count(Left(more)))
  <2> HIDE DEF Count, at
  <2> QED
    BY <1>6, <1>7, FS_Subset
<1>11. Cardinality(Count(Left(parts))) \in Nat /\ Cardinality(Count(Left(more))) \in Nat
  BY <1>7, <1>8, FS_CardinalityType
<1>12. size \in Nat /\ size <= Cardinality(Count(Left(parts)))
  BY DEF Accounted
<1>13. size + 1 \in Nat /\ size + 1 <= Cardinality(Count(Left(more)))
  <2> HIDE DEF Count, at
  <2> QED
    BY <1>9, <1>10, <1>11, <1>12
<1> QED
  BY <1>2, <1>13 DEF Accounted

-----------------------------------------------------------------------------
(* The readings on their way.                                              *)

\* Nothing is on its way: the part is known to be read as far as it is.
LEMMA NothingInTurn ==
    ASSUME NEW end, NEW at \in Int
    PROVE  InTurn(<<>>, end, at, at)
  BY DEF InTurn

\* A thread posts its next reading.
LEMMA NextInTurn ==
    ASSUME NEW q \in Seq(Signals), NEW end, NEW from \in Int, NEW to \in Int, InTurn(q, end, from, to),
           NEW s, IsReading(s, end), s.begin = to + 1, from <= to
    PROVE  InTurn(Append(q, s), end, from, to + 1)
<1> DEFINE r == Append(q, s)
<1>1. Len(r) = Len(q) + 1 /\ r[Len(q) + 1] = s /\ Len(q) \in Nat
  OBVIOUS
<1>2. \A i \in 1..Len(q) : r[i] = q[i]
  OBVIOUS
<1>3. \A i \in 1..Len(r) : i \in 1..Len(q) \/ i = Len(q) + 1
  BY <1>1
<1> HIDE DEF r
<1>4. \A i \in 1..Len(r) : IsReading(r[i], end) => r[i].begin \in from + 1..to + 1
  BY <1>1, <1>2, <1>3 DEF InTurn
<1>5. ASSUME NEW i \in 1..Len(r), NEW j \in 1..Len(r), IsReading(r[i], end), IsReading(r[j], end), i < j
      PROVE  r[i].begin < r[j].begin
  <2>1. i \in 1..Len(q)
    BY <1>1, <1>3, <1>5
  <2>2. CASE j \in 1..Len(q)
    BY <1>2, <1>5, <2>1, <2>2 DEF InTurn
  <2>3. CASE j = Len(q) + 1
    <3>1. q[i].begin \in from + 1..to
      BY <1>2, <1>5, <2>1 DEF InTurn
    <3> QED
      BY <1>1, <1>2, <2>1, <2>3, <3>1
  <2> QED
    BY <1>3, <2>2, <2>3
<1>6. ASSUME NEW b \in from + 1..to + 1 PROVE \E i \in 1..Len(r) : IsReading(r[i], end) /\ r[i].begin = b
  <2>1. CASE b = to + 1
    BY <1>1, <2>1
  <2>2. CASE b \in from + 1..to
    <3>1. PICK i \in 1..Len(q) : IsReading(q[i], end) /\ q[i].begin = b
      BY <2>2 DEF InTurn
    <3> QED
      BY <1>1, <1>2, <3>1
  <2> QED
    BY <2>1, <2>2
<1> QED
  BY <1>4, <1>5, <1>6 DEF InTurn, r

\* Any other signal is posted.
LEMMA OtherPosted ==
    ASSUME NEW q \in Seq(Signals), NEW end, NEW from \in Int, NEW to \in Int, InTurn(q, end, from, to),
           NEW s, ~IsReading(s, end)
    PROVE  InTurn(Append(q, s), end, from, to)
<1> DEFINE r == Append(q, s)
<1>1. Len(r) = Len(q) + 1 /\ r[Len(q) + 1] = s /\ Len(q) \in Nat
  OBVIOUS
<1>2. \A i \in 1..Len(q) : r[i] = q[i] /\ i \in 1..Len(r)
  OBVIOUS
<1>3. \A i \in 1..Len(r) : IsReading(r[i], end) => i \in 1..Len(q)
  BY <1>1
<1> HIDE DEF r
<1>4. InTurn(r, end, from, to)
  BY <1>2, <1>3 DEF InTurn
<1> QED
  BY <1>4 DEF r

\* The first reading to be taken is the next one of its part.
LEMMA FirstInTurn ==
    ASSUME NEW q \in Seq(Signals), q # <<>>, NEW end, NEW from \in Int, NEW to \in Int,
           InTurn(q, end, from, to), IsReading(Head(q), end)
    PROVE  /\ Head(q).begin = from + 1 /\ from < to
           /\ InTurn(Tail(q), end, from + 1, to)
<1> DEFINE r == Tail(q)
<1>1. Len(q) \in Nat /\ Len(q) >= 1 /\ Head(q) = q[1] /\ Len(r) = Len(q) - 1
  OBVIOUS
<1>2. \A i \in 1..Len(r) : r[i] = q[i + 1] /\ i + 1 \in 1..Len(q)
  OBVIOUS
<1>3. q[1].begin \in from + 1..to
  BY <1>1 DEF InTurn
<1>4. q[1].begin = from + 1
  <2>1. PICK i \in 1..Len(q) : IsReading(q[i], end) /\ q[i].begin = from + 1
    BY <1>3 DEF InTurn
  <2>2. CASE i = 1
    BY <2>1, <2>2
  <2>3. CASE 1 < i
    <3>1. q[1].begin < q[i].begin
      BY <1>1, <2>1, <2>3 DEF InTurn
    <3> QED
      BY <1>3, <2>1, <3>1
  <2> QED
    BY <2>2, <2>3
<1> HIDE DEF r
<1>5. ASSUME NEW i \in 1..Len(r), IsReading(r[i], end) PROVE r[i].begin \in (from + 1) + 1..to
  <2>1. q[i + 1].begin \in from + 1..to /\ q[1].begin < q[i + 1].begin
    BY <1>1, <1>2, <1>5, SMTT(30) DEF InTurn
  <2> QED
    BY <1>2, <1>4, <2>1
<1>6. ASSUME NEW i \in 1..Len(r), NEW j \in 1..Len(r), IsReading(r[i], end), IsReading(r[j], end), i < j
      PROVE  r[i].begin < r[j].begin
  BY <1>2, <1>6, SMTT(30) DEF InTurn
<1>7. ASSUME NEW b \in (from + 1) + 1..to PROVE \E i \in 1..Len(r) : IsReading(r[i], end) /\ r[i].begin = b
  <2>1. PICK i \in 1..Len(q) : IsReading(q[i], end) /\ q[i].begin = b
    BY <1>7 DEF InTurn
  <2>2. i # 1 /\ i - 1 \in 1..Len(r) /\ r[i - 1] = q[i]
    BY <1>1, <1>2, <1>4, <2>1
  <2> QED
    BY <2>1, <2>2
<1> QED
  BY <1>1, <1>3, <1>4, <1>5, <1>6, <1>7 DEF InTurn, r

\* Any other signal is taken.
LEMMA OtherTaken ==
    ASSUME NEW q \in Seq(Signals), q # <<>>, NEW end, NEW from \in Int, NEW to \in Int,
           InTurn(q, end, from, to), ~IsReading(Head(q), end)
    PROVE  InTurn(Tail(q), end, from, to)
<1> DEFINE r == Tail(q)
<1>1. Len(q) \in Nat /\ Len(q) >= 1 /\ Head(q) = q[1] /\ Len(r) = Len(q) - 1
  OBVIOUS
<1>2. \A i \in 1..Len(r) : r[i] = q[i + 1] /\ i + 1 \in 1..Len(q)
  OBVIOUS
<1>3. \A i \in 1..Len(q) : IsReading(q[i], end) => i - 1 \in 1..Len(r) /\ r[i - 1] = q[i]
  <2> TAKE i \in 1..Len(q)
  <2> HAVE IsReading(q[i], end)
  <2>1. i # 1 /\ i - 1 \in 1..Len(r)
    BY <1>1
  <2> HIDE DEF r
  <2> QED
    BY <1>2, <2>1
<1> HIDE DEF r
<1>4. \A b \in from + 1..to : \E i \in 1..Len(r) : IsReading(r[i], end) /\ r[i].begin = b
  BY <1>3 DEF InTurn
<1>5. \A i \in 1..Len(r) : IsReading(r[i], end) => r[i].begin \in from + 1..to
  BY <1>2 DEF InTurn
<1>6. ASSUME NEW i \in 1..Len(r), NEW j \in 1..Len(r), IsReading(r[i], end), IsReading(r[j], end), i < j
      PROVE  r[i].begin < r[j].begin
  <2>1. i + 1 \in 1..Len(q) /\ j + 1 \in 1..Len(q) /\ i + 1 < j + 1 /\ r[i] = q[i + 1] /\ r[j] = q[j + 1]
    BY <1>2, <1>6
  <2> QED
    BY <1>6, <2>1 DEF InTurn
<1> QED
  BY <1>4, <1>5, <1>6 DEF InTurn, r

-----------------------------------------------------------------------------
(* The parts of a new download.                                            *)

LEMMA NothingCounted ==
    ASSUME NEW parts, NEW done, Parted(parts)
    PROVE  Accounted(parts, 0, done)
<1> DEFINE Count == {p \in StreamPositions : p \in done /\ p \notin Left(parts)}
<1>1. IsFiniteSet(StreamPositions)
  BY MmsAssumption, FS_Interval DEF StreamPositions
<1>2. Cardinality(Count) \in Nat
  BY <1>1, FS_Subset, FS_CardinalityType
<1> QED
  BY <1>2 DEF Accounted

LEMMA NoPartsParted == Parted(<<>>) /\ DOMAIN <<>> = {}
  BY DEF Parted

\* splitTransfer's parts lie one after the other, also when there are more of them
\* than positions.
LEMMA SplitIsParted ==
    ASSUME NEW amount \in Int
    PROVE  Parted(PartsOf(amount))
<1>1. CASE amount <= 0
  BY <1>1, NoPartsParted DEF PartsOf
<1>2. CASE amount > 0
  <2> DEFINE part == StreamLength \div amount
             end(i) == IF i = amount THEN StreamLength ELSE i * part
             parts == SplitParts(amount)
  <2>1. part \in Nat /\ amount * part <= StreamLength /\ StreamLength \in Nat
    BY <1>2, MmsAssumption
  <2>2. \A k, l, n \in Nat : k <= l => k * n <= l * n
    OBVIOUS
  <2>3. \A i \in 1..amount : i * part \in Nat /\ (i - 1) * part \in Nat
    BY <2>1
  <2>4. \A i \in 1..amount : (i - 1) * part <= i * part /\ i * part <= StreamLength
    <3> TAKE i \in 1..amount
    <3> HIDE DEF part
    <3>1. i \in Nat /\ i - 1 \in Nat /\ amount \in Nat
      BY <1>2
    <3>2. i * part <= amount * part /\ (i - 1) * part <= i * part
      BY <2>1, <2>2, <3>1
    <3> QED
      BY <2>1, <2>3, <3>1, <3>2
  <2>5. \A i \in 1..amount : end(i) \in Ends /\ (i - 1) * part <= end(i)
    <3> TAKE i \in 1..amount
    <3>0. i * part \in Nat /\ (i - 1) * part \in Nat /\ (i - 1) * part <= i * part /\ i * part <= StreamLength
      BY <2>3, <2>4
    <3> HIDE DEF part
    <3> QED
      BY <2>1, <3>0 DEF Ends
  <2>6. \A i, j \in 1..amount : end(i) < end(j) => end(i) <= (j - 1) * part
    <3> TAKE i, j \in 1..amount
    <3> HAVE end(i) < end(j)
    <3> HIDE DEF part
    <3>1. i # amount
      BY <2>1, <2>3, <2>4
    <3>2. i < j
      <4> SUFFICES ASSUME j <= i PROVE FALSE
        OBVIOUS
      <4>1. j # amount
        BY <3>1
      <4>2. j * part <= i * part
        BY <2>1, <2>2
      <4> QED
        BY <2>3, <3>1, <4>1, <4>2
    <3>3. i \in Nat /\ j - 1 \in Nat /\ i <= j - 1
      BY <3>2
    <3>4. i * part <= (j - 1) * part
      BY <2>1, <2>2, <3>3
    <3> QED
      BY <3>1, <3>4
  <2>7. /\ DOMAIN parts = {end(i) : i \in 1..amount}
        /\ \A e \in DOMAIN parts : \E i \in 1..amount : e = end(i) /\ parts[e] = (i - 1) * part
    <3>1. DOMAIN parts = {end(i) : i \in 1..amount}
      BY DEF SplitParts
    <3>2. ASSUME NEW e \in DOMAIN parts
          PROVE  \E i \in 1..amount : e = end(i) /\ parts[e] = (i - 1) * part
      <4>1. PICK i \in 1..amount : e = end(i)
        BY <3>1, <3>2
      <4>2. parts[e] = CHOOSE b \in {(k - 1) * part : k \in 1..amount} :
                         \E k \in 1..amount : e = end(k) /\ b = (k - 1) * part
        BY <3>1, <3>2 DEF SplitParts
      <4>3. \E b \in {(k - 1) * part : k \in 1..amount} : \E k \in 1..amount : e = end(k) /\ b = (k - 1) * part
        BY <4>1
      <4> HIDE DEF part, end, parts
      <4> QED
        BY <4>2, <4>3
    <3> QED
      BY <3>1, <3>2
  <2> HIDE DEF part, end, parts
  <2>8. DOMAIN parts \subseteq Ends /\ \A e \in DOMAIN parts : parts[e] \in 0..e
    <3>1. ASSUME NEW e \in DOMAIN parts PROVE e \in Ends /\ parts[e] \in 0..e
      <4>1. PICK i \in 1..amount : e = end(i) /\ parts[e] = (i - 1) * part
        BY <2>7, <3>1
      <4>2. end(i) \in Ends /\ (i - 1) * part <= end(i) /\ (i - 1) * part \in Nat
        BY <2>3, <2>5
      <4> QED
        BY <2>1, <4>1, <4>2 DEF Ends
    <3> QED
      BY <3>1
  <2>9. \A e, f \in DOMAIN parts : e < f => e <= parts[f]
    <3> TAKE e, f \in DOMAIN parts
    <3>1. PICK i \in 1..amount : e = end(i)
      BY <2>7
    <3>2. PICK j \in 1..amount : f = end(j) /\ parts[f] = (j - 1) * part
      BY <2>7
    <3> QED
      BY <2>6, <3>1, <3>2
  <2> QED
    BY <1>2, <2>8, <2>9 DEF Parted, PartsOf, parts
<1> QED
  BY <1>1, <1>2

-----------------------------------------------------------------------------
(* What the slots of MmsTransfer leave.                                    *)

\* Trying to read more disturbs nothing.
LEMMA MoreTried ==
    ASSUME NEW done, NEW more, done \subseteq more
    PROVE  /\ \A m : TransferOK(m, done) => TransferOK(m, more)
           /\ \A d, q : DownloadOK(d, q, done) => DownloadOK(d, q, more)
<1>1. \A m : TransferOK(m, done) => TransferOK(m, more)
  <2> TAKE m
  <2> HAVE TransferOK(m, done)
  <2>1. Accounted(m.file.parts, m.file.size, more)
    BY StillAccounted DEF TransferOK
  <2> QED
    BY <2>1 DEF TransferOK
<1>2. \A d, q : DownloadOK(d, q, done) => DownloadOK(d, q, more)
  <2> TAKE d, q
  <2> HAVE DownloadOK(d, q, done)
  <2>1. Accounted(d.parts, d.size, more)
    BY StillAccounted DEF DownloadOK
  <2>2. Ahead(d, q, more)
    BY DEF DownloadOK, Ahead
  <2> QED
    BY <2>1, <2>2 DEF DownloadOK
<1> QED
  BY <1>1, <1>2

\* A download that was just created, or is not there.
LEMMA NewIsOK ==
    ASSUME NEW amount \in Int, NEW done
    PROVE  DownloadOK(NewDownload(amount), <<>>, done) /\ DownloadOK(NoDownload, <<>>, done)
<1>1. Accounted(<<>>, 0, done)
  BY NoPartsParted, NothingCounted
<1>2. ASSUME NEW d, d.parts = <<>>, d.thread = <<>> PROVE Ahead(d, <<>>, done)
  <2> SUFFICES ASSUME NEW e \in Ends
               PROVE  /\ InTurn(<<>>, e, Known(d, e), Reached(d, e))
                      /\ Known(d, e) <= Reached(d, e) /\ Reached(d, e) \in 0..e
                      /\ \A p \in StreamPositions : Known(d, e) <= p /\ p < Reached(d, e) => p \in done
    BY DEF Ahead
  <2>1. Known(d, e) = e /\ Reached(d, e) = e /\ e \in Nat
    BY <1>2, NoPartsParted, MmsAssumption DEF Known, Reached, Ends
  <2> QED
    BY <2>1, NothingInTurn DEF StreamPositions
<1>3. \A d : /\ DOMAIN d = DownloadFields /\ d.parts = <<>> /\ d.thread = <<>> /\ d.toStart = {}
             /\ d.size = 0 /\ d.amount \in Int /\ d.connections \in Int
             => DownloadOK(d, <<>>, done)
  <2> TAKE d
  <2> HAVE /\ DOMAIN d = DownloadFields /\ d.parts = <<>> /\ d.thread = <<>> /\ d.toStart = {}
           /\ d.size = 0 /\ d.amount \in Int /\ d.connections \in Int
  <2>1. Ahead(d, <<>>, done)
    BY <1>2
  <2>2. <<>> \in Seq(Signals)
    OBVIOUS
  <2> QED
    BY <1>1, <2>1, <2>2, NoPartsParted DEF DownloadOK
<1> QED
  BY <1>3 DEF NewDownload, NoDownload, DownloadFields

\* What a slot leaves of the transfer and its download.
Intact(r, m, q, done) ==
  TransferOK(r[1], done) /\ DownloadOK(r[2], q, done) /\ r[1].written = m.written

\* start: of a transfer whose download is not there any more.
LEMMA StartIsOK ==
    ASSUME NEW m, NEW d, NEW q, NEW done, TransferOK(m, done), DownloadOK(d, q, done)
    PROVE  Intact(MmsStart(m, d), m, q, done)
<1>1. CASE DownloadExists(d) \/ m.status = "Finished"
  BY <1>1 DEF MmsStart, Intact
<1>2. CASE ~(DownloadExists(d) \/ m.status = "Finished")
  <2>1. q = <<>>
    BY <1>2 DEF DownloadExists, DownloadOK
  <2>2. DownloadOK(NewDownload(m.amount), q, done)
    BY <2>1, NewIsOK DEF TransferOK
  <2>3. TransferOK([m EXCEPT !.status = "Running"], done) /\ [m EXCEPT !.status = "Running"].written = m.written
    BY DEF TransferOK, MmsFields
  <2> QED
    BY <1>2, <2>2, <2>3 DEF MmsStart, Intact
<1> QED
  BY <1>1, <1>2

\* stopTransfer only asks the threads to end.
LEMMA StopThreadsOK ==
    ASSUME NEW d, NEW q, NEW done, DownloadOK(d, q, done)
    PROVE  DownloadOK(StopThreads(d), q, done)
<1> DEFINE n == StopThreads(d)
<1>1. /\ DOMAIN n = DownloadFields
      /\ n.amount = d.amount /\ n.connections = d.connections /\ n.parts = d.parts /\ n.size = d.size
      /\ n.toStart = d.toStart /\ n.state = d.state
      /\ n.thread = [e \in DOMAIN d.thread |->
                       IF e \in d.list THEN [d.thread[e] EXCEPT !.download = FALSE] ELSE d.thread[e]]
  BY DEF StopThreads, DownloadOK, DownloadFields
<1> HIDE DEF n
<1>2. DOMAIN n.thread = DOMAIN d.thread
  BY <1>1
<1>3. \A e \in DOMAIN n.thread : DOMAIN n.thread[e] = ThreadFields /\ n.thread[e].begin = d.thread[e].begin
  BY <1>1 DEF DownloadOK, ThreadFields
<1>4. \A e : Known(n, e) = Known(d, e) /\ Reached(n, e) = Reached(d, e)
  BY <1>1, <1>2, <1>3 DEF Known, Reached
<1>5. Ahead(n, q, done)
  BY <1>4 DEF Ahead, DownloadOK
<1>6. n.state \in {"none", "connecting"} => n.thread = <<>>
  BY <1>1, NoPartsParted DEF DownloadOK
<1>7. DownloadOK(n, q, done)
  BY <1>1, <1>2, <1>3, <1>5, <1>6 DEF DownloadOK
<1> QED
  BY <1>7 DEF n

LEMMA StopIsOK ==
    ASSUME NEW m, NEW d, NEW q, NEW done, TransferOK(m, done), DownloadOK(d, q, done)
    PROVE  Intact(MmsStop(m, d), m, q, done)
<1>1. CASE m.status \in {"Stopped", "Finished"}
  BY <1>1 DEF MmsStop, Intact
<1>2. CASE m.status \notin {"Stopped", "Finished"}
  <2>1. TransferOK([m EXCEPT !.status = "Stopped"], done) /\ [m EXCEPT !.status = "Stopped"].written = m.written
    BY DEF TransferOK, MmsFields
  <2> QED
    BY <1>2, <2>1, StopThreadsOK DEF MmsStop, Intact
<1> QED
  BY <1>1, <1>2

\* updateQueue.
LEMMA UpdatedIsOK ==
    ASSUME NEW m, NEW d, NEW q, NEW done, TransferOK(m, done), DownloadOK(d, q, done)
    PROVE  Intact(MmsUpdated(m, d), m, q, done)
<1>1. CASE m.may /\ m.status = "Stopped"
  BY <1>1, StartIsOK DEF MmsUpdated
<1>2. CASE ~(m.may /\ m.status = "Stopped")
  BY <1>2 DEF MmsUpdated, Intact
<1> QED
  BY <1>1, <1>2

LEMMA StoppedIsOK ==
    ASSUME NEW m, NEW d, NEW q, NEW done, TransferOK(m, done), DownloadOK(d, q, done)
    PROVE  Intact(MmsStopped(m, d), m, q, done)
<1>1. Intact(MmsStop(m, d), m, q, done)
  BY StopIsOK
<1> DEFINE r == MmsStop(m, d)
<1>2. Intact(MmsUpdated(r[1], r[2]), r[1], q, done)
  BY <1>1, UpdatedIsOK DEF Intact
<1> QED
  BY <1>1, <1>2 DEF MmsStopped, Intact

LEMMA ErrorsAreOK ==
    ASSUME NEW m, NEW d, NEW q, NEW done, TransferOK(m, done), DownloadOK(d, q, done)
    PROVE  Intact(ConnectionsErrors(m, d), m, q, done)
<1> DEFINE r == MmsStopped(m, d)
           amount == IF d.connections > 0 THEN d.connections ELSE r[1].amount - 1
           n == [r[1] EXCEPT !.retry = TRUE, !.amount = amount]
<1>1. Intact(r, m, q, done)
  BY StoppedIsOK
<1>2. ConnectionsErrors(m, d) = <<n, r[2]>>
  BY <1>1 DEF ConnectionsErrors, Intact, TransferOK, MmsFields
<1> HIDE DEF r
<1>3. amount \in Int
  BY <1>1 DEF Intact, TransferOK, DownloadOK
<1> HIDE DEF amount
<1>4. TransferOK(n, done) /\ n.written = r[1].written
  BY <1>1, <1>3 DEF Intact, TransferOK, MmsFields
<1> HIDE DEF n
<1> QED
  BY <1>1, <1>2, <1>4 DEF Intact

\* slotResult: the download is deleted, and what is counted as whole is Finished.
LEMMA ResultIsOK ==
    ASSUME NEW m, NEW done, TransferOK(m, done)
    PROVE  Intact(MmsSlotResult(m), m, <<>>, done)
<1> DEFINE whole == m.downloaded = m.total /\ m.total # 0
           ended == IF whole THEN [m EXCEPT !.status = "Finished", !.file = NoFile] ELSE m
           again == [ended EXCEPT !.retry = FALSE, !.file = NoFile]
<1>1. Accounted(NoFile.parts, NoFile.size, done)
  BY NoPartsParted, NothingCounted DEF NoFile
<1>2. TransferOK(ended, done) /\ ended.written = m.written
  BY <1>1 DEF TransferOK, MmsFields
<1> HIDE DEF ended
<1>3. TransferOK(again, done) /\ again.written = ended.written
  BY <1>1, <1>2 DEF TransferOK, MmsFields
<1>4. DownloadOK(NoDownload, <<>>, done)
  BY NewIsOK
<1>5. CASE m.retry
  <2>1. MmsSlotResult(m) = MmsStart(again, NoDownload)
    BY <1>5 DEF MmsSlotResult, ended
  <2> HIDE DEF again
  <2>2. Intact(MmsStart(again, NoDownload), again, <<>>, done)
    BY <1>3, <1>4, StartIsOK
  <2> QED
    BY <1>2, <1>3, <2>1, <2>2 DEF Intact
<1>6. CASE ~m.retry
  <2>1. MmsSlotResult(m) = <<ended, NoDownload>>
    BY <1>6 DEF MmsSlotResult, ended
  <2> QED
    BY <1>2, <1>4, <2>1 DEF Intact
<1> QED
  BY <1>5, <1>6

\* A signal that is taken off the queue and changes no part.
LEMMA TakenOff ==
    ASSUME NEW d, NEW q, NEW done, DownloadOK(d, q, done), q # <<>>, Head(q).kind # "reading"
    PROVE  DownloadOK(d, Tail(q), done)
<1>1. q \in Seq(Signals) /\ Tail(q) \in Seq(Signals) /\ d.state \notin {"none", "connecting"}
  BY DEF DownloadOK
<1>2. Ahead(d, Tail(q), done)
  <2> SUFFICES ASSUME NEW e \in Ends
               PROVE  /\ InTurn(Tail(q), e, Known(d, e), Reached(d, e))
                      /\ Known(d, e) <= Reached(d, e) /\ Reached(d, e) \in 0..e
                      /\ \A p \in StreamPositions : Known(d, e) <= p /\ p < Reached(d, e) => p \in done
    BY DEF Ahead
  <2>1. /\ InTurn(q, e, Known(d, e), Reached(d, e))
        /\ Known(d, e) <= Reached(d, e) /\ Reached(d, e) \in 0..e
        /\ \A p \in StreamPositions : Known(d, e) <= p /\ p < Reached(d, e) => p \in done
    BY DEF DownloadOK, Ahead
  <2>2. Known(d, e) \in Int /\ Reached(d, e) \in Int
    BY <2>1, MmsAssumption DEF Known, DownloadOK, Accounted, Parted, Ends
  <2>3. InTurn(Tail(q), e, Known(d, e), Reached(d, e))
    BY <1>1, <2>1, <2>2, OtherTaken DEF IsReading
  <2> QED
    BY <2>1, <2>3
<1> QED
  BY <1>1, <1>2 DEF DownloadOK

\* slotRead: the part of the first reading begins one later, and nothing else changes.
LEMMA SlotReadOK ==
    ASSUME NEW d, NEW q, NEW done, DownloadOK(d, q, done), q # <<>>, Head(q).kind = "reading"
    PROVE  /\ DownloadOK(SlotRead(d, Head(q)), Tail(q), done)
           /\ Accounted(SlotRead(d, Head(q)).parts, d.size + 1, done)
<1> DEFINE s == Head(q)
           end == s.end
           n == SlotRead(d, s)
<1>1. /\ q \in Seq(Signals) /\ Tail(q) \in Seq(Signals) /\ d.state \notin {"none", "connecting"}
      /\ end \in Ends /\ IsReading(s, end)
  <2>1. q \in Seq(Signals) /\ d.state \notin {"none", "connecting"}
    BY DEF DownloadOK
  <2>2. Tail(q) \in Seq(Signals) /\ s \in Signals
    BY <2>1
  <2> QED
    BY <2>1, <2>2 DEF Signals, IsReading
<1>2. /\ InTurn(q, end, Known(d, end), Reached(d, end))
      /\ Reached(d, end) \in 0..end
      /\ \A p \in StreamPositions : Known(d, end) <= p /\ p < Reached(d, end) => p \in done
  BY <1>1 DEF DownloadOK, Ahead
<1>3. \A e \in Ends : Known(d, e) \in 0..e /\ Reached(d, e) \in Int
  BY MmsAssumption DEF Known, DownloadOK, Ahead, Accounted, Parted, Ends
<1>4. /\ s.begin = Known(d, end) + 1 /\ Known(d, end) < Reached(d, end)
      /\ InTurn(Tail(q), end, Known(d, end) + 1, Reached(d, end))
  <2>1. Known(d, end) \in Int /\ Reached(d, end) \in Int
    BY <1>1, <1>3, MmsAssumption DEF Ends
  <2> QED
    BY <1>1, <1>2, <2>1, FirstInTurn
<1>5. end \in DOMAIN d.parts /\ d.parts[end] < end /\ d.parts[end] \in done /\ Known(d, end) = d.parts[end]
  <2>1. end \in DOMAIN d.parts
    BY <1>1, <1>2, <1>4, MmsAssumption DEF Known, Ends
  <2>2. d.parts[end] < end /\ d.parts[end] \in StreamPositions
    BY <1>1, <1>2, <1>3, <1>4, <2>1, MmsAssumption DEF Known, Ends, StreamPositions
  <2> QED
    BY <1>1, <1>2, <1>3, <1>4, <2>1, <2>2, MmsAssumption DEF Known, Ends
<1>6. /\ DOMAIN n = DownloadFields
      /\ n.amount = d.amount /\ n.connections = d.connections /\ n.size = d.size + 1
      /\ n.toStart = d.toStart /\ n.state = d.state /\ n.thread = d.thread
      /\ n.parts = IF s.begin = end THEN [e \in DOMAIN d.parts \ {end} |-> d.parts[e]]
                   ELSE [e \in DOMAIN d.parts \cup {end} |-> IF e = end THEN s.begin ELSE d.parts[e]]
  BY DEF SlotRead, DownloadOK, DownloadFields
<1>7. \/ /\ d.parts[end] + 1 = end
         /\ n.parts = [e \in DOMAIN d.parts \ {end} |-> d.parts[e]]
      \/ n.parts = [e \in DOMAIN d.parts |-> IF e = end THEN d.parts[end] + 1 ELSE d.parts[e]]
  <2>1. s.begin = d.parts[end] + 1 /\ DOMAIN d.parts \cup {end} = DOMAIN d.parts
    BY <1>4, <1>5
  <2> HIDE DEF n, s, end
  <2> QED
    BY <1>6, <2>1
<1>8. Accounted(n.parts, d.size + 1, done)
  <2>1. Accounted(d.parts, d.size, done)
    BY DEF DownloadOK
  <2> HIDE DEF n, s, end
  <2> QED
    BY <1>5, <1>7, <2>1, ReadIsAccounted
<1> HIDE DEF n, s, end
<1>9. /\ Known(n, end) = Known(d, end) + 1
      /\ \A e \in Ends \ {end} : Known(n, e) = Known(d, e)
      /\ \A e : Reached(n, e) = Reached(d, e) \/ (e = end /\ Reached(d, e) = Known(d, e))
  BY <1>5, <1>6, <1>7 DEF Known, Reached
<1>10. Reached(n, end) = Reached(d, end)
  BY <1>4, <1>5, <1>9, <1>1, <1>3, <1>2, MmsAssumption DEF Ends
<1>11. Ahead(n, Tail(q), done)
  <2> SUFFICES ASSUME NEW e \in Ends
               PROVE  /\ InTurn(Tail(q), e, Known(n, e), Reached(n, e))
                      /\ Known(n, e) <= Reached(n, e) /\ Reached(n, e) \in 0..e
                      /\ \A p \in StreamPositions : Known(n, e) <= p /\ p < Reached(n, e) => p \in done
    BY DEF Ahead
  <2>1. /\ InTurn(q, e, Known(d, e), Reached(d, e))
        /\ Known(d, e) <= Reached(d, e) /\ Reached(d, e) \in 0..e
        /\ \A p \in StreamPositions : Known(d, e) <= p /\ p < Reached(d, e) => p \in done
    BY DEF DownloadOK, Ahead
  <2>2. Known(d, e) \in Int /\ Reached(d, e) \in Int /\ e \in Int
    BY <1>3, <2>1, MmsAssumption DEF Ends
  <2>3. CASE e = end
    BY <1>4, <1>9, <1>10, <2>1, <2>2, <2>3 DEF StreamPositions
  <2>4. CASE e # end
    <3>1. Known(n, e) = Known(d, e) /\ Reached(n, e) = Reached(d, e)
      BY <1>9, <2>4
    <3>2. ~IsReading(s, e)
      BY <1>1, <2>4 DEF IsReading
    <3>3. InTurn(Tail(q), e, Known(d, e), Reached(d, e))
      BY <1>1, <2>1, <2>2, <3>2, OtherTaken DEF s
    <3> QED
      BY <2>1, <3>1, <3>3
  <2> QED
    BY <2>3, <2>4
<1>12. d.toStart \subseteq DOMAIN n.parts
  <2>1. end \notin d.toStart
    <3> SUFFICES ASSUME end \in d.toStart PROVE FALSE
      OBVIOUS
    <3>1. end \notin DOMAIN d.thread
      BY DEF DownloadOK
    <3>2. Reached(d, end) = Known(d, end)
      BY <3>1 DEF Reached
    <3> QED
      BY <1>1, <1>3, <1>4, <3>2, MmsAssumption DEF Ends
  <2>2. d.toStart \subseteq DOMAIN d.parts
    BY DEF DownloadOK
  <2> QED
    BY <1>7, <2>1, <2>2
<1>13. DownloadOK(n, Tail(q), done)
  BY <1>1, <1>6, <1>8, <1>11, <1>12 DEF DownloadOK
<1> QED
  BY <1>8, <1>13 DEF n, s

\* What does not touch the parts and the threads' places in them.
LEMMA OnlyTheRest ==
    ASSUME NEW d, NEW q, NEW done, DownloadOK(d, q, done), NEW n, DOMAIN n = DownloadFields,
           n.amount \in Int, n.connections \in Int, n.parts = d.parts, n.size = d.size,
           n.toStart = d.toStart, n.thread = d.thread, n.state \notin {"none", "connecting"}
    PROVE  DownloadOK(n, q, done)
<1>1. Ahead(n, q, done)
  BY DEF DownloadOK, Ahead, Known, Reached
<1> QED
  BY <1>1 DEF DownloadOK

-----------------------------------------------------------------------------
(* The steps.                                                              *)

\* The GUI thread takes a signal.
LEMMA TakeSignalOK ==
    ASSUME MmsInv, TakeSignal
    PROVE  MmsInv'
<1> DEFINE s == Head(posted)
           done == Attempted
<1>1. posted # <<>> /\ TakeMms(s) /\ missed' = missed
  BY DEF TakeSignal
<1>2. posted \in Seq(Signals) /\ s \in Signals /\ download.state \notin {"none", "connecting"}
  BY <1>1 DEF MmsInv, DownloadOK
<1>3. TransferOK(mms, done) /\ DownloadOK(download, posted, done)
  BY DEF MmsInv
<1>4. CASE s.kind = "finished"
  <2>1. posted' = <<>> /\ mms' = MmsSlotResult(mms)[1] /\ download' = MmsSlotResult(mms)[2]
    BY <1>1, <1>4 DEF TakeSignal, TakeMms
  <2>2. Intact(MmsSlotResult(mms), mms, <<>>, done)
    BY <1>3, ResultIsOK
  <2>3. Attempted' = done
    BY <1>1, <2>1, <2>2 DEF Attempted, Intact
  <2> QED
    BY <2>1, <2>2, <2>3 DEF MmsInv, Intact
<1>5. CASE s.kind = "reading"
  <2>1. /\ posted' = Tail(posted) /\ download' = SlotRead(download, s)
        /\ mms' = [mms EXCEPT !.downloaded = download.size + 1]
    BY <1>1, <1>5 DEF TakeSignal, TakeMms
  <2>2. DownloadOK(download', posted', done) /\ Accounted(download'.parts, download.size + 1, done)
    BY <1>1, <1>3, <1>5, <2>1, SlotReadOK
  <2>3. download.size + 1 = StreamLength => StreamPositions \subseteq done
    BY <2>2, WholeCountIsWhole
  <2>4. TransferOK(mms', done) /\ mms'.written = mms.written
    BY <1>3, <2>1, <2>3 DEF TransferOK, MmsFields
  <2> QED
    BY <1>1, <2>2, <2>4 DEF MmsInv, Attempted
<1>6. CASE s.kind \in {"brokenUrl", "threadFinished", "connected", "notConnected"}
  <2>1. posted' = Tail(posted)
    BY <1>6 DEF TakeSignal
  <2>2. DownloadOK(download, Tail(posted), done)
    BY <1>1, <1>3, <1>6, TakenOff
  <2>3. CASE s.kind = "brokenUrl"
    <3>1. mms' = [mms EXCEPT !.status = "Aborted"] /\ download' = download
      BY <1>1, <2>3 DEF TakeMms
    <3>2. TransferOK(mms', done) /\ mms'.written = mms.written
      BY <1>3, <3>1 DEF TransferOK, MmsFields
    <3> QED
      BY <1>1, <2>1, <2>2, <3>1, <3>2 DEF MmsInv, Attempted
  <2>4. CASE s.kind = "threadFinished"
    <3> DEFINE n == SlotThreadFinish(download, s.end)
    <3>1. download' = n /\ mms' = IF n.list = {} THEN [mms EXCEPT !.file = Serialization(n)] ELSE mms
      BY <1>1, <2>4 DEF TakeMms
    <3>2. /\ DOMAIN n = DownloadFields /\ n.amount = download.amount /\ n.connections = download.connections
          /\ n.parts = download.parts /\ n.size = download.size /\ n.toStart = download.toStart
          /\ n.thread = download.thread /\ n.state = download.state
      BY <1>3 DEF SlotThreadFinish, DownloadOK, DownloadFields
    <3> HIDE DEF n
    <3>3. DownloadOK(n, Tail(posted), done)
      <4>1. n.amount \in Int /\ n.connections \in Int
        BY <1>3, <3>2 DEF DownloadOK
      <4> QED
        BY <1>2, <2>2, <3>2, <4>1, OnlyTheRest
    <3>4. Accounted(Serialization(n).parts, Serialization(n).size, done)
      BY <3>3 DEF Serialization, DownloadOK
    <3>5. TransferOK(mms', done) /\ mms'.written = mms.written
      BY <1>3, <3>1, <3>4 DEF TransferOK, MmsFields
    <3> QED
      BY <1>1, <2>1, <3>1, <3>3, <3>5 DEF MmsInv, Attempted
  <2>5. CASE s.kind \in {"connected", "notConnected"}
    <3> DEFINE n == IsThreadConnected(download, s.kind = "connected")
    <3>1. IF SomeNotConnected(n)
          THEN mms' = ConnectionsErrors(mms, n)[1] /\ download' = ConnectionsErrors(mms, n)[2]
          ELSE download' = n /\ mms' = mms
      BY <1>1, <2>5 DEF TakeMms
    <3>2. /\ DOMAIN n = DownloadFields /\ n.amount \in Int /\ n.connections \in Int
          /\ n.parts = download.parts /\ n.size = download.size /\ n.toStart = download.toStart
          /\ n.thread = download.thread /\ n.state = download.state
      BY <1>3 DEF IsThreadConnected, DownloadOK, DownloadFields
    <3> HIDE DEF n
    <3>3. DownloadOK(n, Tail(posted), done)
      BY <1>2, <2>2, <3>2, OnlyTheRest
    <3>4. Intact(ConnectionsErrors(mms, n), mms, Tail(posted), done)
      BY <1>3, <3>3, ErrorsAreOK
    <3>5. CASE SomeNotConnected(n)
      <4>1. Attempted' = done
        BY <1>1, <3>1, <3>4, <3>5 DEF Attempted, Intact
      <4> QED
        BY <2>1, <3>1, <3>4, <3>5, <4>1 DEF MmsInv, Intact
    <3>6. CASE ~SomeNotConnected(n)
      BY <1>1, <1>3, <2>1, <3>1, <3>3, <3>6 DEF MmsInv, Attempted
    <3> QED
      BY <3>5, <3>6
  <2> QED
    BY <1>6, <2>3, <2>4, <2>5
<1> QED
  BY <1>2, <1>4, <1>5, <1>6 DEF Signals

\* The thread of MmsDownload: run, splitTransfer.
LEMMA ConnectsOK ==
    ASSUME MmsInv, Connects
    PROVE  MmsInv'
<1> DEFINE done == Attempted
           d == download
           amount == IF mms.seekable /\ d.amount # 0 THEN d.amount ELSE 1
           kept == mms.file.kept /\ mms.seekable /\ d.amount # 0
           parts == IF kept THEN mms.file.parts ELSE PartsOf(amount)
           n == SplitTransfer(d, mms.file)
<1>1. /\ TransferOK(mms, done) /\ DownloadOK(d, posted, done)
      /\ d.state = "connecting" /\ posted = <<>> /\ d.thread = <<>>
  BY DEF MmsInv, DownloadOK, Connects
<1>2. /\ DOMAIN n = DownloadFields /\ n.state = "starting" /\ n.amount = amount
      /\ n.connections = d.connections /\ n.parts = parts /\ n.toStart = DOMAIN parts
      /\ n.size = IF kept THEN mms.file.size ELSE 0
      /\ n.thread = <<>>
  BY <1>1 DEF SplitTransfer, DownloadOK, DownloadFields
<1>3. amount \in Int
  BY <1>1 DEF DownloadOK
<1>4. Accounted(n.parts, n.size, done)
  <2>1. CASE kept
    BY <1>1, <1>2, <2>1 DEF TransferOK
  <2>2. CASE ~kept
    <3> HIDE DEF amount, n
    <3>1. Accounted(PartsOf(amount), 0, done)
      BY <1>3, SplitIsParted, NothingCounted
    <3> QED
      BY <1>2, <2>2, <3>1
  <2> QED
    BY <2>1, <2>2
<1> HIDE DEF n, amount, parts, kept
<1>5. Ahead(n, <<>>, done)
  <2> SUFFICES ASSUME NEW e \in Ends
               PROVE  /\ InTurn(<<>>, e, Known(n, e), Reached(n, e))
                      /\ Known(n, e) <= Reached(n, e) /\ Reached(n, e) \in 0..e
                      /\ \A p \in StreamPositions : Known(n, e) <= p /\ p < Reached(n, e) => p \in done
    BY DEF Ahead
  <2>1. Reached(n, e) = Known(n, e) /\ Known(n, e) \in 0..e
    BY <1>2, <1>4, NoPartsParted, MmsAssumption DEF Known, Reached, Ends, Accounted, Parted
  <2>2. e \in Nat
    BY MmsAssumption DEF Ends
  <2> QED
    BY <2>1, <2>2, NothingInTurn DEF StreamPositions
<1>6. DownloadOK(n, <<>>, done)
  <2>1. <<>> \in Seq(Signals) /\ n.connections \in Int
    BY <1>1, <1>2 DEF DownloadOK
  <2> QED
    BY <1>2, <1>3, <1>4, <1>5, <2>1, NoPartsParted DEF DownloadOK
<1>7. TransferOK(mms', done) /\ mms'.written = mms.written
  <2>1. mms' = [mms EXCEPT !.file = IF mms.seekable /\ d.amount # 0 THEN @ ELSE NoFile, !.total = StreamLength]
    BY DEF Connects
  <2>2. Accounted(NoFile.parts, NoFile.size, done)
    BY NoPartsParted, NothingCounted DEF NoFile
  <2> QED
    BY <1>1, <2>1, <2>2 DEF TransferOK, MmsFields
<1> QED
  BY <1>1, <1>6, <1>7 DEF MmsInv, Attempted, Connects, n

\* A signal that is not of a reading is posted.
LEMMA PostedOK ==
    ASSUME NEW d, NEW q, NEW done, DownloadOK(d, q, done), d.state \notin {"none", "connecting"},
           NEW s \in Signals, s.kind # "reading"
    PROVE  DownloadOK(d, Append(q, s), done)
<1>1. q \in Seq(Signals) /\ Append(q, s) \in Seq(Signals)
  BY DEF DownloadOK
<1>2. Ahead(d, Append(q, s), done)
  <2> SUFFICES ASSUME NEW e \in Ends
               PROVE  /\ InTurn(Append(q, s), e, Known(d, e), Reached(d, e))
                      /\ Known(d, e) <= Reached(d, e) /\ Reached(d, e) \in 0..e
                      /\ \A p \in StreamPositions : Known(d, e) <= p /\ p < Reached(d, e) => p \in done
    BY DEF Ahead
  <2>1. /\ InTurn(q, e, Known(d, e), Reached(d, e))
        /\ Known(d, e) <= Reached(d, e) /\ Reached(d, e) \in 0..e
        /\ \A p \in StreamPositions : Known(d, e) <= p /\ p < Reached(d, e) => p \in done
    BY DEF DownloadOK, Ahead
  <2>2. Known(d, e) \in Int /\ Reached(d, e) \in Int
    BY <2>1, MmsAssumption DEF Known, DownloadOK, Accounted, Parted, Ends
  <2>3. ~IsReading(s, e)
    BY DEF IsReading
  <2> QED
    BY <1>1, <2>1, <2>2, <2>3, OtherPosted
<1> QED
  BY <1>1, <1>2 DEF DownloadOK

\* A thread gets another state.
LEMMA ThreadStateOK ==
    ASSUME NEW d, NEW q, NEW done, DownloadOK(d, q, done), d.state \notin {"none", "connecting"},
           NEW e \in DOMAIN d.thread, NEW state
    PROVE  DownloadOK([d EXCEPT !.thread[e].state = state], q, done)
<1> DEFINE n == [d EXCEPT !.thread[e].state = state]
<1>1. /\ DOMAIN n = DownloadFields
      /\ n.amount = d.amount /\ n.connections = d.connections /\ n.parts = d.parts /\ n.size = d.size
      /\ n.toStart = d.toStart /\ n.state = d.state
      /\ n.thread = [d.thread EXCEPT ![e].state = state]
  BY DEF DownloadOK, DownloadFields
<1> HIDE DEF n
<1>2. DOMAIN n.thread = DOMAIN d.thread
  BY <1>1
<1>3. \A f \in DOMAIN n.thread : DOMAIN n.thread[f] = ThreadFields /\ n.thread[f].begin = d.thread[f].begin
  BY <1>1 DEF DownloadOK, ThreadFields
<1>4. \A f : Known(n, f) = Known(d, f) /\ Reached(n, f) = Reached(d, f)
  BY <1>1, <1>2, <1>3 DEF Known, Reached
<1>5. Ahead(n, q, done)
  BY <1>4 DEF Ahead, DownloadOK
<1>6. DownloadOK(n, q, done)
  BY <1>1, <1>2, <1>3, <1>5 DEF DownloadOK
<1> QED
  BY <1>6 DEF n

\* startTransfer: the new thread begins where its part does.
LEMMA StartTransferOK ==
    ASSUME MmsInv, StartTransfer
    PROVE  MmsInv'
<1> DEFINE done == Attempted
           d == download
<1>1. /\ TransferOK(mms, done) /\ DownloadOK(d, posted, done)
      /\ d.state = "starting"
  BY DEF MmsInv, StartTransfer
<1>2. PICK e \in d.toStart :
        d' = [d EXCEPT !.toStart = @ \ {e}, !.list = @ \cup {e},
                       !.thread = [x \in DOMAIN @ \cup {e} |->
                                     IF x = e THEN [state |-> "connecting", begin |-> d.parts[e], download |-> TRUE]
                                     ELSE @[x]]]
  BY DEF StartTransfer
<1>3. /\ DOMAIN d' = DownloadFields
      /\ d'.amount = d.amount /\ d'.connections = d.connections /\ d'.parts = d.parts /\ d'.size = d.size
      /\ d'.toStart = d.toStart \ {e} /\ d'.state = d.state
      /\ d'.thread = [x \in DOMAIN d.thread \cup {e} |->
                        IF x = e THEN [state |-> "connecting", begin |-> d.parts[e], download |-> TRUE]
                        ELSE d.thread[x]]
  BY <1>1, <1>2 DEF DownloadOK, DownloadFields
<1>4. e \in DOMAIN d.parts /\ e \notin DOMAIN d.thread /\ e \in Ends
  BY <1>1 DEF DownloadOK, Accounted, Parted
<1>5. \A f : Known(d, f)' = Known(d, f) /\ Reached(d, f)' = Reached(d, f)
  BY <1>3, <1>4 DEF Known, Reached
<1>6. \A f \in DOMAIN d'.thread : DOMAIN d'.thread[f] = ThreadFields
  BY <1>1, <1>3 DEF DownloadOK, ThreadFields
<1>7. UNCHANGED <<mms, posted, missed>>
  BY DEF StartTransfer
<1>8. Ahead(d, posted, done)'
  <2>1. Attempted' = done
    BY <1>7 DEF Attempted
  <2>2. Ahead(d, posted, done)
    BY <1>1 DEF DownloadOK
  <2> QED
    BY <1>5, <1>7, <2>1, <2>2 DEF Ahead
<1>9. DownloadOK(d, posted, done)'
  <2>1. Attempted' = done
    BY <1>7 DEF Attempted
  <2>2. Accounted(d.parts, d.size, done)'
    BY <1>1, <1>3, <2>1 DEF DownloadOK
  <2>3. posted' \in Seq(Signals) /\ d.amount' \in Int /\ d.connections' \in Int
    BY <1>1, <1>3, <1>7 DEF DownloadOK
  <2>4. d'.toStart \subseteq DOMAIN d'.parts /\ d'.toStart \cap DOMAIN d'.thread = {} /\ DOMAIN d'.thread \subseteq Ends
    BY <1>1, <1>3, <1>4 DEF DownloadOK
  <2>5. d'.state \notin {"none", "connecting"}
    BY <1>1, <1>3
  <2> QED
    BY <1>3, <1>6, <1>8, <2>2, <2>3, <2>4, <2>5 DEF DownloadOK
<1> QED
  BY <1>1, <1>7, <1>9 DEF MmsInv, Attempted

\* MmsThread::run reads: what it tries next counts as tried when it is posted.
LEMMA ThreadReadsOK ==
    ASSUME MmsInv, NEW end \in DOMAIN download.thread, NEW got \in BOOLEAN, ThreadReads(end, got)
    PROVE  MmsInv'
<1> DEFINE done == Attempted
           d == download
           t == d.thread[end]
           at == t.begin
           s == [kind |-> "reading", end |-> end, begin |-> at + 1]
           n == [d EXCEPT !.thread[end].begin = @ + 1]
           q == Append(posted, s)
           more == done \cup {at}
<1>1. TransferOK(mms, done) /\ DownloadOK(d, posted, done)
  BY DEF MmsInv
<1>2. d.state \notin {"none", "connecting"} /\ end \in Ends /\ at < end
  BY <1>1, NoPartsParted DEF DownloadOK, ThreadReads
<1>3. /\ DOMAIN n = DownloadFields
      /\ n.amount = d.amount /\ n.connections = d.connections /\ n.parts = d.parts /\ n.size = d.size
      /\ n.toStart = d.toStart /\ n.state = d.state
      /\ n.thread = [d.thread EXCEPT ![end].begin = @ + 1]
  BY <1>1 DEF DownloadOK, DownloadFields
<1>4. /\ DOMAIN n.thread = DOMAIN d.thread
      /\ \A f \in DOMAIN n.thread : DOMAIN n.thread[f] = ThreadFields
      /\ n.thread[end].begin = at + 1
      /\ \A f \in DOMAIN n.thread \ {end} : n.thread[f] = d.thread[f]
  <2>1. DOMAIN t = ThreadFields /\ n.thread[end] = [t EXCEPT !.begin = @ + 1]
    BY <1>1, <1>3 DEF DownloadOK
  <2>2. [t EXCEPT !.begin = @ + 1].begin = at + 1 /\ DOMAIN [t EXCEPT !.begin = @ + 1] = ThreadFields
    BY <2>1 DEF ThreadFields
  <2> HIDE DEF n, at
  <2> QED
    BY <1>1, <1>3, <2>1, <2>2 DEF DownloadOK
<1>5. Reached(d, end) = at /\ at \in 0..end /\ Known(d, end) <= at
  BY <1>1, <1>2 DEF DownloadOK, Ahead, Reached
<1>6. s \in Signals /\ posted \in Seq(Signals) /\ q \in Seq(Signals)
  <2>1. s \in Signals
    BY <1>2, <1>5, MmsAssumption DEF Signals, Ends
  <2>2. posted \in Seq(Signals)
    BY <1>1 DEF DownloadOK
  <2> HIDE DEF s
  <2> QED
    BY <2>1, <2>2
<1>7. IsReading(s, end) /\ s.begin = at + 1 /\ \A e : e # end => ~IsReading(s, e)
  BY DEF IsReading
<1> HIDE DEF n, t, at, s, q
<1>8. Reached(n, end) = at + 1 /\ (\A e : Known(n, e) = Known(d, e)) /\ \A e : e # end => Reached(n, e) = Reached(d, e)
  BY <1>3, <1>4 DEF Known, Reached
<1>9. Ahead(n, q, more)
  <2> SUFFICES ASSUME NEW e \in Ends
               PROVE  /\ InTurn(q, e, Known(n, e), Reached(n, e))
                      /\ Known(n, e) <= Reached(n, e) /\ Reached(n, e) \in 0..e
                      /\ \A p \in StreamPositions : Known(n, e) <= p /\ p < Reached(n, e) => p \in more
    BY DEF Ahead
  <2>1. /\ InTurn(posted, e, Known(d, e), Reached(d, e))
        /\ Known(d, e) <= Reached(d, e) /\ Reached(d, e) \in 0..e
        /\ \A p \in StreamPositions : Known(d, e) <= p /\ p < Reached(d, e) => p \in done
    BY <1>1 DEF DownloadOK, Ahead
  <2>2. Known(d, e) \in Int /\ Reached(d, e) \in Int /\ e \in Int
    BY <1>1, <2>1, MmsAssumption DEF Known, DownloadOK, Accounted, Parted, Ends
  <2>3. CASE e = end
    <3>1. InTurn(q, e, Known(d, e), at + 1)
      BY <1>5, <1>6, <1>7, <2>1, <2>2, <2>3, NextInTurn DEF q
    <3> QED
      BY <1>2, <1>5, <1>8, <2>1, <2>2, <2>3, <3>1 DEF StreamPositions
  <2>4. CASE e # end
    <3>1. InTurn(q, e, Known(d, e), Reached(d, e))
      BY <1>6, <1>7, <2>1, <2>2, <2>4, OtherPosted DEF q
    <3> QED
      BY <1>8, <2>1, <2>4, <3>1
  <2> QED
    BY <2>3, <2>4
<1>10. DownloadOK(n, q, more)
  <2>1. Accounted(n.parts, n.size, more)
    BY <1>1, <1>3, StillAccounted DEF DownloadOK
  <2> QED
    BY <1>1, <1>2, <1>3, <1>4, <1>6, <1>9, <2>1 DEF DownloadOK
<1>11. Attempted' = more /\ download' = n /\ posted' = q
  <2>1. download' = n /\ posted' = q
    BY DEF ThreadReads, n, q, s, at, t
  <2>2. mms'.written = (IF got THEN mms.written \cup {at} ELSE mms.written)
    BY <1>1 DEF ThreadReads, TransferOK, MmsFields, at, t
  <2>3. missed' = IF got THEN missed ELSE missed \cup {at}
    BY DEF ThreadReads, at, t
  <2> QED
    BY <2>1, <2>2, <2>3 DEF Attempted
<1>12. TransferOK(mms', more)
  <2>1. TransferOK(mms, more)
    BY <1>1, MoreTried
  <2>2. mms' = [mms EXCEPT !.written = IF got THEN @ \cup {at} ELSE @]
    BY DEF ThreadReads, at, t
  <2> QED
    BY <2>1, <2>2 DEF TransferOK, MmsFields
<1> QED
  BY <1>10, <1>11, <1>12 DEF MmsInv

\* A thread connects, fails, or ends.
LEMMA ThreadMovesOK ==
    ASSUME MmsInv, NEW e \in DOMAIN download.thread,
           ThreadConnects(e) \/ ThreadFails(e) \/ ThreadEnds(e)
    PROVE  MmsInv'
<1> DEFINE done == Attempted
<1>1. TransferOK(mms, done) /\ DownloadOK(download, posted, done)
  BY DEF MmsInv
<1>2. download.state \notin {"none", "connecting"} /\ e \in Ends /\ posted \in Seq(Signals)
  BY <1>1, NoPartsParted DEF DownloadOK
<1>3. \A kind \in {"connected", "notConnected", "threadFinished"} : Signal(kind, e) \in Signals
  BY <1>2 DEF Signal, Signals
<1>4. UNCHANGED <<mms, missed>> /\ Attempted' = done
  BY DEF ThreadConnects, ThreadFails, ThreadEnds, Attempted
<1>5. PICK state : download' = [download EXCEPT !.thread[e].state = state] /\ state \in {"reading", "ended"}
  BY DEF ThreadConnects, ThreadFails, ThreadEnds
<1>6. DownloadOK(download', posted, done) /\ download'.state \notin {"none", "connecting"}
  BY <1>1, <1>2, <1>5, ThreadStateOK, ZenonT(30) DEF DownloadOK, DownloadFields
<1>7. ASSUME NEW kind \in {"connected", "notConnected", "threadFinished"}
      PROVE  DownloadOK(download', Append(posted, Signal(kind, e)), done)
  <2>1. Signal(kind, e).kind # "reading"
    BY DEF Signal
  <2> QED
    BY <1>3, <1>6, <2>1, PostedOK
<1>8. DownloadOK(download', posted', done)
  <2>1. CASE ThreadConnects(e)
    BY <1>7, <2>1 DEF ThreadConnects
  <2>2. CASE ThreadEnds(e)
    BY <1>7, <2>2 DEF ThreadEnds
  <2>3. CASE ThreadFails(e)
    <3> DEFINE a == Signal("notConnected", e)
               b == Signal("threadFinished", e)
    <3>1. posted' = Append(Append(posted, a), b)
      <4>1. posted' = posted \o <<a, b>>
        BY <2>3 DEF ThreadFails
      <4> HIDE DEF a, b
      <4> QED
        BY <1>2, <1>3, <4>1 DEF a, b
    <3>2. DownloadOK(download', Append(posted, a), done)
      BY <1>7
    <3>3. b \in Signals /\ b.kind # "reading"
      BY <1>3 DEF Signal
    <3> HIDE DEF a, b
    <3> QED
      BY <1>6, <3>1, <3>2, <3>3, PostedOK
  <2> QED
    BY <2>1, <2>2, <2>3
<1> QED
  BY <1>1, <1>4, <1>8 DEF MmsInv

\* The thread of MmsDownload ends, or waits for the others.
LEMMA RunMovesOK ==
    ASSUME MmsInv, MmsBrokenUrl \/ Exec
    PROVE  MmsInv'
<1> DEFINE done == Attempted
           d == download
<1>1. TransferOK(mms, done) /\ DownloadOK(d, posted, done) /\ posted \in Seq(Signals)
  BY DEF MmsInv, DownloadOK
<1>2. UNCHANGED <<mms, missed>> /\ Attempted' = done
  BY DEF MmsBrokenUrl, Exec, Attempted
<1>3. \A kind \in {"brokenUrl", "finished"} : Signal(kind, 0) \in Signals /\ Signal(kind, 0).kind # "reading"
  BY MmsAssumption DEF Signal, Signals, Ends
<1>4. ASSUME NEW state \in {"finished", "executing"}, d' = [d EXCEPT !.state = state]
      PROVE  DownloadOK(d', posted, done) /\ d'.state \notin {"none", "connecting"}
  <2>1. /\ DOMAIN d' = DownloadFields /\ d'.amount = d.amount /\ d'.connections = d.connections
        /\ d'.parts = d.parts /\ d'.size = d.size /\ d'.toStart = d.toStart /\ d'.thread = d.thread
        /\ d'.state = state
    BY <1>1, <1>4 DEF DownloadOK, DownloadFields
  <2> QED
    BY <1>1, <2>1, OnlyTheRest DEF DownloadOK
<1>5. DownloadOK(d', posted', done)
  <2>1. CASE MmsBrokenUrl
    <3> DEFINE a == Signal("brokenUrl", 0)
               b == Signal("finished", 0)
    <3>1. d' = [d EXCEPT !.state = "finished"] /\ posted' = posted \o <<a, b>>
      BY <2>1 DEF MmsBrokenUrl
    <3>2. a \in Signals /\ a.kind # "reading" /\ b \in Signals /\ b.kind # "reading"
      BY <1>3
    <3> HIDE DEF a, b
    <3>3. posted' = Append(Append(posted, a), b)
      BY <1>1, <3>1, <3>2
    <3>4. DownloadOK(d', Append(posted, a), done) /\ d'.state \notin {"none", "connecting"}
      BY <1>4, <3>1, <3>2, PostedOK
    <3> QED
      BY <3>2, <3>3, <3>4, PostedOK
  <2>2. CASE Exec
    <3>1. CASE d.quit
      <4> DEFINE b == Signal("finished", 0)
      <4>1. d' = [d EXCEPT !.state = "finished"] /\ posted' = Append(posted, b)
        BY <2>2, <3>1 DEF Exec
      <4>2. b \in Signals /\ b.kind # "reading"
        BY <1>3
      <4>3. DownloadOK(d', posted, done) /\ d'.state \notin {"none", "connecting"}
        BY <1>4, <4>1
      <4> HIDE DEF b
      <4> QED
        BY <4>1, <4>2, <4>3, PostedOK
    <3>2. CASE ~d.quit
      BY <1>4, <2>2, <3>2 DEF Exec
    <3> QED
      BY <3>1, <3>2
  <2> QED
    BY <2>1, <2>2
<1> QED
  BY <1>1, <1>2, <1>5 DEF MmsInv

\* The user, the scheduler and a timer start and stop.
LEMMA OrdersOK ==
    ASSUME MmsInv, UserStopsMms \/ UserStartsMms \/ MmsStallTimeout \/ MmsQueueUpdated
    PROVE  MmsInv'
<1> DEFINE done == Attempted
<1>1. TransferOK(mms, done) /\ DownloadOK(download, posted, done)
  BY DEF MmsInv
<1>2. posted' = posted /\ missed' = missed
  BY DEF UserStopsMms, UserStartsMms, MmsStallTimeout, MmsQueueUpdated
<1>3. ASSUME NEW may
      PROVE  TransferOK([mms EXCEPT !.may = may], done) /\ [mms EXCEPT !.may = may].written = mms.written
  BY <1>1 DEF TransferOK, MmsFields
<1>4. \E r : mms' = r[1] /\ download' = r[2] /\ Intact(r, mms, posted, done)
  <2>1. CASE UserStopsMms
    <3> DEFINE m == [mms EXCEPT !.may = FALSE]
               r == IF m.status = "Running" THEN MmsStop(m, download) ELSE <<m, download>>
    <3>1. mms' = r[1] /\ download' = r[2]
      BY <2>1 DEF UserStopsMms
    <3>2. TransferOK(m, done) /\ m.written = mms.written
      BY <1>3
    <3> HIDE DEF m
    <3>3. Intact(r, m, posted, done)
      BY <1>1, <3>2, StopIsOK DEF Intact
    <3> HIDE DEF r
    <3>4. Intact(r, mms, posted, done)
      BY <3>2, <3>3 DEF Intact
    <3> QED
      BY <3>1, <3>4
  <2>2. CASE UserStartsMms
    <3> DEFINE m == [mms EXCEPT !.may = TRUE]
               r == MmsUpdated(m, download)
    <3>1. mms' = r[1] /\ download' = r[2]
      BY <2>2 DEF UserStartsMms
    <3>2. TransferOK(m, done) /\ m.written = mms.written
      BY <1>3
    <3> HIDE DEF m
    <3>3. Intact(r, m, posted, done)
      BY <1>1, <3>2, UpdatedIsOK
    <3> HIDE DEF r
    <3>4. Intact(r, mms, posted, done)
      BY <3>2, <3>3 DEF Intact
    <3> QED
      BY <3>1, <3>4
  <2>3. CASE MmsStallTimeout
    <3> DEFINE r == MmsStopped(mms, download)
    <3>1. mms' = r[1] /\ download' = r[2]
      BY <2>3 DEF MmsStallTimeout
    <3>2. Intact(r, mms, posted, done)
      BY <1>1, StoppedIsOK
    <3> HIDE DEF r
    <3> QED
      BY <3>1, <3>2
  <2>4. CASE MmsQueueUpdated
    <3> DEFINE r == MmsUpdated(mms, download)
    <3>1. mms' = r[1] /\ download' = r[2]
      BY <2>4 DEF MmsQueueUpdated
    <3>2. Intact(r, mms, posted, done)
      BY <1>1, UpdatedIsOK
    <3> HIDE DEF r
    <3> QED
      BY <3>1, <3>2
  <2> QED
    BY <2>1, <2>2, <2>3, <2>4
<1> QED
  BY <1>2, <1>4 DEF MmsInv, Intact, Attempted

\* The program ends and begins again, with what the file remembers.
LEMMA MmsRestartOK ==
    ASSUME MmsInv, MmsRestart
    PROVE  MmsInv'
<1> DEFINE done == Attempted
           m == [mms EXCEPT !.status = IF @ = "Finished" THEN @ ELSE "Stopped", !.retry = FALSE,
                            !.amount = ThreadsSetting]
           r == MmsUpdated(m, NoDownload)
<1>1. TransferOK(mms, done)
  BY DEF MmsInv
<1>2. TransferOK(m, done) /\ m.written = mms.written
  BY <1>1, MmsAssumption DEF TransferOK, MmsFields
<1>3. posted' = <<>> /\ missed' = missed /\ mms' = r[1] /\ download' = r[2]
  BY DEF MmsRestart
<1> HIDE DEF m
<1>4. DownloadOK(NoDownload, <<>>, done)
  BY NewIsOK
<1>5. Intact(r, m, <<>>, done)
  BY <1>2, <1>4, UpdatedIsOK
<1> HIDE DEF r
<1>6. Attempted' = done
  BY <1>2, <1>3, <1>5 DEF Attempted, Intact
<1> QED
  BY <1>3, <1>5, <1>6 DEF MmsInv, Intact

LEMMA MmsInitOK ==
    ASSUME MmsInit
    PROVE  MmsInv
<1>1. PICK seekable \in BOOLEAN : mms = NewMms(seekable, TRUE)
  BY DEF MmsInit
<1>2. Accounted(NoFile.parts, NoFile.size, Attempted)
  BY NoPartsParted, NothingCounted DEF NoFile
<1>3. TransferOK(mms, Attempted)
  BY <1>1, <1>2, MmsAssumption DEF NewMms, TransferOK, MmsFields
<1>4. DownloadOK(download, posted, Attempted)
  BY NewIsOK DEF MmsInit
<1> QED
  BY <1>3, <1>4 DEF MmsInv

LEMMA MmsNextOK ==
    ASSUME MmsInv, [MmsNext]_mmsVars
    PROVE  MmsInv'
<1>1. CASE ThreadSteps
  BY <1>1, ConnectsOK, RunMovesOK, StartTransferOK, ThreadMovesOK, ThreadReadsOK DEF ThreadSteps
<1>2. CASE TakeSignal
  BY <1>2, TakeSignalOK
<1>3. CASE UserStopsMms \/ UserStartsMms \/ MmsStallTimeout \/ MmsQueueUpdated
  BY <1>3, OrdersOK
<1>4. CASE MmsRestart
  BY <1>4, MmsRestartOK
<1>5. CASE UNCHANGED mmsVars
  BY <1>5 DEF mmsVars, MmsInv, Attempted
<1> QED
  BY <1>1, <1>2, <1>3, <1>4, <1>5 DEF MmsNext

\* What is Finished was tried to read to its last byte, for every length, number of
\* threads, and sequence of failures, stops and restarts (MmsTransfer::slotResult).
THEOREM FinishedIsRead == MmsInit /\ [][MmsNext]_mmsVars => []FinishedHasEveryPart
<1>1. MmsInit => MmsInv
  BY MmsInitOK
<1>2. MmsInv /\ [MmsNext]_mmsVars => MmsInv'
  BY MmsNextOK
<1>3. MmsInv => FinishedHasEveryPart
  BY DEF MmsInv, TransferOK, FinishedHasEveryPart, Attempted, StreamPositions
<1> QED
  BY <1>1, <1>2, <1>3, PTL
=============================================================================
