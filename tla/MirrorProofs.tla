---------------------------- MODULE MirrorProofs ----------------------------
(***************************************************************************)
(* Lemmas about SegmentedDownload: chunks and their sizes, what each       *)
(* operation makes of a segment, and the operations that many handlers call*)
(* on a download: assigning, splitting, merging and giving back chunks,    *)
(* adding and removing mirrors and connections.                            *)
(*                                                                         *)
(* These are proved once, for every set of segments that is Closed under   *)
(* what they do to one: they return a variant of the download (Variants)   *)
(* whose chunks are Parted among its mirrors again.  Each handler then     *)
(* needs only what it does besides.                                        *)
(***************************************************************************)
EXTENDS SegmentedDownload, FiniteSetTheorems, SequenceTheorems, WellFoundedInduction, TLAPS

-----------------------------------------------------------------------------
(* Chunks, in units.                                                       *)

\* The first unit after chunk c.
EndOf(c) == SegSize * c + LastSegSize(c)

LEMMA SizesAreNat ==
  /\ Size \in Nat \ {0} /\ SegSize \in Nat \ {0}
  /\ Size % SegSize \in 0 .. SegSize - 1 /\ Size \div SegSize \in Nat
  /\ Size = SegSize * (Size \div SegSize) + (Size % SegSize)
<1>1. Size \in Nat \ {0} /\ SegSize \in Nat \ {0}
  BY SegmentAssumption
<1> QED
  BY <1>1

LEMMA NumChunksIsNat == NumChunks \in Nat \ {0}
<1>1. Size \div SegSize = 0 => Size % SegSize # 0
  BY SizesAreNat
<1> QED
  BY <1>1, SizesAreNat DEF NumChunks

\* Chunks are numbered from 0.
LEMMA ChunksAre ==
  /\ Chunks \subseteq Nat /\ 0 \in Chunks /\ NumChunks - 1 \in Chunks
  /\ \A c \in Chunks : c < NumChunks
  /\ \A c \in Int : 0 <= c /\ c < NumChunks => c \in Chunks
  /\ \A a, b \in Chunks : a .. b \subseteq Chunks
BY NumChunksIsNat DEF Chunks

LEMMA LastSegSizeIs ==
  ASSUME NEW c \in Chunks
  PROVE  /\ LastSegSize(c) \in Nat \ {0} /\ LastSegSize(c) <= SegSize
         /\ c + 1 \in Chunks => LastSegSize(c) = SegSize
BY SizesAreNat, ChunksAre DEF LastSegSize

LEMMA Times ==
  ASSUME NEW a \in Int, NEW b \in Int
  PROVE  /\ SegSize * a \in Int /\ SegSize * (a + b) = SegSize * a + SegSize * b
         /\ SegSize * (a - b) = SegSize * a - SegSize * b
         /\ SegSize * 0 = 0 /\ SegSize * 1 = SegSize
         /\ a <= b => SegSize * a <= SegSize * b
         /\ a \in Nat => SegSize * a \in Nat
<1>1. SegSize \in Nat \ {0}
  BY SizesAreNat
<1>2. b - a \in Nat => SegSize * (b - a) \in Nat
  BY <1>1
<1>3. SegSize * (b - a) = SegSize * b - SegSize * a
  BY <1>1
<1>4. SegSize * (a + b) = SegSize * a + SegSize * b
  BY <1>1
<1>5. SegSize * (a - b) = SegSize * a - SegSize * b
  BY <1>1
<1>6. SegSize * a \in Int /\ SegSize * b \in Int
  BY <1>1
<1>7. a <= b => SegSize * a <= SegSize * b
  BY <1>2, <1>3, <1>6
<1>8. a \in Nat => SegSize * a \in Nat
  BY <1>1
<1> QED
  BY <1>1, <1>4, <1>5, <1>6, <1>7, <1>8

LEMMA TimesIsInt == \A a \in Int : SegSize * a \in Int
BY Times

\* The chunks follow on each other.
LEMMA EndsAre ==
  ASSUME NEW c \in Chunks
  PROVE  /\ EndOf(c) \in Nat /\ SegSize * c \in Nat /\ SegSize * c < EndOf(c)
         /\ c + 1 \in Chunks => EndOf(c) = SegSize * (c + 1)
         /\ \A b \in Chunks : b < c => EndOf(b) <= SegSize * c /\ EndOf(b) < EndOf(c)
<1>1. c \in Nat /\ SegSize * c \in Nat
  BY ChunksAre, Times
<1>2. LastSegSize(c) \in Nat \ {0} /\ (c + 1 \in Chunks => LastSegSize(c) = SegSize)
  BY LastSegSizeIs
<1>3. EndOf(c) \in Nat /\ SegSize * c < EndOf(c)
  BY <1>1, <1>2 DEF EndOf
<1>4. SegSize * (c + 1) = SegSize * c + SegSize
  BY <1>1, Times
<1>5. ASSUME NEW b \in Chunks, b < c
      PROVE  EndOf(b) <= SegSize * c
  <2>1. b + 1 \in Chunks /\ b + 1 \in Int /\ b + 1 <= c
    BY <1>5, ChunksAre
  <2>2. EndOf(b) = SegSize * b + SegSize
    BY <2>1, LastSegSizeIs DEF EndOf
  <2>3. SegSize * (b + 1) = SegSize * b + SegSize
    BY ChunksAre, Times
  <2>4. SegSize * (b + 1) <= SegSize * c
    BY <2>1, <1>1, Times
  <2> QED
    BY <2>2, <2>3, <2>4
<1>6. ASSUME NEW b \in Chunks, b < c
      PROVE  EndOf(b) < EndOf(c)
  <2>1. EndOf(b) <= SegSize * c /\ b \in Nat /\ LastSegSize(b) \in Nat /\ SegSize * b \in Nat
    BY <1>5, <1>6, LastSegSizeIs, ChunksAre, Times
  <2>2. EndOf(b) \in Nat
    BY <2>1 DEF EndOf
  <2> QED
    BY <2>1, <2>2, <1>1, <1>3
<1>7. c + 1 \in Chunks => EndOf(c) = SegSize * (c + 1)
  BY <1>2, <1>4 DEF EndOf
<1> QED
  BY <1>1, <1>3, <1>5, <1>6, <1>7

-----------------------------------------------------------------------------
(* Numbers and lists.                                                      *)

LEMMA MinOfNaturals ==
  ASSUME NEW S, S \subseteq Nat, S # {}
  PROVE  Min(S) \in S /\ \A x \in S : Min(S) <= x
<1>1. PICK m \in S : \A i \in S : <<i, m>> \notin OpToRel(<, Nat)
  BY WFMin, NatLessThanWellFounded, Zenon
<1>2. \A i \in S : ~(i < m)
  BY <1>1 DEF OpToRel
<1>3. \A i \in S : m <= i
  BY <1>2
<1> QED
  BY <1>3 DEF Min

LEMMA MaxOfBounded ==
  ASSUME NEW S, S \subseteq Nat, S # {}, NEW N \in Nat, \A x \in S : x <= N
  PROVE  Max(S) \in S /\ \A x \in S : x <= Max(S)
<1>1. PICK T : T = {n \in Nat : \E x \in S : n = N - x}
  OBVIOUS
<1>2. T \subseteq Nat /\ T # {}
  <2>1. PICK x \in S : x \in Nat /\ x <= N
    OBVIOUS
  <2>2. N - x \in T
    BY <1>1, <2>1
  <2> QED
    BY <1>1, <2>2
<1>3. PICK m \in T : \A n \in T : m <= n
  BY <1>2, MinOfNaturals
<1>4. N - m \in S /\ \A x \in S : N - m >= x
  <2>1. PICK x \in S : m = N - x
    BY <1>1
  <2>2. N - m = x
    BY <2>1
  <2>3. ASSUME NEW y \in S PROVE N - m >= y
    <3>1. N - y \in T
      BY <1>1
    <3>2. m <= N - y
      BY <3>1, <1>3
    <3> QED
      BY <3>2, <1>2
  <2> QED
    BY <2>2, <2>3
<1>5. Max(S) \in S /\ \A y \in S : Max(S) >= y
  BY <1>4 DEF Max
<1> QED
  BY <1>5

\* What holds of 0 and of n + 1 when it holds of n.
LEMMA Counting ==
  ASSUME NEW T, NEW N \in Nat, 0 \in T, \A n \in 1 .. N : n - 1 \in T => n \in T
  PROVE  0 .. N \subseteq T
<1> SUFFICES ASSUME (0 .. N) \ T # {} PROVE FALSE
  OBVIOUS
<1>1. PICK m \in (0 .. N) \ T : \A i \in (0 .. N) \ T : m <= i
  <2>1. (0 .. N) \ T \subseteq Nat
    OBVIOUS
  <2> QED
    BY ONLY <2>1, (0 .. N) \ T # {}, MinOfNaturals
<1>2. m \in 1 .. N
  BY <1>1
<1>3. m - 1 \notin (0 .. N) \ T
  BY <1>1, <1>2
<1> QED
  BY <1>1, <1>2, <1>3

\* Calls in turn: F[n] is the n-th of N, it leads from T[n - 1] to T[n], and it takes
\* what the one before leaves.
CallsLead(N, T, F)  == \A n \in 1 .. N : \A x \in T[n - 1] : F[n][x] \in T[n]
CallsAre(N, F, d, c) == c = [n \in 0 .. N |-> IF n = 0 THEN d ELSE F[n][c[n - 1]]]

LEMMA TurnsExist ==
  ASSUME NEW N \in Nat, NEW T, NEW F, NEW d, d \in T[0], CallsLead(N, T, F)
  PROVE  \E c : CallsAre(N, F, d, c) /\ \A n \in 0 .. N : c[n] \in T[n]
<1> USE DEF CallsLead, CallsAre
<1> DEFINE Good(k, c) == /\ c = [n \in 0 .. k |-> IF n = 0 THEN d ELSE F[n][c[n - 1]]]
                         /\ \A n \in 0 .. k : c[n] \in T[n]
           K == {k \in 0 .. N : \E c : Good(k, c)}
<1>1. 0 \in K
  <2>1. Good(0, [n \in 0 .. 0 |-> d])
    OBVIOUS
  <2> HIDE DEF Good
  <2> QED
    BY <2>1
<1>2. ASSUME NEW k \in 1 .. N, k - 1 \in K PROVE k \in K
  <2>1. PICK c : Good(k - 1, c)
    BY <1>2
  <2>2. PICK e : e = [n \in 0 .. k |-> IF n = k THEN F[k][c[k - 1]] ELSE c[n]]
    OBVIOUS
  <2>3. ASSUME NEW n \in 0 .. k
        PROVE  e[n] = (IF n = 0 THEN d ELSE F[n][e[n - 1]]) /\ e[n] \in T[n]
    <3>1. k - 1 \in 0 .. k - 1 /\ c[k - 1] \in T[k - 1]
      BY <2>1
    <3>2. CASE n = k
      <4>1. e[n] = F[n][c[n - 1]] /\ e[n - 1] = c[n - 1]
        BY <2>2, <3>2
      <4> QED
        BY <4>1, <3>1, <3>2
    <3>3. CASE n # k
      <4>1. n \in 0 .. k - 1 /\ e[n] = c[n] /\ (n # 0 => e[n - 1] = c[n - 1])
        BY <2>2, <3>3
      <4>2. c[n] = (IF n = 0 THEN d ELSE F[n][c[n - 1]]) /\ c[n] \in T[n]
        BY <4>1, <2>1
      <4> QED
        BY <4>1, <4>2
    <3> QED
      BY <3>2, <3>3
  <2>4. e = [n \in 0 .. k |-> IF n = 0 THEN d ELSE F[n][e[n - 1]]]
    BY <2>2, <2>3
  <2>5. Good(k, e)
    BY <2>3, <2>4
  <2> HIDE DEF Good
  <2> QED
    BY <2>5
<1>3. 0 .. N \subseteq K
  <2> HIDE DEF K
  <2> QED
    BY <1>1, <1>2, Counting
<1>4. N \in 0 .. N
  OBVIOUS
<1> HIDE DEF K
<1>5. N \in K
  BY ONLY <1>3, <1>4
<1> QED
  BY <1>5 DEF K

LEMMA RemoveAtPlaces ==
  ASSUME NEW S, NEW s \in Seq(S), NEW i \in 1 .. Len(s)
  PROVE  /\ RemoveAt(s, i) \in Seq(S)
         /\ Len(RemoveAt(s, i)) = Len(s) - 1
         /\ \A k \in 1 .. (Len(s) - 1) :
              RemoveAt(s, i)[k] = IF k < i THEN s[k] ELSE s[k + 1]
<1>1. PICK a : a = SubSeq(s, 1, i - 1)
  OBVIOUS
<1>2. PICK b : b = SubSeq(s, i + 1, Len(s))
  OBVIOUS
<1>3. a \in Seq(S) /\ Len(a) = i - 1 /\ \A k \in 1 .. (i - 1) : a[k] = s[k]
  BY <1>1
<1>4. b \in Seq(S) /\ Len(b) = Len(s) - i /\ \A k \in 1 .. (Len(s) - i) : b[k] = s[k + i]
  BY <1>2
<1>5. RemoveAt(s, i) = a \o b
  BY <1>1, <1>2 DEF RemoveAt
<1>6. /\ a \o b \in Seq(S) /\ Len(a \o b) = Len(s) - 1
      /\ \A k \in 1 .. (Len(s) - 1) : (a \o b)[k] = IF k < i THEN s[k] ELSE s[k + 1]
  <2>1. /\ a \o b \in Seq(S) /\ Len(a \o b) = Len(s) - 1
        /\ \A k \in 1 .. (Len(s) - 1) : (a \o b)[k] = IF k < i THEN a[k] ELSE b[k - (i - 1)]
    <3>1. /\ a \o b \in Seq(S) /\ Len(a \o b) = Len(a) + Len(b)
          /\ \A k \in 1 .. (Len(a) + Len(b)) :
               (a \o b)[k] = IF k <= Len(a) THEN a[k] ELSE b[k - Len(a)]
      <4>1. a \in Seq(S) /\ b \in Seq(S)
        BY <1>3, <1>4
      <4> QED
        BY ONLY <4>1
    <3>2. Len(a) + Len(b) = Len(s) - 1
      BY <1>3, <1>4
    <3> QED
      BY ONLY <3>1, <3>2, <1>3, Len(s) \in Nat, i \in 1 .. Len(s)
  <2>2. ASSUME NEW k \in 1 .. (Len(s) - 1), k >= i PROVE b[k - (i - 1)] = s[k + 1]
    <3>1. k - (i - 1) \in 1 .. (Len(s) - i) /\ k - (i - 1) + i = k + 1
      BY <2>2
    <3> QED
      BY <1>4, <3>1
  <2> QED
    BY <1>3, <2>1, <2>2
<1> QED
  BY <1>5, <1>6

LEMMA SetToSeqIs ==
  ASSUME NEW S, IsFiniteSet(S)
  PROVE  /\ SetToSeq(S) \in Seq(S) /\ Len(SetToSeq(S)) = Cardinality(S)
         /\ \A x \in S : \E n \in 1 .. Cardinality(S) : SetToSeq(S)[n] = x
         /\ S # {} => SetToSeq(S) # <<>> /\ SetToSeq(S)[1] \in S
<1>1. Cardinality(S) \in Nat
  BY FS_CardinalityType
<1>2. PICK f \in Bijection(1 .. Cardinality(S), S) : TRUE
  BY FS_CardinalityType, Zenon DEF ExistsBijection
<1>3. f \in [1 .. Cardinality(S) -> S] /\ IsInjective(f)
  BY <1>2, Zenon DEF Bijection, Injection, IsInjective
<1>4. SetToSeq(S) \in [1 .. Cardinality(S) -> S] /\ IsInjective(SetToSeq(S))
  BY <1>3, Zenon DEF SetToSeq
<1>5. SetToSeq(S) \in Seq(S) /\ Len(SetToSeq(S)) = Cardinality(S)
  BY <1>1, <1>4
<1>6. \A x \in S : \E n \in 1 .. Cardinality(S) : SetToSeq(S)[n] = x
  <2>1. PICK g : g = SetToSeq(S)
    OBVIOUS
  <2>2. g \in Injection(1 .. Cardinality(S), S)
    BY <1>4, <2>1, Zenon DEF Injection, IsInjective
  <2>3. IsFiniteSet(1 .. Cardinality(S)) /\ Cardinality(1 .. Cardinality(S)) = Cardinality(S)
    BY <1>1, FS_Interval
  <2>4. g \in Surjection(1 .. Cardinality(S), S)
    BY <2>2, <2>3, FS_Injection
  <2> QED
    BY <2>4, <2>1, Zenon DEF Surjection
<1>7. S # {} => Cardinality(S) # 0
  BY FS_EmptySet
<1> QED
  BY <1>1, <1>4, <1>5, <1>6, <1>7

-----------------------------------------------------------------------------
(* Segments, and what each operation makes of one.                         *)

JobStates == {"none", "suspended", "active"}
Segments ==
  [cur : Chunks, end : Chunks, off : Nat, segLeft : Int, left : Int, last : Nat, buf : Seq(Int),
   job : JobStates, pos : Nat, resume : BOOLEAN, running : BOOLEAN, finding : BOOLEAN,
   timers : Nat, tries : Nat]

\* A segment's counters agree with its chunks.
Counts(s) ==
  /\ s.cur <= s.end
  /\ s.finding => s.cur = 0 /\ s.end = 0
  /\ ~s.finding => /\ s.last = LastSegSize(s.end)
                   /\ s.off + s.left = EndOf(s.end) /\ s.off + s.segLeft = EndOf(s.cur)

Fitting == {s \in Segments : Counts(s)}

\* The chunks of a segment.  One that looks for the size has none yet.
Unknown == -1
Own(s) == IF s.finding THEN {Unknown} ELSE s.cur .. s.end

Ranges == {r \in Chunks \X Chunks : r[1] <= r[2]}

\* What the operations on segments that many handlers call make of a set of segments;
\* `started` are the states its sources may be in.
Closed(G, started) ==
  /\ G \subseteq Fitting /\ started \subseteq BOOLEAN /\ FALSE \in started
  /\ \A r \in Ranges : NewSegment(r, LastSegSize(r[2])) \in G
  /\ \A s \in G : ~s.finding => StopTransfer(s) \in G
  /\ TRUE \in started => \A s \in G : StartTransfer(s) \in G
  /\ \A s \in G : Unfinished(s) > 0 => SplitSegment(s) \in G
  /\ \A s \in G, r \in Ranges :
       ~s.finding /\ s.end + 1 = r[1] => MergeSegment(s, LastSegSize(r[2]), r) \in G

LEMMA UnknownIsNoChunk == Unknown \notin Chunks /\ Unknown \in Int
BY ChunksAre DEF Unknown

LEMMA NewSegmentFits ==
  ASSUME NEW r \in Ranges
  PROVE  LET s == NewSegment(r, LastSegSize(r[2]))
         IN  /\ s \in Fitting /\ Own(s) = RangeSet(r) /\ ~s.finding /\ s.job = "none"
             /\ s.cur = r[1] /\ s.end = r[2] /\ s.off = SegSize * r[1] /\ s.buf = <<>>
             /\ s.timers = 0
<1> DEFINE s == NewSegment(r, LastSegSize(r[2]))
<1>1. r[1] \in Chunks /\ r[2] \in Chunks /\ r[1] <= r[2]
  BY DEF Ranges
<1>2. r[1] \in Nat /\ r[2] \in Nat
  BY <1>1, ChunksAre
<1>3. LastSegSize(r[2]) \in Nat /\ LastSegSize(r[1]) \in Nat /\ SegSize \in Nat
  BY <1>1, LastSegSizeIs, SizesAreNat
<1>4. SegSize * r[1] \in Nat /\ SegSize * r[2] \in Nat
      /\ SegSize * (r[2] - r[1]) = SegSize * r[2] - SegSize * r[1]
  <2>1. PICK a \in Nat, b \in Nat : a = r[1] /\ b = r[2]
    BY <1>2
  <2>2. SegSize * a \in Nat /\ SegSize * b \in Nat /\ SegSize * (b - a) = SegSize * b - SegSize * a
    BY Times
  <2> QED
    BY <2>1, <2>2
<1>5. r[1] # r[2] => LastSegSize(r[1]) = SegSize
  <2>1. r[1] # r[2] => r[1] + 1 \in Chunks
    BY <1>1, <1>2, ChunksAre
  <2> QED
    BY <2>1, <1>1, LastSegSizeIs
<1>6. s \in Segments
  <2>1. SegSize * (r[2] - r[1]) + LastSegSize(r[2]) \in Int
    BY <1>3, <1>4
  <2> QED
    BY <2>1, <1>1, <1>2, <1>3, <1>4 DEF Segments, NewSegment, JobStates
<1>7. Counts(s)
  BY <1>1, <1>2, <1>3, <1>4, <1>5 DEF Counts, NewSegment, EndOf
<1> QED
  BY <1>6, <1>7 DEF Fitting, NewSegment, Own, RangeSet

LEMMA FindingSegmentFits ==
  /\ FindingSegment \in Fitting /\ Own(FindingSegment) = {Unknown}
  /\ FindingSegment.finding /\ FindingSegment.job = "none" /\ FindingSegment.buf = <<>>
  /\ FindingSegment.timers = 0 /\ FindingSegment.off = 0 /\ FindingSegment.cur = 0
<1>1. SegSize * 0 = 0 /\ SegSize * (0 - 0) = 0 /\ SegSize \in Nat /\ 0 \in Chunks /\ 0 \in Nat
  BY ChunksAre, SizesAreNat
<1>2. FindingSegment =
        [cur |-> 0, end |-> 0, off |-> 0, segLeft |-> 0, left |-> 0, last |-> SegSize, buf |-> <<>>,
         job |-> "none", pos |-> 0, resume |-> TRUE, running |-> FALSE, finding |-> TRUE,
         timers |-> 0, tries |-> 0]
  <2>1. PICK r : r = <<0, 0>>
    OBVIOUS
  <2>2. r[1] = 0 /\ r[2] = 0
    BY <2>1
  <2>3. NewSegment(r, SegSize) =
          [cur |-> 0, end |-> 0, off |-> 0, segLeft |-> SegSize, left |-> SegSize, last |-> SegSize,
           buf |-> <<>>, job |-> "none", pos |-> 0, resume |-> TRUE, running |-> FALSE,
           finding |-> FALSE, timers |-> 0, tries |-> 0]
    <3>1. SegSize * r[1] = 0 /\ SegSize * (r[2] - r[1]) + SegSize = SegSize
      BY <1>1, <2>2
    <3> QED
      BY <3>1, <2>2 DEF NewSegment
  <2>4. PICK q : q = NewSegment(r, SegSize)
    OBVIOUS
  <2>5. FindingSegment = [q EXCEPT !.segLeft = 0, !.left = 0, !.finding = TRUE]
    BY <2>1, <2>4 DEF FindingSegment
  <2>6. q = [cur |-> 0, end |-> 0, off |-> 0, segLeft |-> SegSize, left |-> SegSize, last |-> SegSize,
             buf |-> <<>>, job |-> "none", pos |-> 0, resume |-> TRUE, running |-> FALSE,
             finding |-> FALSE, timers |-> 0, tries |-> 0]
    BY <2>3, <2>4
  <2> QED
    BY ONLY <2>5, <2>6
<1>3. <<>> \in Seq(Int)
  OBVIOUS
<1> QED
  BY <1>1, <1>2, <1>3 DEF Fitting, Segments, Counts, Own, JobStates

\* Starting and stopping a job leaves the chunks alone.
LEMMA StartTransferFits ==
  ASSUME NEW s \in Segments
  PROVE  /\ StartTransfer(s) \in Segments
         /\ StartTransfer(s) = [s EXCEPT !.job = StartTransfer(s).job, !.pos = StartTransfer(s).pos,
                                         !.resume = StartTransfer(s).resume, !.running = TRUE]
         /\ s \in Fitting => StartTransfer(s) \in Fitting
         /\ Own(StartTransfer(s)) = Own(s)
<1>1. /\ StartTransfer(s) \in Segments
      /\ StartTransfer(s) = [s EXCEPT !.job = StartTransfer(s).job, !.pos = StartTransfer(s).pos,
                                      !.resume = StartTransfer(s).resume, !.running = TRUE]
  BY ZenonT(30) DEF StartTransfer, Segments, JobStates
<1> HIDE DEF StartTransfer
<1> QED
  BY <1>1 DEF Fitting, Counts, Own, Segments

LEMMA StopTransferFits ==
  ASSUME NEW s \in Segments
  PROVE  /\ StopTransfer(s) \in Segments
         /\ StopTransfer(s) = [s EXCEPT !.job = "none", !.running = FALSE, !.buf = StopTransfer(s).buf]
         /\ StopTransfer(s).buf \in {<<>>, s.buf}
         /\ s \in Fitting => StopTransfer(s) \in Fitting
         /\ Own(StopTransfer(s)) = Own(s)
<1>1. /\ StopTransfer(s) \in Segments
      /\ StopTransfer(s) = [s EXCEPT !.job = "none", !.running = FALSE, !.buf = StopTransfer(s).buf]
      /\ StopTransfer(s).buf \in {<<>>, s.buf}
  <2>1. <<>> \in Seq(Int)
    OBVIOUS
  <2>2. CASE s.job = "none"
    BY <2>1, <2>2 DEF StopTransfer, Segments, JobStates
  <2>3. CASE s.job # "none"
    BY <2>1, <2>3 DEF StopTransfer, Segments, JobStates
  <2> QED
    BY <2>2, <2>3
<1> HIDE DEF StopTransfer
<1> QED
  BY <1>1 DEF Fitting, Counts, Own, Segments

\* Some of the chunks are given away, but not the current one.
LEMMA FreedIs ==
  ASSUME NEW s \in Fitting, Unfinished(s) > 0
  PROVE  /\ Freed(s) \in 1 .. Unfinished(s) /\ ~s.finding
         /\ s.cur \in Chunks /\ s.end \in Chunks /\ s.cur <= s.end - Freed(s)
         /\ s.end - Freed(s) \in Chunks /\ s.end - Freed(s) + 1 \in Chunks
<1>1. s.cur \in Chunks /\ s.end \in Chunks /\ s.cur \in Nat /\ s.end \in Nat
      /\ (s.finding => s.cur = 0 /\ s.end = 0)
  BY ChunksAre DEF Fitting, Segments, Counts
<1>2. PICK u \in Nat : u = s.end - s.cur /\ u > 0
  BY <1>1 DEF Unfinished
<1>3. (u + 2) \div 2 \in 1 .. u
  BY <1>2
<1>4. Freed(s) \in 1 .. u
  BY <1>2, <1>3 DEF Freed, Unfinished
<1>5. s.cur <= s.end - Freed(s) /\ s.end - Freed(s) + 1 <= s.end
  BY <1>1, <1>2, <1>4
<1>6. s.end < NumChunks /\ NumChunks \in Nat
  BY <1>1, ChunksAre, NumChunksIsNat
<1>7. s.end - Freed(s) \in Chunks /\ s.end - Freed(s) + 1 \in Chunks
  BY <1>1, <1>4, <1>5, <1>6, ChunksAre
<1> QED
  BY <1>1, <1>2, <1>4, <1>5, <1>7 DEF Unfinished

LEMMA SplitSegmentFits ==
  ASSUME NEW s \in Fitting, Unfinished(s) > 0
  PROVE  /\ SplitSegment(s) \in Fitting
         /\ SplitSegment(s) = [s EXCEPT !.end = s.end - Freed(s), !.last = SegSize,
                                        !.left = SplitSegment(s).left,
                                        !.job = SplitSegment(s).job]
         /\ SplitSegment(s).job = IF s.job = "none" THEN "none" ELSE "active"
         /\ Own(SplitSegment(s)) = s.cur .. (s.end - Freed(s))
         /\ <<s.end - Freed(s) + 1, s.end>> \in Ranges
         /\ Own(s) = Own(SplitSegment(s)) \cup ((s.end - Freed(s) + 1) .. s.end)
<1>1. PICK f \in Nat : f = Freed(s)
  BY FreedIs
<1>2. /\ f \in 1 .. s.end /\ ~s.finding /\ s.cur \in Nat /\ s.end \in Nat /\ s.cur <= s.end - f
      /\ s.cur \in Chunks /\ s.end \in Chunks /\ s.end - f \in Chunks /\ s.end - f + 1 \in Chunks
  <2>1. /\ f \in 1 .. Unfinished(s) /\ ~s.finding /\ s.cur \in Chunks /\ s.end \in Chunks
        /\ s.cur <= s.end - f /\ s.end - f \in Chunks /\ s.end - f + 1 \in Chunks
    BY ONLY <1>1, s \in Fitting, Unfinished(s) > 0, FreedIs
  <2>2. s.cur \in Nat /\ s.end \in Nat
    BY <2>1, ChunksAre
  <2>3. f \in 1 .. s.end
    BY <2>1, <2>2 DEF Unfinished
  <2> QED
    BY <2>1, <2>2, <2>3
<1>3. s \in Segments /\ s.last = LastSegSize(s.end) /\ s.off + s.left = EndOf(s.end)
      /\ s.off + s.segLeft = EndOf(s.cur)
  BY <1>2 DEF Fitting, Counts
<1>4. s.left \in Int /\ s.off \in Nat /\ s.last \in Nat
  BY <1>3 DEF Segments
<1>5. SegSize * (f - 1) \in Int /\ SegSize * s.end \in Int /\ SegSize * (s.end - f) \in Int
      /\ SegSize * (s.end - f) = SegSize * s.end - SegSize * f
      /\ SegSize * (f - 1) = SegSize * f - SegSize /\ SegSize * f \in Int
  <2>1. PICK e \in Nat : e = s.end
    BY <1>2
  <2>2. f - 1 \in Int /\ e - f \in Int
    OBVIOUS
  <2>3. SegSize * (f - 1) \in Int /\ SegSize * e \in Int /\ SegSize * (e - f) \in Int /\ SegSize * f \in Int
    BY <2>2, TimesIsInt
  <2>4. SegSize * (e - f) = SegSize * e - SegSize * f
    BY Times
  <2>5. SegSize * (f - 1) = SegSize * f - SegSize * 1 /\ SegSize * 1 = SegSize
    BY Times
  <2> QED
    BY <2>1, <2>3, <2>4, <2>5
<1>6. SegSize \in Nat /\ EndOf(s.end - f) = SegSize * (s.end - f) + SegSize
  <2>1. LastSegSize(s.end - f) = SegSize
    BY <1>2, LastSegSizeIs
  <2> QED
    BY <2>1, SizesAreNat DEF EndOf
<1>7. PICK n : n = s.left - (SegSize * (f - 1) + s.last)
  OBVIOUS
<1>8. n \in Int /\ s.off + n = EndOf(s.end - f)
  <2>1. EndOf(s.end) = SegSize * s.end + s.last
    BY <1>3 DEF EndOf
  <2> QED
    BY <1>3, <1>4, <1>5, <1>6, <1>7, <2>1
<1>16. PICK job \in JobStates : job = IF s.job = "none" THEN "none" ELSE "active"
  BY <1>3 DEF Segments, JobStates
<1>9. SplitSegment(s) = [s EXCEPT !.end = s.end - f, !.last = SegSize, !.left = n, !.job = job]
  BY <1>1, <1>3, <1>7, <1>16 DEF SplitSegment, Segments
<1>10. SplitSegment(s) \in Segments
  BY <1>2, <1>3, <1>6, <1>8, <1>9 DEF Segments
<1>11. Counts(SplitSegment(s))
  <2>1. LastSegSize(s.end - f) = SegSize
    BY <1>2, LastSegSizeIs
  <2> QED
    BY <1>2, <1>3, <1>8, <1>9, <2>1 DEF Counts, Segments
<1>12. Own(SplitSegment(s)) = s.cur .. (s.end - f) /\ Own(s) = s.cur .. s.end
  BY <1>2, <1>3, <1>9 DEF Own, Segments
<1>13. Own(s) = Own(SplitSegment(s)) \cup ((s.end - f + 1) .. s.end)
  BY <1>2, <1>12
<1>14. <<s.end - f + 1, s.end>> \in Ranges
  BY <1>2 DEF Ranges
<1>15. /\ SplitSegment(s) = [s EXCEPT !.end = s.end - f, !.last = SegSize,
                                     !.left = SplitSegment(s).left, !.job = SplitSegment(s).job]
       /\ SplitSegment(s).job = job
  BY <1>3, <1>9 DEF Segments
<1> QED
  BY <1>1, <1>10, <1>11, <1>12, <1>13, <1>14, <1>15, <1>16 DEF Fitting

LEMMA MergeSegmentFits ==
  ASSUME NEW s \in Fitting, ~s.finding, NEW r \in Ranges, s.end + 1 = r[1]
  PROVE  LET t == MergeSegment(s, LastSegSize(r[2]), r)
         IN  /\ t \in Fitting
             /\ t = [s EXCEPT !.end = r[2], !.last = LastSegSize(r[2]), !.left = t.left]
             /\ Own(t) = Own(s) \cup RangeSet(r)
<1>1. PICK a \in Chunks, b \in Chunks : a = r[1] /\ b = r[2] /\ a <= b
  BY DEF Ranges
<1>2. PICK l \in Nat : l = LastSegSize(b)
  BY LastSegSizeIs
<1>3. /\ s \in Segments /\ s.last = LastSegSize(s.end) /\ s.off + s.left = EndOf(s.end)
      /\ s.off + s.segLeft = EndOf(s.cur) /\ s.cur <= s.end
  BY DEF Fitting, Counts
<1>4. s.left \in Int /\ s.off \in Nat /\ s.last \in Nat /\ s.cur \in Nat /\ s.end \in Nat
      /\ s.end \in Chunks /\ a \in Nat /\ b \in Nat
  BY <1>3, ChunksAre DEF Segments
<1>5. SegSize * b \in Int /\ SegSize * a \in Int /\ SegSize * (b - a) = SegSize * b - SegSize * a
  BY <1>4, Times
<1>6. EndOf(s.end) = SegSize * a
  BY <1>1, <1>4, EndsAre
<1>7. PICK n : n = s.left + SegSize * (b - a) + l
  OBVIOUS
<1>8. n \in Int /\ s.off + n = EndOf(b)
  BY <1>2, <1>3, <1>4, <1>5, <1>6, <1>7 DEF EndOf
<1>9. PICK t : t = MergeSegment(s, LastSegSize(r[2]), r)
  OBVIOUS
<1>10. t = [s EXCEPT !.end = b, !.last = l, !.left = n]
  BY <1>1, <1>2, <1>7, <1>9 DEF MergeSegment
<1>11. t \in Segments /\ t.left = n
  BY <1>2, <1>3, <1>8, <1>10 DEF Segments
<1>12. Counts(t)
  <2>1. /\ t.cur = s.cur /\ t.end = b /\ t.last = l /\ t.left = n /\ t.off = s.off
        /\ t.segLeft = s.segLeft /\ ~t.finding
    BY <1>3, <1>10 DEF Segments
  <2>2. s.cur <= b
    BY <1>1, <1>3, <1>4
  <2> QED
    BY <1>2, <1>3, <1>8, <2>1, <2>2 DEF Counts
<1>13. Own(t) = s.cur .. b /\ Own(s) = s.cur .. s.end /\ RangeSet(r) = a .. b
  BY <1>1, <1>3, <1>10 DEF Own, Segments, RangeSet
<1>14. Own(t) = Own(s) \cup RangeSet(r)
  BY <1>1, <1>3, <1>4, <1>13
<1> QED
  BY <1>1, <1>2, <1>9, <1>10, <1>11, <1>12, <1>14 DEF Fitting

\* What is left of a chunk of s once n more units are written.
LEMMA LeftOfIs ==
  ASSUME NEW s \in Fitting, ~s.finding, NEW n \in Nat, NEW c \in s.cur .. s.end
  PROVE  LeftOf(s, n, c) = EndOf(c) - (s.off + n)
<1>1. /\ s \in Segments /\ s.last = LastSegSize(s.end) /\ s.off + s.segLeft = EndOf(s.cur)
  BY DEF Fitting, Counts
<1>2. /\ s.segLeft \in Int /\ s.off \in Nat /\ s.last \in Nat /\ s.cur \in Nat /\ s.end \in Nat
      /\ s.end \in Chunks /\ s.cur \in Chunks /\ c \in Nat /\ c \in Chunks
  BY <1>1, ChunksAre DEF Segments
<1>3. CASE c = s.cur
  <2>1. EndOf(c) \in Nat
    BY <1>2, EndsAre
  <2> QED
    BY <1>1, <1>2, <1>3, <2>1 DEF LeftOf
<1>4. CASE c # s.cur
  <2>1. s.cur + 1 \in Chunks
    BY <1>2, <1>4, ChunksAre
  <2>2. EndOf(s.cur) = SegSize * (s.cur + 1)
    BY <1>2, <2>1, EndsAre
  <2>3. PICK a \in Nat : a = s.cur + 1
    BY <1>2
  <2>4. SegSize * (c - a) = SegSize * c - SegSize * a /\ SegSize * c \in Int /\ SegSize * a \in Int
    <3>1. c \in Int /\ a \in Int
      BY <1>2
    <3> QED
      BY ONLY <3>1, Times
  <2>5. c - s.cur - 1 = c - a
    BY <2>3, <1>2
  <2>6. (IF c = s.end THEN s.last ELSE SegSize) = LastSegSize(c)
    <3>1. c # s.end => c + 1 \in Chunks
      BY <1>2, ChunksAre
    <3> QED
      BY <3>1, <1>1, <1>2, LastSegSizeIs
  <2>7. LeftOf(s, n, c) = s.segLeft - n + (SegSize * (c - a) + LastSegSize(c))
    BY <1>4, <2>5, <2>6 DEF LeftOf
  <2>8. s.off + s.segLeft = SegSize * a
    BY <1>1, <2>2, <2>3
  <2>9. LastSegSize(c) \in Nat
    BY <1>2, LastSegSizeIs
  <2> QED
    BY <1>2, <2>4, <2>7, <2>8, <2>9 DEF EndOf
<1> QED
  BY <1>3, <1>4

\* The finished chunks are the first ones; the segment goes on with the rest.
LEMMA FinishedByIs ==
  ASSUME NEW s \in Fitting, ~s.finding, NEW n \in Nat
  PROVE  /\ FinishedBy(s, n) = {c \in s.cur .. s.end : EndOf(c) <= s.off + n}
         /\ FinishedBy(s, n) \subseteq Own(s)
         /\ s.end \in FinishedBy(s, n) => FinishedBy(s, n) = Own(s)
         /\ s.end \notin FinishedBy(s, n) =>
              LET k == s.cur + Cardinality(FinishedBy(s, n))
              IN  /\ k \in s.cur .. s.end /\ k \in Chunks
                  /\ FinishedBy(s, n) = s.cur .. (k - 1)
<1> DEFINE over == FinishedBy(s, n)
<1>1. /\ s \in Segments /\ s.cur <= s.end /\ s.off \in Nat /\ s.cur \in Nat /\ s.end \in Nat
      /\ s.end \in Chunks /\ s.cur \in Chunks
  BY ChunksAre DEF Fitting, Counts, Segments
<1>2. \A c \in s.cur .. s.end : c \in Chunks /\ EndOf(c) \in Nat
  BY <1>1, ChunksAre, EndsAre
<1>3. over = {c \in s.cur .. s.end : EndOf(c) <= s.off + n}
  <2>1. \A c \in s.cur .. s.end : LeftOf(s, n, c) <= 0 <=> EndOf(c) <= s.off + n
    BY <1>1, <1>2, LeftOfIs
  <2> QED
    BY <2>1 DEF FinishedBy
<1>4. Own(s) = s.cur .. s.end
  BY DEF Own
<1>5. \A c \in over : \A b \in s.cur .. s.end : b <= c => b \in over
  <2> SUFFICES ASSUME NEW c \in over, NEW b \in s.cur .. s.end, b <= c PROVE b \in over
    OBVIOUS
  <2>1. c \in Chunks /\ b \in Chunks /\ EndOf(c) <= s.off + n /\ EndOf(c) \in Nat /\ EndOf(b) \in Nat
    BY <1>2, <1>3
  <2>2. EndOf(b) <= EndOf(c)
    BY <2>1, EndsAre, <1>1
  <2> QED
    BY <1>1, <1>3, <2>1, <2>2
<1>6. s.end \in over => over = Own(s)
  BY <1>1, <1>3, <1>4, <1>5
<1>7. ASSUME s.end \notin over
      PROVE  LET k == s.cur + Cardinality(over)
             IN  k \in s.cur .. s.end /\ k \in Chunks /\ over = s.cur .. (k - 1)
  <2>1. PICK S : S = {c \in s.cur .. s.end : c \notin over}
    OBVIOUS
  <2>2. S \subseteq Nat /\ s.end \in S
    BY <1>1, <1>7, <2>1
  <2>3. PICK k \in S : \A c \in S : k <= c
    BY ONLY <2>2, MinOfNaturals
  <2>4. k \in s.cur .. s.end /\ k \in Chunks /\ k \in Nat
    BY <1>1, <1>2, <2>1, <2>3
  <2>5. over = s.cur .. (k - 1)
    <3>1. \A c \in over : c < k
      <4> SUFFICES ASSUME NEW c \in over, k <= c PROVE FALSE
        BY <1>1, <1>3, <2>4
      <4> QED
        BY <1>5, <2>1, <2>3, <2>4
    <3>2. \A c \in s.cur .. (k - 1) : c \in over
      BY <2>1, <2>3, <2>4, <1>1
    <3> QED
      BY <3>1, <3>2, <1>1, <1>3, <2>4
  <2>6. Cardinality(s.cur .. (k - 1)) = k - s.cur
    <3>1. PICK a \in Int, b \in Int : a = s.cur /\ b = k - 1
      BY <1>1, <2>4
    <3>2. Cardinality(a .. b) = IF a > b THEN 0 ELSE b - a + 1
      BY FS_Interval
    <3> QED
      BY <3>1, <3>2, <2>4, <1>1
  <2>7. s.cur + Cardinality(over) = k
    BY <2>4, <2>5, <2>6, <1>1
  <2> HIDE DEF over
  <2> QED
    BY <2>4, <2>5, <2>7
<1> QED
  BY <1>3, <1>4, <1>6, <1>7

\* The segment after its buffer was written.
LEMMA WrittenFits ==
  ASSUME NEW s \in Fitting, NEW over, s.end \notin over,
         over = IF s.finding THEN {} ELSE FinishedBy(s, Len(s.buf))
  PROVE  LET t == Written(s, over)
         IN  /\ t \in Fitting
             /\ t = [s EXCEPT !.buf = <<>>, !.off = s.off + Len(s.buf), !.cur = t.cur,
                              !.segLeft = t.segLeft, !.left = t.left]
             /\ Own(t) = Own(s) \ over /\ t.cur \in s.cur .. s.end
             /\ s.finding => t.cur = s.cur
             /\ ~s.finding => over = s.cur .. (t.cur - 1)
<1>1. /\ s \in Segments /\ s.cur <= s.end /\ s.off \in Nat /\ s.cur \in Nat /\ s.end \in Nat
      /\ s.end \in Chunks /\ s.cur \in Chunks /\ s.left \in Int /\ s.segLeft \in Int /\ s.buf \in Seq(Int)
      /\ s.finding \in BOOLEAN
  BY ChunksAre DEF Fitting, Counts, Segments
<1>2. PICK n \in Nat : n = Len(s.buf)
  BY <1>1
<1>3. PICK k : k = s.cur + Cardinality(over)
  OBVIOUS
<1>4. k \in s.cur .. s.end /\ k \in Chunks /\ Own(s) \ over = (IF s.finding THEN {Unknown} ELSE k .. s.end)
      /\ (s.finding => k = s.cur) /\ (~s.finding => over = s.cur .. (k - 1))
  <2>1. CASE s.finding
    <3>1. over = {} /\ Cardinality(over) = 0
      BY <2>1, FS_EmptySet
    <3> QED
      BY <1>1, <1>3, <2>1, <3>1 DEF Own
  <2>2. CASE ~s.finding
    <3>1. over = FinishedBy(s, n)
      BY <2>2, <1>2
    <3>2. k \in s.cur .. s.end /\ k \in Chunks /\ over = s.cur .. (k - 1)
      BY <3>1, <2>2, <1>3, FinishedByIs
    <3> QED
      BY <3>2, <2>2, <1>1 DEF Own
  <2> QED
    BY <2>1, <2>2
<1>5. PICK l \in Int : l = (IF s.finding THEN s.segLeft - n ELSE LeftOf(s, n, k))
  <2>1. ~s.finding => LeftOf(s, n, k) \in Int
    <3>1. EndOf(k) \in Nat
      BY <1>4, EndsAre
    <3>2. ~s.finding => LeftOf(s, n, k) = EndOf(k) - (s.off + n)
      BY <1>4, LeftOfIs
    <3> QED
      BY <3>1, <3>2, <1>1
  <2> QED
    BY <2>1, <1>1
<1>6. PICK m \in Int : m = (IF s.finding THEN s.left ELSE s.left - n)
  BY <1>1
<1>7. PICK t : t = Written(s, over)
  OBVIOUS
<1>8. t = [s EXCEPT !.buf = <<>>, !.off = s.off + n, !.cur = k, !.segLeft = l, !.left = m]
  BY <1>1, <1>2, <1>3, <1>5, <1>6, <1>7 DEF Written, Segments
<1>9. s.off + n \in Nat /\ <<>> \in Seq(Int)
  BY <1>1
<1>10. t \in Segments
  BY <1>1, <1>4, <1>8, <1>9 DEF Segments
<1>11. /\ t.cur = k /\ t.end = s.end /\ t.segLeft = l /\ t.left = m /\ t.off = s.off + n
       /\ t.finding = s.finding /\ t.last = s.last
  BY <1>1, <1>8 DEF Segments
<1>12. Counts(t)
  <2>1. Counts(s)
    BY DEF Fitting
  <2>2. ~s.finding => s.off + n + l = EndOf(k)
    <3>1. EndOf(k) \in Nat
      BY <1>4, EndsAre
    <3>2. ~s.finding => LeftOf(s, n, k) = EndOf(k) - (s.off + n)
      BY <1>4, LeftOfIs
    <3> QED
      BY <3>1, <3>2, <1>5, <1>1
  <2>3. ~s.finding => s.off + n + m = EndOf(s.end)
    BY <2>1, <1>1, <1>6 DEF Counts
  <2> QED
    BY <2>1, <2>2, <2>3, <1>1, <1>4, <1>11 DEF Counts
<1>13. Own(t) = Own(s) \ over
  BY <1>4, <1>11 DEF Own
<1>14. t = [s EXCEPT !.buf = <<>>, !.off = s.off + Len(s.buf), !.cur = t.cur,
                     !.segLeft = t.segLeft, !.left = t.left]
  BY <1>2, <1>8, <1>11
<1> QED
  BY <1>4, <1>7, <1>10, <1>11, <1>12, <1>13, <1>14 DEF Fitting

-----------------------------------------------------------------------------
(* The chunks of a list of segments.                                       *)

OwnOf(q) == UNION {Own(q[i]) : i \in DOMAIN q}
Apart(q) == \A i, j \in DOMAIN q : i # j => Own(q[i]) \cap Own(q[j]) = {}

LEMMA OwnOfNone == OwnOf(<<>>) = {} /\ Apart(<<>>) /\ (\A S : <<>> \in Seq(S)) /\ Len(<<>>) = 0
BY DEF OwnOf, Apart

LEMMA OwnOfAppend ==
  ASSUME NEW S, NEW q \in Seq(S), NEW s \in S
  PROVE  /\ Append(q, s) \in Seq(S) /\ Append(q, s) # <<>>
         /\ OwnOf(Append(q, s)) = OwnOf(q) \cup Own(s)
         /\ Apart(q) /\ Own(s) \cap OwnOf(q) = {} => Apart(Append(q, s))
<1>1. PICK r : r = Append(q, s)
  OBVIOUS
<1>2. /\ r \in Seq(S) /\ Len(r) = Len(q) + 1 /\ Len(q) \in Nat
      /\ DOMAIN q = 1 .. Len(q) /\ DOMAIN r = 1 .. (Len(q) + 1)
      /\ r[Len(q) + 1] = s /\ \A i \in 1 .. Len(q) : r[i] = q[i]
  BY <1>1
<1>3. \A c : c \in OwnOf(r) <=> c \in OwnOf(q) \cup Own(s)
  <2> TAKE c
  <2>1. c \in OwnOf(r) <=> \E i \in 1 .. (Len(q) + 1) : c \in Own(r[i])
    BY <1>2 DEF OwnOf
  <2>2. c \in OwnOf(q) <=> \E i \in 1 .. Len(q) : c \in Own(q[i])
    BY <1>2 DEF OwnOf
  <2>3. \A i \in 1 .. (Len(q) + 1) : i \in 1 .. Len(q) \/ i = Len(q) + 1
    BY <1>2
  <2>4. \A i \in 1 .. Len(q) : i \in 1 .. (Len(q) + 1)
    BY <1>2
  <2>5. Len(q) + 1 \in 1 .. (Len(q) + 1)
    BY <1>2
  <2> QED
    BY <2>1, <2>2, <2>3, <2>4, <2>5, <1>2
<1>4. ASSUME Apart(q), Own(s) \cap OwnOf(q) = {}, NEW i \in DOMAIN r, NEW j \in DOMAIN r, i # j
      PROVE  Own(r[i]) \cap Own(r[j]) = {}
  <2>1. \A k \in 1 .. Len(q) : Own(r[k]) \cap Own(s) = {}
    BY <1>2, <1>4 DEF OwnOf
  <2>2. i \in 1 .. Len(q) /\ j \in 1 .. Len(q) => Own(r[i]) \cap Own(r[j]) = {}
    BY <1>2, <1>4 DEF Apart
  <2>3. (i \in 1 .. Len(q) \/ i = Len(q) + 1) /\ (j \in 1 .. Len(q) \/ j = Len(q) + 1)
    BY <1>2
  <2> QED
    BY <2>1, <2>2, <2>3, <1>2, <1>4
<1>5. Apart(q) /\ Own(s) \cap OwnOf(q) = {} => Apart(r)
  BY <1>4 DEF Apart
<1>6. r # <<>>
  BY <1>2
<1> QED
  BY <1>1, <1>2, <1>3, <1>5, <1>6

LEMMA OwnOfRemoveAt ==
  ASSUME NEW S, NEW q \in Seq(S), NEW i \in DOMAIN q
  PROVE  /\ RemoveAt(q, i) \in Seq(S) /\ Len(RemoveAt(q, i)) = Len(q) - 1
         /\ \A k \in DOMAIN RemoveAt(q, i) :
              \E l \in DOMAIN q : l # i /\ RemoveAt(q, i)[k] = q[l]
         /\ Apart(q) => Apart(RemoveAt(q, i)) /\ OwnOf(RemoveAt(q, i)) = OwnOf(q) \ Own(q[i])
<1>1. PICK r : r = RemoveAt(q, i)
  OBVIOUS
<1>2. /\ Len(q) \in Nat /\ i \in 1 .. Len(q) /\ DOMAIN q = 1 .. Len(q)
  OBVIOUS
<1>3. /\ r \in Seq(S) /\ Len(r) = Len(q) - 1 /\ DOMAIN r = 1 .. (Len(q) - 1)
      /\ \A k \in 1 .. (Len(q) - 1) : r[k] = IF k < i THEN q[k] ELSE q[k + 1]
  <2>1. /\ r \in Seq(S) /\ Len(r) = Len(q) - 1
        /\ \A k \in 1 .. (Len(q) - 1) : r[k] = IF k < i THEN q[k] ELSE q[k + 1]
    BY <1>1, <1>2, RemoveAtPlaces
  <2> QED
    BY <2>1
<1>4. PICK to : to = [k \in 1 .. (Len(q) - 1) |-> IF k < i THEN k ELSE k + 1]
  OBVIOUS
<1>5. \A k \in DOMAIN r : to[k] \in DOMAIN q /\ to[k] # i /\ r[k] = q[to[k]]
  BY <1>2, <1>3, <1>4
<1>6. \A k, l \in DOMAIN r : k # l => to[k] # to[l]
  BY <1>2, <1>3, <1>4
<1>7. \A l \in DOMAIN q : l # i => \E k \in DOMAIN r : r[k] = q[l]
  <2> SUFFICES ASSUME NEW l \in DOMAIN q, l # i PROVE \E k \in DOMAIN r : r[k] = q[l]
    OBVIOUS
  <2>1. CASE l < i
    <3>1. l \in DOMAIN r /\ r[l] = q[l]
      BY <1>2, <1>3, <2>1
    <3> QED
      BY <3>1
  <2>2. CASE ~(l < i)
    <3>1. l - 1 \in DOMAIN r /\ ~(l - 1 < i) /\ l - 1 + 1 = l
      BY <1>2, <1>3, <2>2
    <3>2. r[l - 1] = q[l]
      BY <3>1, <1>3
    <3> QED
      BY <3>1, <3>2
  <2> QED
    BY <2>1, <2>2
<1>8. Apart(q) => Apart(r)
  <2> SUFFICES ASSUME Apart(q), NEW k \in DOMAIN r, NEW l \in DOMAIN r, k # l
               PROVE  Own(r[k]) \cap Own(r[l]) = {}
    BY DEF Apart
  <2> QED
    BY <1>5, <1>6, ZenonT(30) DEF Apart
<1>9. Apart(q) => OwnOf(r) = OwnOf(q) \ Own(q[i])
  <2> SUFFICES ASSUME Apart(q) PROVE OwnOf(r) = OwnOf(q) \ Own(q[i])
    OBVIOUS
  <2>1. ASSUME NEW c \in OwnOf(r) PROVE c \in OwnOf(q) /\ c \notin Own(q[i])
    <3>1. PICK k \in DOMAIN r : c \in Own(r[k])
      BY DEF OwnOf
    <3>2. to[k] \in DOMAIN q /\ to[k] # i /\ c \in Own(q[to[k]])
      BY <3>1, <1>5
    <3> QED
      BY <3>2, <1>2 DEF OwnOf, Apart
  <2>2. ASSUME NEW c \in OwnOf(q), c \notin Own(q[i]) PROVE c \in OwnOf(r)
    <3>1. PICK l \in DOMAIN q : c \in Own(q[l])
      BY DEF OwnOf
    <3>2. PICK k \in DOMAIN r : r[k] = q[l]
      BY <3>1, <2>2, <1>7
    <3> QED
      BY <3>1, <3>2 DEF OwnOf
  <2> QED
    BY <2>1, <2>2
<1> QED
  BY <1>1, <1>3, <1>5, <1>8, <1>9

LEMMA OwnOfExcept ==
  ASSUME NEW S, NEW q \in Seq(S), NEW i \in DOMAIN q, NEW s \in S
  PROVE  LET r == [q EXCEPT ![i] = s]
         IN  /\ r \in Seq(S) /\ Len(r) = Len(q) /\ DOMAIN r = DOMAIN q
             /\ r[i] = s /\ \A j \in DOMAIN q : j # i => r[j] = q[j]
             /\ Apart(q) /\ Own(s) \cap (OwnOf(q) \ Own(q[i])) = {} =>
                  Apart(r) /\ OwnOf(r) = (OwnOf(q) \ Own(q[i])) \cup Own(s)
<1>1. PICK r : r = [q EXCEPT ![i] = s]
  OBVIOUS
<1>2. /\ r \in Seq(S) /\ Len(r) = Len(q) /\ DOMAIN r = DOMAIN q
      /\ r[i] = s /\ \A j \in DOMAIN q : j # i => r[j] = q[j]
  BY <1>1
<1>3. ASSUME Apart(q), Own(s) \cap (OwnOf(q) \ Own(q[i])) = {}
      PROVE  Apart(r) /\ OwnOf(r) = (OwnOf(q) \ Own(q[i])) \cup Own(s)
  <2>1. \A j \in DOMAIN q : j # i => Own(q[j]) \cap Own(q[i]) = {} /\ Own(q[j]) \subseteq OwnOf(q)
    BY <1>3 DEF Apart, OwnOf
  <2>2. \A j \in DOMAIN q : j # i => Own(q[j]) \cap Own(s) = {}
    BY <2>1, <1>3
  <2>3. Apart(r)
    BY <1>2, <1>3, <2>2 DEF Apart
  <2>4. \A c : c \in OwnOf(r) <=> \E j \in DOMAIN q : c \in Own(r[j])
    BY <1>2 DEF OwnOf
  <2>5. \A c : c \in OwnOf(q) <=> \E j \in DOMAIN q : c \in Own(q[j])
    BY DEF OwnOf
  <2>6. ASSUME NEW c \in OwnOf(r) PROVE c \in (OwnOf(q) \ Own(q[i])) \cup Own(s)
    <3>1. PICK j \in DOMAIN q : c \in Own(r[j])
      BY <2>4
    <3> QED
      BY <3>1, <2>1, <1>2
  <2>7. ASSUME NEW c \in (OwnOf(q) \ Own(q[i])) \cup Own(s) PROVE c \in OwnOf(r)
    <3>1. CASE c \in Own(s)
      BY <3>1, <1>2, <2>4
    <3>2. CASE c \notin Own(s)
      <4>1. PICK j \in DOMAIN q : c \in Own(q[j])
        BY <2>5, <2>7, <3>2
      <4>2. j # i
        BY <4>1, <2>7, <3>2
      <4> QED
        BY <4>1, <4>2, <1>2, <2>4
    <3> QED
      BY <3>1, <3>2
  <2> QED
    BY <2>3, <2>6, <2>7
<1> QED
  BY <1>1, <1>2, <1>3

LEMMA OwnOfSame ==
  ASSUME NEW q, NEW r, DOMAIN r = DOMAIN q, \A i \in DOMAIN q : Own(r[i]) = Own(q[i])
  PROVE  OwnOf(r) = OwnOf(q) /\ (Apart(q) => Apart(r))
BY DEF OwnOf, Apart

-----------------------------------------------------------------------------
(* Downloads.                                                              *)

Sources(G, started) == [par : Nat, supposed : BOOLEAN, started : started, segs : Seq(G)]
Srcs(G, started)    == UNION {[U -> Sources(G, started)] : U \in SUBSET Mirrors}
UnusedLists         == Seq(Mirrors \X Nat)

\* What assigning chunks and changing mirrors may make of d: the mirrors with their
\* segments, the chunks that are started, and what remains to be assigned.
Variants(d, G, started) ==
  [size : {d.size}, sizeDefined : {d.sizeDefined}, chunks : {d.chunks}, started : SUBSET Chunks,
   finished : {d.finished}, downloaded : {d.downloaded}, done : {d.done}, blocked : {d.blocked},
   temp : {d.temp}, tempOff : {d.tempOff}, put : {d.put}, startTried : {d.startTried},
   findTried : {d.findTried}, assignTried : BOOLEAN, removing : {d.removing},
   initialized : {d.initialized}, doDownload : {d.doDownload}, foundOnFinish : {d.foundOnFinish},
   max : Nat, src : Srcs(G, started), unused : UnusedLists, source : {d.source},
   status : {d.status}, tstatus : {d.tstatus}, ftp : {d.ftp}, stat : {d.stat},
   verified : {d.verified}, repairing : {d.repairing}, file : {d.file}]

\* A download whose segments are of G and whose sources are in one of the states `started`.
Typed(d, G, started) == d \in Variants(d, G, started)

\* The chunks of a mirror.
Owned(d, m) == OwnOf(d.src[m].segs)

\* No chunk is fetched twice or after it is finished, and none is left out.
Loose(d) ==
  /\ d.finished \subseteq d.started /\ d.started \subseteq Chunks
  /\ \A m \in Used(d) : Apart(d.src[m].segs) /\ Owned(d, m) \cap d.finished = {}
  /\ \A m, n \in Used(d) : m # n => Owned(d, m) \cap Owned(d, n) = {}
  /\ \A c \in d.started \ d.finished : \E m \in Used(d) : c \in Owned(d, m)
  /\ d.chunks => \A m \in Used(d) : Unknown \notin Owned(d, m)
  /\ ~d.chunks => d.started = {}

\* And what is fetched counts as started.  A repair breaks this until all mirrors
\* are removed.
Parted(d) == Loose(d) /\ \A m \in Used(d) : Owned(d, m) \ {Unknown} \subseteq d.started

LEMMA SrcsAre ==
  ASSUME NEW G, NEW started, NEW f \in Srcs(G, started)
  PROVE  /\ DOMAIN f \subseteq Mirrors /\ IsFiniteSet(DOMAIN f)
         /\ f \in [DOMAIN f -> Sources(G, started)]
         /\ \A m \in DOMAIN f : /\ f[m] \in Sources(G, started) /\ f[m].segs \in Seq(G)
                                /\ f[m].started \in started /\ f[m].par \in Nat
<1>1. PICK U \in SUBSET Mirrors : f \in [U -> Sources(G, started)]
  BY DEF Srcs
<1>2. DOMAIN f = U /\ f \in [DOMAIN f -> Sources(G, started)]
  BY <1>1
<1>3. IsFiniteSet(U)
  BY SegmentAssumption, FS_Subset
<1>4. \A m \in DOMAIN f : f[m] \in Sources(G, started)
  BY <1>2
<1> QED
  BY <1>1, <1>2, <1>3, <1>4 DEF Sources

LEMMA SrcsFrom ==
  ASSUME NEW G, NEW started, NEW U \in SUBSET Mirrors, NEW f \in [U -> Sources(G, started)]
  PROVE  f \in Srcs(G, started)
BY DEF Srcs

LEMMA SrcsExcept ==
  ASSUME NEW G, NEW started, NEW f \in Srcs(G, started), NEW m \in DOMAIN f,
         NEW s \in Sources(G, started)
  PROVE  /\ [f EXCEPT ![m] = s] \in Srcs(G, started) /\ DOMAIN [f EXCEPT ![m] = s] = DOMAIN f
         /\ [f EXCEPT ![m] = s][m] = s
         /\ \A n \in DOMAIN f : n # m => [f EXCEPT ![m] = s][n] = f[n]
<1>1. DOMAIN f \in SUBSET Mirrors /\ f \in [DOMAIN f -> Sources(G, started)]
  BY SrcsAre
<1>2. [f EXCEPT ![m] = s] \in [DOMAIN f -> Sources(G, started)]
  BY <1>1
<1>3. [f EXCEPT ![m] = s] \in Srcs(G, started)
  BY ONLY <1>1, <1>2, SrcsFrom
<1> QED
  BY <1>1, <1>3

\* The variants of a variant are variants.
LEMMA VariantsOfVariant ==
  ASSUME NEW G, NEW started, NEW d, NEW e \in Variants(d, G, started)
  PROVE  Variants(e, G, started) = Variants(d, G, started) /\ Typed(e, G, started)
<1>1. Variants(e, G, started) = Variants(d, G, started)
  BY DEF Variants
<1> QED
  BY <1>1 DEF Typed

\* What is the same in all variants, as far as it is needed.
LEMMA VariantKeeps ==
  ASSUME NEW G, NEW started, NEW d, NEW e \in Variants(d, G, started)
  PROVE  /\ e.size = d.size /\ e.chunks = d.chunks /\ e.finished = d.finished /\ e.done = d.done
         /\ e.status = d.status /\ e.tstatus = d.tstatus /\ e.put = d.put
         /\ e.findTried = d.findTried /\ e.startTried = d.startTried /\ e.doDownload = d.doDownload
         /\ e.initialized = d.initialized /\ e.file = d.file /\ e.sizeDefined = d.sizeDefined
         /\ e.temp = d.temp /\ e.tempOff = d.tempOff /\ e.blocked = d.blocked
         /\ e.stat = d.stat /\ e.removing = d.removing /\ e.repairing = d.repairing
         /\ e.src \in Srcs(G, started) /\ e.started \subseteq Chunks /\ e.unused \in UnusedLists
         /\ e.max \in Nat /\ e.assignTried \in BOOLEAN
BY DEF Variants

LEMMA VariantFrom ==
  ASSUME NEW G, NEW started, NEW d, NEW e \in Variants(d, G, started),
         NEW src \in Srcs(G, started), NEW unused \in UnusedLists, NEW chunks \in SUBSET Chunks,
         NEW tried \in BOOLEAN, NEW max \in Nat
  PROVE  LET f == [e EXCEPT !.src = src, !.unused = unused, !.started = chunks,
                            !.assignTried = tried, !.max = max]
         IN  /\ f \in Variants(d, G, started)
             /\ f.src = src /\ f.unused = unused /\ f.started = chunks /\ f.assignTried = tried
             /\ f.max = max
BY ZenonT(30) DEF Variants

\* The segments of one mirror m change; the chunks that are fetched change likewise.
LEMMA PartedWith ==
  ASSUME NEW d, Parted(d), NEW m \in Used(d), NEW e, e.chunks = d.chunks, Used(e) = Used(d),
         \A n \in Used(d) : n # m => e.src[n] = d.src[n],
         Apart(e.src[m].segs),
         e.finished \subseteq e.started, e.started \subseteq Chunks,
         e.started \ e.finished = ((d.started \ d.finished) \ Owned(d, m)) \cup (Owned(e, m) \ {Unknown}),
         \A n \in Used(d) : n # m => Owned(e, m) \cap Owned(d, n) = {},
         d.chunks => Unknown \notin Owned(e, m),
         ~d.chunks => e.started = {}
  PROVE  Parted(e)
<1>1. \A n \in Used(d) : n # m => Owned(e, n) = Owned(d, n)
  BY DEF Owned
<1>2. PICK now : now = e.started \ e.finished
  OBVIOUS
<1>3. \A n \in Used(d) : Owned(d, n) \ {Unknown} \subseteq d.started \ d.finished
  BY DEF Parted, Loose
<1>4. \A n \in Used(d) : Owned(e, n) \ {Unknown} \subseteq now
  <2> SUFFICES ASSUME NEW n \in Used(d), NEW c \in Owned(e, n), c # Unknown PROVE c \in now
    OBVIOUS
  <2>1. CASE n = m
    BY <2>1, <1>2
  <2>2. CASE n # m
    <3>1. c \in Owned(d, n) /\ c \in d.started \ d.finished
      BY <1>1, <1>3, <2>2
    <3>2. c \notin Owned(d, m)
      BY <3>1, <2>2 DEF Parted, Loose
    <3> QED
      BY <3>1, <3>2, <1>2
  <2> QED
    BY <2>1, <2>2
<1>5. Unknown \notin Chunks
  BY UnknownIsNoChunk
<1>6. \A n \in Used(d) : Owned(e, n) \cap e.finished = {}
  <2>1. Unknown \notin e.finished
    BY <1>5
  <2> QED
    BY <1>2, <1>4, <2>1
<1>7. \A c \in now : \E n \in Used(e) : c \in Owned(e, n)
  <2> SUFFICES ASSUME NEW c \in now PROVE \E n \in Used(d) : c \in Owned(e, n)
    OBVIOUS
  <2>1. CASE c \in Owned(e, m)
    BY <2>1
  <2>2. CASE c \notin Owned(e, m)
    <3>1. c \in d.started \ d.finished /\ c \notin Owned(d, m)
      BY <2>2, <1>2
    <3>2. PICK n \in Used(d) : c \in Owned(d, n)
      BY <3>1 DEF Parted, Loose
    <3> QED
      BY <3>1, <3>2, <1>1
  <2> QED
    BY <2>1, <2>2
<1>8. \A n \in Used(e) : Apart(e.src[n].segs)
  BY DEF Parted, Loose
<1>9. \A n, k \in Used(e) : n # k => Owned(e, n) \cap Owned(e, k) = {}
  <2> SUFFICES ASSUME NEW n \in Used(d), NEW k \in Used(d), n # k
               PROVE  Owned(e, n) \cap Owned(e, k) = {}
    OBVIOUS
  <2>1. Owned(d, n) \cap Owned(d, k) = {}
    BY DEF Parted, Loose
  <2> QED
    BY <2>1, <1>1
<1>10. e.chunks => \A n \in Used(e) : Unknown \notin Owned(e, n)
  BY <1>1 DEF Parted, Loose
<1> QED
  BY <1>2, <1>4, <1>6, <1>7, <1>8, <1>9, <1>10 DEF Parted, Loose

LEMMA AddSegmentsFits ==
  ASSUME NEW G, NEW started, Closed(G, started), NEW s \in Sources(G, started), NEW r \in Ranges
  PROVE  LET t == AddSegments(s, r)
         IN  /\ t \in Sources(G, started) /\ t.segs # <<>>
             /\ OwnOf(t.segs) = OwnOf(s.segs) \cup RangeSet(r)
             /\ Apart(s.segs) /\ RangeSet(r) \cap OwnOf(s.segs) = {} => Apart(t.segs)
<1>1. PICK new : new = NewSegment(r, LastSegSize(r[2]))
  OBVIOUS
<1>2. new \in G /\ new \in Fitting /\ new \in Segments /\ Own(new) = RangeSet(r)
  BY <1>1, NewSegmentFits DEF Closed, Fitting
<1>3. PICK x : x = (IF s.started THEN StartTransfer(new) ELSE new)
  OBVIOUS
<1>4. s.started \in started /\ s.started \in BOOLEAN /\ s.segs \in Seq(G)
  BY DEF Sources, Closed
<1>5. x \in G /\ Own(x) = RangeSet(r)
  <2>1. CASE s.started
    <3>1. TRUE \in started
      BY <1>4, <2>1
    <3> QED
      BY <3>1, <2>1, <1>2, <1>3, StartTransferFits DEF Closed
  <2>2. CASE ~s.started
    BY <2>2, <1>2, <1>3
  <2> QED
    BY <2>1, <2>2
<1>6. AddSegments(s, r) = [s EXCEPT !.segs = Append(s.segs, x)]
  BY <1>1, <1>3 DEF AddSegments
<1>7. PICK q : q = Append(s.segs, x)
  OBVIOUS
<1>8. q \in Seq(G) /\ q # <<>> /\ OwnOf(q) = OwnOf(s.segs) \cup Own(x)
      /\ (Apart(s.segs) /\ Own(x) \cap OwnOf(s.segs) = {} => Apart(q))
  BY ONLY <1>4, <1>5, <1>7, OwnOfAppend
<1>9. AddSegments(s, r) \in Sources(G, started) /\ AddSegments(s, r).segs = q
  BY <1>6, <1>7, <1>8 DEF Sources
<1> QED
  BY <1>5, <1>8, <1>9

\* A run of chunks that are not started is given to m.
LEMMA GiveKeeps ==
  ASSUME NEW G, NEW started, Closed(G, started), NEW d, Typed(d, G, started), Parted(d), d.chunks,
         NEW m \in Used(d), NEW r \in Ranges, RangeSet(r) \cap d.started = {}
  PROVE  /\ Give(d, m, r) \in Variants(d, G, started) /\ Parted(Give(d, m, r))
         /\ Used(Give(d, m, r)) = Used(d)
<1>1. d.src \in Srcs(G, started) /\ d \in Variants(d, G, started)
  BY DEF Typed, Variants
<1>2. d.src[m] \in Sources(G, started) /\ DOMAIN d.src = Used(d)
  BY <1>1, SrcsAre DEF Used
<1>3. PICK t : t = AddSegments(d.src[m], r)
  OBVIOUS
<1>4. /\ t \in Sources(G, started) /\ OwnOf(t.segs) = Owned(d, m) \cup RangeSet(r)
      /\ Apart(d.src[m].segs) /\ RangeSet(r) \cap Owned(d, m) = {} => Apart(t.segs)
  BY <1>2, <1>3, AddSegmentsFits DEF Owned
<1>5. PICK src : src = [d.src EXCEPT ![m] = t]
  OBVIOUS
<1>6. src \in Srcs(G, started) /\ DOMAIN src = Used(d) /\ src[m] = t /\ \A n \in Used(d) : n # m => src[n] = d.src[n]
  BY ONLY <1>1, <1>2, <1>4, <1>5, SrcsExcept
<1>7. RangeSet(r) \subseteq Chunks
  <2>1. r[1] \in Chunks /\ r[2] \in Chunks
    BY DEF Ranges
  <2> QED
    BY <2>1, ChunksAre DEF RangeSet
<1>8. PICK A : A = d.started \cup RangeSet(r)
  OBVIOUS
<1>9. PICK e : e = Give(d, m, r)
  OBVIOUS
<1>10. e = [d EXCEPT !.started = A, !.src = src]
  BY <1>3, <1>5, <1>8, <1>9 DEF Give
<1>11. d.started \subseteq Chunks /\ A \subseteq Chunks
  BY <1>1, <1>7, <1>8 DEF Variants
<1>12. e \in Variants(d, G, started) /\ e.src = src /\ e.started = A /\ e.chunks = d.chunks
       /\ e.finished = d.finished
  BY ZenonT(30), <1>1, <1>6, <1>10, <1>11 DEF Variants
<1>13. Used(e) = Used(d) /\ Owned(e, m) = Owned(d, m) \cup RangeSet(r)
  BY <1>4, <1>6, <1>12 DEF Used, Owned
<1>14. Unknown \notin Chunks
  BY UnknownIsNoChunk
<1>15. /\ \A n \in Used(d) : Owned(d, n) \subseteq d.started /\ Owned(d, n) \cap d.finished = {}
       /\ d.finished \subseteq d.started /\ Apart(d.src[m].segs)
       /\ \A n \in Used(d) : n # m => Owned(d, n) \cap Owned(d, m) = {}
       /\ \A n \in Used(d) : Unknown \notin Owned(d, n)
  BY DEF Parted, Loose
<1>16. Parted(e)
  <2>1. Apart(e.src[m].segs)
    BY <1>4, <1>6, <1>12, <1>15
  <2>2. e.finished \subseteq e.started /\ e.started \subseteq Chunks
    BY <1>8, <1>11, <1>12, <1>15
  <2>3. \A n \in Used(d) : n # m => Owned(e, m) \cap Owned(d, n) = {}
    BY <1>13, <1>15
  <2>4. Unknown \notin Owned(e, m)
    BY <1>7, <1>13, <1>14, <1>15
  <2>5. e.started \ e.finished = ((d.started \ d.finished) \ Owned(d, m)) \cup (Owned(e, m) \ {Unknown})
    BY <1>7, <1>8, <1>12, <1>13, <1>14, <1>15
  <2>6. \A n \in Used(d) : n # m => e.src[n] = d.src[n]
    BY <1>6, <1>12
  <2> QED
    BY ONLY Parted(d), m \in Used(d), d.chunks, <1>12, <1>13, <2>1, <2>2, <2>3, <2>4, <2>5, <2>6,
            PartedWith
<1> QED
  BY <1>9, <1>12, <1>13, <1>16

LEMMA MostUnfinishedIs ==
  ASSUME NEW s, s.segs \in Seq(Fitting)
  PROVE  /\ CountUnfinishedSegments(s) \in 0 .. NumChunks
         /\ MostUnfinishedSegments(s) # 0 =>
              /\ MostUnfinishedSegments(s) \in DOMAIN s.segs
              /\ Unfinished(s.segs[MostUnfinishedSegments(s)]) > 0
         /\ CountUnfinishedSegments(s) > 0 => MostUnfinishedSegments(s) # 0
<1>1. PICK q \in Seq(Fitting) : q = s.segs
  OBVIOUS
<1>2. \A i \in DOMAIN q : Unfinished(q[i]) \in 0 .. NumChunks
  <2> SUFFICES ASSUME NEW i \in DOMAIN q PROVE Unfinished(q[i]) \in 0 .. NumChunks
    OBVIOUS
  <2>1. q[i] \in Fitting
    BY <1>1
  <2>2. q[i].cur \in Chunks /\ q[i].end \in Chunks /\ q[i].cur <= q[i].end
    BY <2>1 DEF Fitting, Segments, Counts
  <2>3. /\ q[i].cur \in Nat /\ q[i].end \in Nat /\ q[i].end < NumChunks /\ NumChunks \in Nat
    BY <2>2, ChunksAre, NumChunksIsNat
  <2> QED
    BY <2>2, <2>3 DEF Unfinished
<1>3. PICK S : S = {0} \cup {Unfinished(q[i]) : i \in DOMAIN q}
  OBVIOUS
<1>4. S \subseteq Nat /\ S # {} /\ \A x \in S : x <= NumChunks
  BY <1>2, <1>3, NumChunksIsNat
<1>5. PICK k : k = Max(S)
  OBVIOUS
<1>6. k \in S
  BY <1>4, <1>5, NumChunksIsNat, MaxOfBounded
<1>7. CountUnfinishedSegments(s) = k /\ k \in 0 .. NumChunks
  BY <1>1, <1>3, <1>4, <1>5, <1>6 DEF CountUnfinishedSegments
<1>8. ASSUME k # 0
      PROVE  /\ MostUnfinishedSegments(s) \in DOMAIN q /\ MostUnfinishedSegments(s) # 0
             /\ Unfinished(q[MostUnfinishedSegments(s)]) > 0
  <2>1. PICK I : I = {i \in DOMAIN q : Unfinished(q[i]) = k}
    OBVIOUS
  <2>2. I \subseteq Nat /\ I # {} /\ 0 \notin I
    BY <1>3, <1>6, <1>8, <2>1
  <2>3. MostUnfinishedSegments(s) = Min(I)
    BY <1>1, <1>7, <1>8, <2>1 DEF MostUnfinishedSegments
  <2>4. Min(I) \in I
    BY <2>2, MinOfNaturals
  <2> QED
    BY <1>7, <1>8, <2>1, <2>2, <2>3, <2>4
<1>9. k = 0 => MostUnfinishedSegments(s) = 0
  BY <1>7 DEF MostUnfinishedSegments
<1> QED
  BY <1>1, <1>7, <1>8, <1>9

LEMMA SplitTargetIs ==
  ASSUME NEW G, NEW started, Closed(G, started), NEW d, d.src \in Srcs(G, started), CanSplit(d)
  PROVE  SplitTarget(d) \in Used(d) /\ CountUnfinishedSegments(d.src[SplitTarget(d)]) > 0
<1>1. \A m \in Used(d) : CountUnfinishedSegments(d.src[m]) \in 0 .. NumChunks
  <2> SUFFICES ASSUME NEW m \in Used(d) PROVE CountUnfinishedSegments(d.src[m]) \in 0 .. NumChunks
    OBVIOUS
  <2>1. d.src[m].segs \in Seq(G) /\ G \subseteq Fitting
    BY SrcsAre DEF Used, Closed
  <2>2. d.src[m].segs \in Seq(Fitting)
    BY <2>1
  <2> QED
    BY <2>2, MostUnfinishedIs
<1>2. PICK S : S = {CountUnfinishedSegments(d.src[m]) : m \in Used(d)}
  OBVIOUS
<1>3. PICK x \in Used(d) : CountUnfinishedSegments(d.src[x]) > 0
  BY DEF CanSplit
<1>4. S \subseteq Nat /\ S # {} /\ (\A n \in S : n <= NumChunks) /\ NumChunks \in Nat
  BY <1>1, <1>2, <1>3, NumChunksIsNat
<1>5. PICK k \in S : \A n \in S : n <= k
  BY <1>4, MaxOfBounded
<1>6. \E t \in Used(d) : \A m \in Used(d) :
        CountUnfinishedSegments(d.src[m]) <= CountUnfinishedSegments(d.src[t])
  BY <1>2, <1>5
<1>7. /\ SplitTarget(d) \in Used(d)
      /\ \A m \in Used(d) : CountUnfinishedSegments(d.src[m]) <= CountUnfinishedSegments(d.src[SplitTarget(d)])
  BY <1>6 DEF SplitTarget
<1>8. CountUnfinishedSegments(d.src[x]) <= CountUnfinishedSegments(d.src[SplitTarget(d)])
  BY <1>3, <1>7
<1> QED
  BY <1>1, <1>3, <1>7, <1>8

\* Half of the chunks of a segment are given to m.
LEMMA SplitKeeps ==
  ASSUME NEW G, NEW started, Closed(G, started), NEW d, Typed(d, G, started), Parted(d), d.chunks,
         NEW m \in Used(d), NEW t \in Used(d), NEW i \in DOMAIN d.src[t].segs,
         Unfinished(d.src[t].segs[i]) > 0
  PROVE  /\ Split(d, t, i, m) \in Variants(d, G, started) /\ Parted(Split(d, t, i, m))
         /\ Used(Split(d, t, i, m)) = Used(d)
<1>1. d.src \in Srcs(G, started) /\ d \in Variants(d, G, started) /\ DOMAIN d.src = Used(d)
  BY DEF Typed, Variants, Used
<1>2. d.src[t] \in Sources(G, started) /\ d.src[t].segs \in Seq(G)
  BY <1>1, SrcsAre
<1>3. PICK q \in Seq(G) : q = d.src[t].segs
  BY <1>2
<1>4. PICK s \in G : s = q[i]
  BY <1>3
<1>5. s \in Fitting /\ Unfinished(s) > 0 /\ SplitSegment(s) \in G
  BY <1>3, <1>4 DEF Closed
<1>6. PICK r : r = <<s.end - Freed(s) + 1, s.end>>
  OBVIOUS
<1>7. r \in Ranges /\ RangeSet(r) = (s.end - Freed(s) + 1) .. s.end
  BY <1>5, <1>6, SplitSegmentFits DEF RangeSet
<1>8. /\ Own(SplitSegment(s)) = s.cur .. (s.end - Freed(s))
      /\ Own(s) = Own(SplitSegment(s)) \cup RangeSet(r)
  BY <1>5, <1>7, SplitSegmentFits
<1>9. Own(SplitSegment(s)) \cap RangeSet(r) = {}
  <2>1. s.end - Freed(s) \in Nat /\ s.end \in Nat /\ s.cur \in Nat
    BY <1>5, FreedIs, ChunksAre
  <2> QED
    BY <1>7, <1>8, <2>1
<1>10. PICK p : p = [q EXCEPT ![i] = SplitSegment(s)]
  OBVIOUS
<1>11. Own(s) \subseteq OwnOf(q) /\ Apart(q)
  BY <1>3, <1>4 DEF OwnOf, Parted, Loose
<1>12. p \in Seq(G) /\ Apart(p) /\ OwnOf(p) = OwnOf(q) \ RangeSet(r)
  <2>1. Own(SplitSegment(s)) \cap (OwnOf(q) \ Own(s)) = {}
    BY <1>8
  <2>2. p \in Seq(G) /\ Apart(p) /\ OwnOf(p) = (OwnOf(q) \ Own(s)) \cup Own(SplitSegment(s))
    BY <1>3, <1>4, <1>5, <1>10, <1>11, <2>1, OwnOfExcept
  <2> QED
    BY <2>2, <1>8, <1>9, <1>11
<1>13. PICK S : S = [d.src[t] EXCEPT !.segs = p]
  OBVIOUS
<1>14. S \in Sources(G, started) /\ S.segs = p
  BY <1>2, <1>12, <1>13 DEF Sources
<1>15. PICK src : src = [d.src EXCEPT ![t] = S]
  OBVIOUS
<1>16. src \in Srcs(G, started) /\ DOMAIN src = Used(d) /\ src[t] = S /\ \A n \in Used(d) : n # t => src[n] = d.src[n]
  BY ONLY <1>1, <1>14, <1>15, t \in Used(d), SrcsExcept
<1>17. PICK A : A = d.started \ RangeSet(r)
  OBVIOUS
<1>18. PICK e : e = [d EXCEPT !.src = src, !.started = A]
  OBVIOUS
<1>19. d.started \subseteq Chunks /\ A \subseteq Chunks
  BY <1>1, <1>17 DEF Variants
<1>20. e \in Variants(d, G, started) /\ e.src = src /\ e.started = A /\ e.chunks = d.chunks
       /\ e.finished = d.finished
  BY ZenonT(30), <1>1, <1>16, <1>18, <1>19 DEF Variants
<1>21. Used(e) = Used(d) /\ Owned(e, t) = Owned(d, t) \ RangeSet(r) /\ Owned(d, t) = OwnOf(q)
  BY <1>3, <1>12, <1>14, <1>16, <1>20 DEF Used, Owned
<1>22. RangeSet(r) \subseteq Owned(d, t)
  BY <1>8, <1>11, <1>21
<1>23. /\ \A n \in Used(d) : Owned(d, n) \subseteq d.started /\ Owned(d, n) \cap d.finished = {}
       /\ d.finished \subseteq d.started
       /\ \A n \in Used(d) : n # t => Owned(d, n) \cap Owned(d, t) = {}
       /\ \A n \in Used(d) : Unknown \notin Owned(d, n)
  BY DEF Parted, Loose
<1>24. Parted(e)
  <2>1. Apart(e.src[t].segs)
    BY <1>12, <1>14, <1>16, <1>20
  <2>2. e.finished \subseteq e.started /\ e.started \subseteq Chunks
    BY <1>17, <1>19, <1>20, <1>22, <1>23
  <2>3. \A n \in Used(d) : n # t => Owned(e, t) \cap Owned(d, n) = {}
    BY <1>21, <1>23
  <2>4. Unknown \notin Owned(e, t)
    BY <1>21, <1>23
  <2>5. e.started \ e.finished = ((d.started \ d.finished) \ Owned(d, t)) \cup (Owned(e, t) \ {Unknown})
    BY <1>17, <1>20, <1>21, <1>22, <1>23
  <2>6. \A n \in Used(d) : n # t => e.src[n] = d.src[n]
    BY <1>16, <1>20
  <2> QED
    BY ONLY Parted(d), t \in Used(d), d.chunks, <1>20, <1>21, <2>1, <2>2, <2>3, <2>4, <2>5, <2>6,
            PartedWith
<1>25. Split(d, t, i, m) = Give(e, m, r)
  <2>1. Split(d, t, i, m) = Give([d EXCEPT !.src = src], m, r)
    <3>1. [d EXCEPT !.src[t].segs[i] = SplitSegment(s)] = [d EXCEPT !.src = src]
      BY <1>3, <1>10, <1>13, <1>15
    <3> QED
      BY <1>3, <1>4, <1>6, <3>1 DEF Split
  <2>2. A \cup RangeSet(r) = d.started \cup RangeSet(r)
    BY <1>17
  <2>3. Give([d EXCEPT !.src = src], m, r) = Give(e, m, r)
    <3>1. PICK s2 : s2 = AddSegments(src[m], r)
      OBVIOUS
    <3>2. PICK f : f = [d EXCEPT !.src = src]
      OBVIOUS
    <3>3. Give(f, m, r) = [f EXCEPT !.started = d.started \cup RangeSet(r), !.src = [src EXCEPT ![m] = s2]]
      BY <1>1, <3>1, <3>2 DEF Give, Variants
    <3>4. Give(e, m, r) = [e EXCEPT !.started = A \cup RangeSet(r), !.src = [src EXCEPT ![m] = s2]]
      BY <1>20, <3>1 DEF Give, Variants
    <3>5. PICK X, Y : X = d.started \cup RangeSet(r) /\ Y = [src EXCEPT ![m] = s2]
      OBVIOUS
    <3>6. Give(f, m, r) = [d EXCEPT !.started = X, !.src = Y]
      <4>1. Give(f, m, r) = [f EXCEPT !.started = X, !.src = Y]
        BY <3>3, <3>5
      <4> QED
        BY ONLY <4>1, <3>2
    <3>7. Give(e, m, r) = [d EXCEPT !.started = X, !.src = Y]
      <4>1. Give(e, m, r) = [e EXCEPT !.started = X, !.src = Y]
        BY <2>2, <3>4, <3>5
      <4> QED
        BY ONLY <4>1, <1>18
    <3> QED
      BY ONLY <3>2, <3>6, <3>7
  <2> QED
    BY <2>1, <2>3
<1>26. Typed(e, G, started) /\ Variants(e, G, started) = Variants(d, G, started)
  BY <1>20, VariantsOfVariant
<1>27. RangeSet(r) \cap e.started = {} /\ e.chunks
  BY <1>17, <1>20
<1>28. /\ Give(e, m, r) \in Variants(e, G, started) /\ Parted(Give(e, m, r)) /\ Used(Give(e, m, r)) = Used(e)
  <2>1. m \in Used(e)
    BY <1>21
  <2>2. r \in Ranges
    BY <1>7
  <2>3. Typed(e, G, started)
    BY <1>26
  <2>4. RangeSet(r) \cap e.started = {}
    BY <1>27
  <2>5. e.chunks
    BY <1>27
  <2>6. Closed(G, started)
    OBVIOUS
  <2> QED
    BY ONLY <1>24, <2>1, <2>2, <2>3, <2>4, <2>5, <2>6, GiveKeeps
<1> QED
  BY <1>21, <1>25, <1>26, <1>28

LEMMA FirstUnstartedIs ==
  ASSUME NEW d, d.started \subseteq Chunks, d.started # Chunks
  PROVE  FirstUnstarted(d) \in Ranges /\ RangeSet(FirstUnstarted(d)) \cap d.started = {}
<1>1. PICK first : first = Min(Chunks \ d.started)
  OBVIOUS
<1>2. Chunks \ d.started \subseteq Nat /\ Chunks \ d.started # {}
  BY ChunksAre
<1>3. first \in Chunks /\ first \notin d.started /\ first \in Nat
  BY <1>1, <1>2, MinOfNaturals
<1>4. PICK C : C = {c \in Chunks : \A b \in first .. c : b \notin d.started}
  OBVIOUS
<1>5. first \in C /\ C \subseteq Nat /\ C # {}
  <2>1. \A b \in first .. first : b = first
    BY <1>3
  <2> QED
    BY <1>3, <1>4, <2>1, ChunksAre
<1>6. \A c \in C : c <= NumChunks
  <2>1. \A c \in C : c \in Nat /\ c < NumChunks
    BY <1>4, <1>5, ChunksAre
  <2> QED
    BY <2>1, NumChunksIsNat
<1>7. PICK last : last = Max(C)
  OBVIOUS
<1>8. last \in C /\ first <= last
  BY <1>5, <1>6, <1>7, NumChunksIsNat, MaxOfBounded
<1>9. FirstUnstarted(d) = <<first, last>>
  BY <1>1, <1>4, <1>7 DEF FirstUnstarted
<1>10. last \in Chunks /\ \A b \in first .. last : b \notin d.started
  BY <1>4, <1>8
<1> QED
  BY <1>3, <1>8, <1>9, <1>10 DEF Ranges, RangeSet

LEMMA AssignOnceKeeps ==
  ASSUME NEW G, NEW started, Closed(G, started), NEW d, Typed(d, G, started), Parted(d), d.chunks,
         NEW m \in Used(d)
  PROVE  /\ AssignOnce(d, m) \in Variants(d, G, started) /\ Parted(AssignOnce(d, m))
         /\ Used(AssignOnce(d, m)) = Used(d)
<1>1. d \in Variants(d, G, started) /\ d.src \in Srcs(G, started) /\ d.started \subseteq Chunks
  BY DEF Typed, Variants
<1>2. CASE AssignOnce(d, m) = d
  BY <1>1, <1>2
<1>3. CASE d.started # Chunks /\ AssignOnce(d, m) = Give(d, m, FirstUnstarted(d))
  <2>1. PICK r : r = FirstUnstarted(d)
    OBVIOUS
  <2>2. r \in Ranges
    BY <1>1, <1>3, <2>1, FirstUnstartedIs
  <2>3. RangeSet(r) \cap d.started = {}
    BY <1>1, <1>3, <2>1, FirstUnstartedIs
  <2>4. /\ Give(d, m, r) \in Variants(d, G, started) /\ Parted(Give(d, m, r))
        /\ Used(Give(d, m, r)) = Used(d)
    BY ONLY Closed(G, started), Typed(d, G, started), Parted(d), d.chunks, m \in Used(d), <2>2, <2>3,
            GiveKeeps
  <2> QED
    BY <1>3, <2>1, <2>4
<1>4. CASE CanSplit(d) /\ AssignOnce(d, m) = SplitOf(d, SplitTarget(d), m)
  <2>1. PICK t : t = SplitTarget(d)
    OBVIOUS
  <2>2. t \in Used(d) /\ CountUnfinishedSegments(d.src[t]) > 0
    BY <1>1, <1>4, <2>1, SplitTargetIs
  <2>3. d.src[t].segs \in Seq(G) /\ G \subseteq Fitting
    BY <1>1, <2>2, SrcsAre DEF Used, Closed
  <2>4. PICK i : i = MostUnfinishedSegments(d.src[t])
    OBVIOUS
  <2>5. d.src[t].segs \in Seq(Fitting)
    BY <2>3
  <2>6. i \in DOMAIN d.src[t].segs /\ Unfinished(d.src[t].segs[i]) > 0
    BY <2>2, <2>4, <2>5, MostUnfinishedIs
  <2>7. i \in DOMAIN d.src[t].segs
    BY <2>6
  <2>8. Unfinished(d.src[t].segs[i]) > 0
    BY <2>6
  <2>9. t \in Used(d)
    BY <2>2
  <2>10. /\ Split(d, t, i, m) \in Variants(d, G, started) /\ Parted(Split(d, t, i, m))
         /\ Used(Split(d, t, i, m)) = Used(d)
    BY ONLY Closed(G, started), Typed(d, G, started), Parted(d), d.chunks, m \in Used(d), <2>7, <2>8,
            <2>9, SplitKeeps
  <2>11. AssignOnce(d, m) = Split(d, t, i, m)
    BY <1>4, <2>1, <2>4 DEF SplitOf
  <2> QED
    BY <2>10, <2>11
<1>5. \/ AssignOnce(d, m) = d
      \/ d.started # Chunks /\ AssignOnce(d, m) = Give(d, m, FirstUnstarted(d))
      \/ CanSplit(d) /\ AssignOnce(d, m) = SplitOf(d, SplitTarget(d), m)
  BY DEF AssignOnce
<1> QED
  BY <1>2, <1>3, <1>4, <1>5

\* assignSegments calls itself.
LEMMA AssignOnceInTurn ==
  ASSUME NEW G, NEW started, Closed(G, started), NEW d, Typed(d, G, started), Parted(d), d.chunks,
         NEW m \in Used(d), NEW N \in Nat
  PROVE  LET e == InTurn(AssignOnce, d, [n \in 1 .. N |-> m])
         IN  e \in Variants(d, G, started) /\ Parted(e) /\ Used(e) = Used(d)
<1> DEFINE D == {x \in Variants(d, G, started) : Parted(x) /\ Used(x) = Used(d)}
<1>1. PICK s : s = [n \in 1 .. N |-> m]
  OBVIOUS
<1>2. Len(s) = N /\ \A n \in 1 .. N : s[n] = m
  <2>1. s \in Seq({m})
    BY <1>1
  <2> QED
    BY <1>1, <2>1
<1>3. ASSUME NEW x \in D PROVE AssignOnce(x, m) \in D
  <2>1. Variants(x, G, started) = Variants(d, G, started) /\ Typed(x, G, started)
    BY VariantsOfVariant
  <2>2. x.chunks
    BY VariantKeeps
  <2>3. m \in Used(x) /\ Parted(x)
    OBVIOUS
  <2>4. Typed(x, G, started)
    BY <2>1
  <2>5. Closed(G, started)
    OBVIOUS
  <2>6. m \in Used(x)
    BY <2>3
  <2>7. Parted(x)
    BY <2>3
  <2>8. /\ AssignOnce(x, m) \in Variants(x, G, started) /\ Parted(AssignOnce(x, m))
        /\ Used(AssignOnce(x, m)) = Used(x)
    BY ONLY <2>2, <2>4, <2>5, <2>6, <2>7, AssignOnceKeeps
  <2> QED
    BY <2>1, <2>8
<1>4. d \in D
  BY DEF Typed
<1> HIDE DEF D
<1> DEFINE Is(c) == c = [n \in 0 .. Len(s) |-> IF n = 0 THEN d ELSE AssignOnce(c[n - 1], s[n])]
<1>5. \E c : Is(c)
  <2>1. PICK T : T = [n \in 0 .. N |-> D]
    OBVIOUS
  <2>2. PICK F : F = [n \in 1 .. N |-> [x \in D |-> AssignOnce(x, m)]]
    OBVIOUS
  <2>3. CallsLead(N, T, F)
    BY <1>3, <2>1, <2>2 DEF CallsLead
  <2>4. d \in T[0]
    BY <1>4, <2>1
  <2>a. N \in Nat
    OBVIOUS
  <2>5. PICK c : CallsAre(N, F, d, c) /\ \A n \in 0 .. N : c[n] \in T[n]
    BY ONLY <2>3, <2>4, <2>a, TurnsExist
  <2>6. \A n \in 0 .. N : c[n] = IF n = 0 THEN d ELSE F[n][c[n - 1]]
    BY <2>5 DEF CallsAre
  <2>7. ASSUME NEW n \in 0 .. N, n # 0 PROVE F[n][c[n - 1]] = AssignOnce(c[n - 1], s[n])
    <3>1. n \in 1 .. N /\ n - 1 \in 0 .. N
      BY <2>7
    <3>2. c[n - 1] \in D
      BY <3>1, <2>1, <2>5
    <3> QED
      BY <3>1, <3>2, <2>2, <1>2
  <2>8. c = [n \in 0 .. N |-> IF n = 0 THEN d ELSE AssignOnce(c[n - 1], s[n])]
    <3>1. c = [n \in 0 .. N |-> c[n]]
      BY <2>5 DEF CallsAre
    <3> QED
      BY <3>1, <2>6, <2>7
  <2>9. Is(c)
    BY <2>8, <1>2
  <2> QED
    BY <2>9
<1>6. PICK c : c = CHOOSE f : Is(f)
  OBVIOUS
<1>7. Is(c)
  <2> HIDE DEF Is
  <2> QED
    BY <1>5, <1>6
<1>8. InTurn(AssignOnce, d, s) = c[N]
  BY <1>2, <1>6 DEF InTurn
<1>9. 0 .. N \subseteq {n \in 0 .. N : c[n] \in D}
  <2>1. PICK T : T = {n \in 0 .. N : c[n] \in D}
    OBVIOUS
  <2>2. 0 \in T
    BY <1>2, <1>4, <1>7, <2>1
  <2>3. ASSUME NEW n \in 1 .. N, n - 1 \in T PROVE n \in T
    <3>1. c[n] = AssignOnce(c[n - 1], m)
      BY <1>2, <1>7
    <3> QED
      BY <2>1, <2>3, <3>1, <1>3
  <2>4. 0 .. N \subseteq T
    BY ONLY <2>2, <2>3, N \in Nat, Counting
  <2> QED
    BY <2>1, <2>4
<1>10. c[N] \in D
  BY <1>9
<1> QED
  BY <1>1, <1>8, <1>10 DEF D

LEMMA PartedSame ==
  ASSUME NEW d, NEW e, e.chunks = d.chunks, e.src = d.src, e.started = d.started,
         e.finished = d.finished
  PROVE  Used(e) = Used(d) /\ (Parted(d) => Parted(e)) /\ (Loose(d) => Loose(e))
BY DEF Parted, Loose, Owned, Used

\* assignSegments: m may get chunks, and nothing else changes.
LEMMA AssignSegmentsKeeps ==
  ASSUME NEW G, NEW started, Closed(G, started), NEW d, Typed(d, G, started), Parted(d),
         NEW m \in Used(d)
  PROVE  /\ AssignSegments(d, m) \in Variants(d, G, started) /\ Parted(AssignSegments(d, m))
         /\ Used(AssignSegments(d, m)) = Used(d)
<1>1. CASE ~d.chunks
  <2>1. AssignSegments(d, m) = [d EXCEPT !.assignTried = TRUE]
    BY <1>1 DEF AssignSegments
  <2>2. PICK e : e = [d EXCEPT !.assignTried = TRUE]
    OBVIOUS
  <2>3. e \in Variants(d, G, started) /\ e.src = d.src /\ e.started = d.started
        /\ e.finished = d.finished /\ e.chunks = d.chunks
    BY ZenonT(30), <2>2 DEF Typed, Variants
  <2>4. Parted(e) /\ Used(e) = Used(d)
    BY <2>3, PartedSame
  <2> QED
    BY <2>1, <2>2, <2>3, <2>4
<1>2. CASE d.chunks
  <2>1. NumChunks + 1 \in Nat
    BY NumChunksIsNat
  <2>2. PICK N \in Nat : N = NumChunks + 1
    BY <2>1
  <2>3. PICK e : e = InTurn(AssignOnce, d, [n \in 1 .. N |-> m])
    OBVIOUS
  <2>4. m \in Used(d)
    OBVIOUS
  <2>5. e \in Variants(d, G, started) /\ Parted(e) /\ Used(e) = Used(d)
    BY ONLY Closed(G, started), Typed(d, G, started), Parted(d), <1>2, <2>2, <2>3, <2>4, AssignOnceInTurn
  <2>6. AssignSegments(d, m) = e
    BY <1>2, <2>2, <2>3 DEF AssignSegments
  <2> QED
    BY <2>5, <2>6
<1> QED
  BY <1>1, <1>2

\* Somebody is known who may fetch the file.
Known(d) == Used(d) # {} \/ d.unused # <<>>

\* The first mirror gets chunks only when nobody fetches any.
LEMMA AssignFirstKeeps ==
  ASSUME NEW G, NEW started, Closed(G, started), NEW d, Typed(d, G, started), Loose(d)
  PROVE  LET e == AssignFirst(d)
         IN  /\ e \in Variants(d, G, started) /\ Loose(e) /\ (Parted(d) => Parted(e))
             /\ Used(e) = Used(d) /\ (Known(d) => Known(e))
<1>1. CASE ~(AssignNeeded(d) /\ Used(d) # {})
  <2>1. AssignFirst(d) = d
    BY <1>1 DEF AssignFirst
  <2> QED
    BY <2>1 DEF Typed
<1>2. CASE AssignNeeded(d) /\ Used(d) # {}
  <2>1. PICK m : m = UsedInOrder(d)[1]
    OBVIOUS
  <2>2. IsFiniteSet(Used(d))
    <3>1. d.src \in Srcs(G, started)
      BY DEF Typed, Variants
    <3> QED
      BY <3>1, SrcsAre DEF Used
  <2>3. m \in Used(d)
    BY <1>2, <2>1, <2>2, SetToSeqIs DEF UsedInOrder
  <2>4. Parted(d)
    <3>1. \A n \in Used(d) : Owned(d, n) = {}
      BY <1>2, OwnOfNone DEF AssignNeeded, Owned
    <3> QED
      BY <3>1 DEF Parted
  <2>5. PICK e : e = AssignSegments(d, m)
    OBVIOUS
  <2>6. e \in Variants(d, G, started) /\ Parted(e) /\ Used(e) = Used(d)
    BY ONLY Closed(G, started), Typed(d, G, started), <2>3, <2>4, <2>5, AssignSegmentsKeeps
  <2>7. AssignFirst(d) = e
    BY <1>2, <2>1, <2>5 DEF AssignFirst
  <2> QED
    BY <1>2, <2>6, <2>7 DEF Known, Parted
<1> QED
  BY <1>1, <1>2

LEMMA ReassignKeeps ==
  ASSUME NEW G, NEW started, Closed(G, started), NEW d, Typed(d, G, started), Loose(d)
  PROVE  LET e == Reassign(d)
         IN  /\ e \in Variants(d, G, started) /\ Loose(e) /\ (Parted(d) => Parted(e))
             /\ Used(e) = Used(d) /\ (Known(d) => Known(e))
<1>1. CASE d.status = "Running"
  BY <1>1, AssignFirstKeeps DEF Reassign
<1>2. CASE d.status # "Running"
  BY <1>2 DEF Reassign, Typed
<1> QED
  BY <1>1, <1>2

\* Stopping a mirror drops the segment that looks for the size, and every job.
LEMMA StopSourceFits ==
  ASSUME NEW G, NEW started, Closed(G, started), NEW s \in Sources(G, started), Apart(s.segs)
  PROVE  LET t == StopSource(s)
         IN  /\ t \in Sources(G, started) /\ t.par = s.par /\ ~t.started
             /\ Apart(t.segs) /\ OwnOf(t.segs) = OwnOf(s.segs) \ {Unknown}
             /\ UNION {RangeSet(r) : r \in AssignedSegments(t)} = OwnOf(t.segs)
             /\ \A i \in DOMAIN t.segs :
                  /\ t.segs[i].job = "none" /\ ~t.segs[i].finding
                  /\ \E j \in DOMAIN s.segs : t.segs[i] = StopTransfer(s.segs[j])
<1>1. PICK q \in Seq(G) : q = s.segs
  BY DEF Sources
<1>2. PICK k : k = (IF Finding(s) = {} THEN q ELSE RemoveAt(q, Min(Finding(s))))
  OBVIOUS
<1>3. G \subseteq Fitting /\ G \subseteq Segments
  BY DEF Closed, Fitting
<1>4. \A i \in DOMAIN q : q[i] \in G /\ q[i] \in Fitting /\ q[i] \in Segments
  BY <1>1, <1>3
<1>5. \A i \in DOMAIN q : Unknown \in Own(q[i]) <=> q[i].finding
  <2> SUFFICES ASSUME NEW i \in DOMAIN q PROVE Unknown \in Own(q[i]) <=> q[i].finding
    OBVIOUS
  <2>1. q[i].cur \in Chunks /\ q[i].end \in Chunks
    BY <1>4 DEF Segments
  <2>2. PICK a \in Nat, b \in Nat : a = q[i].cur /\ b = q[i].end
    BY <2>1, ChunksAre
  <2>3. Unknown \notin a .. b
    BY DEF Unknown
  <2> QED
    BY <2>2, <2>3 DEF Own
<1>6. /\ k \in Seq(G) /\ Apart(k) /\ OwnOf(k) = OwnOf(q) \ {Unknown}
      /\ \A i \in DOMAIN k : ~k[i].finding /\ \E j \in DOMAIN q : k[i] = q[j]
  <2>1. CASE Finding(s) = {}
    <3>1. \A i \in DOMAIN q : ~q[i].finding
      BY <1>1, <2>1 DEF Finding
    <3>2. Unknown \notin OwnOf(q)
      BY <3>1, <1>5 DEF OwnOf
    <3> QED
      BY <1>1, <1>2, <2>1, <3>1, <3>2
  <2>2. CASE Finding(s) # {}
    <3>1. PICK i : i = Min(Finding(s))
      OBVIOUS
    <3>2. i \in Finding(s)
      <4>1. Finding(s) \subseteq Nat
        BY <1>1 DEF Finding
      <4> QED
        BY <2>2, <3>1, <4>1, MinOfNaturals
    <3>3. i \in DOMAIN q /\ q[i].finding
      BY <1>1, <3>2 DEF Finding
    <3>4. k = RemoveAt(q, i)
      BY <1>2, <2>2, <3>1
    <3>5. /\ RemoveAt(q, i) \in Seq(G)
          /\ \A n \in DOMAIN RemoveAt(q, i) : \E j \in DOMAIN q : j # i /\ RemoveAt(q, i)[n] = q[j]
          /\ Apart(q) => Apart(RemoveAt(q, i)) /\ OwnOf(RemoveAt(q, i)) = OwnOf(q) \ Own(q[i])
      <4>1. i \in DOMAIN q
        BY <3>3
      <4> QED
        BY ONLY <1>1, <4>1, OwnOfRemoveAt
    <3>6. Own(q[i]) = {Unknown}
      BY <3>3 DEF Own
    <3>7. \A j \in DOMAIN q : j # i => ~q[j].finding
      <4> SUFFICES ASSUME NEW j \in DOMAIN q, j # i, q[j].finding PROVE FALSE
        OBVIOUS
      <4>1. Own(q[j]) = {Unknown}
        BY DEF Own
      <4> QED
        BY <1>1, <3>3, <3>6, <4>1 DEF Apart
    <3>8. \A n \in DOMAIN k : ~k[n].finding /\ \E j \in DOMAIN q : k[n] = q[j]
      <4> SUFFICES ASSUME NEW n \in DOMAIN k PROVE ~k[n].finding /\ \E j \in DOMAIN q : k[n] = q[j]
        OBVIOUS
      <4>1. PICK j \in DOMAIN q : j # i /\ k[n] = q[j]
        BY <3>4, <3>5
      <4> QED
        BY <4>1, <3>7
    <3> QED
      BY <1>1, <3>4, <3>5, <3>6, <3>8
  <2> QED
    BY <2>1, <2>2
<1>7. PICK t : t = [i \in DOMAIN k |-> StopTransfer(k[i])]
  OBVIOUS
<1>8. \A i \in DOMAIN k : k[i] \in G /\ k[i] \in Segments /\ ~k[i].finding
  BY <1>3, <1>6
<1>9. \A i \in DOMAIN k : StopTransfer(k[i]) \in G /\ Own(StopTransfer(k[i])) = Own(k[i])
        /\ StopTransfer(k[i]).job = "none" /\ StopTransfer(k[i]).finding = k[i].finding
  <2> SUFFICES ASSUME NEW i \in DOMAIN k
               PROVE  /\ StopTransfer(k[i]) \in G /\ Own(StopTransfer(k[i])) = Own(k[i])
                      /\ StopTransfer(k[i]).job = "none" /\ StopTransfer(k[i]).finding = k[i].finding
    OBVIOUS
  <2>1. PICK x \in G : x = k[i] /\ x \in Segments /\ ~x.finding
    BY <1>8
  <2>2. StopTransfer(x) \in G
    BY <2>1 DEF Closed
  <2>3. /\ StopTransfer(x) = [x EXCEPT !.job = "none", !.running = FALSE, !.buf = StopTransfer(x).buf]
        /\ Own(StopTransfer(x)) = Own(x)
    BY <2>1, StopTransferFits
  <2>4. StopTransfer(x).job = "none" /\ StopTransfer(x).finding = x.finding
    BY <2>1, <2>3 DEF Segments
  <2> QED
    BY <2>1, <2>2, <2>3, <2>4
<1>10. t \in Seq(G) /\ DOMAIN t = DOMAIN k /\ OwnOf(t) = OwnOf(k) /\ Apart(t)
  <2>1. t \in Seq(G) /\ DOMAIN t = DOMAIN k
    BY <1>6, <1>7, <1>9
  <2>2. \A i \in DOMAIN k : Own(t[i]) = Own(k[i])
    BY <1>7, <1>9
  <2>3. OwnOf(t) = OwnOf(k) /\ (Apart(k) => Apart(t))
    BY ONLY <2>1, <2>2, OwnOfSame
  <2> QED
    BY <1>6, <2>1, <2>3
<1>11. StopSource(s) = [s EXCEPT !.started = FALSE, !.segs = t]
  BY <1>1, <1>2, <1>7 DEF StopSource
<1>12. PICK e : e = StopSource(s)
  OBVIOUS
<1>13. e \in Sources(G, started) /\ e.par = s.par /\ ~e.started /\ e.segs = t
  BY <1>10, <1>11, <1>12 DEF Sources, Closed
<1>14. \A i \in DOMAIN t : Own(t[i]) = t[i].cur .. t[i].end
  BY <1>6, <1>7, <1>9 DEF Own
<1>15. UNION {RangeSet(r) : r \in AssignedSegments(e)} = OwnOf(t)
  <2>1. AssignedSegments(e) = {<<t[i].cur, t[i].end>> : i \in DOMAIN t}
    BY <1>13 DEF AssignedSegments
  <2>2. {RangeSet(r) : r \in AssignedSegments(e)} = {t[i].cur .. t[i].end : i \in DOMAIN t}
    <3>1. \A i \in DOMAIN t : RangeSet(<<t[i].cur, t[i].end>>) = t[i].cur .. t[i].end
      BY DEF RangeSet
    <3> QED
      BY ZenonT(30), <2>1, <3>1
  <2> QED
    BY <2>2, <1>14 DEF OwnOf
<1>16. \A i \in DOMAIN t : t[i].job = "none" /\ ~t[i].finding
                           /\ \E j \in DOMAIN q : t[i] = StopTransfer(q[j])
  BY <1>6, <1>7, <1>9, <1>10
<1> QED
  BY <1>1, <1>6, <1>10, <1>12, <1>13, <1>15, <1>16

\* What a mirror leaves when it is removed: its chunks are free again.
LEMMA DetachKeeps ==
  ASSUME NEW G, NEW started, Closed(G, started), NEW d, Typed(d, G, started), Loose(d),
         NEW m \in Used(d)
  PROVE  LET e == Detach(d, m, StopSource(d.src[m]))
         IN  /\ e \in Variants(d, G, started) /\ Loose(e) /\ (Parted(d) => Parted(e))
             /\ Used(e) = Used(d) \ {m} /\ e.unused # <<>>
<1>1. d.src \in Srcs(G, started) /\ d \in Variants(d, G, started) /\ d.unused \in UnusedLists
  BY DEF Typed, Variants
<1>2. /\ DOMAIN d.src = Used(d) /\ d.src[m] \in Sources(G, started) /\ Used(d) \subseteq Mirrors
      /\ \A n \in Used(d) : d.src[n] \in Sources(G, started)
  BY <1>1, SrcsAre DEF Used
<1>3. PICK s : s = d.src[m]
  OBVIOUS
<1>4. PICK t : t = StopSource(s)
  OBVIOUS
<1>5. Apart(s.segs) /\ OwnOf(s.segs) = Owned(d, m)
  BY <1>3 DEF Loose, Owned
<1>6. s \in Sources(G, started)
  BY <1>2, <1>3
<1>7. t.par = s.par /\ UNION {RangeSet(r) : r \in AssignedSegments(t)} = Owned(d, m) \ {Unknown}
  <2>1. /\ t.par = s.par /\ OwnOf(t.segs) = OwnOf(s.segs) \ {Unknown}
        /\ UNION {RangeSet(r) : r \in AssignedSegments(t)} = OwnOf(t.segs)
    BY ONLY Closed(G, started), <1>4, <1>5, <1>6, StopSourceFits
  <2> QED
    BY <2>1, <1>5
<1>8. s.par \in Nat
  BY <1>6 DEF Sources
<1>9. PICK src : src = [x \in Used(d) \ {m} |-> d.src[x]]
  OBVIOUS
<1>10. src \in Srcs(G, started) /\ DOMAIN src = Used(d) \ {m}
  <2>1. Used(d) \ {m} \in SUBSET Mirrors /\ src \in [Used(d) \ {m} -> Sources(G, started)]
    BY <1>2, <1>9
  <2>2. src \in Srcs(G, started)
    BY ONLY <2>1, SrcsFrom
  <2> QED
    BY <2>1, <2>2
<1>11. PICK unused : unused = Append(d.unused, <<m, t.par>>)
  OBVIOUS
<1>12. unused \in UnusedLists /\ unused # <<>>
  <2>1. <<m, t.par>> \in Mirrors \X Nat
    BY <1>2, <1>7, <1>8
  <2> QED
    BY <2>1, <1>1, <1>11 DEF UnusedLists
<1>13. PICK A : A = d.started \ Owned(d, m)
  OBVIOUS
<1>14. Unknown \notin d.started /\ d.started \subseteq Chunks
  BY UnknownIsNoChunk DEF Loose
<1>15. A = d.started \ (Owned(d, m) \ {Unknown}) /\ A \subseteq Chunks
  BY <1>13, <1>14
<1>16. PICK e : e = Detach(d, m, t)
  OBVIOUS
<1>17. e = [d EXCEPT !.src = src, !.unused = unused, !.started = A]
  BY <1>7, <1>9, <1>11, <1>15, <1>16 DEF Detach
<1>18. /\ e \in Variants(d, G, started) /\ e.src = src /\ e.unused = unused /\ e.started = A
       /\ e.finished = d.finished /\ e.chunks = d.chunks
  BY ZenonT(30), <1>1, <1>10, <1>12, <1>15, <1>17 DEF Variants
<1>19. Used(e) = Used(d) \ {m} /\ \A n \in Used(e) : e.src[n] = d.src[n] /\ Owned(e, n) = Owned(d, n)
  BY <1>9, <1>10, <1>18 DEF Used, Owned
<1>20. Loose(e)
  <2>1. e.finished \subseteq e.started /\ e.started \subseteq Chunks
    BY <1>13, <1>15, <1>18 DEF Loose
  <2>2. \A n \in Used(e) : Apart(e.src[n].segs) /\ Owned(e, n) \cap e.finished = {}
    BY <1>18, <1>19 DEF Loose
  <2>3. \A n, k \in Used(e) : n # k => Owned(e, n) \cap Owned(e, k) = {}
    BY <1>19 DEF Loose
  <2>4. \A c \in e.started \ e.finished : \E n \in Used(e) : c \in Owned(e, n)
    <3> SUFFICES ASSUME NEW c \in e.started \ e.finished PROVE \E n \in Used(e) : c \in Owned(e, n)
      OBVIOUS
    <3>1. c \in d.started \ d.finished /\ c \notin Owned(d, m)
      BY <1>13, <1>18
    <3>2. PICK n \in Used(d) : c \in Owned(d, n)
      BY <3>1 DEF Loose
    <3> QED
      BY <3>1, <3>2, <1>19
  <2>5. e.chunks => \A n \in Used(e) : Unknown \notin Owned(e, n)
    BY <1>18, <1>19 DEF Loose
  <2>6. ~e.chunks => e.started = {}
    BY <1>13, <1>18 DEF Loose
  <2> QED
    BY <2>1, <2>2, <2>3, <2>4, <2>5, <2>6 DEF Loose
<1>21. Parted(d) => Parted(e)
  <2> SUFFICES ASSUME Parted(d), NEW n \in Used(e) PROVE Owned(e, n) \ {Unknown} \subseteq e.started
    BY <1>20 DEF Parted
  <2>1. Owned(d, n) \ {Unknown} \subseteq d.started /\ Owned(d, n) \cap Owned(d, m) = {}
    BY <1>19 DEF Parted, Loose
  <2> QED
    BY <2>1, <1>13, <1>18, <1>19
<1> QED
  BY <1>3, <1>4, <1>12, <1>16, <1>18, <1>19, <1>20, <1>21

LEMMA RemoveMirrorKeeps ==
  ASSUME NEW G, NEW started, Closed(G, started), NEW d, Typed(d, G, started), Loose(d), NEW m
  PROVE  LET e == RemoveMirror(d, m)
         IN  /\ e \in Variants(d, G, started) /\ Loose(e) /\ (Parted(d) => Parted(e))
             /\ Used(e) = Used(d) \ {m} /\ (Known(d) => Known(e))
<1>1. CASE m \notin Used(d)
  <2>1. RemoveMirror(d, m) = Reassign(d)
    BY <1>1 DEF RemoveMirror
  <2> QED
    BY <2>1, <1>1, ReassignKeeps
<1>2. CASE m \in Used(d)
  <2>1. PICK f : f = Detach(d, m, StopSource(d.src[m]))
    OBVIOUS
  <2>2. /\ f \in Variants(d, G, started) /\ Loose(f) /\ (Parted(d) => Parted(f))
        /\ Used(f) = Used(d) \ {m} /\ f.unused # <<>>
    BY ONLY Closed(G, started), Typed(d, G, started), Loose(d), <1>2, <2>1, DetachKeeps
  <2>3. Variants(f, G, started) = Variants(d, G, started) /\ Typed(f, G, started)
    BY <2>2, VariantsOfVariant
  <2>4. PICK e : e = Reassign(f)
    OBVIOUS
  <2>5. Loose(f)
    BY <2>2
  <2>6. Typed(f, G, started)
    BY <2>3
  <2>7. /\ e \in Variants(f, G, started) /\ Loose(e) /\ (Parted(f) => Parted(e))
        /\ Used(e) = Used(f) /\ (Known(f) => Known(e))
    BY ONLY Closed(G, started), <2>4, <2>5, <2>6, ReassignKeeps
  <2>8. Known(f)
    BY <2>2 DEF Known
  <2>9. RemoveMirror(d, m) = e
    BY <1>2, <2>1, <2>4 DEF RemoveMirror
  <2> QED
    BY <2>2, <2>3, <2>7, <2>8, <2>9
<1> QED
  BY <1>1, <1>2

LEMMA RemoveMirrorInTurn ==
  ASSUME NEW G, NEW started, Closed(G, started), NEW d, Typed(d, G, started), Loose(d),
         NEW s, NEW S, s \in Seq(S)
  PROVE  LET e == InTurn(RemoveMirror, d, s)
         IN  /\ e \in Variants(d, G, started) /\ Loose(e) /\ (Parted(d) => Parted(e))
             /\ Used(e) = Used(d) \ {s[n] : n \in 1 .. Len(s)} /\ (Known(d) => Known(e))
<1> DEFINE D(n) == {x \in Variants(d, G, started) :
                      /\ Loose(x) /\ (Parted(d) => Parted(x)) /\ (Known(d) => Known(x))
                      /\ Used(x) = Used(d) \ {s[k] : k \in 1 .. n}}
<1>s. Len(s) \in Nat
  OBVIOUS
<1>i. ASSUME NEW n \in 1 .. Len(s), NEW x \in D(n - 1) PROVE RemoveMirror(x, s[n]) \in D(n)
  <2>1. Variants(x, G, started) = Variants(d, G, started) /\ Typed(x, G, started)
    BY VariantsOfVariant
  <2>2. Typed(x, G, started)
    BY <2>1
  <2>3. Loose(x)
    OBVIOUS
  <2>4. PICK m : m = s[n]
    OBVIOUS
  <2>5. PICK e : e = RemoveMirror(x, m)
    OBVIOUS
  <2>6. /\ e \in Variants(x, G, started) /\ Loose(e) /\ (Parted(x) => Parted(e))
        /\ Used(e) = Used(x) \ {m} /\ (Known(x) => Known(e))
    BY ONLY Closed(G, started), <2>2, <2>3, <2>5, RemoveMirrorKeeps
  <2>7. {s[k] : k \in 1 .. n} = {s[k] : k \in 1 .. (n - 1)} \cup {m}
    <3>1. 1 .. n = 1 .. (n - 1) \cup {n}
      BY <1>s
    <3> QED
      BY <2>4, <3>1
  <2>8. Used(e) = Used(d) \ {s[k] : k \in 1 .. n}
    <3>1. Used(x) = Used(d) \ {s[k] : k \in 1 .. (n - 1)}
      OBVIOUS
    <3> QED
      BY ONLY <2>6, <2>7, <3>1
  <2> QED
    BY <2>1, <2>4, <2>5, <2>6, <2>8
<1>d. d \in D(0)
  <2>1. {s[k] : k \in 1 .. 0} = {}
    OBVIOUS
  <2> QED
    BY <2>1 DEF Typed
<1> HIDE DEF D
<1> DEFINE Is(c) == c = [n \in 0 .. Len(s) |-> IF n = 0 THEN d ELSE RemoveMirror(c[n - 1], s[n])]
<1>n. Len(s) \in Nat
  BY <1>s
<1>e. \E c : Is(c)
  <2>1. PICK N \in Nat : N = Len(s)
    BY <1>n
  <2>2. PICK T : T = [n \in 0 .. N |-> D(n)]
    OBVIOUS
  <2>3. PICK F : F = [n \in 1 .. N |-> [x \in D(n - 1) |-> RemoveMirror(x, s[n])]]
    OBVIOUS
  <2>4. CallsLead(N, T, F)
    BY <1>i, <2>1, <2>2, <2>3 DEF CallsLead
  <2>5. d \in T[0]
    BY <1>d, <2>1, <2>2
  <2>6. PICK c : CallsAre(N, F, d, c) /\ \A n \in 0 .. N : c[n] \in T[n]
    BY ONLY <2>1, <2>4, <2>5, TurnsExist
  <2>7. c = [n \in 0 .. N |-> IF n = 0 THEN d ELSE F[n][c[n - 1]]]
    BY <2>6 DEF CallsAre
  <2>8. ASSUME NEW n \in 0 .. N, n # 0 PROVE F[n][c[n - 1]] = RemoveMirror(c[n - 1], s[n])
    <3>1. n \in 1 .. N /\ n - 1 \in 0 .. N
      BY <2>8
    <3>2. c[n - 1] \in D(n - 1)
      BY <3>1, <2>2, <2>6
    <3> QED
      BY <3>1, <3>2, <2>3
  <2>9. c = [n \in 0 .. N |-> IF n = 0 THEN d ELSE RemoveMirror(c[n - 1], s[n])]
    BY <2>7, <2>8
  <2> QED
    BY <2>1, <2>9
<1>c. PICK c : c = CHOOSE f : Is(f)
  OBVIOUS
<1>a. Is(c)
  <2> HIDE DEF Is
  <2> QED
    BY <1>e, <1>c
<1>t. InTurn(RemoveMirror, d, s) = c[Len(s)]
  BY <1>c DEF InTurn
<1>r. c[Len(s)] \in D(Len(s))
  <2>1. PICK N \in Nat : N = Len(s)
    BY <1>n
  <2>2. PICK T : T = {n \in 0 .. N : c[n] \in D(n)}
    OBVIOUS
  <2>3. 0 \in T
    BY <2>1, <2>2, <1>a, <1>d
  <2>4. ASSUME NEW n \in 1 .. N, n - 1 \in T PROVE n \in T
    <3>1. c[n] = RemoveMirror(c[n - 1], s[n]) /\ c[n - 1] \in D(n - 1)
      BY <2>1, <2>2, <2>4, <1>a
    <3>2. n \in 1 .. Len(s)
      BY <2>1
    <3>3. RemoveMirror(c[n - 1], s[n]) \in D(n)
      BY <3>1, <3>2, <1>i
    <3> QED
      BY <2>2, <3>1, <3>3
  <2>5. 0 .. N \subseteq T
    BY ONLY <2>1, <2>3, <2>4, Counting
  <2> QED
    BY <2>1, <2>2, <2>5
<1> QED
  BY <1>t, <1>r DEF D

\* One mirror's segments lose those of the chunks in gone, and these are free again.
LEMMA PartedWithout ==
  ASSUME NEW d, Parted(d), NEW m \in Used(d), NEW e, e.chunks = d.chunks, Used(e) = Used(d),
         \A n \in Used(d) : n # m => e.src[n] = d.src[n],
         e.finished = d.finished, Apart(e.src[m].segs),
         NEW gone, gone \subseteq Chunks, gone \subseteq Owned(d, m),
         e.started = d.started \ gone, Owned(e, m) = Owned(d, m) \ gone
  PROVE  Parted(e)
<1>1. /\ d.finished \subseteq d.started /\ d.started \subseteq Chunks
      /\ Owned(d, m) \cap d.finished = {} /\ Owned(d, m) \ {Unknown} \subseteq d.started
      /\ \A n \in Used(d) : n # m => Owned(d, m) \cap Owned(d, n) = {}
      /\ d.chunks => Unknown \notin Owned(d, m)
      /\ ~d.chunks => d.started = {}
  BY DEF Parted, Loose
<1>2. Unknown \notin Chunks
  BY UnknownIsNoChunk
<1>3. e.finished \subseteq e.started /\ e.started \subseteq Chunks
  BY <1>1
<1>4. e.started \ e.finished = ((d.started \ d.finished) \ Owned(d, m)) \cup (Owned(e, m) \ {Unknown})
  BY <1>1, <1>2
<1>5. \A n \in Used(d) : n # m => Owned(e, m) \cap Owned(d, n) = {}
  BY <1>1
<1>6. d.chunks => Unknown \notin Owned(e, m)
  BY <1>1
<1>7. ~d.chunks => e.started = {}
  BY <1>1
<1> QED
  BY <1>3, <1>4, <1>5, <1>6, <1>7, PartedWith

\* The segments of one mirror change.
WithSegments(d, m, q, par, A) ==
  [d EXCEPT !.src[m].segs = q, !.src[m].par = par, !.started = A]

LEMMA SegmentsOfOne ==
  ASSUME NEW G, NEW started, Closed(G, started), NEW d, Typed(d, G, started), NEW m \in Used(d),
         NEW par \in Nat, NEW q \in Seq(G), NEW A \in SUBSET Chunks,
         NEW e, e = WithSegments(d, m, q, par, A)
  PROVE  /\ e \in Variants(d, G, started) /\ Used(e) = Used(d) /\ e.finished = d.finished
         /\ e.chunks = d.chunks /\ e.started = A /\ e.src[m].segs = q
         /\ \A n \in Used(d) : n # m => e.src[n] = d.src[n]
<1>1. d.src \in Srcs(G, started) /\ d \in Variants(d, G, started)
  BY DEF Typed, Variants
<1>2. DOMAIN d.src = Used(d) /\ d.src[m] \in Sources(G, started)
  BY <1>1, SrcsAre DEF Used
<1>3. PICK t : t = [d.src[m] EXCEPT !.segs = q, !.par = par]
  OBVIOUS
<1>4. t \in Sources(G, started) /\ t.segs = q
  BY <1>2, <1>3 DEF Sources
<1>5. PICK src : src = [d.src EXCEPT ![m] = t]
  OBVIOUS
<1>6. m \in DOMAIN d.src /\ d.src \in Srcs(G, started)
  BY <1>1, <1>2
<1>7. /\ src \in Srcs(G, started) /\ DOMAIN src = DOMAIN d.src /\ src[m] = t
      /\ \A n \in DOMAIN d.src : n # m => src[n] = d.src[n]
  BY ONLY <1>4, <1>5, <1>6, SrcsExcept
<1>8. e = [d EXCEPT !.src = src, !.started = A]
  BY ZenonT(30), <1>1, <1>2, <1>3, <1>5 DEF Variants, WithSegments
<1>9. e \in Variants(d, G, started) /\ e.src = src /\ e.started = A /\ e.finished = d.finished
      /\ e.chunks = d.chunks
  <2>1. A \in SUBSET Chunks /\ d \in Variants(d, G, started) /\ src \in Srcs(G, started)
    BY <1>1, <1>7
  <2> QED
    BY ONLY ZenonT(30), <1>8, <2>1 DEF Variants
<1> QED
  BY <1>2, <1>4, <1>7, <1>9 DEF Used

\* A segment is dropped and its chunks are free; its mirror may lose a connection.
Dropped(d, m, i, par) ==
  WithSegments(d, m, RemoveAt(d.src[m].segs, i), par, d.started \ Own(d.src[m].segs[i]))

LEMMA DropKeeps ==
  ASSUME NEW G, NEW started, Closed(G, started), NEW d, Typed(d, G, started), Parted(d),
         NEW m \in Used(d), NEW i \in DOMAIN d.src[m].segs, NEW par \in Nat,
         ~d.src[m].segs[i].finding,
         NEW e, e = Dropped(d, m, i, par)
  PROVE  /\ e \in Variants(d, G, started) /\ Parted(e) /\ Used(e) = Used(d)
<1>1. d.src \in Srcs(G, started) /\ d \in Variants(d, G, started)
  BY DEF Typed, Variants
<1>2. d.src[m].segs \in Seq(G)
  BY <1>1, SrcsAre DEF Used
<1>3. PICK q \in Seq(G) : q = d.src[m].segs
  BY <1>2
<1>4. PICK r : r = RemoveAt(q, i)
  OBVIOUS
<1>5. i \in DOMAIN q
  BY <1>3
<1>6. /\ r \in Seq(G) /\ (Apart(q) => Apart(r) /\ OwnOf(r) = OwnOf(q) \ Own(q[i]))
  BY ONLY <1>3, <1>4, <1>5, OwnOfRemoveAt
<1>7. Apart(q) /\ OwnOf(q) = Owned(d, m)
  BY <1>3 DEF Parted, Loose, Owned
<1>8. PICK A : A = d.started \ Own(q[i])
  OBVIOUS
<1>9. A \subseteq Chunks /\ A \in SUBSET Chunks
  BY <1>8 DEF Parted, Loose
<1>10. e = WithSegments(d, m, r, par, A)
  BY <1>3, <1>4, <1>8 DEF Dropped
<1>11. m \in Used(d) /\ par \in Nat /\ r \in Seq(G)
  BY <1>6
<1>12. /\ e \in Variants(d, G, started) /\ Used(e) = Used(d) /\ e.finished = d.finished
       /\ e.chunks = d.chunks /\ e.started = A /\ e.src[m].segs = r
       /\ \A n \in Used(d) : n # m => e.src[n] = d.src[n]
  BY ONLY Closed(G, started), Typed(d, G, started), <1>9, <1>10, <1>11, SegmentsOfOne
<1>13. PICK gone : gone = Own(q[i])
  OBVIOUS
<1>14. gone \subseteq Owned(d, m)
  BY <1>5, <1>7, <1>13 DEF OwnOf
<1>15. gone \subseteq Chunks
  <2>1. q[i] \in Fitting
    BY <1>3, <1>5 DEF Closed
  <2>2. q[i].cur \in Chunks /\ q[i].end \in Chunks
    BY <2>1 DEF Fitting, Segments
  <2>3. gone = q[i].cur .. q[i].end
    BY <1>3, <1>13 DEF Own
  <2> QED
    BY <2>2, <2>3, ChunksAre
<1>16. Apart(e.src[m].segs) /\ Owned(e, m) = Owned(d, m) \ gone /\ e.started = d.started \ gone
  BY <1>6, <1>7, <1>8, <1>12, <1>13 DEF Owned
<1>17. Parted(e)
  BY ONLY Parted(d), <1>11, <1>12, <1>14, <1>15, <1>16, PartedWithout
<1> QED
  BY <1>12, <1>17

LEMMA RemoveConnectionKeeps ==
  ASSUME NEW G, NEW started, Closed(G, started), NEW d, Typed(d, G, started), Parted(d),
         NEW m \in Used(d)
  PROVE  LET e == RemoveConnection(d, m)
         IN  e \in Variants(d, G, started) /\ Parted(e) /\ Used(e) = Used(d)
<1>1. d.src \in Srcs(G, started) /\ d \in Variants(d, G, started)
  BY DEF Typed, Variants
<1>2. d.src[m] \in Sources(G, started) /\ d.src[m].segs \in Seq(G) /\ DOMAIN d.src = Used(d)
  BY <1>1, SrcsAre DEF Used
<1>3. PICK i : i = MostUnfinishedSegments(d.src[m])
  OBVIOUS
<1>4. CASE i = 0
  <2>1. RemoveConnection(d, m) = d
    BY <1>3, <1>4 DEF RemoveConnection
  <2> QED
    BY <2>1 DEF Typed
<1>5. CASE i # 0
  <2>1. PICK s : s = d.src[m]
    OBVIOUS
  <2>2. s.segs \in Seq(Fitting)
    BY <1>2, <2>1 DEF Closed
  <2>3. i \in DOMAIN s.segs /\ Unfinished(s.segs[i]) > 0
    BY <1>3, <1>5, <2>1, <2>2, MostUnfinishedIs
  <2>4. PICK x \in Fitting : x = s.segs[i]
    BY <2>2, <2>3
  <2>5. ~x.finding /\ Own(x) = x.cur .. x.end
    BY <2>3, <2>4, FreedIs DEF Own
  <2>6. PICK e : e = RemoveConnection(d, m)
    OBVIOUS
  <2>7. PICK p \in Nat : p = d.src[m].par
    BY <1>2 DEF Sources
  <2>8. e = [d EXCEPT !.src[m].segs = RemoveAt(d.src[m].segs, i),
                      !.started = d.started \ Own(d.src[m].segs[i])]
    BY <1>3, <1>5, <2>1, <2>4, <2>5, <2>6 DEF RemoveConnection
  <2>9. e = Dropped(d, m, i, p)
    BY ZenonT(30), <1>1, <1>2, <2>7, <2>8 DEF Variants, Sources, WithSegments, Dropped
  <2>10. m \in Used(d) /\ i \in DOMAIN d.src[m].segs /\ p \in Nat /\ ~d.src[m].segs[i].finding
    BY <2>1, <2>3, <2>4, <2>5
  <2>11. e \in Variants(d, G, started) /\ Parted(e) /\ Used(e) = Used(d)
    BY ONLY Closed(G, started), Typed(d, G, started), Parted(d), <2>9, <2>10, DropKeeps
  <2> QED
    BY <2>6, <2>11
<1> QED
  BY <1>4, <1>5

LEMMA RemoveConnectionInTurn ==
  ASSUME NEW G, NEW started, Closed(G, started), NEW d, Typed(d, G, started), Parted(d),
         NEW m \in Used(d), NEW s \in Seq({m})
  PROVE  LET e == InTurn(RemoveConnection, d, s)
         IN  e \in Variants(d, G, started) /\ Parted(e) /\ Used(e) = Used(d)
<1> DEFINE D(n) == {x \in Variants(d, G, started) : Parted(x) /\ Used(x) = Used(d)}
<1>s. Len(s) \in Nat
  OBVIOUS
<1>i. ASSUME NEW n \in 1 .. Len(s), NEW x \in D(n - 1) PROVE RemoveConnection(x, s[n]) \in D(n)
  <2>1. Variants(x, G, started) = Variants(d, G, started) /\ Typed(x, G, started)
    BY VariantsOfVariant
  <2>2. Typed(x, G, started)
    BY <2>1
  <2>3. Parted(x)
    OBVIOUS
  <2>4. s[n] = m /\ m \in Used(x)
    OBVIOUS
  <2>5. m \in Used(x)
    BY <2>4
  <2>6. PICK e : e = RemoveConnection(x, m)
    OBVIOUS
  <2>7. e \in Variants(x, G, started) /\ Parted(e) /\ Used(e) = Used(x)
    BY ONLY Closed(G, started), <2>2, <2>3, <2>5, <2>6, RemoveConnectionKeeps
  <2> QED
    BY <2>1, <2>4, <2>6, <2>7
<1>d. d \in D(0)
  BY DEF Typed
<1> HIDE DEF D
<1> DEFINE Is(c) == c = [n \in 0 .. Len(s) |-> IF n = 0 THEN d ELSE RemoveConnection(c[n - 1], s[n])]
<1>n. Len(s) \in Nat
  BY <1>s
<1>e. \E c : Is(c)
  <2>1. PICK N \in Nat : N = Len(s)
    BY <1>n
  <2>2. PICK T : T = [n \in 0 .. N |-> D(n)]
    OBVIOUS
  <2>3. PICK F : F = [n \in 1 .. N |-> [x \in D(n - 1) |-> RemoveConnection(x, s[n])]]
    OBVIOUS
  <2>4. CallsLead(N, T, F)
    BY <1>i, <2>1, <2>2, <2>3 DEF CallsLead
  <2>5. d \in T[0]
    BY <1>d, <2>1, <2>2
  <2>6. PICK c : CallsAre(N, F, d, c) /\ \A n \in 0 .. N : c[n] \in T[n]
    BY ONLY <2>1, <2>4, <2>5, TurnsExist
  <2>7. c = [n \in 0 .. N |-> IF n = 0 THEN d ELSE F[n][c[n - 1]]]
    BY <2>6 DEF CallsAre
  <2>8. ASSUME NEW n \in 0 .. N, n # 0 PROVE F[n][c[n - 1]] = RemoveConnection(c[n - 1], s[n])
    <3>1. n \in 1 .. N /\ n - 1 \in 0 .. N
      BY <2>8
    <3>2. c[n - 1] \in D(n - 1)
      BY <3>1, <2>2, <2>6
    <3> QED
      BY <3>1, <3>2, <2>3
  <2>9. c = [n \in 0 .. N |-> IF n = 0 THEN d ELSE RemoveConnection(c[n - 1], s[n])]
    BY <2>7, <2>8
  <2> QED
    BY <2>1, <2>9
<1>c. PICK c : c = CHOOSE f : Is(f)
  OBVIOUS
<1>a. Is(c)
  <2> HIDE DEF Is
  <2> QED
    BY <1>e, <1>c
<1>t. InTurn(RemoveConnection, d, s) = c[Len(s)]
  BY <1>c DEF InTurn
<1>r. c[Len(s)] \in D(Len(s))
  <2>1. PICK N \in Nat : N = Len(s)
    BY <1>n
  <2>2. PICK T : T = {n \in 0 .. N : c[n] \in D(n)}
    OBVIOUS
  <2>3. 0 \in T
    BY <2>1, <2>2, <1>a, <1>d
  <2>4. ASSUME NEW n \in 1 .. N, n - 1 \in T PROVE n \in T
    <3>1. c[n] = RemoveConnection(c[n - 1], s[n]) /\ c[n - 1] \in D(n - 1)
      BY <2>1, <2>2, <2>4, <1>a
    <3>2. n \in 1 .. Len(s)
      BY <2>1
    <3>3. RemoveConnection(c[n - 1], s[n]) \in D(n)
      BY <3>1, <3>2, <1>i
    <3> QED
      BY <2>2, <3>1, <3>3
  <2>5. 0 .. N \subseteq T
    BY ONLY <2>1, <2>3, <2>4, Counting
  <2> QED
    BY <2>1, <2>2, <2>5
<1> QED
  BY <1>t, <1>r DEF D

LEMMA StartSourceFits ==
  ASSUME NEW G, NEW started, Closed(G, started), TRUE \in started, NEW s \in Sources(G, started)
  PROVE  LET t == StartSource(s)
         IN  /\ t \in Sources(G, started) /\ OwnOf(t.segs) = OwnOf(s.segs)
             /\ Apart(s.segs) => Apart(t.segs)
<1>1. PICK q \in Seq(G) : q = s.segs
  BY DEF Sources
<1>2. PICK r : r = [i \in DOMAIN q |-> StartTransfer(q[i])]
  OBVIOUS
<1>3. \A i \in DOMAIN q : q[i] \in G /\ q[i] \in Segments
  BY <1>1 DEF Closed, Fitting
<1>4. \A i \in DOMAIN q : StartTransfer(q[i]) \in G /\ Own(StartTransfer(q[i])) = Own(q[i])
  <2> SUFFICES ASSUME NEW i \in DOMAIN q
               PROVE  StartTransfer(q[i]) \in G /\ Own(StartTransfer(q[i])) = Own(q[i])
    OBVIOUS
  <2>1. PICK x \in G : x = q[i] /\ x \in Segments
    BY <1>3
  <2>2. StartTransfer(x) \in G
    BY DEF Closed
  <2>3. Own(StartTransfer(x)) = Own(x)
    BY <2>1, StartTransferFits
  <2> QED
    BY <2>1, <2>2, <2>3
<1>5. r \in Seq(G) /\ DOMAIN r = DOMAIN q
  BY <1>1, <1>2, <1>4
<1>6. \A i \in DOMAIN q : Own(r[i]) = Own(q[i])
  BY <1>2, <1>4
<1>7. OwnOf(r) = OwnOf(q) /\ (Apart(q) => Apart(r))
  BY ONLY <1>5, <1>6, OwnOfSame
<1>8. PICK t : t = StartSource(s)
  OBVIOUS
<1>9. t = [s EXCEPT !.started = TRUE, !.segs = r]
  BY <1>1, <1>2, <1>8 DEF StartSource
<1>10. t \in Sources(G, started) /\ t.segs = r
  BY <1>5, <1>9 DEF Sources
<1> QED
  BY <1>1, <1>7, <1>8, <1>10

\* The number of connections of a mirror is another; its segments follow.
LEMMA FitConnectionsKeeps ==
  ASSUME NEW G, NEW started, Closed(G, started), NEW d, Typed(d, G, started), Parted(d),
         NEW m \in Used(d), NEW conns \in Nat
  PROVE  LET e == FitConnections([d EXCEPT !.src[m].par = conns], m)
         IN  e \in Variants(d, G, started) /\ Parted(e) /\ Used(e) = Used(d)
<1>1. d.src \in Srcs(G, started) /\ d \in Variants(d, G, started)
  BY DEF Typed, Variants
<1>2. d.src[m] \in Sources(G, started) /\ DOMAIN d.src = Used(d)
  BY <1>1, SrcsAre DEF Used
<1>3. PICK q \in Seq(G) : q = d.src[m].segs
  BY <1>2 DEF Sources
<1>4. PICK A \in SUBSET Chunks : A = d.started
  BY <1>1 DEF Variants
<1>5. PICK f : f = [d EXCEPT !.src[m].par = conns]
  OBVIOUS
<1>6. f = WithSegments(d, m, q, conns, A)
  BY ZenonT(30), <1>1, <1>2, <1>3, <1>4, <1>5 DEF Variants, Sources, WithSegments
<1>7. m \in Used(d) /\ conns \in Nat
  OBVIOUS
<1>8. /\ f \in Variants(d, G, started) /\ Used(f) = Used(d) /\ f.finished = d.finished
      /\ f.chunks = d.chunks /\ f.started = A /\ f.src[m].segs = q
      /\ \A n \in Used(d) : n # m => f.src[n] = d.src[n]
  BY ONLY Closed(G, started), Typed(d, G, started), <1>3, <1>4, <1>6, <1>7, SegmentsOfOne
<1>9. Parted(f)
  <2>1. \A n \in Used(d) : f.src[n].segs = d.src[n].segs
    BY <1>3, <1>8
  <2>2. \A n \in Used(d) : Owned(f, n) = Owned(d, n)
    BY <2>1 DEF Owned
  <2> QED
    BY ONLY Parted(d), <1>4, <1>8, <2>1, <2>2 DEF Parted, Loose
<1>10. Variants(f, G, started) = Variants(d, G, started) /\ Typed(f, G, started)
  BY <1>8, VariantsOfVariant
<1>11. m \in Used(f) /\ Typed(f, G, started)
  BY <1>8, <1>10
<1>12. CASE ChangeNeeded(f.src[m]) > 0
  <2>1. PICK e : e = AssignSegments(f, m)
    OBVIOUS
  <2>2. e \in Variants(f, G, started) /\ Parted(e) /\ Used(e) = Used(f)
    BY ONLY Closed(G, started), <1>9, <1>11, <2>1, AssignSegmentsKeeps
  <2>3. FitConnections(f, m) = e
    BY <1>12, <2>1 DEF FitConnections
  <2> QED
    BY <1>5, <1>8, <1>10, <2>2, <2>3
<1>13. CASE ~(ChangeNeeded(f.src[m]) > 0)
  <2>1. ChangeNeeded(f.src[m]) \in Int
    <3>1. f.src \in Srcs(G, started)
      BY <1>11 DEF Typed, Variants
    <3>2. f.src[m].par \in Nat /\ f.src[m].segs \in Seq(G)
      BY <1>11, <3>1, SrcsAre DEF Used
    <3> QED
      BY <3>2 DEF ChangeNeeded
  <2>2. PICK N \in Nat : N = -ChangeNeeded(f.src[m])
    BY <1>13, <2>1
  <2>3. PICK s : s = [n \in 1 .. N |-> m]
    OBVIOUS
  <2>4. s \in Seq({m})
    BY <2>3
  <2>5. PICK e : e = InTurn(RemoveConnection, f, s)
    OBVIOUS
  <2>6. e \in Variants(f, G, started) /\ Parted(e) /\ Used(e) = Used(f)
    BY ONLY Closed(G, started), <1>9, <1>11, <2>4, <2>5, RemoveConnectionInTurn
  <2>7. FitConnections(f, m) = RemoveConnections(f, m)
    BY <1>13 DEF FitConnections
  <2>8. RemoveConnections(f, m) = e
    BY <2>2, <2>3, <2>5 DEF RemoveConnections
  <2> QED
    BY <1>5, <1>8, <1>10, <2>6, <2>7, <2>8
<1> QED
  BY <1>12, <1>13

\* Only a download that runs starts the sources it adds.
MayStart(d, started) == d.status = "Running" => TRUE \in started

\* A source of the mirror m is added, and may begin at once.
LEMMA StartAssignedKeeps ==
  ASSUME NEW G, NEW started, Closed(G, started), NEW d, Typed(d, G, started), Parted(d),
         NEW m \in Used(d), MayStart(d, started)
  PROVE  LET e == StartAssigned(d, m)
         IN  e \in Variants(d, G, started) /\ Parted(e) /\ Used(e) = Used(d)
<1>1. d.src \in Srcs(G, started) /\ d \in Variants(d, G, started)
  BY DEF Typed, Variants
<1>2. CASE StartAssigned(d, m) = d
  BY <1>1, <1>2
<1>3. CASE StartAssigned(d, m) # d
  <2>1. StartAssigned(d, m) = [d EXCEPT !.src[m] = StartSource(@)] /\ TRUE \in started
    BY <1>3 DEF StartAssigned, MayStart
  <2>2. d.src[m] \in Sources(G, started) /\ DOMAIN d.src = Used(d)
    BY <1>1, SrcsAre DEF Used
  <2>3. PICK s \in Sources(G, started) : s = d.src[m]
    BY <2>2
  <2>4. PICK t : t = StartSource(s)
    OBVIOUS
  <2>5. TRUE \in started
    BY <2>1
  <2>6. t \in Sources(G, started) /\ OwnOf(t.segs) = OwnOf(s.segs) /\ (Apart(s.segs) => Apart(t.segs))
    BY ONLY Closed(G, started), <2>3, <2>4, <2>5, StartSourceFits
  <2>7. PICK src : src = [d.src EXCEPT ![m] = t]
    OBVIOUS
  <2>8. m \in DOMAIN d.src /\ d.src \in Srcs(G, started) /\ t \in Sources(G, started)
    BY <1>1, <2>2, <2>6
  <2>9. /\ src \in Srcs(G, started) /\ DOMAIN src = DOMAIN d.src /\ src[m] = t
        /\ \A n \in DOMAIN d.src : n # m => src[n] = d.src[n]
    BY ONLY <2>7, <2>8, SrcsExcept
  <2>10. PICK e : e = [d EXCEPT !.src = src]
    OBVIOUS
  <2>11. StartAssigned(d, m) = e
    BY <1>1, <2>1, <2>3, <2>4, <2>7, <2>10
  <2>12. e \in Variants(d, G, started) /\ e.src = src /\ e.started = d.started /\ e.chunks = d.chunks
         /\ e.finished = d.finished
    BY ONLY <1>1, <2>9, <2>10 DEF Variants
  <2>13. Parted(e) /\ Used(e) = Used(d)
    <3>1. Used(e) = Used(d)
      BY <2>2, <2>9, <2>12 DEF Used
    <3>2. \A n \in Used(d) : Owned(e, n) = Owned(d, n) /\ (Apart(d.src[n].segs) => Apart(e.src[n].segs))
      BY <2>2, <2>3, <2>6, <2>9, <2>12 DEF Owned
    <3> QED
      BY ONLY Parted(d), <2>12, <3>1, <3>2 DEF Parted, Loose
  <2> QED
    BY <2>11, <2>12, <2>13
<1> QED
  BY <1>2, <1>3

\* An entry for a mirror in the list of those that are not used goes.
LEMMA AddSourceKeeps ==
  ASSUME NEW G, NEW started, Closed(G, started), NEW d, Typed(d, G, started), Parted(d),
         NEW m \in Mirrors, m \notin Used(d), NEW conns \in Nat, d.sizeDefined \in BOOLEAN,
         MayStart(d, started)
  PROVE  LET e == AddSource(d, m, conns)
         IN  e \in Variants(d, G, started) /\ Parted(e) /\ Used(e) = Used(d) \cup {m}
<1>1. d.src \in Srcs(G, started) /\ d \in Variants(d, G, started) /\ d.unused \in Seq(Mirrors \X Nat)
  BY DEF Typed, Variants, UnusedLists
<1>2. /\ DOMAIN d.src = Used(d) /\ Used(d) \subseteq Mirrors
      /\ \A n \in Used(d) : d.src[n] \in Sources(G, started)
  BY <1>1, SrcsAre DEF Used
<1>3. PICK at : at = {i \in DOMAIN d.unused : d.unused[i][1] = m}
  OBVIOUS
<1>4. PICK unused : unused = IF at = {} THEN d.unused ELSE RemoveAt(d.unused, Min(at))
  OBVIOUS
<1>5. unused \in UnusedLists
  <2>1. CASE at = {}
    BY <1>1, <1>4, <2>1 DEF UnusedLists
  <2>2. CASE at # {}
    <3>1. at \subseteq Nat /\ at \subseteq DOMAIN d.unused
      BY <1>1, <1>3
    <3>2. PICK i : i = Min(at)
      OBVIOUS
    <3>3. i \in at
      BY <2>2, <3>1, <3>2, MinOfNaturals
    <3>4. PICK u \in Seq(Mirrors \X Nat) : u = d.unused
      BY <1>1
    <3>5. i \in DOMAIN u
      BY <3>1, <3>3, <3>4
    <3>6. RemoveAt(u, i) \in Seq(Mirrors \X Nat)
      BY ONLY <3>4, <3>5, OwnOfRemoveAt
    <3> QED
      BY <1>4, <2>2, <3>2, <3>4, <3>6 DEF UnusedLists
  <2> QED
    BY <2>1, <2>2
<1>6. PICK s : s = NewSource(conns, d.sizeDefined)
  OBVIOUS
<1>7. s \in Sources(G, started) /\ s.segs = <<>>
  <2>1. <<>> \in Seq(G)
    BY OwnOfNone
  <2> QED
    BY <1>6, <2>1 DEF NewSource, Sources, Closed
<1>9. PICK src : src = [n \in Used(d) \cup {m} |-> IF n = m THEN s ELSE d.src[n]]
  OBVIOUS
<1>10. src \in Srcs(G, started) /\ DOMAIN src = Used(d) \cup {m} /\ src[m] = s
       /\ \A n \in Used(d) : src[n] = d.src[n]
  <2>1. Used(d) \cup {m} \in SUBSET Mirrors /\ src \in [Used(d) \cup {m} -> Sources(G, started)]
    BY <1>2, <1>7, <1>9
  <2>2. src \in Srcs(G, started)
    BY ONLY <2>1, SrcsFrom
  <2> QED
    BY <2>1, <2>2, <1>9
<1>11. PICK f : f = [d EXCEPT !.unused = unused, !.src = src]
  OBVIOUS
<1>12. f \in Variants(d, G, started) /\ f.src = src /\ f.started = d.started /\ f.chunks = d.chunks
       /\ f.finished = d.finished /\ f.status = d.status
  BY ONLY ZenonT(30), <1>1, <1>5, <1>10, <1>11 DEF Variants
<1>13. Used(f) = Used(d) \cup {m}
  BY <1>10, <1>12 DEF Used
<1>14. Parted(f)
  <2>1. Owned(f, m) = {} /\ Apart(f.src[m].segs)
    BY <1>7, <1>10, <1>12, OwnOfNone DEF Owned
  <2>2. \A n \in Used(d) : Owned(f, n) = Owned(d, n) /\ f.src[n] = d.src[n]
    BY <1>10, <1>12 DEF Owned
  <2> QED
    BY ONLY Parted(d), <1>12, <1>13, <2>1, <2>2 DEF Parted, Loose
<1>15. Variants(f, G, started) = Variants(d, G, started) /\ Typed(f, G, started)
  BY <1>12, VariantsOfVariant
<1>16. m \in Used(f) /\ Typed(f, G, started)
  BY <1>13, <1>15
<1>17. PICK g : g = AssignSegments(f, m)
  OBVIOUS
<1>18. g \in Variants(f, G, started) /\ Parted(g) /\ Used(g) = Used(f)
  BY ONLY Closed(G, started), <1>14, <1>16, <1>17, AssignSegmentsKeeps
<1>19. Variants(g, G, started) = Variants(d, G, started) /\ Typed(g, G, started) /\ g.status = d.status
  BY <1>12, <1>15, <1>18, VariantsOfVariant, VariantKeeps
<1>20. m \in Used(g)
  BY <1>16, <1>18
<1>24. MayStart(g, started)
  BY <1>19 DEF MayStart
<1>25. Parted(g)
  BY <1>18
<1>26. Typed(g, G, started)
  BY <1>19
<1>21. PICK e : e = StartAssigned(g, m)
  OBVIOUS
<1>22. e \in Variants(g, G, started) /\ Parted(e) /\ Used(e) = Used(g)
  BY ONLY Closed(G, started), <1>20, <1>21, <1>24, <1>25, <1>26, StartAssignedKeeps
<1>23. AddSource(d, m, conns) = e
  BY <1>3, <1>4, <1>6, <1>9, <1>11, <1>17, <1>21 DEF AddSource
<1> QED
  BY <1>13, <1>18, <1>19, <1>22, <1>23

\* Whatever the user says of a mirror, somebody is known afterwards.
LEMMA AddMirrorKeeps ==
  ASSUME NEW G, NEW started, Closed(G, started), NEW d, Typed(d, G, started), Parted(d),
         NEW m \in Mirrors, NEW used \in BOOLEAN, NEW conns \in Nat, NEW defined \in BOOLEAN,
         d.sizeDefined \in BOOLEAN, MayStart(d, started)
  PROVE  LET e == AddMirror(d, m, used, conns, defined)
         IN  /\ e \in Variants(d, G, started) /\ Parted(e) /\ Known(e)
             /\ used /\ defined => m \in Used(e)
<1>1. d.src \in Srcs(G, started) /\ d \in Variants(d, G, started) /\ d.unused \in Seq(Mirrors \X Nat)
      /\ d.max \in Nat
  BY DEF Typed, Variants, UnusedLists
<1>2. IsFiniteSet(Used(d)) /\ Cardinality(Used(d)) \in Nat
  BY <1>1, SrcsAre, FS_CardinalityType DEF Used
<1>3. PICK e : e = AddMirror(d, m, used, conns, defined)
  OBVIOUS
<1>4. PICK listed : listed = [d EXCEPT !.unused = Append(@, <<m, conns>>)]
  OBVIOUS
<1>5. listed \in Variants(d, G, started) /\ Parted(listed) /\ Known(listed)
  <2>1. PICK u : u = Append(d.unused, <<m, conns>>)
    OBVIOUS
  <2>2. u \in UnusedLists /\ u # <<>>
    <3>1. <<m, conns>> \in Mirrors \X Nat
      OBVIOUS
    <3> QED
      BY SMTT(30), <1>1, <2>1, <3>1 DEF UnusedLists
  <2>3. listed = [d EXCEPT !.unused = u]
    BY <1>4, <2>1
  <2>4. /\ listed \in Variants(d, G, started) /\ listed.unused = u /\ listed.chunks = d.chunks
        /\ listed.src = d.src /\ listed.started = d.started /\ listed.finished = d.finished
    BY ONLY ZenonT(30), <1>1, <2>2, <2>3 DEF Variants
  <2> QED
    BY <2>2, <2>4, PartedSame DEF Known
<1>6. CASE ~used /\ m \in Used(d)
  <2>1. e = RemoveMirror(d, m)
    BY <1>3, <1>6 DEF AddMirror
  <2>2. Loose(d) /\ Known(d)
    BY <1>6 DEF Parted, Known
  <2>3. Loose(d)
    BY <2>2
  <2>4. e \in Variants(d, G, started) /\ (Parted(d) => Parted(e)) /\ (Known(d) => Known(e))
    BY ONLY Closed(G, started), Typed(d, G, started), <2>1, <2>3, RemoveMirrorKeeps
  <2> QED
    BY <1>3, <1>6, <2>2, <2>4
<1>7. CASE ~used /\ m \notin Used(d)
  <2>1. e = listed
    BY <1>3, <1>4, <1>7 DEF AddMirror
  <2> QED
    BY <1>3, <1>5, <1>7, <2>1
<1>8. CASE used /\ m \in Used(d)
  <2>1. e = FitConnections([d EXCEPT !.src[m].par = conns], m)
    BY <1>3, <1>8 DEF AddMirror
  <2>2. m \in Used(d) /\ conns \in Nat
    BY <1>8
  <2>3. e \in Variants(d, G, started) /\ Parted(e) /\ Used(e) = Used(d)
    BY ONLY Closed(G, started), Typed(d, G, started), Parted(d), <2>1, <2>2, FitConnectionsKeeps
  <2> QED
    BY <1>3, <2>2, <2>3 DEF Known
<1>9. CASE used /\ m \notin Used(d) /\ (defined \/ Cardinality(Used(d)) < d.max)
  <2>1. PICK max \in Nat : max = IF Cardinality(Used(d)) < d.max THEN d.max
                                 ELSE Cardinality(Used(d)) + 1
    BY <1>1, <1>2
  <2>2. PICK f : f = [d EXCEPT !.max = max]
    OBVIOUS
  <2>3. e = AddSource(f, m, conns)
    BY <1>3, <1>9, <2>1, <2>2 DEF AddMirror
  <2>4. /\ f \in Variants(d, G, started) /\ f.chunks = d.chunks /\ f.status = d.status
        /\ f.src = d.src /\ f.started = d.started /\ f.finished = d.finished
        /\ f.sizeDefined = d.sizeDefined
    BY ONLY ZenonT(30), <1>1, <2>1, <2>2 DEF Variants
  <2>5. Parted(f) /\ Used(f) = Used(d)
    BY <2>4, PartedSame
  <2>6. Variants(f, G, started) = Variants(d, G, started) /\ Typed(f, G, started)
    BY <2>4, VariantsOfVariant
  <2>7. Parted(f)
    BY <2>5
  <2>8. Typed(f, G, started)
    BY <2>6
  <2>9. m \in Mirrors /\ m \notin Used(f) /\ conns \in Nat
    BY <1>9, <2>5
  <2>11. f.sizeDefined \in BOOLEAN
    BY <2>4
  <2>12. MayStart(f, started)
    BY <2>4 DEF MayStart
  <2>10. e \in Variants(f, G, started) /\ Parted(e) /\ Used(e) = Used(f) \cup {m}
    BY ONLY Closed(G, started), <2>3, <2>7, <2>8, <2>9, <2>11, <2>12, AddSourceKeeps
  <2> QED
    BY <1>3, <2>6, <2>10 DEF Known
<1>10. CASE used /\ m \notin Used(d) /\ ~(defined \/ Cardinality(Used(d)) < d.max)
  <2>1. e = listed
    BY <1>3, <1>4, <1>10 DEF AddMirror
  <2> QED
    BY <1>3, <1>5, <1>10, <2>1
<1> QED
  BY <1>6, <1>7, <1>8, <1>9, <1>10

LEMMA AddFirstUnusedKeeps ==
  ASSUME NEW G, NEW started, Closed(G, started), NEW d, Typed(d, G, started), Parted(d),
         d.unused # <<>>, d.sizeDefined \in BOOLEAN, MayStart(d, started)
  PROVE  LET e == AddFirstUnused(d)
         IN  e \in Variants(d, G, started) /\ Parted(e) /\ Known(e) /\ Used(e) # {}
<1>1. d.src \in Srcs(G, started) /\ d \in Variants(d, G, started) /\ d.unused \in Seq(Mirrors \X Nat)
  BY DEF Typed, Variants, UnusedLists
<1>2. Head(d.unused) \in Mirrors \X Nat /\ Tail(d.unused) \in Seq(Mirrors \X Nat)
  BY <1>1
<1>3. PICK m \in Mirrors, conns \in Nat : m = Head(d.unused)[1] /\ conns = Head(d.unused)[2]
  BY <1>2
<1>4. PICK u \in UnusedLists : u = Tail(d.unused)
  BY <1>2 DEF UnusedLists
<1>5. PICK f : f = [d EXCEPT !.unused = u]
  OBVIOUS
<1>6. /\ f \in Variants(d, G, started) /\ f.chunks = d.chunks /\ f.status = d.status
      /\ f.src = d.src /\ f.started = d.started /\ f.finished = d.finished
      /\ f.sizeDefined = d.sizeDefined
  BY ONLY <1>1, <1>4, <1>5 DEF Variants
<1>7. Parted(f)
  BY <1>6, PartedSame
<1>8. Variants(f, G, started) = Variants(d, G, started) /\ Typed(f, G, started)
  BY <1>6, VariantsOfVariant
<1>9. Typed(f, G, started)
  BY <1>8
<1>10. m \in Mirrors /\ conns \in Nat /\ f.sizeDefined \in BOOLEAN /\ TRUE \in BOOLEAN
  BY <1>3, <1>6
<1>14. MayStart(f, started)
  BY <1>6 DEF MayStart
<1>11. PICK e : e = AddMirror(f, m, TRUE, conns, TRUE)
  OBVIOUS
<1>12. e \in Variants(f, G, started) /\ Parted(e) /\ Known(e) /\ (TRUE /\ TRUE => m \in Used(e))
  BY ONLY Closed(G, started), <1>7, <1>9, <1>10, <1>11, <1>14, AddMirrorKeeps
<1>13. AddFirstUnused(d) = e
  BY <1>3, <1>4, <1>5, <1>11 DEF AddFirstUnused
<1> QED
  BY <1>8, <1>12, <1>13

LEMMA AssignAllKeeps ==
  ASSUME NEW G, NEW started, Closed(G, started), NEW d, Typed(d, G, started), Parted(d)
  PROVE  LET e == AssignAll(d)
         IN  /\ e \in Variants(d, G, started) /\ Parted(e) /\ Used(e) = Used(d)
             /\ Known(d) => Known(e)
<1> DEFINE D(n) == {x \in Variants(d, G, started) :
                    Parted(x) /\ Used(x) = Used(d) /\ (Used(d) = {} => x = d)}
<1>1. IsFiniteSet(Used(d))
  <2>1. d.src \in Srcs(G, started)
    BY DEF Typed, Variants
  <2> QED
    BY <2>1, SrcsAre DEF Used
<1>2. PICK s : s = UsedInOrder(d)
  OBVIOUS
<1>s. s \in Seq(Used(d))
  BY <1>1, <1>2, SetToSeqIs DEF UsedInOrder
<1>i. ASSUME NEW n \in 1 .. Len(s), NEW x \in D(n - 1) PROVE AssignSegments(x, s[n]) \in D(n)
  <2>1. Variants(x, G, started) = Variants(d, G, started) /\ Typed(x, G, started)
    BY VariantsOfVariant
  <2>2. Typed(x, G, started)
    BY <2>1
  <2>3. Parted(x)
    OBVIOUS
  <2>4. PICK m \in Used(x) : m = s[n]
    BY <1>s
  <2>6. PICK e : e = AssignSegments(x, m)
    OBVIOUS
  <2>7. e \in Variants(x, G, started) /\ Parted(e) /\ Used(e) = Used(x)
    BY ONLY Closed(G, started), <2>2, <2>3, <2>4, <2>6, AssignSegmentsKeeps
  <2> QED
    BY <2>1, <2>4, <2>6, <2>7
<1>d. d \in D(0)
  BY DEF Typed
<1> HIDE DEF D
<1> DEFINE Is(c) == c = [n \in 0 .. Len(s) |-> IF n = 0 THEN d ELSE AssignSegments(c[n - 1], s[n])]
<1>n. Len(s) \in Nat
  BY <1>s
<1>e. \E c : Is(c)
  <2>1. PICK N \in Nat : N = Len(s)
    BY <1>n
  <2>2. PICK T : T = [n \in 0 .. N |-> D(n)]
    OBVIOUS
  <2>3. PICK F : F = [n \in 1 .. N |-> [x \in D(n - 1) |-> AssignSegments(x, s[n])]]
    OBVIOUS
  <2>4. CallsLead(N, T, F)
    BY <1>i, <2>1, <2>2, <2>3 DEF CallsLead
  <2>5. d \in T[0]
    BY <1>d, <2>1, <2>2
  <2>6. PICK c : CallsAre(N, F, d, c) /\ \A n \in 0 .. N : c[n] \in T[n]
    BY ONLY <2>1, <2>4, <2>5, TurnsExist
  <2>7. c = [n \in 0 .. N |-> IF n = 0 THEN d ELSE F[n][c[n - 1]]]
    BY <2>6 DEF CallsAre
  <2>8. ASSUME NEW n \in 0 .. N, n # 0 PROVE F[n][c[n - 1]] = AssignSegments(c[n - 1], s[n])
    <3>1. n \in 1 .. N /\ n - 1 \in 0 .. N
      BY <2>8
    <3>2. c[n - 1] \in D(n - 1)
      BY <3>1, <2>2, <2>6
    <3> QED
      BY <3>1, <3>2, <2>3
  <2>9. c = [n \in 0 .. N |-> IF n = 0 THEN d ELSE AssignSegments(c[n - 1], s[n])]
    BY <2>7, <2>8
  <2> QED
    BY <2>1, <2>9
<1>c. PICK c : c = CHOOSE f : Is(f)
  OBVIOUS
<1>a. Is(c)
  <2> HIDE DEF Is
  <2> QED
    BY <1>e, <1>c
<1>t. InTurn(AssignSegments, d, s) = c[Len(s)]
  BY <1>c DEF InTurn
<1>r. c[Len(s)] \in D(Len(s))
  <2>1. PICK N \in Nat : N = Len(s)
    BY <1>n
  <2>2. PICK T : T = {n \in 0 .. N : c[n] \in D(n)}
    OBVIOUS
  <2>3. 0 \in T
    BY <2>1, <2>2, <1>a, <1>d
  <2>4. ASSUME NEW n \in 1 .. N, n - 1 \in T PROVE n \in T
    <3>1. c[n] = AssignSegments(c[n - 1], s[n]) /\ c[n - 1] \in D(n - 1)
      BY <2>1, <2>2, <2>4, <1>a
    <3>2. n \in 1 .. Len(s)
      BY <2>1
    <3>3. AssignSegments(c[n - 1], s[n]) \in D(n)
      BY <3>1, <3>2, <1>i
    <3> QED
      BY <2>2, <3>1, <3>3
  <2>5. 0 .. N \subseteq T
    BY ONLY <2>1, <2>3, <2>4, Counting
  <2> QED
    BY <2>1, <2>2, <2>5
<1>3. AssignAll(d) = c[Len(s)]
  BY <1>2, <1>t DEF AssignAll
<1>4. PICK e : e = AssignAll(d)
  OBVIOUS
<1>5. /\ e \in Variants(d, G, started) /\ Parted(e) /\ Used(e) = Used(d)
      /\ Used(d) = {} => e = d
  BY <1>3, <1>4, <1>r DEF D
<1>6. Known(d) => Known(e)
  BY <1>5 DEF Known
<1> QED
  BY <1>4, <1>5, <1>6

Listed == Mirrors \X BOOLEAN \X Nat

LEMMA AddListedInTurn ==
  ASSUME NEW G, NEW started, Closed(G, started), NEW d, Typed(d, G, started), Parted(d),
         NEW s, s \in Seq(Listed), d.sizeDefined \in BOOLEAN, MayStart(d, started)
  PROVE  LET e == InTurn(AddListed, d, s)
         IN  e \in Variants(d, G, started) /\ Parted(e) /\ (Known(d) \/ s # <<>> => Known(e))
<1> DEFINE D(n) == {x \in Variants(d, G, started) : Parted(x) /\ (Known(d) \/ n # 0 => Known(x))}
<1>s. Len(s) \in Nat
  OBVIOUS
<1>i. ASSUME NEW n \in 1 .. Len(s), NEW x \in D(n - 1) PROVE AddListed(x, s[n]) \in D(n)
  <2>1. Variants(x, G, started) = Variants(d, G, started) /\ Typed(x, G, started)
    BY VariantsOfVariant
  <2>2. Typed(x, G, started)
    BY <2>1
  <2>3. Parted(x)
    OBVIOUS
  <2>4. s[n] \in Mirrors \X BOOLEAN \X Nat
    BY DEF Listed
  <2>5. PICK m \in Mirrors, used \in BOOLEAN, conns \in Nat :
          m = s[n][1] /\ used = s[n][2] /\ conns = s[n][3]
    BY <2>4
  <2>6. PICK e : e = AddMirror(x, m, used, conns, TRUE)
    OBVIOUS
  <2>7. x.sizeDefined \in BOOLEAN /\ x.status = d.status
    BY VariantKeeps
  <2>8. x.sizeDefined \in BOOLEAN /\ TRUE \in BOOLEAN
    BY <2>7
  <2>9. MayStart(x, started)
    BY <2>7 DEF MayStart
  <2>10. e \in Variants(x, G, started) /\ Parted(e) /\ Known(e) /\ (used /\ TRUE => m \in Used(e))
    BY ONLY Closed(G, started), <2>2, <2>3, <2>5, <2>6, <2>8, <2>9, AddMirrorKeeps
  <2>11. AddListed(x, s[n]) = e
    BY <2>5, <2>6 DEF AddListed
  <2> QED
    BY <2>1, <2>10, <2>11
<1>d. d \in D(0)
  BY DEF Typed
<1> HIDE DEF D
<1> DEFINE Is(c) == c = [n \in 0 .. Len(s) |-> IF n = 0 THEN d ELSE AddListed(c[n - 1], s[n])]
<1>n. Len(s) \in Nat
  BY <1>s
<1>e. \E c : Is(c)
  <2>1. PICK N \in Nat : N = Len(s)
    BY <1>n
  <2>2. PICK T : T = [n \in 0 .. N |-> D(n)]
    OBVIOUS
  <2>3. PICK F : F = [n \in 1 .. N |-> [x \in D(n - 1) |-> AddListed(x, s[n])]]
    OBVIOUS
  <2>4. CallsLead(N, T, F)
    BY <1>i, <2>1, <2>2, <2>3 DEF CallsLead
  <2>5. d \in T[0]
    BY <1>d, <2>1, <2>2
  <2>6. PICK c : CallsAre(N, F, d, c) /\ \A n \in 0 .. N : c[n] \in T[n]
    BY ONLY <2>1, <2>4, <2>5, TurnsExist
  <2>7. c = [n \in 0 .. N |-> IF n = 0 THEN d ELSE F[n][c[n - 1]]]
    BY <2>6 DEF CallsAre
  <2>8. ASSUME NEW n \in 0 .. N, n # 0 PROVE F[n][c[n - 1]] = AddListed(c[n - 1], s[n])
    <3>1. n \in 1 .. N /\ n - 1 \in 0 .. N
      BY <2>8
    <3>2. c[n - 1] \in D(n - 1)
      BY <3>1, <2>2, <2>6
    <3> QED
      BY <3>1, <3>2, <2>3
  <2>9. c = [n \in 0 .. N |-> IF n = 0 THEN d ELSE AddListed(c[n - 1], s[n])]
    BY <2>7, <2>8
  <2> QED
    BY <2>1, <2>9
<1>c. PICK c : c = CHOOSE f : Is(f)
  OBVIOUS
<1>a. Is(c)
  <2> HIDE DEF Is
  <2> QED
    BY <1>e, <1>c
<1>t. InTurn(AddListed, d, s) = c[Len(s)]
  BY <1>c DEF InTurn
<1>r. c[Len(s)] \in D(Len(s))
  <2>1. PICK N \in Nat : N = Len(s)
    BY <1>n
  <2>2. PICK T : T = {n \in 0 .. N : c[n] \in D(n)}
    OBVIOUS
  <2>3. 0 \in T
    BY <2>1, <2>2, <1>a, <1>d
  <2>4. ASSUME NEW n \in 1 .. N, n - 1 \in T PROVE n \in T
    <3>1. c[n] = AddListed(c[n - 1], s[n]) /\ c[n - 1] \in D(n - 1)
      BY <2>1, <2>2, <2>4, <1>a
    <3>2. n \in 1 .. Len(s)
      BY <2>1
    <3>3. AddListed(c[n - 1], s[n]) \in D(n)
      BY <3>1, <3>2, <1>i
    <3> QED
      BY <2>2, <3>1, <3>3
  <2>5. 0 .. N \subseteq T
    BY ONLY <2>1, <2>3, <2>4, Counting
  <2> QED
    BY <2>1, <2>2, <2>5
<1>1. s # <<>> => Len(s) # 0
  OBVIOUS
<1> QED
  BY <1>t, <1>r, <1>1 DEF D

LEMMA SetMirrorsKeeps ==
  ASSUME NEW G, NEW started, Closed(G, started), NEW d, Typed(d, G, started), Parted(d),
         d.sizeDefined \in BOOLEAN, MayStart(d, started), NEW new \in MirrorChoices
  PROVE  LET e == SetMirrors(d, new)
         IN  e \in Variants(d, G, started) /\ Parted(e) /\ Known(e)
<1>1. DOMAIN new \subseteq Mirrors /\ DOMAIN new # {} /\ new \in [DOMAIN new -> BOOLEAN \X Nat]
  BY SegmentAssumption
<1>2. IsFiniteSet(Used(d) \ DOMAIN new) /\ IsFiniteSet(DOMAIN new)
  <2>1. d.src \in Srcs(G, started)
    BY DEF Typed, Variants
  <2>2. IsFiniteSet(Used(d)) /\ IsFiniteSet(Mirrors)
    BY <2>1, SrcsAre, SegmentAssumption DEF Used
  <2> QED
    BY <1>1, <2>2, FS_Subset, FS_Difference
<1>3. PICK S : S = Used(d) \ DOMAIN new
  OBVIOUS
<1>4. PICK r : r = SetToSeq(S)
  OBVIOUS
<1>5. r \in Seq(S)
  BY <1>2, <1>3, <1>4, SetToSeqIs
<1>6. PICK f : f = InTurn(RemoveMirror, d, r)
  OBVIOUS
<1>7. Loose(d)
  BY DEF Parted
<1>8. f \in Variants(d, G, started) /\ (Parted(d) => Parted(f))
  BY ONLY Closed(G, started), Typed(d, G, started), <1>5, <1>6, <1>7, RemoveMirrorInTurn
<1>9. PICK k : k = [f EXCEPT !.unused = <<>>]
  OBVIOUS
<1>10. <<>> \in UnusedLists
  BY OwnOfNone DEF UnusedLists
<1>11. /\ k \in Variants(d, G, started) /\ k.chunks = f.chunks /\ k.src = f.src
       /\ k.started = f.started /\ k.finished = f.finished /\ k.status = d.status
       /\ k.sizeDefined = d.sizeDefined
  BY ONLY <1>8, <1>9, <1>10 DEF Variants
<1>12. Parted(k)
  BY <1>8, <1>11, PartedSame
<1>13. Variants(k, G, started) = Variants(d, G, started) /\ Typed(k, G, started)
  BY <1>11, VariantsOfVariant
<1>14. PICK L : L = {<<m, new[m][1], new[m][2]>> : m \in DOMAIN new}
  OBVIOUS
<1>15. L \subseteq Listed
  BY <1>1, <1>14 DEF Listed
<1>16. IsFiniteSet(L) /\ L # {}
  <2>1. PICK g : g = [m \in DOMAIN new |-> <<m, new[m][1], new[m][2]>>]
    OBVIOUS
  <2>2. L = {g[m] : m \in DOMAIN new}
    BY <1>14, <2>1
  <2>3. g \in Surjection(DOMAIN new, L)
    BY <2>1, <2>2 DEF Surjection
  <2> QED
    BY <1>1, <1>2, <1>14, <2>3, FS_Surjection
<1>17. PICK s : s = SetToSeq(L)
  OBVIOUS
<1>18. s \in Seq(L) /\ s # <<>>
  BY <1>16, <1>17, SetToSeqIs
<1>19. s \in Seq(Listed)
  BY <1>15, <1>18
<1>20. PICK e : e = InTurn(AddListed, k, s)
  OBVIOUS
<1>21. Typed(k, G, started)
  BY <1>13
<1>22. k.sizeDefined \in BOOLEAN
  BY <1>11
<1>23. MayStart(k, started)
  BY <1>11 DEF MayStart
<1>24. e \in Variants(k, G, started) /\ Parted(e) /\ (Known(k) \/ s # <<>> => Known(e))
  BY ONLY Closed(G, started), <1>12, <1>19, <1>20, <1>21, <1>22, <1>23, AddListedInTurn
<1>25. SetMirrors(d, new) = e
  BY <1>3, <1>4, <1>6, <1>9, <1>14, <1>17, <1>20 DEF SetMirrors
<1> QED
  BY <1>13, <1>18, <1>24, <1>25
=============================================================================
