--------------------------- MODULE ReceiveProofs ----------------------------
(***************************************************************************)
(* The invariant of SegmentedDownload, IInv, and that what the segments'   *)
(* jobs bring keeps it.                                                    *)
(*                                                                         *)
(* Sound(d, t) says of a download d that its segments are Good, that its   *)
(* chunks are Parted among its mirrors, that it is Sane, and, as long as no*)
(* known way to a wrong file was taken (t is empty), that the file holds   *)
(* what the memory says it holds (FileFits) and each segment's buffer      *)
(* belongs where it will be written (DataFits).  Placed says that each job *)
(* goes on where its segment ends.                                         *)
(***************************************************************************)
EXTENDS MirrorProofs

-----------------------------------------------------------------------------
(* The invariant.                                                          *)

\* The units that the job which writes the file has not written yet.
Pending(d) == d.tempOff .. d.tempOff + Len(d.temp) - 1

\* The units whose content is in the file or on its way there.
Present(d) == {u \in Units : d.file[u] \notin {"none", "absent"} \/ u \in Pending(d)}

\* What a segment holds belongs where it will be written; what it wrote of its chunks
\* is present; the rest of a file of unknown size is all of it.
DataFits(s, d) ==
  /\ \A k \in DOMAIN s.buf : s.buf[k] \in {s.off + k - 1, Corrupt}
  /\ \A u \in Units : (SegSize * s.cur <= u /\ u < s.off) => u \in Present(d)
  /\ ~d.initialized => s.off <= SegSize * s.cur /\ ~s.finding
  /\ s.finding /\ s.timers > 0 => Size <= s.off + Len(s.buf)

\* The segments that a download d may have, as long as no way to a wrong file was taken
\* (t is empty) or after one was.
Good(d, t) == {s \in Fitting :
  /\ d.tstatus = "Stopped" => s.job = "none"
  /\ s.finding => d.findTried /\ (d.size = 0 \/ d.status = "Finished")
  /\ t = {} => DataFits(s, d)}

Starts(d) == IF d.tstatus = "Stopped" THEN {FALSE} ELSE BOOLEAN

\* Each unit holds what a server sent for it.
Whole(d) == \A u \in Units : d.file[u] \in {"right", "corrupt"}

Sane(d) ==
  /\ d.size \in Nat /\ d.downloaded \in Nat /\ d.max \in Nat /\ d.sizeDefined \in BOOLEAN
  /\ d.temp \in Seq(Int) /\ d.tempOff \in Nat
  /\ d.chunks => d.size # 0
  /\ d.status = "Finished" => d.put \in {"none", "lost"}
  /\ d.tstatus = "Stopped" => d.status # "Running"

\* What a unit of the file may hold, as long as it holds what belongs there.
Contents == {"absent", "none", "old", "right", "corrupt"}

\* What the file and the memory of the download say of each other.
FileFits(d) ==
  /\ d.blocked <=> d.temp # <<>>
  /\ d.temp # <<>> => d.put = "open"
  /\ \A k \in DOMAIN d.temp : d.temp[k] \in {d.tempOff + k - 1, Corrupt}
  /\ \A u \in Units : d.file[u] \in Contents /\ (d.initialized => d.file[u] # "old")
  /\ \A c \in d.finished : ChunkUnits(c) \subseteq Present(d)
  /\ d.done => Units \subseteq Present(d)
  /\ "Finished" \in {d.status, d.tstatus} \/ d.stat => Whole(d)
  /\ d.removing => ~d.initialized /\ d.file # NoFile
  /\ ~d.initialized => /\ d.put = "none" /\ d.finished = {} /\ ~d.done
                       /\ "Finished" \notin {d.status, d.tstatus} /\ ~d.stat

Sound(d, t) ==
  /\ Typed(d, Good(d, t), Starts(d)) /\ Parted(d) /\ Known(d)
  /\ Sane(d)
  /\ t = {} => FileFits(d)

LEMMA GoodClosed ==
  ASSUME NEW d, NEW t
  PROVE  Closed(Good(d, t), Starts(d)) /\ Good(d, t) \subseteq Fitting
<1>1. Good(d, t) \subseteq Fitting /\ Starts(d) \subseteq BOOLEAN /\ FALSE \in Starts(d)
  BY DEF Good, Starts
<1>2. ASSUME NEW r \in Ranges PROVE NewSegment(r, LastSegSize(r[2])) \in Good(d, t)
  <2>1. PICK s : s = NewSegment(r, LastSegSize(r[2]))
    OBVIOUS
  <2>2. /\ s \in Fitting /\ ~s.finding /\ s.job = "none" /\ s.cur = r[1]
        /\ s.off = SegSize * r[1] /\ s.buf = <<>>
    BY <2>1, NewSegmentFits
  <2>3. PICK o \in Int : o = SegSize * s.cur
    <3>1. r[1] \in Chunks
      BY DEF Ranges
    <3>2. PICK a \in Chunks : a = r[1]
      BY <3>1
    <3>3. r[1] \in Int
      BY <3>2, ChunksAre
    <3> QED
      BY <2>2, <3>3, TimesIsInt
  <2>4. DataFits(s, d)
    <3>1. \A u \in Units : ~(o <= u /\ u < o)
      BY SizesAreNat DEF Units
    <3>2. DOMAIN s.buf = {}
      BY <2>2
    <3> QED
      BY <2>2, <2>3, <3>1, <3>2 DEF DataFits
  <2> QED
    BY <2>1, <2>2, <2>4 DEF Good
<1>3. ASSUME NEW s \in Good(d, t), ~s.finding PROVE StopTransfer(s) \in Good(d, t)
  <2>1. s \in Fitting /\ s \in Segments
    BY DEF Good, Fitting
  <2>2. PICK x : x = StopTransfer(s)
    OBVIOUS
  <2>3. /\ x = [s EXCEPT !.job = "none", !.running = FALSE, !.buf = x.buf]
        /\ x.buf \in {<<>>, s.buf} /\ x \in Fitting
    BY <2>1, <2>2, StopTransferFits
  <2>4. x.job = "none" /\ x.finding = s.finding /\ x.off = s.off /\ x.cur = s.cur
    BY <2>1, <2>3 DEF Segments
  <2>5. DataFits(s, d) => DataFits(x, d)
    BY <1>3, <2>3, <2>4 DEF DataFits
  <2> QED
    BY <1>3, <2>2, <2>3, <2>4, <2>5 DEF Good
<1>4. ASSUME TRUE \in Starts(d), NEW s \in Good(d, t) PROVE StartTransfer(s) \in Good(d, t)
  <2>1. s \in Fitting /\ s \in Segments
    BY DEF Good, Fitting
  <2>2. PICK x : x = StartTransfer(s)
    OBVIOUS
  <2>3. /\ x = [s EXCEPT !.job = x.job, !.pos = x.pos, !.resume = x.resume, !.running = TRUE]
        /\ x \in Fitting
    BY <2>1, <2>2, StartTransferFits
  <2>4. /\ x.finding = s.finding /\ x.off = s.off /\ x.cur = s.cur /\ x.buf = s.buf
        /\ x.timers = s.timers
    BY <2>1, <2>3 DEF Segments
  <2>5. DataFits(s, d) => DataFits(x, d)
    BY <2>4 DEF DataFits
  <2>6. d.tstatus # "Stopped"
    BY <1>4 DEF Starts
  <2> QED
    BY <2>2, <2>3, <2>4, <2>5, <2>6 DEF Good
<1>5. ASSUME NEW s \in Good(d, t), Unfinished(s) > 0 PROVE SplitSegment(s) \in Good(d, t)
  <2>1. s \in Fitting /\ s \in Segments
    BY DEF Good, Fitting
  <2>2. PICK x : x = SplitSegment(s)
    OBVIOUS
  <2>3. /\ x = [s EXCEPT !.end = s.end - Freed(s), !.last = SegSize, !.left = x.left, !.job = x.job]
        /\ s.job = "none" => x.job = "none"
        /\ x \in Fitting
    BY <1>5, <2>1, <2>2, SplitSegmentFits
  <2>4. /\ x.finding = s.finding /\ x.off = s.off /\ x.cur = s.cur /\ x.buf = s.buf
        /\ x.timers = s.timers
    BY <2>1, <2>3 DEF Segments
  <2>5. DataFits(s, d) => DataFits(x, d)
    BY <2>4 DEF DataFits
  <2> QED
    BY <2>2, <2>3, <2>4, <2>5 DEF Good
<1>6. ASSUME NEW s \in Good(d, t), NEW r \in Ranges, ~s.finding, s.end + 1 = r[1]
      PROVE  MergeSegment(s, LastSegSize(r[2]), r) \in Good(d, t)
  <2>1. s \in Fitting /\ s \in Segments
    BY DEF Good, Fitting
  <2>2. PICK x : x = MergeSegment(s, LastSegSize(r[2]), r)
    OBVIOUS
  <2>3. /\ x = [s EXCEPT !.end = r[2], !.last = LastSegSize(r[2]), !.left = x.left]
        /\ x \in Fitting
    BY <1>6, <2>1, <2>2, MergeSegmentFits
  <2>4. /\ x.finding = s.finding /\ x.off = s.off /\ x.cur = s.cur /\ x.buf = s.buf
        /\ x.timers = s.timers /\ x.job = s.job
    BY <2>1, <2>3 DEF Segments
  <2>5. DataFits(s, d) => DataFits(x, d)
    BY <2>4 DEF DataFits
  <2> QED
    BY <2>2, <2>3, <2>4, <2>5 DEF Good
<1> QED
  BY <1>1, <1>2, <1>3, <1>4, <1>5, <1>6 DEF Closed

\* The segments allowed depend on these parts of a download.
LEMMA GoodSame ==
  ASSUME NEW d, NEW e, NEW t, e.tstatus = d.tstatus, e.findTried = d.findTried, e.size = d.size,
         e.status = d.status, e.file = d.file, e.temp = d.temp, e.tempOff = d.tempOff,
         e.initialized = d.initialized
  PROVE  Good(e, t) = Good(d, t) /\ Starts(e) = Starts(d) /\ Present(e) = Present(d)
<1>1. Present(e) = Present(d)
  BY DEF Present, Pending
<1>2. \A s : DataFits(s, e) = DataFits(s, d)
  BY <1>1 DEF DataFits
<1> QED
  BY <1>1, <1>2 DEF Good, Starts

LEMMA VariantSound ==
  ASSUME NEW d, NEW t, Sound(d, t), NEW e, e \in Variants(d, Good(d, t), Starts(d)), Parted(e), Known(e)
  PROVE  Sound(e, t)
<1>1. e \in Variants(d, Good(d, t), Starts(d))
  OBVIOUS
<1>2. /\ e.size = d.size /\ e.chunks = d.chunks /\ e.finished = d.finished /\ e.done = d.done
      /\ e.status = d.status /\ e.tstatus = d.tstatus /\ e.put = d.put
      /\ e.findTried = d.findTried /\ e.initialized = d.initialized /\ e.file = d.file
      /\ e.sizeDefined = d.sizeDefined
      /\ e.temp = d.temp /\ e.tempOff = d.tempOff /\ e.blocked = d.blocked
      /\ e.stat = d.stat /\ e.removing = d.removing /\ e.max \in Nat
      /\ e.downloaded = d.downloaded
  BY ONLY <1>1 DEF Variants
<1>3. Good(e, t) = Good(d, t) /\ Starts(e) = Starts(d) /\ Present(e) = Present(d)
  BY ONLY <1>2, GoodSame
<1>4. Typed(e, Good(e, t), Starts(e))
  <2>1. Typed(e, Good(d, t), Starts(d))
    BY ONLY <1>1, VariantsOfVariant
  <2> QED
    BY <2>1, <1>3
<1>5. Sane(e)
  BY <1>2 DEF Sound, Sane
<1>6. t = {} => FileFits(e)
  BY <1>2, <1>3 DEF Sound, FileFits, Whole
<1> QED
  BY <1>4, <1>5, <1>6 DEF Sound

LEMMA SoundMayStart ==
  ASSUME NEW d, NEW t, Sound(d, t)
  PROVE  /\ MayStart(d, Starts(d)) /\ d.sizeDefined \in BOOLEAN /\ Loose(d) /\ Parted(d) /\ Known(d)
         /\ Typed(d, Good(d, t), Starts(d)) /\ d \in Variants(d, Good(d, t), Starts(d))
         /\ Closed(Good(d, t), Starts(d))
<1>1. Closed(Good(d, t), Starts(d))
  BY GoodClosed
<1> QED
  BY <1>1 DEF Sound, Sane, MayStart, Starts, Parted, Typed

Replaced(q, i, s) == [q EXCEPT ![i] = s]

LEMMA OwnOfReplaced ==
  ASSUME NEW S, NEW q \in Seq(S), NEW i \in DOMAIN q, NEW s \in S, Apart(q),
         Own(s) \cap (OwnOf(q) \ Own(q[i])) = {}, NEW r, r = Replaced(q, i, s)
  PROVE  r \in Seq(S) /\ Apart(r) /\ OwnOf(r) = (OwnOf(q) \ Own(q[i])) \cup Own(s)
BY ZenonT(30), OwnOfExcept DEF Replaced

\* One segment changes and keeps its chunks.
LEMMA OneSegmentKeeps ==
  ASSUME NEW G, NEW started, Closed(G, started), NEW d, Typed(d, G, started), Parted(d),
         NEW m \in Used(d), NEW i \in DOMAIN d.src[m].segs, NEW s \in G,
         Own(s) = Own(d.src[m].segs[i])
  PROVE  LET e == [d EXCEPT !.src[m].segs[i] = s]
         IN  /\ e \in Variants(d, G, started) /\ Parted(e) /\ Used(e) = Used(d)
             /\ e.src[m].segs = [d.src[m].segs EXCEPT ![i] = s]
<1>1. d.src \in Srcs(G, started) /\ d \in Variants(d, G, started)
  BY DEF Typed, Variants
<1>2. d.src[m] \in Sources(G, started) /\ DOMAIN d.src = Used(d)
  BY <1>1, SrcsAre DEF Used
<1>3. PICK q \in Seq(G) : q = d.src[m].segs
  BY <1>2 DEF Sources
<1>4. PICK A \in SUBSET Chunks : A = d.started
  BY <1>1 DEF Variants
<1>5. PICK par \in Nat : par = d.src[m].par
  BY <1>2 DEF Sources
<1>6. PICK r : r = [q EXCEPT ![i] = s]
  OBVIOUS
<1>7. i \in DOMAIN q /\ s \in G /\ Own(s) = Own(q[i])
  BY <1>3
<1>8. r \in Seq(G) /\ DOMAIN r = DOMAIN q /\ \A j \in DOMAIN q : r[j] = IF j = i THEN s ELSE q[j]
  BY <1>3, <1>6, <1>7
<1>9. PICK e : e = [d EXCEPT !.src[m].segs[i] = s]
  OBVIOUS
<1>10. e = WithSegments(d, m, r, par, A)
  BY ZenonT(30), <1>1, <1>2, <1>3, <1>4, <1>5, <1>6, <1>9 DEF Variants, Sources, WithSegments
<1>11. m \in Used(d) /\ par \in Nat /\ r \in Seq(G)
  BY <1>8
<1>12. /\ e \in Variants(d, G, started) /\ Used(e) = Used(d) /\ e.finished = d.finished
       /\ e.chunks = d.chunks /\ e.started = A /\ e.src[m].segs = r
       /\ \A n \in Used(d) : n # m => e.src[n] = d.src[n]
  BY ONLY Closed(G, started), Typed(d, G, started), <1>4, <1>10, <1>11, SegmentsOfOne
<1>13. OwnOf(r) = OwnOf(q) /\ (Apart(q) => Apart(r))
  <2>1. \A j \in DOMAIN q : Own(r[j]) = Own(q[j])
    BY <1>7, <1>8
  <2>2. DOMAIN r = DOMAIN q
    BY <1>8
  <2> QED
    BY ONLY <2>1, <2>2, OwnOfSame
<1>14. Parted(e)
  <2>1. \A n \in Used(d) : Owned(e, n) = Owned(d, n) /\ (Apart(d.src[n].segs) => Apart(e.src[n].segs))
    BY <1>3, <1>12, <1>13 DEF Owned
  <2> QED
    BY ONLY Parted(d), <1>4, <1>12, <2>1 DEF Parted, Loose
<1> QED
  BY <1>3, <1>6, <1>9, <1>12, <1>14

LEMMA SegmentOf ==
  ASSUME NEW G, NEW started, Closed(G, started), NEW d, Typed(d, G, started), Parted(d),
         NEW m \in Used(d), NEW i \in DOMAIN d.src[m].segs
  PROVE  LET s == d.src[m].segs[i]
         IN  /\ s \in G /\ s \in Fitting /\ s \in Segments /\ s.cur \in Chunks /\ s.end \in Chunks
             /\ s.cur <= s.end /\ <<s.cur, s.end>> \in Ranges
             /\ d.src[m].segs \in Seq(G) /\ d.src[m].segs # <<>> /\ d.src[m].par \in Nat
             /\ d.chunks => ~s.finding
             /\ ~d.chunks => s.finding /\ Len(d.src[m].segs) = 1 /\ Owned(d, m) = {Unknown}
<1>1. d.src \in Srcs(G, started)
  BY DEF Typed, Variants
<1>2. d.src[m].segs \in Seq(G) /\ d.src[m].par \in Nat
  BY <1>1, SrcsAre DEF Used
<1>3. PICK q \in Seq(G) : q = d.src[m].segs
  BY <1>2
<1>4. \A j \in DOMAIN q : /\ q[j] \in Fitting /\ q[j] \in Segments /\ q[j].cur \in Chunks
                          /\ q[j].end \in Chunks /\ q[j].cur <= q[j].end
  <2> SUFFICES ASSUME NEW j \in DOMAIN q
               PROVE  /\ q[j] \in Fitting /\ q[j] \in Segments /\ q[j].cur \in Chunks
                      /\ q[j].end \in Chunks /\ q[j].cur <= q[j].end
    OBVIOUS
  <2>1. q[j] \in Fitting
    BY <1>3 DEF Closed
  <2> QED
    BY <2>1 DEF Fitting, Segments, Counts
<1>5. d.chunks => \A j \in DOMAIN q : ~q[j].finding
  <2> SUFFICES ASSUME d.chunks, NEW j \in DOMAIN q, q[j].finding PROVE FALSE
    OBVIOUS
  <2>1. Unknown \in Owned(d, m)
    BY <1>3 DEF Owned, OwnOf, Own
  <2> QED
    BY <2>1 DEF Parted, Loose
<1>6. ~d.chunks => \A j \in DOMAIN q : q[j].finding
  <2> SUFFICES ASSUME ~d.chunks, NEW j \in DOMAIN q, ~q[j].finding PROVE FALSE
    OBVIOUS
  <2>1. Own(q[j]) \subseteq Owned(d, m)
    BY <1>3 DEF Owned, OwnOf
  <2>2. q[j].cur \in Own(q[j])
    <3>1. PICK a \in Nat, b \in Nat : a = q[j].cur /\ b = q[j].end /\ a <= b
      BY <1>4, ChunksAre
    <3> QED
      BY <3>1 DEF Own
  <2>3. Owned(d, m) \subseteq {Unknown}
    BY DEF Parted, Loose
  <2>4. q[j].cur # Unknown
    BY <1>4, UnknownIsNoChunk
  <2> QED
    BY <2>1, <2>2, <2>3, <2>4
<1>7. ~d.chunks => Len(q) = 1 /\ Owned(d, m) = {Unknown}
  <2> SUFFICES ASSUME ~d.chunks PROVE Len(q) = 1 /\ Owned(d, m) = {Unknown}
    OBVIOUS
  <2>1. \A j \in DOMAIN q : Own(q[j]) = {Unknown}
    BY <1>6 DEF Own
  <2>2. \A j, k \in DOMAIN q : j = k
    BY ZenonT(30), <1>3, <2>1 DEF Parted, Loose, Apart
  <2>3. Len(q) = 1
    <3>1. PICK n \in Nat : n = Len(q) /\ DOMAIN q = 1 .. n
      OBVIOUS
    <3>2. n # 0
      BY <1>3, <3>1
    <3>3. 1 \in 1 .. n /\ n \in 1 .. n
      BY <3>1, <3>2
    <3> QED
      BY <2>2, <3>1, <3>3
  <2> QED
    BY <1>3, <2>1, <2>3 DEF Owned, OwnOf
<1>8. i \in DOMAIN q
  BY <1>3
<1>9. <<q[i].cur, q[i].end>> \in Ranges
  BY <1>4, <1>8 DEF Ranges
<1>10. q # <<>>
  BY <1>8
<1> QED
  BY SMTT(30), <1>2, <1>3, <1>4, <1>5, <1>6, <1>7, <1>8, <1>9, <1>10

\* The error of a mirror's only segment; without chunks the mirror just stays.
LEMMA LastErrorKeeps ==
  ASSUME NEW G, NEW started, Closed(G, started), NEW d, Typed(d, G, started), Parted(d),
         NEW m \in Used(d), NEW i \in DOMAIN d.src[m].segs, Len(d.src[m].segs) = 1
  PROVE  LET s == d.src[m].segs[i]
             e == BrokenSegments([d EXCEPT !.src[m].segs = <<>>], m, <<s.cur, s.end>>)
         IN  e \in Variants(d, G, started) /\ Parted(e) /\ Known(e)
<1>1. d.src \in Srcs(G, started) /\ d \in Variants(d, G, started)
  BY DEF Typed, Variants
<1>2. d.src[m] \in Sources(G, started) /\ DOMAIN d.src = Used(d)
  BY <1>1, SrcsAre DEF Used
<1>3. PICK q \in Seq(G) : q = d.src[m].segs
  BY <1>2 DEF Sources
<1>4. PICK A \in SUBSET Chunks : A = d.started
  BY <1>1 DEF Variants
<1>5. PICK par \in Nat : par = d.src[m].par
  BY <1>2 DEF Sources
<1>6. PICK s : s = q[i]
  OBVIOUS
<1>7. m \in Used(d) /\ i \in DOMAIN d.src[m].segs
  OBVIOUS
<1>8. /\ s \in Fitting /\ s.cur \in Chunks /\ s.end \in Chunks
      /\ d.chunks => ~s.finding
      /\ ~d.chunks => Owned(d, m) = {Unknown}
  BY ONLY Closed(G, started), Typed(d, G, started), Parted(d), <1>3, <1>6, <1>7, SegmentOf
<1>9. PICK f : f = [d EXCEPT !.src[m].segs = <<>>]
  OBVIOUS
<1>10. f = WithSegments(d, m, <<>>, par, A)
  BY ZenonT(30), <1>1, <1>2, <1>4, <1>5, <1>9 DEF Variants, Sources, WithSegments
<1>11. <<>> \in Seq(G) /\ OwnOf(<<>>) = {} /\ Apart(<<>>)
  BY OwnOfNone
<1>12. /\ f \in Variants(d, G, started) /\ Used(f) = Used(d) /\ f.finished = d.finished
       /\ f.chunks = d.chunks /\ f.started = A /\ f.src[m].segs = <<>>
       /\ \A n \in Used(d) : n # m => f.src[n] = d.src[n]
  <2>1. PICK none : none = <<>>
    OBVIOUS
  <2>5. none \in Seq(G)
    BY <1>11, <2>1
  <2>2. f = WithSegments(d, m, none, par, A)
    BY <1>10, <2>1
  <2>3. m \in Used(d)
    OBVIOUS
  <2>4. /\ f \in Variants(d, G, started) /\ Used(f) = Used(d) /\ f.finished = d.finished
        /\ f.chunks = d.chunks /\ f.started = A /\ f.src[m].segs = none
        /\ \A n \in Used(d) : n # m => f.src[n] = d.src[n]
    BY ONLY Closed(G, started), Typed(d, G, started), <1>4, <1>5, <2>5, <2>2, <2>3, SegmentsOfOne
  <2> QED
    BY <2>1, <2>4
<1>13. CASE ~d.chunks
  <2>1. BrokenSegments(f, m, <<s.cur, s.end>>) = f
    BY <1>12, <1>13 DEF BrokenSegments
  <2>2. Owned(f, m) = {}
    BY <1>11, <1>12 DEF Owned
  <2>3. d.started = {} /\ d.finished = {}
    BY <1>13 DEF Parted, Loose
  <2>4. Apart(f.src[m].segs)
    BY <1>11, <1>12
  <2>5. f.started \ f.finished = ((d.started \ d.finished) \ Owned(d, m)) \cup (Owned(f, m) \ {Unknown})
    BY <1>4, <1>12, <2>2, <2>3
  <2>6. f.finished \subseteq f.started /\ f.started \subseteq Chunks
    BY <1>4, <1>12, <2>3
  <2>7. \A n \in Used(d) : n # m => Owned(f, m) \cap Owned(d, n) = {}
    BY <2>2
  <2>8. d.chunks => Unknown \notin Owned(f, m)
    BY <1>13
  <2>9. ~d.chunks => f.started = {}
    BY <1>4, <1>12, <2>3
  <2>10. Parted(f)
    BY ONLY Parted(d), <1>7, <1>12, <2>4, <2>5, <2>6, <2>7, <2>8, <2>9, PartedWith
  <2>11. Known(f)
    BY <1>7, <1>12 DEF Known
  <2> QED
    BY <1>3, <1>6, <1>9, <1>12, <2>1, <2>10, <2>11
<1>14. CASE d.chunks
  <2>1. PICK g : g = [f EXCEPT !.started = @ \ RangeSet(<<s.cur, s.end>>)]
    OBVIOUS
  <2>2. BrokenSegments(f, m, <<s.cur, s.end>>) = RemoveMirror(g, m)
    BY <1>12, <1>14, <2>1 DEF BrokenSegments
  <2>3. Own(s) = RangeSet(<<s.cur, s.end>>)
    BY <1>8, <1>14 DEF Own, RangeSet
  <2>4. RemoveAt(q, i) = <<>>
    <3>1. i \in DOMAIN q
      BY <1>3
    <3>2. RemoveAt(q, i) \in Seq(G) /\ Len(RemoveAt(q, i)) = Len(q) - 1
      BY ONLY <1>3, <3>1, OwnOfRemoveAt
    <3> QED
      BY <1>3, <3>2
  <2>5. g = WithSegments(d, m, <<>>, par, A \ Own(s))
    BY <1>1, <1>2, <1>4, <1>10, <2>1, <2>3 DEF WithSegments, Variants, Sources
  <2>6. g = Dropped(d, m, i, par)
    BY <1>3, <1>4, <1>6, <2>4, <2>5 DEF Dropped
  <2>7. ~d.src[m].segs[i].finding
    BY <1>3, <1>6, <1>8, <1>14
  <2>15. par \in Nat
    BY <1>5
  <2>16. m \in Used(d)
    OBVIOUS
  <2>17. i \in DOMAIN d.src[m].segs
    OBVIOUS
  <2>8. g \in Variants(d, G, started) /\ Parted(g) /\ Used(g) = Used(d)
    BY ONLY Closed(G, started), Typed(d, G, started), Parted(d), <2>6, <2>7, <2>15, <2>16, <2>17,
            DropKeeps
  <2>9. Variants(g, G, started) = Variants(d, G, started) /\ Typed(g, G, started)
    BY <2>8, VariantsOfVariant
  <2>10. Loose(g)
    BY <2>8 DEF Parted
  <2>11. Typed(g, G, started)
    BY <2>9
  <2>12. PICK e : e = RemoveMirror(g, m)
    OBVIOUS
  <2>13. e \in Variants(g, G, started) /\ (Parted(g) => Parted(e)) /\ (Known(g) => Known(e))
    BY ONLY Closed(G, started), <2>10, <2>11, <2>12, RemoveMirrorKeeps
  <2>14. Known(g)
    BY <1>7, <2>8 DEF Known
  <2> QED
    BY <1>3, <1>6, <1>9, <2>2, <2>8, <2>9, <2>12, <2>13, <2>14
<1> QED
  BY <1>13, <1>14

\* The error of one of several segments: the one before it takes over, or the chunks
\* are assigned anew.
LEMMA TryMergeKeeps ==
  ASSUME NEW G, NEW started, Closed(G, started), NEW d, Typed(d, G, started), Parted(d),
         NEW m \in Used(d), NEW i \in DOMAIN d.src[m].segs, Len(d.src[m].segs) # 1,
         NEW par \in Nat
  PROVE  LET s == d.src[m].segs[i]
             e == TryMerge([d EXCEPT !.src[m].segs = RemoveAt(@, i), !.src[m].par = par], m,
                           <<s.cur, s.end>>, s.last)
         IN  e \in Variants(d, G, started) /\ Parted(e) /\ Known(e)
<1>1. d.src \in Srcs(G, started) /\ d \in Variants(d, G, started)
  BY DEF Typed, Variants
<1>2. d.src[m] \in Sources(G, started) /\ DOMAIN d.src = Used(d)
  BY <1>1, SrcsAre DEF Used
<1>3. PICK q \in Seq(G) : q = d.src[m].segs
  BY <1>2 DEF Sources
<1>4. PICK A \in SUBSET Chunks : A = d.started
  BY <1>1 DEF Variants
<1>5. PICK s : s = q[i]
  OBVIOUS
<1>6. m \in Used(d) /\ i \in DOMAIN d.src[m].segs
  OBVIOUS
<1>7. /\ s \in Fitting /\ s.cur \in Chunks /\ s.end \in Chunks /\ <<s.cur, s.end>> \in Ranges
      /\ d.chunks => ~s.finding
      /\ ~d.chunks => Len(d.src[m].segs) = 1
  BY ONLY Closed(G, started), Typed(d, G, started), Parted(d), <1>3, <1>5, <1>6, SegmentOf
<1>8. d.chunks /\ ~s.finding /\ s.last = LastSegSize(s.end) /\ s.cur <= s.end
  BY <1>7 DEF Fitting, Counts
<1>9. PICK range : range = <<s.cur, s.end>>
  OBVIOUS
<1>10. Own(s) = RangeSet(range) /\ range \in Ranges /\ range[1] = s.cur /\ range[2] = s.end
  BY <1>7, <1>8, <1>9 DEF Own, RangeSet
<1>11. PICK r : r = RemoveAt(q, i)
  OBVIOUS
<1>12. i \in DOMAIN q
  BY <1>3
<1>13. Apart(q) /\ OwnOf(q) = Owned(d, m)
  BY <1>3 DEF Parted, Loose, Owned
<1>14. /\ r \in Seq(G) /\ (Apart(q) => Apart(r) /\ OwnOf(r) = OwnOf(q) \ Own(q[i]))
       /\ \A k \in DOMAIN r : \E l \in DOMAIN q : l # i /\ r[k] = q[l]
  BY ONLY <1>3, <1>11, <1>12, OwnOfRemoveAt
<1>15. PICK f : f = [d EXCEPT !.src[m].segs = RemoveAt(@, i), !.src[m].par = par]
  OBVIOUS
<1>16. f = WithSegments(d, m, r, par, A)
  BY <1>1, <1>2, <1>3, <1>4, <1>11, <1>15 DEF Variants, Sources, WithSegments
<1>17. r \in Seq(G) /\ par \in Nat
  BY <1>14
<1>18. /\ f \in Variants(d, G, started) /\ Used(f) = Used(d) /\ f.finished = d.finished
       /\ f.chunks = d.chunks /\ f.started = A /\ f.src[m].segs = r
       /\ \A n \in Used(d) : n # m => f.src[n] = d.src[n]
  BY ONLY Closed(G, started), Typed(d, G, started), <1>4, <1>6, <1>16, <1>17, SegmentsOfOne
<1>19. PICK before : before = {j \in DOMAIN f.src[m].segs : f.src[m].segs[j].end + 1 = range[1]}
  OBVIOUS
<1>20. before = {j \in DOMAIN r : r[j].end + 1 = s.cur}
  BY <1>10, <1>18, <1>19
<1>21. CASE before = {}
  <2>1. PICK g : g = [f EXCEPT !.started = @ \ RangeSet(range)]
    OBVIOUS
  <2>2. g = WithSegments(d, m, r, par, A \ Own(s))
    BY <1>1, <1>2, <1>4, <1>10, <1>16, <2>1 DEF WithSegments, Variants, Sources
  <2>3. g = Dropped(d, m, i, par)
    BY <1>3, <1>4, <1>5, <1>11, <2>2 DEF Dropped
  <2>4. ~d.src[m].segs[i].finding
    BY <1>3, <1>5, <1>8
  <2>14. par \in Nat
    OBVIOUS
  <2>15. m \in Used(d)
    OBVIOUS
  <2>16. i \in DOMAIN d.src[m].segs
    OBVIOUS
  <2>5. g \in Variants(d, G, started) /\ Parted(g) /\ Used(g) = Used(d)
    BY ONLY Closed(G, started), Typed(d, G, started), Parted(d), <2>3, <2>4, <2>14, <2>15,
            <2>16, DropKeeps
  <2>6. Variants(g, G, started) = Variants(d, G, started) /\ Typed(g, G, started)
    BY <2>5, VariantsOfVariant
  <2>7. m \in Used(g)
    BY <1>6, <2>5
  <2>8. Typed(g, G, started)
    BY <2>6
  <2>9. Parted(g)
    BY <2>5
  <2>10. PICK e : e = AssignSegments(g, m)
    OBVIOUS
  <2>11. e \in Variants(g, G, started) /\ Parted(e) /\ Used(e) = Used(g)
    BY ONLY Closed(G, started), <2>7, <2>8, <2>9, <2>10, AssignSegmentsKeeps
  <2>12. TryMerge(f, m, range, s.last) = e
    BY <1>19, <1>21, <2>1, <2>10 DEF TryMerge, SlotFreeSegments
  <2>13. Known(e)
    BY <2>7, <2>11 DEF Known
  <2> QED
    BY <1>3, <1>5, <1>9, <1>15, <2>6, <2>11, <2>12, <2>13
<1>22. CASE before # {}
  <2>1. before \subseteq Nat
    BY <1>14, <1>20
  <2>2. PICK j : j = Min(before)
    OBVIOUS
  <2>3. j \in before
    BY <1>22, <2>1, <2>2, MinOfNaturals
  <2>4. j \in DOMAIN r /\ r[j].end + 1 = s.cur
    BY <1>20, <2>3
  <2>5. PICK x \in G : x = r[j] /\ x.end + 1 = s.cur
    BY <1>14, <2>4
  <2>6. x \in Fitting /\ ~x.finding
    <3>1. PICK l \in DOMAIN q : x = q[l]
      BY <1>14, <2>4, <2>5
    <3>2. l \in DOMAIN d.src[m].segs /\ m \in Used(d)
      BY <1>3
    <3>3. d.src[m].segs[l] \in Fitting /\ (d.chunks => ~d.src[m].segs[l].finding)
      BY ONLY Closed(G, started), Typed(d, G, started), Parted(d), <3>2, SegmentOf
    <3> QED
      BY <1>3, <1>8, <3>1, <3>3
  <2>7. PICK t : t = MergeSegment(x, LastSegSize(range[2]), range)
    OBVIOUS
  <2>8. t \in Fitting /\ Own(t) = Own(x) \cup RangeSet(range)
    <3>1. x.end + 1 = range[1] /\ range \in Ranges
      BY <1>10, <2>5
    <3> QED
      BY ONLY <2>6, <2>7, <3>1, MergeSegmentFits
  <2>9. t \in G
    <3>1. x.end + 1 = range[1] /\ range \in Ranges
      BY <1>10, <2>5
    <3> QED
      BY <2>5, <2>6, <2>7, <3>1 DEF Closed
  <2>10. PICK z : z = Replaced(r, j, t)
    OBVIOUS
  <2>11. Own(t) \cap (OwnOf(r) \ Own(r[j])) = {}
    BY <1>5, <1>10, <1>13, <1>14, <2>5, <2>8
  <2>12. j \in DOMAIN r
    BY <2>4
  <2>22. r \in Seq(G)
    BY <1>14
  <2>23. Apart(r)
    BY <1>13, <1>14
  <2>13. z \in Seq(G) /\ Apart(z) /\ OwnOf(z) = (OwnOf(r) \ Own(r[j])) \cup Own(t)
    BY ONLY <2>9, <2>10, <2>11, <2>12, <2>22, <2>23, OwnOfReplaced
  <2>14. Apart(z) /\ OwnOf(z) = OwnOf(q)
    <3>1. Own(q[i]) \subseteq OwnOf(q) /\ Own(r[j]) \subseteq OwnOf(r)
      BY <1>12, <2>4 DEF OwnOf
    <3> QED
      BY <1>5, <1>10, <1>13, <1>14, <2>5, <2>8, <2>11, <2>13, <3>1
  <2>15. PICK e : e = TryMerge(f, m, range, s.last)
    OBVIOUS
  <2>16. e = [f EXCEPT !.src[m].segs[j] = MergeSegment(@, s.last, range)]
    BY <1>19, <1>22, <2>2, <2>15 DEF TryMerge
  <2>17. e = WithSegments(d, m, z, par, A)
    <3>1. f.src[m].segs = r
      BY <1>18
    <3>2. MergeSegment(r[j], s.last, range) = t
      BY <1>8, <1>10, <2>5, <2>7
    <3>3. e = [f EXCEPT !.src[m].segs[j] = t]
      BY <2>16, <3>1, <3>2
    <3>4. [f EXCEPT !.src[m].segs[j] = t] = [f EXCEPT !.src[m].segs = [r EXCEPT ![j] = t]]
      BY <3>1
    <3>5. e = [f EXCEPT !.src[m].segs = z]
      BY <2>10, <3>3, <3>4 DEF Replaced
    <3>6. PICK b : b = [d.src[m] EXCEPT !.segs = r, !.par = par]
      OBVIOUS
    <3>7. PICK src : src = [d.src EXCEPT ![m] = b]
      OBVIOUS
    <3>8. f = [d EXCEPT !.src = src, !.started = A]
      BY ZenonT(30), <1>1, <1>2, <1>16, <3>6, <3>7 DEF WithSegments, Variants, Sources
    <3>9. f.src = src
      BY <1>1, <3>8 DEF Variants
    <3>10. src[m] = b
      BY <1>2, <3>7
    <3>11. e = [f EXCEPT !.src = [src EXCEPT ![m] = [b EXCEPT !.segs = z]]]
      BY <3>5, <3>9, <3>10
    <3>12. [b EXCEPT !.segs = z] = [d.src[m] EXCEPT !.segs = z, !.par = par]
      BY <1>2, <3>6 DEF Sources
    <3>13. [src EXCEPT ![m] = [b EXCEPT !.segs = z]]
           = [d.src EXCEPT ![m] = [d.src[m] EXCEPT !.segs = z, !.par = par]]
      BY <1>2, <3>7, <3>12
    <3>14. PICK new : new = [d.src EXCEPT ![m] = [d.src[m] EXCEPT !.segs = z, !.par = par]]
      OBVIOUS
    <3>15. e = [d EXCEPT !.src = new, !.started = A]
      BY <1>1, <3>8, <3>11, <3>13, <3>14 DEF Variants
    <3> QED
      BY <1>1, <1>2, <3>14, <3>15 DEF WithSegments, Variants, Sources
  <2>18. z \in Seq(G)
    BY <2>13
  <2>19. /\ e \in Variants(d, G, started) /\ Used(e) = Used(d) /\ e.finished = d.finished
         /\ e.chunks = d.chunks /\ e.started = A /\ e.src[m].segs = z
         /\ \A n \in Used(d) : n # m => e.src[n] = d.src[n]
    BY ONLY Closed(G, started), Typed(d, G, started), <1>4, <1>6, <1>17, <2>17, <2>18, SegmentsOfOne
  <2>20. Parted(e)
    <3>1. \A n \in Used(d) : Owned(e, n) = Owned(d, n) /\ (Apart(d.src[n].segs) => Apart(e.src[n].segs))
      BY <1>13, <2>14, <2>19 DEF Owned
    <3> QED
      BY ONLY Parted(d), <1>4, <2>19, <3>1 DEF Parted, Loose
  <2>21. Known(e)
    BY <1>6, <2>19 DEF Known
  <2> QED
    BY <1>3, <1>5, <1>9, <1>15, <2>15, <2>19, <2>20, <2>21
<1> QED
  BY <1>21, <1>22

LEMMA SlotErrorKeeps ==
  ASSUME NEW G, NEW started, Closed(G, started), NEW d, Typed(d, G, started), Parted(d),
         NEW m \in Used(d), NEW i \in DOMAIN d.src[m].segs
  PROVE  LET e == SlotError(d, m, i)
         IN  e \in Variants(d, G, started) /\ Parted(e) /\ Known(e)
<1>1. m \in Used(d) /\ i \in DOMAIN d.src[m].segs
  OBVIOUS
<1>2. CASE Len(d.src[m].segs) = 1
  <2>1. PICK e : e = SlotError(d, m, i)
    OBVIOUS
  <2>2. e = BrokenSegments([d EXCEPT !.src[m].segs = <<>>], m,
                           <<d.src[m].segs[i].cur, d.src[m].segs[i].end>>)
    BY <1>2, <2>1 DEF SlotError
  <2>3. e \in Variants(d, G, started) /\ Parted(e) /\ Known(e)
    BY ONLY Closed(G, started), Typed(d, G, started), Parted(d), <1>1, <1>2, <2>2, LastErrorKeeps
  <2> QED
    BY <2>1, <2>3
<1>3. CASE Len(d.src[m].segs) # 1
  <2>1. d.src[m].par \in Nat
    BY ONLY Closed(G, started), Typed(d, G, started), Parted(d), <1>1, SegmentOf
  <2>2. PICK par \in Nat : par = IF d.src[m].par > 1 THEN d.src[m].par - 1 ELSE d.src[m].par
    BY <2>1
  <2>3. PICK e : e = SlotError(d, m, i)
    OBVIOUS
  <2>4. DOMAIN d.src = Used(d) /\ DOMAIN d.src[m] = {"par", "supposed", "started", "segs"}
    <3>1. d.src \in Srcs(G, started)
      BY DEF Typed, Variants
    <3>2. d.src[m] \in Sources(G, started)
      BY <3>1, SrcsAre DEF Used
    <3> QED
      BY <3>2 DEF Sources, Used
  <2>5. e = TryMerge([d EXCEPT !.src[m].segs = RemoveAt(@, i), !.src[m].par = par], m,
                     <<d.src[m].segs[i].cur, d.src[m].segs[i].end>>, d.src[m].segs[i].last)
    <3>1. [d EXCEPT !.src[m].segs = RemoveAt(@, i), !.src[m].par = IF @ > 1 THEN @ - 1 ELSE @]
          = [d EXCEPT !.src[m].segs = RemoveAt(@, i), !.src[m].par = par]
      BY <2>2, <2>4
    <3> QED
      BY <1>3, <2>3, <3>1 DEF SlotError
  <2>6. e \in Variants(d, G, started) /\ Parted(e) /\ Known(e)
    BY ONLY Closed(G, started), Typed(d, G, started), Parted(d), <1>1, <1>3, <2>2, <2>5, TryMergeKeeps
  <2> QED
    BY <2>3, <2>6
<1> QED
  BY <1>2, <1>3

LEMMA TypedGrows ==
  ASSUME NEW d, NEW G, NEW H, NEW started, NEW more, Typed(d, G, started), G \subseteq H,
         started \subseteq more
  PROVE  Typed(d, H, more)
<1>1. Sources(G, started) \subseteq Sources(H, more)
  <2> SUFFICES ASSUME NEW s \in Sources(G, started) PROVE s \in Sources(H, more)
    OBVIOUS
  <2>1. s.segs \in Seq(G)
    BY DEF Sources
  <2>2. s.segs \in Seq(H)
    BY <2>1
  <2> QED
    BY <2>2 DEF Sources
<1>2. Srcs(G, started) \subseteq Srcs(H, more)
  <2> SUFFICES ASSUME NEW f \in Srcs(G, started) PROVE f \in Srcs(H, more)
    OBVIOUS
  <2>1. DOMAIN f \subseteq Mirrors /\ f \in [DOMAIN f -> Sources(G, started)]
    BY SrcsAre
  <2>2. f \in [DOMAIN f -> Sources(H, more)]
    BY <1>1, <2>1
  <2> QED
    BY <2>1, <2>2, SrcsFrom
<1>3. d.src \in Srcs(H, more)
  BY <1>2 DEF Typed, Variants
<1> QED
  BY <1>3 DEF Typed, Variants

\* The segments allowed become more.
LEMMA GoodGrows ==
  ASSUME NEW d, NEW e, NEW t, d.tstatus = "Stopped" \/ e.tstatus # "Stopped",
         d.findTried => e.findTried,
         d.size = 0 \/ d.status = "Finished" => e.size = 0 \/ e.status = "Finished",
         d.initialized => e.initialized,
         t = {} => Present(d) \subseteq Present(e)
  PROVE  Good(d, t) \subseteq Good(e, t) /\ Starts(d) \subseteq Starts(e)
<1>1. ASSUME t = {}, NEW s, DataFits(s, d) PROVE DataFits(s, e)
  BY <1>1 DEF DataFits
<1>2. Good(d, t) \subseteq Good(e, t)
  <2> SUFFICES ASSUME NEW s \in Good(d, t) PROVE s \in Good(e, t)
    OBVIOUS
  <2>1. t = {} => DataFits(s, e)
    BY <1>1 DEF Good
  <2> QED
    BY <2>1 DEF Good
<1> QED
  BY <1>2 DEF Starts

LEMMA FieldsSound ==
  ASSUME NEW d, NEW t, Sound(d, t), NEW e, Typed(e, Good(d, t), Starts(d)), e.src = d.src,
         e.started = d.started, e.finished = d.finished, e.chunks = d.chunks,
         e.unused = d.unused, Good(d, t) \subseteq Good(e, t), Starts(d) \subseteq Starts(e),
         Sane(e), t = {} => FileFits(e)
  PROVE  Sound(e, t)
<1>1. Typed(e, Good(e, t), Starts(e))
  BY TypedGrows
<1>2. Parted(e) /\ Used(e) = Used(d)
  BY PartedSame DEF Sound
<1>3. Known(e)
  BY <1>2 DEF Sound, Known
<1> QED
  BY <1>1, <1>2, <1>3 DEF Sound

LEMMA SoundGrows ==
  ASSUME NEW d, NEW t, NEW u, t \subseteq u, Sound(d, t)
  PROVE  Sound(d, u)
<1>1. u = {} => t = {}
  OBVIOUS
<1>2. Good(d, t) \subseteq Good(d, u)
  BY <1>1 DEF Good
<1>3. Typed(d, Good(d, u), Starts(d))
  BY <1>2, TypedGrows DEF Sound
<1> QED
  BY <1>1, <1>3 DEF Sound

WithSegment(d, m, i, s) == [d EXCEPT !.src[m].segs[i] = s]

LEMMA OneSegmentSound ==
  ASSUME NEW d, NEW t, Sound(d, t), NEW m \in Used(d), NEW i \in DOMAIN d.src[m].segs,
         NEW s \in Good(d, t), Own(s) = Own(d.src[m].segs[i]),
         NEW e, e = WithSegment(d, m, i, s)
  PROVE  Sound(e, t) /\ Used(e) = Used(d) /\ e.src[m].segs = Replaced(d.src[m].segs, i, s)
<1>1. PICK G : G = Good(d, t)
  OBVIOUS
<1>2. PICK started : started = Starts(d)
  OBVIOUS
<1>3. Closed(G, started)
  BY <1>1, <1>2, GoodClosed
<1>4. Typed(d, G, started)
  BY <1>1, <1>2 DEF Sound
<1>5. Parted(d)
  BY DEF Sound
<1>6. m \in Used(d) /\ i \in DOMAIN d.src[m].segs /\ Own(s) = Own(d.src[m].segs[i])
  OBVIOUS
<1>7. s \in G
  BY <1>1
<1>8. /\ e \in Variants(d, G, started) /\ Parted(e) /\ Used(e) = Used(d)
      /\ e.src[m].segs = Replaced(d.src[m].segs, i, s)
  <2>1. PICK f : f = [d EXCEPT !.src[m].segs[i] = s]
    OBVIOUS
  <2>2. e = f
    BY <2>1 DEF WithSegment
  <2>3. /\ f \in Variants(d, G, started) /\ Parted(f) /\ Used(f) = Used(d)
        /\ f.src[m].segs = [d.src[m].segs EXCEPT ![i] = s]
    BY <1>3, <1>4, <1>5, <1>6, <1>7, <2>1, OneSegmentKeeps
  <2> QED
    BY <2>2, <2>3 DEF Replaced
<1>9. Known(e)
  BY <1>8 DEF Known
<1> QED
  BY <1>1, <1>2, <1>8, <1>9, VariantSound

LEMMA SlotErrorSound ==
  ASSUME NEW d, NEW t, Sound(d, t), NEW m \in Used(d), NEW i \in DOMAIN d.src[m].segs,
         NEW e, e = SlotError(d, m, i)
  PROVE  Sound(e, t)
<1>1. PICK G : G = Good(d, t)
  OBVIOUS
<1>2. PICK started : started = Starts(d)
  OBVIOUS
<1>3. Closed(G, started)
  BY <1>1, <1>2, GoodClosed
<1>4. Typed(d, G, started)
  BY <1>1, <1>2 DEF Sound
<1>5. Parted(d)
  BY DEF Sound
<1>6. m \in Used(d)
  OBVIOUS
<1>7. i \in DOMAIN d.src[m].segs
  OBVIOUS
<1>8. e = SlotError(d, m, i)
  OBVIOUS
<1>9. e \in Variants(d, G, started) /\ Parted(e) /\ Known(e)
  BY ONLY <1>3, <1>4, <1>5, <1>6, <1>7, <1>8, SlotErrorKeeps
<1> QED
  BY <1>1, <1>2, <1>9, VariantSound

LEMMA RemoveMirrorSound ==
  ASSUME NEW d, NEW t, Sound(d, t), NEW m, NEW e, e = RemoveMirror(d, m)
  PROVE  Sound(e, t)
<1>1. PICK G : G = Good(d, t)
  OBVIOUS
<1>2. PICK started : started = Starts(d)
  OBVIOUS
<1>3. Closed(G, started)
  BY <1>1, <1>2, GoodClosed
<1>4. Typed(d, G, started)
  BY <1>1, <1>2 DEF Sound
<1>5. Loose(d)
  BY DEF Sound, Parted
<1>6. e = RemoveMirror(d, m)
  OBVIOUS
<1>7. e \in Variants(d, G, started) /\ (Parted(d) => Parted(e)) /\ (Known(d) => Known(e))
  BY ONLY <1>3, <1>4, <1>5, <1>6, RemoveMirrorKeeps
<1>8. Parted(e) /\ Known(e)
  BY <1>7 DEF Sound
<1> QED
  BY <1>1, <1>2, <1>7, <1>8, VariantSound

LEMMA AssignSegmentsSound ==
  ASSUME NEW d, NEW t, Sound(d, t), NEW m \in Used(d), NEW e, e = AssignSegments(d, m)
  PROVE  Sound(e, t)
<1>1. PICK G : G = Good(d, t)
  OBVIOUS
<1>2. PICK started : started = Starts(d)
  OBVIOUS
<1>3. Closed(G, started)
  BY <1>1, <1>2, GoodClosed
<1>4. Typed(d, G, started)
  BY <1>1, <1>2 DEF Sound
<1>5. Parted(d)
  BY DEF Sound
<1>6. m \in Used(d)
  OBVIOUS
<1>7. e \in Variants(d, G, started) /\ Parted(e) /\ Used(e) = Used(d)
  BY <1>3, <1>4, <1>5, <1>6, AssignSegmentsKeeps
<1>8. Known(e)
  BY <1>6, <1>7 DEF Known
<1> QED
  BY <1>1, <1>2, <1>7, <1>8, VariantSound

\* The factory takes a buffer.
Taken(d, buf, off) == [d EXCEPT !.blocked = TRUE, !.temp = buf, !.tempOff = off]

LEMMA TakenSound ==
  ASSUME NEW d, NEW t, Sound(d, t), TakesData(d), NEW buf \in Seq(Int), buf # <<>>,
         NEW off \in Nat, t = {} => \A k \in DOMAIN buf : buf[k] \in {off + k - 1, Corrupt},
         NEW e, e = Taken(d, buf, off)
  PROVE  /\ Sound(e, t) /\ Good(d, t) \subseteq Good(e, t) /\ Starts(e) = Starts(d)
         /\ e.src = d.src /\ e.finished = d.finished /\ e.done = d.done /\ e.chunks = d.chunks
         /\ e.started = d.started /\ e.initialized = d.initialized /\ e.status = d.status
         /\ t = {} => d.initialized
         /\ e.put = d.put /\ e.findTried = d.findTried /\ e.size = d.size
         /\ e.tstatus = d.tstatus
         /\ \A u \in Units : off <= u /\ u < off + Len(buf) => u \in Present(e)
         /\ t = {} => Present(d) \subseteq Present(e)
<1>1. d \in Variants(d, Good(d, t), Starts(d)) /\ Sane(d)
  BY DEF Sound, Typed
<1>2. /\ e.size = d.size /\ e.chunks = d.chunks /\ e.finished = d.finished /\ e.done = d.done
      /\ e.status = d.status /\ e.tstatus = d.tstatus /\ e.put = d.put /\ e.started = d.started
      /\ e.findTried = d.findTried /\ e.initialized = d.initialized /\ e.file = d.file
      /\ e.sizeDefined = d.sizeDefined /\ e.src = d.src /\ e.unused = d.unused
      /\ e.temp = buf /\ e.tempOff = off /\ e.blocked = TRUE
      /\ e.stat = d.stat /\ e.removing = d.removing /\ e.max = d.max
      /\ e.downloaded = d.downloaded
  BY <1>1 DEF Taken, Variants
<1>3. Typed(e, Good(d, t), Starts(d))
  BY <1>1 DEF Taken, Typed, Variants
<1>4. t = {} => Pending(d) = {}
  <2> SUFFICES ASSUME t = {} PROVE Pending(d) = {}
    OBVIOUS
  <2>1. d.temp = <<>> /\ d.tempOff \in Nat
    BY DEF Sound, FileFits, TakesData, Sane
  <2>2. Len(d.temp) = 0
    BY <2>1
  <2> QED
    BY <2>1, <2>2 DEF Pending
<1>5. t = {} => Present(d) \subseteq Present(e)
  BY <1>2, <1>4 DEF Present
<1>6. t = {} => d.initialized
  BY DEF Sound, FileFits, TakesData
<1>7. Good(d, t) \subseteq Good(e, t) /\ Starts(d) \subseteq Starts(e)
  <2>1. d.tstatus = "Stopped" \/ e.tstatus # "Stopped"
    BY <1>2
  <2>2. d.findTried => e.findTried
    BY <1>2
  <2>3. d.size = 0 \/ d.status = "Finished" => e.size = 0 \/ e.status = "Finished"
    BY <1>2
  <2>4. d.initialized => e.initialized
    BY <1>2
  <2> QED
    BY ONLY <1>5, <2>1, <2>2, <2>3, <2>4, GoodGrows
<1>8. Sane(e)
  BY <1>1, <1>2 DEF Sane
<1>9. ASSUME t = {} PROVE FileFits(e)
  <2>1. FileFits(d)
    BY <1>9 DEF Sound
  <2>2. d.put = "open"
    BY DEF TakesData
  <2>3. d.initialized
    BY <2>1, <2>2 DEF FileFits
  <2>4. Present(d) \subseteq Present(e)
    BY <1>5, <1>9
  <2>5. \A k \in DOMAIN e.temp : e.temp[k] \in {e.tempOff + k - 1, Corrupt}
    BY <1>2, <1>9
  <2>6. e.blocked <=> e.temp # <<>>
    BY <1>2
  <2>7. \A c \in e.finished : ChunkUnits(c) \subseteq Present(e)
    BY <1>2, <2>1, <2>4 DEF FileFits
  <2>8. Whole(e) = Whole(d)
    BY <1>2 DEF Whole
  <2> QED
    BY <1>2, <2>1, <2>2, <2>3, <2>4, <2>5, <2>6, <2>7, <2>8 DEF FileFits
<1>10. Sound(e, t)
  BY <1>2, <1>3, <1>7, <1>8, <1>9, FieldsSound
<1>11. \A u \in Units : off <= u /\ u < off + Len(buf) => u \in Present(e)
  <2>1. \A u \in Units : u \in Int
    BY SizesAreNat DEF Units
  <2>2. Len(buf) \in Nat
    OBVIOUS
  <2>3. Pending(e) = off .. off + Len(buf) - 1
    BY <1>2 DEF Pending
  <2> QED
    BY <2>1, <2>2, <2>3 DEF Present
<1>12. Starts(e) = Starts(d)
  BY <1>2 DEF Starts
<1> QED
  BY <1>2, <1>5, <1>6, <1>7, <1>10, <1>11, <1>12

\* A mirror's source becomes x, which has handed the chunks `gone` over.
Handed(d, m, x, over, b) ==
  [d EXCEPT !.finished = @ \cup over, !.src = [@ EXCEPT ![m] = x], !.done = b]

MayHand(d, t, over, b) ==
  t = {} => /\ d.initialized /\ \A c \in over : ChunkUnits(c) \subseteq Present(d)
            /\ b => Units \subseteq Present(d)

HandsOver(d, m, x, gone, over) ==
  /\ gone \subseteq Owned(d, m) /\ Apart(x.segs) /\ OwnOf(x.segs) = Owned(d, m) \ gone
  /\ over = gone \ {Unknown}

LEMMA HandedKeeps ==
  ASSUME NEW d, NEW G, NEW started, Typed(d, G, started), NEW m \in Used(d), NEW x, NEW over,
         NEW b, NEW e, e = Handed(d, m, x, over, b)
  PROVE  /\ e.size = d.size /\ e.chunks = d.chunks /\ e.finished = d.finished \cup over
         /\ e.done = b /\ e.started = d.started /\ e.unused = d.unused
         /\ e.status = d.status /\ e.tstatus = d.tstatus /\ e.put = d.put
         /\ e.findTried = d.findTried /\ e.initialized = d.initialized /\ e.file = d.file
         /\ e.temp = d.temp /\ e.tempOff = d.tempOff /\ e.assignTried = d.assignTried
         /\ e.src[m] = x /\ Used(e) = Used(d)
         /\ \A n \in Used(d) : n # m => e.src[n] = d.src[n]
         /\ Present(e) = Present(d)
<1>1. PICK finished : finished = d.finished \cup over
  OBVIOUS
<1>2. PICK src : src = [d.src EXCEPT ![m] = x]
  OBVIOUS
<1>3. d \in Variants(d, G, started)
  BY DEF Typed
<1>4. e = [d EXCEPT !.finished = finished, !.src = src, !.done = b]
  BY <1>1, <1>2, <1>3 DEF Handed, Variants
<1>5. /\ e.size = d.size /\ e.chunks = d.chunks /\ e.finished = finished
      /\ e.done = b /\ e.started = d.started /\ e.unused = d.unused
      /\ e.status = d.status /\ e.tstatus = d.tstatus /\ e.put = d.put
      /\ e.findTried = d.findTried /\ e.initialized = d.initialized /\ e.file = d.file
      /\ e.temp = d.temp /\ e.tempOff = d.tempOff /\ e.assignTried = d.assignTried
      /\ e.src = src
  BY ONLY <1>3, <1>4 DEF Variants
<1>6. d.src \in Srcs(G, started) /\ DOMAIN d.src = Used(d)
  BY <1>3 DEF Variants, Used
<1>7. DOMAIN src = Used(d) /\ src[m] = x /\ \A n \in Used(d) : n # m => src[n] = d.src[n]
  BY <1>2, <1>6, SrcsAre
<1>8. Present(e) = Present(d)
  BY <1>5 DEF Present, Pending
<1> QED
  BY <1>1, <1>2, <1>5, <1>7, <1>8 DEF Used

LEMMA HandedSound ==
  ASSUME NEW d, NEW t, Sound(d, t), NEW m \in Used(d), NEW x \in Sources(Good(d, t), Starts(d)),
         NEW gone, NEW over, HandsOver(d, m, x, gone, over), NEW b,
         MayHand(d, t, over, b),
         NEW e, e = Handed(d, m, x, over, b)
  PROVE  Sound(e, t)
<1>0. /\ gone \subseteq Owned(d, m) /\ Apart(x.segs) /\ OwnOf(x.segs) = Owned(d, m) \ gone
      /\ over = gone \ {Unknown}
  BY DEF HandsOver
<1>1. d \in Variants(d, Good(d, t), Starts(d)) /\ Sane(d) /\ Parted(d)
  BY DEF Sound, Typed
<1>2. d.src \in Srcs(Good(d, t), Starts(d)) /\ DOMAIN d.src = Used(d)
  BY <1>1 DEF Variants, Used
<1>3. PICK src : src = [d.src EXCEPT ![m] = x]
  OBVIOUS
<1>4. /\ src \in Srcs(Good(d, t), Starts(d)) /\ DOMAIN src = DOMAIN d.src /\ src[m] = x
      /\ \A n \in DOMAIN d.src : n # m => src[n] = d.src[n]
  BY <1>2, <1>3, SrcsExcept
<1>15. PICK finished : finished = d.finished \cup over
  OBVIOUS
<1>16. d \in Variants(d, Good(d, t), Starts(d))
  BY <1>1
<1>5. e = [d EXCEPT !.finished = finished, !.src = src, !.done = b]
  BY <1>16, <1>3, <1>15 DEF Handed, Variants
<1>6. /\ e.size = d.size /\ e.chunks = d.chunks /\ e.finished = finished /\ e.done = b
      /\ e.status = d.status /\ e.tstatus = d.tstatus /\ e.put = d.put /\ e.started = d.started
      /\ e.findTried = d.findTried /\ e.initialized = d.initialized /\ e.file = d.file
      /\ e.sizeDefined = d.sizeDefined /\ e.src = src /\ e.unused = d.unused
      /\ e.temp = d.temp /\ e.tempOff = d.tempOff /\ e.blocked = d.blocked
      /\ e.stat = d.stat /\ e.removing = d.removing /\ e.max = d.max
      /\ e.downloaded = d.downloaded
  BY ONLY <1>16, <1>5 DEF Variants
<1>7. Good(e, t) = Good(d, t) /\ Starts(e) = Starts(d) /\ Present(e) = Present(d)
  BY <1>6, GoodSame
<1>8. Typed(e, Good(d, t), Starts(d))
  <2>1. src \in Srcs(Good(d, t), Starts(d))
    BY <1>4
  <2> QED
    BY ONLY ZenonT(30), <1>16, <1>5, <2>1 DEF Typed, Variants
<1>9. Used(e) = Used(d)
  BY <1>4, <1>6 DEF Used
<1>10. Owned(e, m) = Owned(d, m) \ gone /\ e.src[m] = x
  BY <1>0, <1>4, <1>6 DEF Owned
<1>11. Parted(e)
  <2>1. \A n \in Used(d) : n # m => e.src[n] = d.src[n]
    BY <1>2, <1>4, <1>6
  <2>2. /\ d.finished \subseteq d.started /\ d.started \subseteq Chunks
        /\ Owned(d, m) \cap d.finished = {} /\ Owned(d, m) \ {Unknown} \subseteq d.started
        /\ \A n \in Used(d) : n # m => Owned(d, m) \cap Owned(d, n) = {}
        /\ d.chunks => Unknown \notin Owned(d, m)
        /\ ~d.chunks => d.started = {}
    BY <1>1 DEF Parted, Loose
  <2>3. e.finished \subseteq e.started /\ e.started \subseteq Chunks
    BY <1>0, <1>6, <1>15, <2>2
  <2>4. e.started \ e.finished = ((d.started \ d.finished) \ Owned(d, m)) \cup (Owned(e, m) \ {Unknown})
    BY ZenonT(30), <1>0, <1>6, <1>10, <1>15, <2>2
  <2>5. \A n \in Used(d) : n # m => Owned(e, m) \cap Owned(d, n) = {}
    BY <1>10, <2>2
  <2>6. d.chunks => Unknown \notin Owned(e, m)
    BY <1>10, <2>2
  <2>7. ~d.chunks => e.started = {}
    BY <1>6, <2>2
  <2>8. Apart(e.src[m].segs)
    BY <1>0, <1>10
  <2>9. Parted(d)
    BY <1>1
  <2>10. m \in Used(d)
    OBVIOUS
  <2>11. e.chunks = d.chunks
    BY <1>6
  <2> QED
    BY ONLY <2>9, <2>10, <2>11, <1>9, <2>1, <2>3, <2>4, <2>5, <2>6, <2>7, <2>8, PartedWith
<1>12. Known(e)
  BY <1>9 DEF Known
<1>13. Sane(e)
  BY <1>1, <1>6 DEF Sane
<1>14. ASSUME t = {} PROVE FileFits(e)
  <2>1. FileFits(d)
    BY <1>14 DEF Sound
  <2>6. /\ d.initialized /\ \A c \in over : ChunkUnits(c) \subseteq Present(d)
        /\ b => Units \subseteq Present(d)
    BY <1>14 DEF MayHand
  <2>2. Whole(e) = Whole(d)
    BY <1>6 DEF Whole
  <2>3. \A c \in e.finished : ChunkUnits(c) \subseteq Present(e)
    BY <1>6, <1>7, <1>15, <2>1, <2>6 DEF FileFits
  <2>4. e.done => Units \subseteq Present(e)
    BY <1>6, <1>7, <2>6
  <2>5. e.initialized
    BY <1>6, <2>6
  <2> QED
    BY ONLY <1>6, <2>1, <2>2, <2>3, <2>4, <2>5 DEF FileFits
<1> QED
  BY <1>7, <1>8, <1>11, <1>12, <1>13, <1>14 DEF Sound

LEMMA LastChunkEnds == EndOf(NumChunks - 1) = Size
<1>1. PICK S \in Nat \ {0}, k \in Nat, r \in Nat :
        /\ S = SegSize /\ k = Size \div SegSize /\ r = Size % SegSize
        /\ Size = SegSize * k + r
  BY SizesAreNat
<1>2. SegSize * k \in Int
  BY <1>1, TimesIsInt
<1>3. CASE r = 0
  <2>1. NumChunks - 1 = k - 1
    BY <1>1, <1>3 DEF NumChunks
  <2>2. LastSegSize(NumChunks - 1) = SegSize
    BY <1>1, <1>3 DEF LastSegSize
  <2>3. SegSize * (k - 1) = SegSize * k - SegSize * 1 /\ SegSize * 1 = SegSize
    BY <1>1, Times
  <2> QED
    BY <1>1, <1>2, <1>3, <2>1, <2>2, <2>3 DEF EndOf
<1>4. CASE r # 0
  <2>1. NumChunks - 1 = k
    BY <1>1, <1>4 DEF NumChunks
  <2>2. LastSegSize(NumChunks - 1) = r
    BY <1>1, <1>4, <2>1 DEF LastSegSize, NumChunks
  <2> QED
    BY <1>1, <1>2, <2>1, <2>2 DEF EndOf
<1> QED
  BY <1>3, <1>4

LEMMA ChunkUnitsAre ==
  ASSUME NEW c \in Chunks, NEW u \in ChunkUnits(c)
  PROVE  u \in Units /\ u \in Nat /\ u < Size /\ SegSize * c <= u /\ u < EndOf(c)
<1>1. u \in Units /\ u \div SegSize = c /\ u \in Nat /\ u < Size
  BY SizesAreNat DEF ChunkUnits, Units
<1>2. PICK S \in Nat \ {0} : S = SegSize
  BY SizesAreNat
<1>3. u = S * (u \div S) + (u % S) /\ (u % S) \in 0 .. S - 1
  BY <1>1, <1>2
<1>4. PICK p \in Int : p = SegSize * c
  <2>1. c \in Int
    BY ChunksAre
  <2> QED
    BY <2>1, TimesIsInt
<1>5. p <= u /\ u < p + S
  <2>1. PICK r \in 0 .. S - 1 : r = u % S
    BY <1>3
  <2>2. S * (u \div S) = p
    BY <1>1, <1>2, <1>4
  <2>3. u = p + r
    BY <1>3, <2>1, <2>2
  <2> QED
    BY <1>2, <1>4, <2>1, <2>3
<1>6. CASE c + 1 \in Chunks
  <2>1. EndOf(c) = p + S
    BY <1>2, <1>4, <1>6, LastSegSizeIs DEF EndOf
  <2> QED
    BY <1>1, <1>4, <1>5, <2>1
<1>7. CASE c + 1 \notin Chunks
  <2>1. c = NumChunks - 1
    BY <1>7, NumChunksIsNat DEF Chunks
  <2>2. EndOf(c) = Size
    BY <2>1, LastChunkEnds
  <2> QED
    BY <1>1, <1>4, <1>5, <2>2
<1> QED
  BY <1>6, <1>7

\* The chunks that a segment finishes are in the file or on their way there.
LEMMA FinishedPresent ==
  ASSUME NEW s \in Fitting, ~s.finding, NEW d, DataFits(s, d), NEW h, Present(d) \subseteq Present(h),
         \A u \in Units : s.off <= u /\ u < s.off + Len(s.buf) => u \in Present(h),
         NEW c \in FinishedBy(s, Len(s.buf))
  PROVE  c \in Chunks /\ ChunkUnits(c) \subseteq Present(h)
<1>1. /\ s.buf \in Seq(Int) /\ s.off \in Nat /\ s.cur \in Nat /\ s.end \in Nat /\ s.cur \in Chunks
      /\ s.end \in Chunks
  BY ChunksAre DEF Fitting, Segments
<1>2. PICK n \in Nat : n = Len(s.buf)
  BY <1>1
<1>3. c \in s.cur .. s.end /\ EndOf(c) <= s.off + n
  BY <1>2, FinishedByIs
<1>4. c \in Chunks /\ c \in Nat /\ s.cur <= c
  BY ONLY <1>1, <1>3, ChunksAre
<1>5. ASSUME NEW u \in ChunkUnits(c) PROVE u \in Present(h)
  <2>1. u \in Units /\ u \in Nat /\ SegSize * c <= u /\ u < EndOf(c)
    BY <1>4, ChunkUnitsAre
  <2>2. EndOf(c) \in Nat
    BY <1>4, EndsAre
  <2>3. PICK a \in Int, k \in Int : a = SegSize * s.cur /\ k = SegSize * c /\ a <= k
    <3>1. c \in Int /\ s.cur \in Int /\ s.cur <= c
      BY <1>1, <1>4
    <3>2. SegSize * s.cur \in Int /\ SegSize * c \in Int /\ SegSize * s.cur <= SegSize * c
      BY <3>1, Times
    <3> QED
      BY <3>2
  <2>4. CASE u < s.off
    <3>1. SegSize * s.cur <= u
      BY <2>1, <2>3
    <3> QED
      BY <2>1, <2>4, <3>1 DEF DataFits
  <2>5. CASE ~(u < s.off)
    <3>1. s.off <= u /\ u < s.off + n
      BY ONLY <2>1, <2>2, <2>5, <1>1, <1>2, <1>3
    <3> QED
      BY <2>1, <3>1, <1>2
  <2> QED
    BY <2>4, <2>5
<1> QED
  BY <1>4, <1>5

\* A segment hands its buffer over, and not the last of its chunks.
LEMMA WriteDataSound ==
  ASSUME NEW d, NEW t, Sound(d, t), NEW m \in Used(d), NEW i \in DOMAIN d.src[m].segs,
         NEW s, s = d.src[m].segs[i], s.buf # <<>>, TakesData(d),
         NEW over, over = IF s.finding THEN {} ELSE FinishedBy(s, Len(s.buf)), s.end \notin over,
         NEW e, e = SlotWriteData(d, m, i, over)
  PROVE  /\ Sound(e, t) /\ Used(e) = Used(d) /\ e.chunks = d.chunks
         /\ t = {} => e.initialized
         /\ t = {} /\ s.finding /\ Size <= s.off + Len(s.buf) => Units \subseteq Present(e)
<1>1. /\ d.src \in Srcs(Good(d, t), Starts(d)) /\ DOMAIN d.src = Used(d)
      /\ d \in Variants(d, Good(d, t), Starts(d)) /\ Parted(d)
  BY DEF Sound, Typed, Variants, Used
<1>2. d.src[m] \in Sources(Good(d, t), Starts(d))
  BY <1>1, SrcsAre
<1>3. PICK q \in Seq(Good(d, t)) : q = d.src[m].segs
  BY <1>2 DEF Sources
<1>4. s \in Good(d, t) /\ s = q[i] /\ i \in DOMAIN q /\ s \in Fitting /\ s \in Segments
  <2>1. s = d.src[m].segs[i] /\ i \in DOMAIN d.src[m].segs
    OBVIOUS
  <2>2. s = q[i] /\ i \in DOMAIN q
    BY ONLY <1>3, <2>1
  <2>3. s \in Good(d, t)
    BY ONLY <1>3, <2>2
  <2>4. s \in Fitting
    BY ONLY <2>3 DEF Good
  <2>5. s \in Segments
    BY ONLY <2>4 DEF Fitting
  <2> QED
    BY ONLY <2>2, <2>3, <2>4, <2>5
<1>5. s.buf \in Seq(Int) /\ s.off \in Nat /\ s.cur \in Nat /\ s.end \in Nat /\ s.cur \in Chunks
      /\ s.end \in Chunks
  BY <1>4, ChunksAre DEF Segments
<1>6. PICK buf \in Seq(Int), off \in Nat : buf = s.buf /\ off = s.off
  BY <1>5
<1>7. PICK h : h = Taken(d, buf, off)
  OBVIOUS
<1>8. t = {} => \A k \in DOMAIN buf : buf[k] \in {off + k - 1, Corrupt}
  BY <1>4, <1>6 DEF Good, DataFits
<1>9. buf # <<>>
  BY <1>6
<1>10. /\ Sound(h, t) /\ Good(d, t) \subseteq Good(h, t) /\ Starts(h) = Starts(d)
       /\ h.src = d.src /\ h.finished = d.finished /\ h.done = d.done /\ h.chunks = d.chunks
       /\ h.started = d.started /\ h.initialized = d.initialized /\ h.status = d.status
       /\ t = {} => d.initialized
       /\ h.put = d.put /\ h.findTried = d.findTried /\ h.size = d.size
       /\ h.tstatus = d.tstatus
       /\ \A u \in Units : off <= u /\ u < off + Len(buf) => u \in Present(h)
       /\ t = {} => Present(d) \subseteq Present(h)
  BY SMTT(30), <1>7, <1>8, <1>9, TakenSound
<1>11. PICK w : w = Written(s, over)
  OBVIOUS
<1>12. /\ w \in Fitting
       /\ w = [s EXCEPT !.buf = <<>>, !.off = s.off + Len(s.buf), !.cur = w.cur,
                        !.segLeft = w.segLeft, !.left = w.left]
       /\ Own(w) = Own(s) \ over /\ w.cur \in s.cur .. s.end
       /\ s.finding => w.cur = s.cur
       /\ ~s.finding => over = s.cur .. (w.cur - 1)
  BY ZenonT(30), <1>4, <1>11, WrittenFits
<1>32. /\ w \in Fitting /\ Own(w) = Own(s) \ over /\ w.cur \in s.cur .. s.end
       /\ s.finding => w.cur = s.cur
       /\ ~s.finding => over = s.cur .. (w.cur - 1)
  BY ONLY <1>12
<1>33. PICK cur \in Nat : cur = w.cur /\ s.cur <= cur /\ cur <= s.end
  BY ONLY <1>5, <1>32
<1>13. PICK n \in Nat : n = Len(s.buf)
  <2>1. s.buf \in Seq(Int)
    BY <1>5
  <2>2. Len(s.buf) \in Nat
    BY ONLY <2>1
  <2> QED
    BY ONLY <2>2
<1>14. /\ w.buf = <<>> /\ w.off = s.off + n /\ w.job = s.job /\ w.finding = s.finding
       /\ w.timers = s.timers
  BY <1>4, <1>12, <1>13 DEF Segments
<1>15. PICK a \in Int, b \in Int : a = SegSize * s.cur /\ b = SegSize * w.cur /\ a <= b
  <2>1. cur \in Int /\ s.cur \in Int /\ s.cur <= cur
    BY ONLY <1>5, <1>33
  <2>2. /\ SegSize * s.cur \in Int /\ SegSize * cur \in Int
        /\ SegSize * s.cur <= SegSize * cur
    BY <2>1, Times
  <2> QED
    BY <2>2, <1>33
<1>16. ASSUME t = {} PROVE DataFits(w, h)
  <2>1. DataFits(s, d)
    BY <1>4, <1>16 DEF Good
  <2>2. ASSUME NEW u \in Units, b <= u, u < w.off PROVE u \in Present(h)
    <3>1. u \in Nat
      BY SMTT(30), SizesAreNat DEF Units
    <3>2. CASE u < s.off
      <4>1. a <= u
        BY SMTT(30), <3>1, <1>15, <2>2
      <4>2. u \in Present(d)
        BY <2>1, <3>2, <4>1, <1>15 DEF DataFits
      <4> QED
        BY <4>2, <1>10, <1>16
    <3>3. CASE ~(u < s.off)
      <4>1. off <= u /\ u < off + Len(buf)
        BY ONLY <3>1, <3>3, <2>2, <1>6, <1>13, <1>14, <1>5
      <4> QED
        BY ONLY <2>2, <4>1, <1>10
    <3> QED
      BY <3>2, <3>3
  <2>3. DOMAIN w.buf = {} /\ Len(w.buf) = 0
    BY SMTT(30), <1>14
  <2>4. w.finding /\ w.timers > 0 => Size <= w.off + Len(w.buf)
    BY SMTT(30), <2>1, <2>3, <1>5, <1>13, <1>14 DEF DataFits
  <2>5. h.initialized
    BY <1>10, <1>16
  <2> QED
    BY <2>2, <2>3, <2>4, <2>5, <1>15 DEF DataFits
<1>17. w \in Good(h, t)
  <2>1. h.tstatus = "Stopped" => w.job = "none"
    BY <1>4, <1>10, <1>14 DEF Good
  <2>2. w.finding => h.findTried /\ (h.size = 0 \/ h.status = "Finished")
    BY <1>4, <1>10, <1>14 DEF Good
  <2> QED
    BY <1>12, <1>16, <2>1, <2>2 DEF Good
<1>18. q \in Seq(Good(h, t)) /\ Apart(q) /\ OwnOf(q) = Owned(d, m)
  <2>1. q \in Seq(Good(d, t)) /\ q = d.src[m].segs
    BY <1>3
  <2>2. Good(d, t) \subseteq Good(h, t)
    BY <1>10
  <2>3. q \in Seq(Good(h, t))
    BY ONLY <2>1, <2>2
  <2>4. Parted(d) /\ m \in Used(d)
    BY <1>1
  <2>5. Apart(d.src[m].segs)
    BY ONLY <2>4 DEF Parted, Loose
  <2> QED
    BY ONLY <2>1, <2>3, <2>5 DEF Owned
<1>19. PICK r : r = [q EXCEPT ![i] = w]
  OBVIOUS
<1>20. over \subseteq Own(s)
  <2>1. CASE s.finding
    BY <2>1
  <2>2. CASE ~s.finding
    <3>1. over = s.cur .. (cur - 1) /\ Own(s) = s.cur .. s.end
      BY <2>2, <1>32, <1>33 DEF Own
    <3> QED
      BY ONLY <3>1, <1>5, <1>33
  <2> QED
    BY <2>1, <2>2
<1>21. over \subseteq Chunks
  <2>1. CASE s.finding
    BY <2>1
  <2>2. CASE ~s.finding
    BY <2>2, <1>20, <1>5, ChunksAre DEF Own
  <2> QED
    BY <2>1, <2>2
<1>22. /\ r \in Seq(Good(h, t)) /\ Apart(r) /\ OwnOf(r) = Owned(d, m) \ over
  <2>1. PICK S : S = Good(h, t)
    OBVIOUS
  <2>2. q \in Seq(S) /\ i \in DOMAIN q /\ w \in S
    BY <1>4, <1>17, <1>18, <2>1
  <2>3. Own(w) \cap (OwnOf(q) \ Own(q[i])) = {}
    BY ONLY <1>4, <1>32
  <2>7. Apart(q)
    BY <1>18
  <2>8. r = Replaced(q, i, w)
    BY <1>19 DEF Replaced
  <2>9. q \in Seq(S)
    BY <2>2
  <2>10. i \in DOMAIN q
    BY <2>2
  <2>11. w \in S
    BY <2>2
  <2>4. r \in Seq(S) /\ Apart(r) /\ OwnOf(r) = (OwnOf(q) \ Own(q[i])) \cup Own(w)
    BY ONLY <2>3, <2>7, <2>8, <2>9, <2>10, <2>11, OwnOfReplaced
  <2>5. Own(s) \subseteq OwnOf(q)
    BY <1>4 DEF OwnOf
  <2>6. \A c \in OwnOf(q) : c \in over => c \in Own(s)
    BY <1>20
  <2> QED
    BY ONLY <1>4, <1>32, <1>18, <1>20, <2>1, <2>4, <2>5
<1>23. PICK x : x = [d.src[m] EXCEPT !.segs = r]
  OBVIOUS
<1>24. x \in Sources(Good(h, t), Starts(h)) /\ x.segs = r
  BY <1>2, <1>10, <1>22, <1>23 DEF Sources
<1>25. e = Handed(h, m, x, over, h.done)
  <2>1. PICK G, started : d \in Variants(d, G, started)
    BY <1>1
  <2>2. e = [d EXCEPT !.blocked = TRUE, !.temp = buf, !.tempOff = off, !.finished = @ \cup over,
                      !.src[m].segs[i] = w]
    BY <1>6, <1>11 DEF SlotWriteData
  <2>3. [d.src[m] EXCEPT !.segs[i] = w] = x
    BY <1>3, <1>19, <1>23
  <2>4. e = [d EXCEPT !.blocked = TRUE, !.temp = buf, !.tempOff = off, !.finished = @ \cup over,
                      !.src = [@ EXCEPT ![m] = x]]
    BY ONLY <2>2, <2>3
  <2> QED
    BY ZenonT(30), <2>1, <2>4, <1>7 DEF Handed, Taken, Variants
<1>26. ASSUME t = {}, NEW c \in over PROVE ChunkUnits(c) \subseteq Present(h)
  <2>1. ~s.finding /\ c \in FinishedBy(s, Len(s.buf)) /\ s \in Fitting
    BY <1>4, <1>26
  <2>2. DataFits(s, d)
    BY <1>4, <1>26 DEF Good
  <2>3. Present(d) \subseteq Present(h)
    BY <1>10, <1>26
  <2>4. \A u \in Units : s.off <= u /\ u < s.off + Len(s.buf) => u \in Present(h)
    BY <1>6, <1>10
  <2> QED
    BY ONLY <2>1, <2>2, <2>3, <2>4, FinishedPresent
<1>27. t = {} /\ h.done => Units \subseteq Present(h)
  BY <1>10 DEF Sound, FileFits
<1>28. /\ Sound(e, t) /\ Used(e) = Used(h) /\ Present(e) = Present(h) /\ e.chunks = h.chunks
       /\ e.initialized = h.initialized
  <2>1. Apart(q) /\ OwnOf(q) = Owned(d, m) /\ OwnOf(x.segs) = Owned(d, m) \ over /\ Apart(x.segs)
    BY <1>18, <1>22, <1>24
  <2>2. Owned(h, m) = Owned(d, m) /\ Used(h) = Used(d)
    BY <1>10 DEF Owned, Used
  <2>3. over \subseteq Owned(h, m)
    <3>1. Own(s) \subseteq OwnOf(q)
      BY <1>4 DEF OwnOf
    <3> QED
      BY ONLY <2>1, <2>2, <3>1, <1>20
  <2>4. OwnOf(x.segs) = Owned(h, m) \ over
    BY ONLY <2>1, <2>2
  <2>5. Apart(x.segs)
    BY <2>1
  <2>6. over = over \ {Unknown}
    BY <1>21, UnknownIsNoChunk
  <2>10. HandsOver(h, m, x, over, over)
    BY ONLY <2>3, <2>4, <2>5, <2>6 DEF HandsOver
  <2>7. m \in Used(h)
    BY <2>2
  <2>8. x \in Sources(Good(h, t), Starts(h))
    BY <1>24
  <2>9. Sound(h, t)
    BY <1>10
  <2>11. PICK c : c = h.done
    OBVIOUS
  <2>12. e = Handed(h, m, x, over, c)
    BY <1>25, <2>11
  <2>13. MayHand(h, t, over, c)
    BY <1>10, <1>26, <1>27, <2>11 DEF MayHand
  <2>14. Sound(e, t)
    BY ONLY <2>10, <2>7, <2>8, <2>9, <2>12, <2>13, HandedSound
  <2>15. /\ Used(e) = Used(h) /\ Present(e) = Present(h) /\ e.chunks = h.chunks
         /\ e.initialized = h.initialized
    <3>1. Typed(h, Good(h, t), Starts(h))
      BY <2>9 DEF Sound
    <3>2. Used(e) = Used(h)
      BY ONLY <2>7, <2>12, <3>1, HandedKeeps
    <3>3. Present(e) = Present(h)
      BY ONLY <2>7, <2>12, <3>1, HandedKeeps
    <3>4. e.chunks = h.chunks
      BY ONLY <2>7, <2>12, <3>1, HandedKeeps
    <3>5. e.initialized = h.initialized
      BY ONLY <2>7, <2>12, <3>1, HandedKeeps
    <3> QED
      BY <3>2, <3>3, <3>4, <3>5
  <2> QED
    BY <2>14, <2>15
<1>29. ASSUME t = {}, s.finding, Size <= s.off + Len(s.buf) PROVE Units \subseteq Present(e)
  <2> SUFFICES ASSUME NEW u \in Units PROVE u \in Present(h)
    BY <1>28
  <2>1. u \in Nat /\ u < Size /\ Size \in Nat
    BY SMTT(30), SizesAreNat DEF Units
  <2>2. w.cur = 0 /\ SegSize * 0 = 0
    BY <1>4, <1>29, <1>32, Times DEF Fitting, Counts
  <2>3. SegSize * w.cur <= u /\ u < w.off
    BY ONLY <2>1, <2>2, <1>5, <1>13, <1>14, <1>29
  <2> QED
    BY <2>3, <1>16, <1>29 DEF DataFits
<1> QED
  BY <1>10, <1>28, <1>29 DEF Used

LEMMA UnitHasChunk ==
  ASSUME NEW u \in Units
  PROVE  u \div SegSize \in Chunks /\ u \in ChunkUnits(u \div SegSize)
<1>1. u \in Nat /\ u < Size /\ Size \in Nat
  BY SizesAreNat DEF Units
<1>2. PICK S \in Nat \ {0} : S = SegSize
  BY SizesAreNat
<1>3. PICK c \in Nat : c = u \div SegSize
  BY <1>1, <1>2
<1>4. PICK p \in Int : p = SegSize * c
  BY TimesIsInt
<1>5. p <= u
  <2>1. u = S * (u \div S) + (u % S) /\ (u % S) \in 0 .. S - 1
    BY <1>1, <1>2
  <2>2. S * (u \div S) = p
    BY <1>2, <1>3, <1>4
  <2>3. PICK r \in 0 .. S - 1 : r = u % S
    BY <2>1
  <2>4. u = p + r
    BY <2>1, <2>2, <2>3
  <2> QED
    BY <1>2, <1>4, <2>3, <2>4
<1>6. PICK N \in Nat \ {0} : N = NumChunks
  BY NumChunksIsNat
<1>7. c \in Chunks
  <2> SUFFICES ASSUME N <= c PROVE FALSE
    BY <1>6 DEF Chunks
  <2>1. PICK l \in Chunks : l = NumChunks - 1
    BY ChunksAre
  <2>2. EndOf(l) = Size
    BY <2>1, LastChunkEnds
  <2>3. LastSegSize(l) \in Nat /\ LastSegSize(l) <= SegSize
    BY LastSegSizeIs
  <2>4. SegSize * (N - 1) = SegSize * N - SegSize * 1 /\ SegSize * 1 = SegSize
        /\ SegSize * N \in Int
    BY <1>6, Times
  <2>5. SegSize * N <= SegSize * c
    BY <1>6, <1>3, Times
  <2>6. l = N - 1
    BY <2>1, <1>6
  <2>7. Size <= SegSize * N
    BY ONLY <2>2, <2>3, <2>4, <2>6, <1>2 DEF EndOf
  <2> QED
    BY ONLY <2>4, <2>5, <2>7, <1>1, <1>4, <1>5
<1> QED
  BY <1>3, <1>7 DEF ChunkUnits

LEMMA RemoveAtReplaced ==
  ASSUME NEW S, NEW q \in Seq(S), NEW i \in DOMAIN q, NEW w
  PROVE  RemoveAt(Replaced(q, i, w), i) = RemoveAt(q, i)
<1>1. PICK r : r = Replaced(q, i, w)
  OBVIOUS
<1>2. PICK n \in Nat : n = Len(q) /\ DOMAIN q = 1 .. n /\ i \in 1 .. n
  OBVIOUS
<1>3. r \in Seq(S \cup {w}) /\ Len(r) = n /\ \A j \in 1 .. n : j # i => r[j] = q[j]
  BY <1>1, <1>2 DEF Replaced
<1>4. PICK T : T = S \cup {w}
  OBVIOUS
<1>5. r \in Seq(T) /\ q \in Seq(T) /\ i \in 1 .. Len(r) /\ i \in 1 .. Len(q)
  BY <1>2, <1>3, <1>4
<1>6. /\ RemoveAt(r, i) \in Seq(T) /\ Len(RemoveAt(r, i)) = n - 1
      /\ \A k \in 1 .. (n - 1) : RemoveAt(r, i)[k] = IF k < i THEN r[k] ELSE r[k + 1]
  BY <1>3, <1>5, RemoveAtPlaces
<1>7. /\ RemoveAt(q, i) \in Seq(T) /\ Len(RemoveAt(q, i)) = n - 1
      /\ \A k \in 1 .. (n - 1) : RemoveAt(q, i)[k] = IF k < i THEN q[k] ELSE q[k + 1]
  BY <1>2, <1>5, RemoveAtPlaces
<1>8. \A k \in 1 .. (n - 1) : RemoveAt(r, i)[k] = RemoveAt(q, i)[k]
  <2> SUFFICES ASSUME NEW k \in 1 .. (n - 1) PROVE RemoveAt(r, i)[k] = RemoveAt(q, i)[k]
    OBVIOUS
  <2>1. k < i => k \in 1 .. n /\ k # i
    BY <1>2
  <2>2. ~(k < i) => k + 1 \in 1 .. n /\ k + 1 # i
    BY <1>2
  <2> QED
    BY <1>3, <1>6, <1>7, <2>1, <2>2
<1>9. PICK f \in Seq(T), g \in Seq(T) : f = RemoveAt(r, i) /\ g = RemoveAt(q, i)
  BY <1>6, <1>7
<1>10. Len(f) = Len(g) /\ \A k \in 1 .. Len(f) : f[k] = g[k]
  BY <1>2, <1>6, <1>7, <1>8, <1>9
<1>11. f = g
  BY <1>10
<1> QED
  BY <1>1, <1>9, <1>11

\* A segment hands over the last of its chunks: it is done, and the mirror gets other
\* chunks unless all are.
LEMMA WriteLastSound ==
  ASSUME NEW d, NEW t, Sound(d, t), NEW m \in Used(d), NEW i \in DOMAIN d.src[m].segs,
         NEW s, s = d.src[m].segs[i], s.buf # <<>>, TakesData(d),
         NEW over, over = IF s.finding THEN {} ELSE FinishedBy(s, Len(s.buf)), s.end \in over,
         NEW e, e = FinishedSegment(SlotWriteData(d, m, i, over), m, i)
  PROVE  Sound(e, t)
<1>1. /\ d.src \in Srcs(Good(d, t), Starts(d)) /\ DOMAIN d.src = Used(d)
      /\ d \in Variants(d, Good(d, t), Starts(d)) /\ Parted(d)
  BY DEF Sound, Typed, Variants, Used
<1>2. d.src[m] \in Sources(Good(d, t), Starts(d))
  BY <1>1, SrcsAre
<1>3. PICK q \in Seq(Good(d, t)) : q = d.src[m].segs
  BY <1>2 DEF Sources
<1>4. s \in Good(d, t) /\ s = q[i] /\ i \in DOMAIN q /\ s \in Fitting /\ s \in Segments
  <2>1. s = d.src[m].segs[i] /\ i \in DOMAIN d.src[m].segs
    OBVIOUS
  <2>2. s = q[i] /\ i \in DOMAIN q
    BY ONLY <1>3, <2>1
  <2>3. s \in Good(d, t)
    BY ONLY <1>3, <2>2
  <2>4. s \in Fitting
    BY ONLY <2>3 DEF Good
  <2>5. s \in Segments
    BY ONLY <2>4 DEF Fitting
  <2> QED
    BY ONLY <2>2, <2>3, <2>4, <2>5
<1>5. ~s.finding /\ over = FinishedBy(s, Len(s.buf))
  OBVIOUS
<1>6. PICK buf \in Seq(Int), off \in Nat : buf = s.buf /\ off = s.off
  BY <1>4 DEF Segments
<1>7. PICK h : h = Taken(d, buf, off)
  OBVIOUS
<1>8. t = {} => \A k \in DOMAIN buf : buf[k] \in {off + k - 1, Corrupt}
  BY <1>4, <1>6 DEF Good, DataFits
<1>9. buf # <<>>
  BY <1>6
<1>10. /\ Sound(h, t) /\ Good(d, t) \subseteq Good(h, t) /\ Starts(h) = Starts(d)
       /\ h.src = d.src /\ h.finished = d.finished /\ h.chunks = d.chunks
       /\ t = {} => h.initialized
       /\ \A u \in Units : off <= u /\ u < off + Len(buf) => u \in Present(h)
       /\ t = {} => Present(d) \subseteq Present(h)
  BY SMTT(30), <1>7, <1>8, <1>9, TakenSound
<1>11. over = Own(s) /\ over \subseteq Chunks
  <2>1. Len(s.buf) \in Nat
    BY SMTT(30), <1>6
  <2>2. over = Own(s)
    BY <1>4, <1>5, <2>1, FinishedByIs
  <2>3. s.cur \in Chunks /\ s.end \in Chunks
    BY <1>4 DEF Segments
  <2> QED
    BY <1>5, <2>2, <2>3, ChunksAre DEF Own
<1>12. ASSUME t = {}, NEW c \in over PROVE ChunkUnits(c) \subseteq Present(h)
  <2>1. ~s.finding /\ c \in FinishedBy(s, Len(s.buf)) /\ s \in Fitting
    BY <1>4, <1>5, <1>12
  <2>2. DataFits(s, d)
    BY <1>4, <1>12 DEF Good
  <2>3. Present(d) \subseteq Present(h)
    BY <1>10, <1>12
  <2>4. \A u \in Units : s.off <= u /\ u < s.off + Len(s.buf) => u \in Present(h)
    BY <1>6, <1>10
  <2> QED
    BY ONLY <2>1, <2>2, <2>3, <2>4, FinishedPresent
<1>13. Apart(q) /\ OwnOf(q) = Owned(d, m)
  BY <1>1, <1>3 DEF Parted, Loose, Owned
<1>14. PICK r : r = RemoveAt(q, i)
  OBVIOUS
<1>15. r \in Seq(Good(d, t)) /\ Apart(r) /\ OwnOf(r) = OwnOf(q) \ Own(s)
  <2>1. r \in Seq(Good(d, t)) /\ (Apart(q) => Apart(r) /\ OwnOf(r) = OwnOf(q) \ Own(q[i]))
    BY ONLY SMTT(30), <1>3, <1>4, <1>14, OwnOfRemoveAt
  <2> QED
    BY <1>4, <1>13, <2>1
<1>16. r \in Seq(Good(h, t))
  BY SMTT(30), <1>10, <1>15
<1>17. PICK x : x = [d.src[m] EXCEPT !.segs = r]
  OBVIOUS
<1>18. x \in Sources(Good(h, t), Starts(h)) /\ x.segs = r
  BY <1>2, <1>10, <1>16, <1>17 DEF Sources
<1>19. HandsOver(h, m, x, over, over)
  <2>1. Owned(h, m) = Owned(d, m)
    BY <1>10 DEF Owned
  <2>2. Own(s) \subseteq OwnOf(q)
    BY <1>4 DEF OwnOf
  <2>3. over = over \ {Unknown}
    BY <1>11, UnknownIsNoChunk
  <2>4. over \subseteq Owned(h, m)
    BY ONLY <1>11, <1>13, <2>1, <2>2
  <2>5. OwnOf(x.segs) = Owned(h, m) \ over
    BY ONLY <1>11, <1>13, <1>15, <1>18, <2>1
  <2> QED
    BY <1>15, <1>18, <2>3, <2>4, <2>5 DEF HandsOver
<1>20. m \in Used(h) /\ Typed(h, Good(h, t), Starts(h))
  BY <1>10 DEF Used, Sound
<1>21. PICK g : g = SlotWriteData(d, m, i, over)
  OBVIOUS
<1>22. /\ g.finished = d.finished \cup over
       /\ \A b : [g EXCEPT !.src[m].segs = RemoveAt(@, i), !.done = b] = Handed(h, m, x, over, b)
  <2>1. PICK w : w = Written(s, over)
    OBVIOUS
  <2>2. PICK p : p = Replaced(q, i, w)
    OBVIOUS
  <2>3. RemoveAt(p, i) = r
    BY <1>3, <1>4, <1>14, <2>2, RemoveAtReplaced
  <2>4. PICK y : y = [d.src[m] EXCEPT !.segs = p]
    OBVIOUS
  <2>5. [d.src[m] EXCEPT !.segs[i] = w] = y
    BY <1>3, <2>2, <2>4 DEF Replaced
  <2>6. g = [d EXCEPT !.blocked = TRUE, !.temp = s.buf, !.tempOff = s.off,
                      !.finished = @ \cup over, !.src[m].segs[i] = w]
    BY <1>21, <2>1 DEF SlotWriteData
  <2>7. g = [d EXCEPT !.blocked = TRUE, !.temp = buf, !.tempOff = off,
                      !.finished = @ \cup over, !.src = [@ EXCEPT ![m] = y]]
    BY ONLY <2>5, <2>6, <1>6
  <2>8. PICK src : src = [d.src EXCEPT ![m] = y]
    OBVIOUS
  <2>9. PICK finished : finished = d.finished \cup over
    OBVIOUS
  <2>10. PICK G, started : d \in Variants(d, G, started)
    BY <1>1
  <2>11. g = [d EXCEPT !.blocked = TRUE, !.temp = buf, !.tempOff = off,
                       !.finished = finished, !.src = src]
    BY ONLY <2>7, <2>8, <2>9, <2>10 DEF Variants
  <2>12. g.finished = finished /\ g.src = src
    BY ONLY <2>10, <2>11 DEF Variants
  <2>13. src[m] = y /\ y.segs = p /\ [y EXCEPT !.segs = r] = x
    BY <1>1, <1>2, <1>17, <2>4, <2>8 DEF Sources
  <2>14. [src EXCEPT ![m] = x] = [d.src EXCEPT ![m] = x]
    BY <2>8
  <2>15. ASSUME NEW b
         PROVE  [g EXCEPT !.src[m].segs = RemoveAt(@, i), !.done = b] = Handed(h, m, x, over, b)
    <3>1. [g EXCEPT !.src[m].segs = RemoveAt(@, i), !.done = b]
          = [g EXCEPT !.src = [src EXCEPT ![m] = [y EXCEPT !.segs = RemoveAt(p, i)]], !.done = b]
      BY ONLY <2>12, <2>13
    <3>2. PICK new : new = [d.src EXCEPT ![m] = x]
      OBVIOUS
    <3>3. [src EXCEPT ![m] = [y EXCEPT !.segs = RemoveAt(p, i)]] = new
      BY ONLY <2>3, <2>13, <2>14, <3>2
    <3>4. Handed(h, m, x, over, b) = [h EXCEPT !.finished = finished, !.src = new, !.done = b]
      BY <1>10, <2>9, <3>2 DEF Handed
    <3>5. [g EXCEPT !.src = new, !.done = b] = [h EXCEPT !.finished = finished, !.src = new, !.done = b]
      BY ONLY <1>7, <2>10, <2>11 DEF Variants, Taken
    <3> QED
      BY ONLY <3>1, <3>3, <3>4, <3>5
  <2> QED
    BY <2>9, <2>12, <2>15
<1>23. CASE g.finished = Chunks
  <2>1. PICK b : b = TRUE
    OBVIOUS
  <2>2. e = Handed(h, m, x, over, b)
    BY <1>21, <1>22, <1>23, <2>1 DEF FinishedSegment
  <2>3. ASSUME t = {}, NEW u \in Units PROVE u \in Present(h)
    <3>1. PICK c \in Chunks : u \in ChunkUnits(c)
      BY UnitHasChunk
    <3>2. c \in over => ChunkUnits(c) \subseteq Present(h)
      BY <1>12, <2>3
    <3>3. c \in h.finished => ChunkUnits(c) \subseteq Present(h)
      BY <1>10, <2>3 DEF Sound, FileFits
    <3>4. c \in h.finished \/ c \in over
      BY <1>10, <1>22, <1>23, <3>1
    <3> QED
      BY <3>1, <3>2, <3>3, <3>4
  <2>4. MayHand(h, t, over, b)
    BY <1>10, <1>12, <2>1, <2>3 DEF MayHand
  <2>5. Sound(h, t)
    BY <1>10
  <2> QED
    BY ONLY <1>18, <1>19, <1>20, <2>2, <2>4, <2>5, HandedSound
<1>24. CASE g.finished # Chunks
  <2>1. PICK b : b = FALSE
    OBVIOUS
  <2>2. PICK f : f = Handed(h, m, x, over, b)
    OBVIOUS
  <2>3. e = AssignSegments(f, m)
    BY <1>21, <1>22, <1>24, <2>1, <2>2 DEF FinishedSegment
  <2>4. MayHand(h, t, over, b)
    BY <1>10, <1>12, <2>1 DEF MayHand
  <2>5. Sound(h, t)
    BY <1>10
  <2>6. Sound(f, t)
    BY ONLY <1>18, <1>19, <1>20, <2>2, <2>4, <2>5, HandedSound
  <2>7. Used(f) = Used(h)
    BY ONLY <1>20, <2>2, HandedKeeps
  <2> QED
    BY <1>20, <2>3, <2>6, <2>7, AssignSegmentsSound
<1> QED
  BY <1>23, <1>24

LEMMA WriteBufferSound ==
  ASSUME NEW d, NEW t, Sound(d, t), NEW m \in Used(d), NEW i \in DOMAIN d.src[m].segs,
         NEW e, e = WriteBuffer(d, m, i)
  PROVE  Sound(e, t)
<1>1. PICK s : s = d.src[m].segs[i]
  OBVIOUS
<1>2. PICK over : over = IF s.finding THEN {} ELSE FinishedBy(s, Len(s.buf))
  OBVIOUS
<1>3. CASE s.buf = <<>> \/ ~TakesData(d)
  <2>1. e = d
    BY <1>1, <1>3 DEF WriteBuffer
  <2> QED
    BY <2>1
<1>4. CASE s.buf # <<>> /\ TakesData(d) /\ s.end \in over
  <2>1. PICK g : g = FinishedSegment(SlotWriteData(d, m, i, over), m, i)
    OBVIOUS
  <2>2. Sound(g, t)
    BY <1>1, <1>2, <1>4, <2>1, WriteLastSound
  <2> QED
    BY <1>1, <1>2, <1>4, <2>1, <2>2 DEF WriteBuffer
<1>5. CASE s.buf # <<>> /\ TakesData(d) /\ s.end \notin over
  <2>1. PICK g : g = SlotWriteData(d, m, i, over)
    OBVIOUS
  <2>2. Sound(g, t)
    BY <1>1, <1>2, <1>5, <2>1, WriteDataSound
  <2> QED
    BY <1>1, <1>2, <1>5, <2>1, <2>2 DEF WriteBuffer
<1> QED
  BY <1>3, <1>4, <1>5

\* The rest of a segment that looks for the size is all there is.
RestIsAll(s, t) == t = {} /\ s.finding => Size <= s.off + Len(s.buf)

\* A segment's job, timers and tries change.
LEMMA GoodWith ==
  ASSUME NEW d, NEW t, NEW s \in Good(d, t), NEW w \in Segments, w.cur = s.cur, w.end = s.end,
         w.off = s.off, w.segLeft = s.segLeft, w.left = s.left, w.last = s.last, w.buf = s.buf,
         w.finding = s.finding, w.job \in {s.job, "none"},
         w.timers > 0 => s.timers > 0 \/ RestIsAll(s, t)
  PROVE  w \in Good(d, t) /\ Own(w) = Own(s)
<1>1. s \in Fitting
  BY DEF Good
<1>2. w \in Fitting
  BY <1>1 DEF Fitting, Counts
<1>3. Own(w) = Own(s)
  BY DEF Own
<1>4. ASSUME t = {} PROVE DataFits(w, d)
  <2>1. DataFits(s, d)
    BY <1>4 DEF Good
  <2>2. w.finding /\ w.timers > 0 => Size <= w.off + Len(w.buf)
    BY <2>1, <1>4 DEF DataFits, RestIsAll
  <2> QED
    BY <2>1, <2>2 DEF DataFits
<1> QED
  BY <1>2, <1>3, <1>4 DEF Good

\* The segment i of m.
LEMMA SoundSegment ==
  ASSUME NEW d, NEW t, Sound(d, t), NEW m \in Used(d), NEW i \in DOMAIN d.src[m].segs,
         NEW s, s = d.src[m].segs[i]
  PROVE  /\ s \in Good(d, t) /\ s \in Fitting /\ s \in Segments
         /\ s.cur \in Chunks /\ s.end \in Chunks /\ s.off \in Nat /\ s.buf \in Seq(Int)
         /\ s.timers \in Nat /\ s.tries \in Nat /\ s.pos \in Nat /\ s.left \in Int
         /\ s.finding \in BOOLEAN
         /\ d.src[m] \in Sources(Good(d, t), Starts(d)) /\ DOMAIN d.src = Used(d)
         /\ d.src[m].segs \in Seq(Good(d, t))
<1>1. d.src \in Srcs(Good(d, t), Starts(d)) /\ DOMAIN d.src = Used(d)
  BY DEF Sound, Typed, Variants, Used
<1>2. d.src[m] \in Sources(Good(d, t), Starts(d))
  BY <1>1, SrcsAre
<1>3. PICK q \in Seq(Good(d, t)) : q = d.src[m].segs
  BY <1>2 DEF Sources
<1>4. s \in Good(d, t)
  BY <1>3
<1>5. s \in Fitting /\ s \in Segments
  BY <1>4 DEF Good, Fitting
<1>6. /\ s.cur \in Chunks /\ s.end \in Chunks /\ s.off \in Nat /\ s.buf \in Seq(Int)
      /\ s.timers \in Nat /\ s.tries \in Nat /\ s.pos \in Nat /\ s.left \in Int
      /\ s.finding \in BOOLEAN
  BY <1>5 DEF Segments
<1> QED
  BY <1>1, <1>2, <1>3, <1>4, <1>5, <1>6

Ended(d, m) == [d EXCEPT !.src[m] = StopSource(@), !.done = TRUE]

\* A segment that never learnt the size hands over the rest of the file.
LEMMA RestOfAllSound ==
  ASSUME NEW d, NEW t, Sound(d, t), NEW m \in Used(d), NEW i \in DOMAIN d.src[m].segs,
         NEW s, s = d.src[m].segs[i], s.buf # <<>>, TakesData(d), s.finding, RestIsAll(s, t),
         NEW e, e = Ended(WriteBuffer(d, m, i), m)
  PROVE  Sound(e, t)
<1>1. PICK over : over = {}
  OBVIOUS
<1>2. over = IF s.finding THEN {} ELSE FinishedBy(s, Len(s.buf))
  BY <1>1
<1>3. s.end \notin over
  BY <1>1
<1>4. PICK g : g = SlotWriteData(d, m, i, over)
  OBVIOUS
<1>5. e = [g EXCEPT !.src[m] = StopSource(@), !.done = TRUE]
  BY <1>2, <1>3, <1>4 DEF WriteBuffer, Ended
<1>6. Sound(g, t)
  BY <1>2, <1>3, <1>4, WriteDataSound
<1>7. Used(g) = Used(d) /\ (t = {} => g.initialized)
  BY <1>2, <1>3, <1>4, WriteDataSound
<1>8. t = {} /\ s.finding /\ Size <= s.off + Len(s.buf) => Units \subseteq Present(g)
  BY <1>2, <1>3, <1>4, WriteDataSound
<1>9. t = {} => Units \subseteq Present(g)
  BY <1>8 DEF RestIsAll
<1>10. m \in Used(g)
  BY <1>7
<1>11. /\ g.src \in Srcs(Good(g, t), Starts(g)) /\ Parted(g) /\ Typed(g, Good(g, t), Starts(g))
       /\ g \in Variants(g, Good(g, t), Starts(g)) /\ DOMAIN g.src = Used(g)
  BY <1>6 DEF Sound, Typed, Variants, Used
<1>12. PICK y : y = g.src[m]
  OBVIOUS
<1>13. PICK x : x = StopSource(y)
  OBVIOUS
<1>14. y \in Sources(Good(g, t), Starts(g)) /\ Apart(y.segs) /\ OwnOf(y.segs) = Owned(g, m)
  BY <1>10, <1>11, <1>12, SrcsAre DEF Parted, Loose, Owned
<1>15. Closed(Good(g, t), Starts(g))
  BY GoodClosed
<1>16. /\ x \in Sources(Good(g, t), Starts(g)) /\ Apart(x.segs)
       /\ OwnOf(x.segs) = OwnOf(y.segs) \ {Unknown}
  BY ONLY <1>13, <1>14, <1>15, StopSourceFits
<1>17. PICK gone : gone = Owned(g, m) \cap {Unknown}
  OBVIOUS
<1>18. HandsOver(g, m, x, gone, over)
  <2>1. gone \subseteq Owned(g, m) /\ OwnOf(x.segs) = Owned(g, m) \ gone /\ over = gone \ {Unknown}
    BY ONLY <1>1, <1>14, <1>16, <1>17
  <2> QED
    BY <2>1, <1>16 DEF HandsOver
<1>19. PICK b : b = TRUE
  OBVIOUS
<1>20. MayHand(g, t, over, b)
  BY <1>1, <1>7, <1>9 DEF MayHand
<1>21. e = Handed(g, m, x, over, b)
  <2>1. g.finished \cup over = g.finished
    BY <1>1
  <2>2. e = [g EXCEPT !.src = [g.src EXCEPT ![m] = x], !.done = b]
    BY <1>5, <1>12, <1>13, <1>19
  <2>3. PICK src : src = [g.src EXCEPT ![m] = x]
    OBVIOUS
  <2>4. e = [g EXCEPT !.src = src, !.done = b]
    BY <2>2, <2>3
  <2>5. Handed(g, m, x, over, b) = [g EXCEPT !.finished = g.finished, !.src = src, !.done = b]
    BY <2>1, <2>3 DEF Handed
  <2>6. g \in Variants(g, Good(g, t), Starts(g))
    BY <1>11
  <2> QED
    BY ONLY <2>4, <2>5, <2>6 DEF Variants
<1> QED
  BY ONLY <1>6, <1>10, <1>16, <1>18, <1>20, <1>21, HandedSound

LEMMA SlotWriteRestSound ==
  ASSUME NEW d, NEW t, Sound(d, t), NEW m \in Used(d), NEW i \in DOMAIN d.src[m].segs,
         NEW s, s = d.src[m].segs[i], RestIsAll(s, t), NEW e, e = SlotWriteRest(d, m, i)
  PROVE  Sound(e, t)
<1>1. /\ s \in Good(d, t) /\ s \in Segments /\ s.timers \in Nat /\ s.tries \in Nat
      /\ DOMAIN d.src = Used(d) /\ d.src[m] \in Sources(Good(d, t), Starts(d))
      /\ d.src[m].segs \in Seq(Good(d, t))
  BY SoundSegment
<1>2. d \in Variants(d, Good(d, t), Starts(d))
  BY DEF Sound, Typed
<1>3. PICK d0 : d0 = [d EXCEPT !.src[m].segs[i].tries = 0]
  OBVIOUS
<1>4. PICK w : w = [s EXCEPT !.tries = 0]
  OBVIOUS
<1>5. d0 = WithSegment(d, m, i, w)
  BY <1>3, <1>4 DEF WithSegment
<1>6. /\ w \in Segments /\ w.cur = s.cur /\ w.end = s.end
      /\ w.off = s.off /\ w.segLeft = s.segLeft /\ w.left = s.left /\ w.last = s.last
      /\ w.buf = s.buf /\ w.finding = s.finding /\ w.job \in {s.job, "none"}
      /\ w.timers = s.timers
  BY ONLY <1>1, <1>4 DEF Segments
<1>7. w.timers > 0 => s.timers > 0 \/ RestIsAll(s, t)
  OBVIOUS
<1>8. w \in Good(d, t) /\ Own(w) = Own(s)
  BY ONLY <1>1, <1>6, <1>7, GoodWith
<1>9. Sound(d0, t) /\ Used(d0) = Used(d) /\ d0.src[m].segs = Replaced(d.src[m].segs, i, w)
  BY <1>5, <1>8, OneSegmentSound
<1>10. i \in DOMAIN d0.src[m].segs /\ d0.src[m].segs[i] = w
  BY <1>1, <1>9 DEF Replaced
<1>11. TakesData(d0) = TakesData(d)
  <2>1. d0.put = d.put /\ d0.blocked = d.blocked
    BY ONLY <1>2, <1>5 DEF Variants, WithSegment
  <2> QED
    BY <2>1 DEF TakesData
<1>12. CASE s.buf = <<>>
  BY <1>12 DEF SlotWriteRest
<1>13. CASE s.buf # <<>> /\ TakesData(d) /\ s.finding
  <2>1. PICK f : f = Ended(WriteBuffer(d0, m, i), m)
    OBVIOUS
  <2>2. e = f
    BY <1>3, <1>13, <2>1 DEF SlotWriteRest, Ended
  <2>3. RestIsAll(w, t)
    BY <1>6 DEF RestIsAll
  <2>4. w.buf # <<>> /\ w.finding /\ TakesData(d0) /\ m \in Used(d0)
    BY <1>6, <1>9, <1>11, <1>13
  <2> QED
    BY <1>9, <1>10, <2>1, <2>2, <2>3, <2>4, RestOfAllSound
<1>14. CASE s.buf # <<>> /\ TakesData(d) /\ ~s.finding
  <2>1. PICK f : f = WriteBuffer(d0, m, i)
    OBVIOUS
  <2>2. e = f
    BY <1>3, <1>14, <2>1 DEF SlotWriteRest
  <2> QED
    BY <1>9, <1>10, <2>1, <2>2, WriteBufferSound
<1>15. CASE s.buf # <<>> /\ ~TakesData(d) /\ s.tries + 1 >= MaxTries
  <2>1. e = SlotError(d, m, i)
    BY <1>15 DEF SlotWriteRest
  <2> QED
    BY <2>1, SlotErrorSound
<1>16. CASE s.buf # <<>> /\ ~TakesData(d) /\ ~(s.tries + 1 >= MaxTries)
  <2>9. s.tries \in Nat /\ s.timers \in Nat
    BY <1>1
  <2>6. PICK tries \in Nat, timers \in Nat : tries = s.tries + 1 /\ timers = s.timers + 1
    BY ONLY <2>9
  <2>1. PICK v : v = [s EXCEPT !.tries = tries, !.timers = timers]
    OBVIOUS
  <2>7. v = [s EXCEPT !.tries = @ + 1, !.timers = @ + 1]
    BY ONLY <1>1, <2>1, <2>6 DEF Segments
  <2>2. e = WithSegment(d, m, i, v)
    BY <1>16, <2>7 DEF SlotWriteRest, WithSegment
  <2>3. /\ v \in Segments /\ v.cur = s.cur /\ v.end = s.end
        /\ v.off = s.off /\ v.segLeft = s.segLeft /\ v.left = s.left /\ v.last = s.last
        /\ v.buf = s.buf /\ v.finding = s.finding /\ v.job \in {s.job, "none"}
    BY ONLY <1>1, <2>1 DEF Segments
  <2>4. v.timers > 0 => s.timers > 0 \/ RestIsAll(s, t)
    OBVIOUS
  <2>5. v \in Good(d, t) /\ Own(v) = Own(s)
    BY ONLY <1>1, <2>3, <2>4, GoodWith
  <2> QED
    BY <2>2, <2>5, OneSegmentSound
<1> QED
  BY <1>12, <1>13, <1>14, <1>15, <1>16

\* A job goes on where its segment ends, as long as nothing went wrong.
PlacedSegment(s, t) == t = {} => s.job = "none" \/ s.pos = s.off + Len(s.buf)

\* n units arrive that belong where they are put, or are corrupt.
Fits(data, s, t) == t = {} => \A k \in DOMAIN data : data[k] \in {s.pos + k - 1, Corrupt}

LEMMA ReceivedFits ==
  ASSUME NEW d, NEW t, NEW s \in Good(d, t), s.job = "active", PlacedSegment(s, t),
         NEW data \in Seq(Int), Fits(data, s, t), NEW buf, buf = s.buf \o data
  PROVE  /\ buf \in Seq(Int) /\ Len(s.buf) <= Len(buf)
         /\ t = {} => \A k \in DOMAIN buf : buf[k] \in {s.off + k - 1, Corrupt}
<1>1. s \in Segments
  BY DEF Good, Fitting
<1>2. s.buf \in Seq(Int) /\ s.off \in Nat /\ s.pos \in Nat
  BY <1>1 DEF Segments
<1>3. PICK a \in Seq(Int), off \in Nat, pos \in Nat : a = s.buf /\ off = s.off /\ pos = s.pos
  BY <1>2
<1>4. PICK l \in Nat, n \in Nat : l = Len(a) /\ n = Len(data)
  OBVIOUS
<1>5. buf \in Seq(Int) /\ Len(buf) = l + n /\ \A k \in 1 .. l + n : buf[k] = IF k <= l THEN a[k] ELSE data[k - l]
  BY <1>3, <1>4
<1>6. ASSUME t = {}, NEW k \in DOMAIN buf PROVE buf[k] \in {off + k - 1, Corrupt}
  <2>1. k \in 1 .. l + n
    BY <1>5
  <2>2. CASE k <= l
    <3>1. k \in DOMAIN a /\ buf[k] = a[k]
      BY <2>1, <2>2, <1>4, <1>5
    <3>2. \A j \in DOMAIN a : a[j] \in {off + j - 1, Corrupt}
      BY <1>3, <1>6 DEF Good, DataFits
    <3> QED
      BY <3>1, <3>2
  <2>3. CASE ~(k <= l)
    <3>1. k - l \in DOMAIN data /\ buf[k] = data[k - l]
      <4>1. DOMAIN data = 1 .. n
        BY <1>4
      <4>2. PICK j \in Int : j = k
        BY <2>1
      <4>3. j - l \in 1 .. n
        BY ONLY <2>1, <2>3, <4>2, l \in Nat, n \in Nat
      <4>4. buf[k] = data[k - l]
        BY ONLY <2>1, <2>3, <1>5
      <4> QED
        BY <4>1, <4>2, <4>3, <4>4
    <3>2. \A j \in DOMAIN data : data[j] \in {pos + j - 1, Corrupt}
      BY <1>3, <1>6 DEF Fits
    <3>3. pos = off + l
      BY <1>3, <1>4, <1>6 DEF PlacedSegment
    <3>4. pos + (k - l) - 1 = off + k - 1
      BY <3>3, <2>1
    <3> QED
      BY <3>1, <3>2, <3>4
  <2> QED
    BY <2>2, <2>3
<1> QED
  BY <1>3, <1>4, <1>5, <1>6

LEMMA ReceivedGood ==
  ASSUME NEW d, NEW t, NEW s \in Good(d, t), NEW buf \in Seq(Int), NEW w \in Segments,
         ~s.finding \/ Len(s.buf) <= Len(buf),
         t = {} => \A k \in DOMAIN buf : buf[k] \in {s.off + k - 1, Corrupt},
         w.cur = s.cur, w.end = s.end, w.off = s.off, w.segLeft = s.segLeft, w.left = s.left,
         w.last = s.last, w.buf = buf, w.finding = s.finding, w.timers = s.timers,
         w.job \in {s.job, "none"}
  PROVE  w \in Good(d, t) /\ Own(w) = Own(s)
<1>1. s \in Fitting /\ s.buf \in Seq(Int) /\ s.off \in Nat
  BY DEF Good, Fitting, Segments
<1>2. w \in Fitting
  BY <1>1 DEF Fitting, Counts
<1>3. Own(w) = Own(s)
  BY DEF Own
<1>4. ASSUME t = {} PROVE DataFits(w, d)
  <2>1. DataFits(s, d)
    BY <1>4 DEF Good
  <2>2. w.finding /\ w.timers > 0 => Size <= w.off + Len(w.buf)
    <3>1. SUFFICES ASSUME w.finding, w.timers > 0 PROVE Size <= w.off + Len(w.buf)
      OBVIOUS
    <3>2. Size <= s.off + Len(s.buf)
      BY <2>1, <3>1 DEF DataFits
    <3>3. Len(s.buf) <= Len(buf) /\ Len(s.buf) \in Nat /\ Len(buf) \in Nat /\ Size \in Nat
      BY <1>1, <3>1, SizesAreNat
    <3> QED
      BY <3>2, <3>3, <1>1
  <2> QED
    BY <2>1, <2>2, <1>4 DEF DataFits
<1> QED
  BY <1>2, <1>3, <1>4 DEF Good

-----------------------------------------------------------------------------
(* The steps of the jobs that fetch.                                       *)

Placed(d) ==
  \A m \in Used(d) : \A i \in DOMAIN d.src[m].segs : ~Misplaced(d.src[m].segs[i])

IInv == Sound(dl, tainted) /\ (tainted = {} => Placed(dl))

LEMMA BecomesSound ==
  ASSUME NEW d, Sound(d, tainted), Becomes(d)
  PROVE  IInv'
<1>1. dl' = d /\ tainted \subseteq tainted'
  BY DEF Becomes
<1>2. Sound(dl', tainted')
  BY <1>1, SoundGrows
<1>3. tainted' = {} => Placed(d)
  BY DEF Becomes, Placed
<1>4. tainted' = {} => Placed(dl')
  BY <1>1, <1>3
<1> QED
  BY <1>2, <1>4 DEF IInv, Sound, Placed

LEMMA SegmentOfId ==
  ASSUME IInv, NEW id \in SegmentIds
  PROVE  /\ id[1] \in Used(dl) /\ id[2] \in DOMAIN dl.src[id[1]].segs
         /\ Segment(id) = dl.src[id[1]].segs[id[2]] /\ PlacedSegment(Segment(id), tainted)
<1>1. id[1] \in Used(dl) /\ id[2] \in DOMAIN dl.src[id[1]].segs
  BY DEF SegmentIds
<1>2. PlacedSegment(dl.src[id[1]].segs[id[2]], tainted)
  BY <1>1 DEF IInv, Placed, PlacedSegment, Misplaced
<1> QED
  BY <1>1, <1>2 DEF Segment

LEMMA JobFailsStep ==
  ASSUME IInv, NEW id \in SegmentIds, JobFails(id)
  PROVE  IInv'
<1>1. PICK e : e = SlotError(dl, id[1], id[2])
  OBVIOUS
<1>2. Sound(dl, tainted)
  BY DEF IInv
<1>3. Sound(e, tainted)
  BY <1>1, <1>2, SegmentOfId, SlotErrorSound
<1>4. Becomes(e)
  BY <1>1 DEF JobFails
<1> QED
  BY <1>3, <1>4, BecomesSound

LEMMA RestTimerStep ==
  ASSUME IInv, NEW id \in SegmentIds, RestTimer(id)
  PROVE  IInv'
<1>1. PICK m, i : m = id[1] /\ i = id[2]
  OBVIOUS
<1>2. PICK s : s = dl.src[m].segs[i]
  OBVIOUS
<1>3. /\ Sound(dl, tainted) /\ m \in Used(dl) /\ i \in DOMAIN dl.src[m].segs /\ Segment(id) = s
  BY <1>1, <1>2, SegmentOfId DEF IInv
<1>4. /\ s \in Good(dl, tainted) /\ s \in Segments /\ s.timers \in Nat
      /\ dl.src[m].segs \in Seq(Good(dl, tainted)) /\ s.off \in Nat /\ s.finding \in BOOLEAN
  BY <1>2, <1>3, SoundSegment
<1>5. s.timers > 0
  BY <1>3 DEF RestTimer
<1>6. PICK n \in Nat : n = s.timers - 1
  BY <1>4, <1>5
<1>7. PICK w : w = [s EXCEPT !.timers = n]
  OBVIOUS
<1>8. PICK d : d = WithSegment(dl, m, i, w)
  OBVIOUS
<1>9. /\ w \in Segments /\ w.cur = s.cur /\ w.end = s.end
      /\ w.off = s.off /\ w.segLeft = s.segLeft /\ w.left = s.left /\ w.last = s.last
      /\ w.buf = s.buf /\ w.finding = s.finding /\ w.job \in {s.job, "none"}
  BY ONLY <1>4, <1>6, <1>7 DEF Segments
<1>10. w.timers > 0 => s.timers > 0 \/ RestIsAll(s, tainted)
  BY <1>5
<1>11. w \in Good(dl, tainted) /\ Own(w) = Own(s)
  BY ONLY <1>4, <1>9, <1>10, GoodWith
<1>12. Own(w) = Own(dl.src[m].segs[i]) /\ w \in Good(dl, tainted)
  BY <1>2, <1>11
<1>13. Sound(d, tainted) /\ Used(d) = Used(dl) /\ d.src[m].segs = Replaced(dl.src[m].segs, i, w)
  BY ONLY <1>3, <1>8, <1>12, OneSegmentSound
<1>14. m \in Used(d) /\ i \in DOMAIN d.src[m].segs /\ w = d.src[m].segs[i]
  BY <1>3, <1>4, <1>13 DEF Replaced
<1>15. RestIsAll(w, tainted)
  <2>1. tainted = {} => DataFits(s, dl)
    BY <1>4 DEF Good
  <2> QED
    BY <2>1, <1>5, <1>9 DEF RestIsAll, DataFits
<1>16. PICK e : e = SlotWriteRest(d, m, i)
  OBVIOUS
<1>17. Sound(e, tainted)
  BY ONLY <1>13, <1>14, <1>15, <1>16, SlotWriteRestSound
<1>18. Becomes(e)
  <2>1. Becomes(SlotWriteRest([dl EXCEPT !.src[m].segs[i].timers = @ - 1], m, i))
    BY <1>1 DEF RestTimer
  <2>2. [dl EXCEPT !.src[m].segs[i].timers = @ - 1] = d
    BY <1>2, <1>6, <1>7, <1>8 DEF WithSegment
  <2> QED
    BY <2>1, <2>2, <1>16
<1> QED
  BY <1>17, <1>18, BecomesSound

LEMMA JobEndsStep ==
  ASSUME IInv, NEW id \in SegmentIds, JobEnds(id)
  PROVE  IInv'
<1>1. PICK m, i : m = id[1] /\ i = id[2]
  OBVIOUS
<1>2. PICK s : s = dl.src[m].segs[i]
  OBVIOUS
<1>3. /\ Sound(dl, tainted) /\ m \in Used(dl) /\ i \in DOMAIN dl.src[m].segs /\ Segment(id) = s
      /\ PlacedSegment(s, tainted)
  BY <1>1, <1>2, SegmentOfId DEF IInv
<1>4. /\ s \in Good(dl, tainted) /\ s \in Segments /\ s.timers \in Nat
      /\ dl.src[m].segs \in Seq(Good(dl, tainted)) /\ s.off \in Nat /\ s.finding \in BOOLEAN
      /\ s.buf \in Seq(Int)
  BY <1>2, <1>3, SoundSegment
<1>5. s.job = "active" /\ (s.finding => s.pos = Size)
  BY <1>3 DEF JobEnds
<1>7. PICK w : w = [s EXCEPT !.job = "none"]
  OBVIOUS
<1>8. PICK d : d = WithSegment(dl, m, i, w)
  OBVIOUS
<1>9. /\ w \in Segments /\ w.cur = s.cur /\ w.end = s.end
      /\ w.off = s.off /\ w.segLeft = s.segLeft /\ w.left = s.left /\ w.last = s.last
      /\ w.buf = s.buf /\ w.finding = s.finding /\ w.job \in {s.job, "none"}
      /\ w.timers = s.timers
  BY ONLY <1>4, <1>7 DEF Segments, JobStates
<1>10. w.timers > 0 => s.timers > 0 \/ RestIsAll(s, tainted)
  BY <1>9
<1>11. w \in Good(dl, tainted) /\ Own(w) = Own(s)
  BY ONLY <1>4, <1>9, <1>10, GoodWith
<1>12. Own(w) = Own(dl.src[m].segs[i]) /\ w \in Good(dl, tainted)
  BY <1>2, <1>11
<1>13. Sound(d, tainted) /\ Used(d) = Used(dl) /\ d.src[m].segs = Replaced(dl.src[m].segs, i, w)
  BY ONLY <1>3, <1>8, <1>12, OneSegmentSound
<1>14. m \in Used(d) /\ i \in DOMAIN d.src[m].segs /\ w = d.src[m].segs[i]
  BY <1>3, <1>4, <1>13 DEF Replaced
<1>15. RestIsAll(w, tainted)
  <2>1. Len(s.buf) \in Nat /\ Size \in Nat
    BY <1>4, SizesAreNat
  <2> QED
    BY <2>1, <1>3, <1>4, <1>5, <1>9 DEF RestIsAll, PlacedSegment
<1>16. PICK e : e = SlotWriteRest(d, m, i)
  OBVIOUS
<1>17. Sound(e, tainted)
  BY ONLY <1>13, <1>14, <1>15, <1>16, SlotWriteRestSound
<1>18. Becomes(e) \/ Becomes(d)
  <2>1. Becomes(IF s.buf # <<>> /\ s.finding THEN SlotWriteRest([dl EXCEPT !.src[m].segs[i].job = "none"], m, i)
                ELSE [dl EXCEPT !.src[m].segs[i].job = "none"])
    BY <1>1, <1>3 DEF JobEnds
  <2>2. [dl EXCEPT !.src[m].segs[i].job = "none"] = d
    BY <1>2, <1>7, <1>8 DEF WithSegment
  <2> QED
    BY <2>1, <2>2, <1>16
<1> QED
  BY <1>13, <1>17, <1>18, BecomesSound

LEMMA JobDataStep ==
  ASSUME IInv, NEW id \in SegmentIds, NEW n \in 1 .. 2, JobData(id, n)
  PROVE  IInv'
<1>1. PICK m, i : m = id[1] /\ i = id[2]
  OBVIOUS
<1>2. PICK s : s = dl.src[m].segs[i]
  OBVIOUS
<1>3. /\ Sound(dl, tainted) /\ m \in Used(dl) /\ i \in DOMAIN dl.src[m].segs /\ Segment(id) = s
      /\ PlacedSegment(s, tainted)
  BY <1>1, <1>2, SegmentOfId DEF IInv
<1>4. /\ s \in Good(dl, tainted) /\ s \in Segments /\ s.timers \in Nat
      /\ dl.src[m].segs \in Seq(Good(dl, tainted)) /\ s.off \in Nat /\ s.finding \in BOOLEAN
      /\ s.buf \in Seq(Int) /\ s.pos \in Nat /\ s.left \in Int
  BY <1>2, <1>3, SoundSegment
<1>5. PICK data : data = [k \in 1 .. n |->
                            IF server[m] \in {"corrupt", "wrongsize"} THEN Corrupt ELSE s.pos + k - 1]
  OBVIOUS
<1>6. data \in Seq(Int) /\ \A k \in DOMAIN data : data[k] \in {s.pos + k - 1, Corrupt}
  <2>1. n \in Nat /\ Corrupt \in Int
    BY DEF Corrupt
  <2>2. \A k \in 1 .. n : s.pos + k - 1 \in Int
    BY <1>4
  <2>3. data \in [1 .. n -> Int]
    BY <1>5, <2>1, <2>2
  <2> QED
    BY <1>5, <2>1, <2>3
<1>7. Fits(data, s, tainted)
  BY <1>6 DEF Fits
<1>8. s.job = "active"
  BY <1>3 DEF JobData
<1>9. PICK buf : buf = s.buf \o data
  OBVIOUS
<1>10. /\ buf \in Seq(Int) /\ Len(s.buf) <= Len(buf)
       /\ tainted = {} => \A k \in DOMAIN buf : buf[k] \in {s.off + k - 1, Corrupt}
  <2>1. s \in Good(dl, tainted)
    BY <1>4
  <2>2. data \in Seq(Int)
    BY <1>6
  <2>3. PlacedSegment(s, tainted)
    BY <1>3
  <2> QED
    BY ONLY <1>7, <1>8, <1>9, <2>1, <2>2, <2>3, ReceivedFits
<1>11. PICK full : full = (~s.finding /\ s.left # 0 /\ Len(buf) >= s.left)
  OBVIOUS
<1>12. PICK cut : cut = IF full THEN SubSeq(buf, 1, s.left) ELSE buf
  OBVIOUS
<1>13. /\ cut \in Seq(Int) /\ (~s.finding \/ Len(s.buf) <= Len(cut))
       /\ tainted = {} => \A k \in DOMAIN cut : cut[k] \in {s.off + k - 1, Corrupt}
  <2>1. CASE full
    <3>1. PICK l \in Int : l = s.left
      BY <1>4
    <3>2. l <= Len(buf) /\ ~s.finding
      BY <1>10, <1>11, <2>1, <3>1
    <3>3. SubSeq(buf, 1, l) \in Seq(Int) /\ \A k \in DOMAIN SubSeq(buf, 1, l) :
            k \in DOMAIN buf /\ SubSeq(buf, 1, l)[k] = buf[k]
      <4>1. CASE l <= 0
        BY <1>10, <3>1, <4>1
      <4>2. CASE ~(l <= 0)
        BY SMTT(30), <1>10, <3>1, <3>2, <4>2
      <4> QED
        BY <4>1, <4>2
    <3> QED
      BY <1>10, <1>12, <2>1, <3>1, <3>2, <3>3
  <2>2. CASE ~full
    BY <1>10, <1>12, <2>2
  <2> QED
    BY <2>1, <2>2
<1>14. PICK pos \in Nat : pos = IF full THEN s.pos ELSE s.pos + n
  BY <1>4
<1>15. PICK job : job = IF full THEN "none" ELSE s.job
  OBVIOUS
<1>16. PICK w : w = [s EXCEPT !.buf = cut, !.job = job, !.pos = pos]
  OBVIOUS
<1>17. job \in {s.job, "none"} /\ job \in JobStates
  BY <1>4, <1>15 DEF Segments, JobStates
<1>18. w = IF full THEN [s EXCEPT !.buf = SubSeq(buf, 1, s.left), !.job = "none"]
           ELSE [s EXCEPT !.buf = buf, !.pos = @ + n]
  BY ONLY <1>4, <1>12, <1>14, <1>15, <1>16 DEF Segments
<1>19. /\ w \in Segments /\ w.cur = s.cur /\ w.end = s.end /\ w.off = s.off
       /\ w.segLeft = s.segLeft /\ w.left = s.left /\ w.last = s.last /\ w.buf = cut
       /\ w.finding = s.finding /\ w.timers = s.timers /\ w.job \in {s.job, "none"}
  BY ONLY <1>4, <1>13, <1>16, <1>17 DEF Segments
<1>20. w \in Good(dl, tainted) /\ Own(w) = Own(s)
  BY ONLY <1>4, <1>13, <1>19, ReceivedGood
<1>21. PICK d : d = WithSegment(dl, m, i, w)
  OBVIOUS
<1>22. Own(w) = Own(dl.src[m].segs[i]) /\ w \in Good(dl, tainted)
  BY <1>2, <1>20
<1>23. Sound(d, tainted) /\ Used(d) = Used(dl) /\ d.src[m].segs = Replaced(dl.src[m].segs, i, w)
  BY ONLY <1>3, <1>21, <1>22, OneSegmentSound
<1>24. m \in Used(d) /\ i \in DOMAIN d.src[m].segs /\ w = d.src[m].segs[i]
  BY <1>3, <1>4, <1>23 DEF Replaced
<1>25. PICK e : e = SlotError(dl, m, i)
  OBVIOUS
<1>26. PICK f : f = SlotWriteRest(d, m, i)
  OBVIOUS
<1>27. PICK g : g = WriteBuffer(d, m, i)
  OBVIOUS
<1>28. Sound(e, tainted)
  BY <1>3, <1>25, SlotErrorSound
<1>29. Sound(g, tainted)
  BY <1>23, <1>24, <1>27, WriteBufferSound
<1>30. full => Sound(f, tainted)
  <2> SUFFICES ASSUME full PROVE Sound(f, tainted)
    OBVIOUS
  <2>1. RestIsAll(w, tainted)
    BY <1>11, <1>19 DEF RestIsAll
  <2> QED
    BY ONLY <1>23, <1>24, <1>26, <2>1, SlotWriteRestSound
<1>31. Becomes(IF s.off # 0 /\ ~s.resume /\ server[m] = "noresume" THEN e
               ELSE IF full THEN f ELSE IF Len(buf) > SaveSegSize THEN g ELSE d)
  <2>1. d = [dl EXCEPT !.src[m].segs[i] =
               IF full THEN [s EXCEPT !.buf = SubSeq(buf, 1, s.left), !.job = "none"]
               ELSE [s EXCEPT !.buf = buf, !.pos = @ + n]]
    BY ONLY <1>18, <1>21 DEF WithSegment
  <2> QED
    BY <1>1, <1>3, <1>5, <1>9, <1>11, <1>25, <1>26, <1>27, <2>1 DEF JobData
<1>32. Becomes(e) \/ (full /\ Becomes(f)) \/ Becomes(g) \/ Becomes(d)
  BY <1>31
<1> QED
  BY <1>23, <1>28, <1>29, <1>30, <1>32, BecomesSound
=============================================================================
