--------------------------- MODULE SegmentProofs ----------------------------
(***************************************************************************)
(* ChunksFit always holds of SegmentedDownload: the other steps keep IInv, *)
(* starting, stopping, the user's commands, the file, the repair and the   *)
(* restart, and IInv implies it.                                           *)
(***************************************************************************)
EXTENDS ReceiveProofs

\* The downloads differ in nothing that the invariant is about.
Alike(d, e) ==
  /\ e.size = d.size /\ e.chunks = d.chunks /\ e.finished = d.finished /\ e.done = d.done
  /\ e.status = d.status /\ e.tstatus = d.tstatus /\ e.put = d.put
  /\ e.findTried = d.findTried /\ e.initialized = d.initialized /\ e.file = d.file
  /\ e.sizeDefined = d.sizeDefined /\ e.temp = d.temp /\ e.tempOff = d.tempOff
  /\ e.blocked = d.blocked /\ e.stat = d.stat /\ e.removing = d.removing /\ e.max = d.max
  /\ e.downloaded = d.downloaded /\ e.src = d.src /\ e.started = d.started
  /\ e.unused = d.unused

LEMMA AlikeSound ==
  ASSUME NEW d, NEW t, Sound(d, t), NEW e, Alike(d, e), Typed(e, Good(d, t), Starts(d))
  PROVE  Sound(e, t)
<1>1. Good(e, t) = Good(d, t) /\ Starts(e) = Starts(d) /\ Present(e) = Present(d)
  BY GoodSame DEF Alike
<1>2. Sane(e)
  BY DEF Alike, Sane, Sound
<1>3. t = {} => FileFits(e)
  BY <1>1 DEF Alike, FileFits, Sound, Whole
<1> QED
  BY <1>1, <1>2, <1>3, FieldsSound DEF Alike

\* The flags that Sound says nothing of.
Flagged(d, startTried, doDownload, verified, repairing, source) ==
  [d EXCEPT !.startTried = startTried, !.doDownload = doDownload, !.verified = verified,
            !.repairing = repairing, !.source = source]

LEMMA FlaggedSound ==
  ASSUME NEW d, NEW t, Sound(d, t), NEW a, NEW b, NEW c, NEW r, NEW s,
         NEW e, e = Flagged(d, a, b, c, r, s)
  PROVE  Sound(e, t)
<1>1. d \in Variants(d, Good(d, t), Starts(d))
  BY DEF Sound, Typed
<1>2. Alike(d, e)
  BY ONLY <1>1, e = Flagged(d, a, b, c, r, s) DEF Variants, Alike, Flagged
<1>3. Typed(e, Good(d, t), Starts(d))
  BY ONLY <1>1, e = Flagged(d, a, b, c, r, s) DEF Variants, Typed, Flagged
<1> QED
  BY <1>2, <1>3, AlikeSound

\* The status that the transfer copies, unless the download finishes.
WithStatus(d, st) == [d EXCEPT !.status = st, !.tstatus = st]

LEMMA ChangeStatusIs ==
  ASSUME NEW d, NEW st, st # "Finished"
  PROVE  ChangeStatus(d, st) = WithStatus(d, st)
BY DEF ChangeStatus, SlotDataSourceFactoryChange, WithStatus

LEMMA WithStatusSound ==
  ASSUME NEW d, NEW t, Sound(d, t), NEW st \in {"Running", "Aborted"}, d.status # "Finished",
         NEW e, e = WithStatus(d, st)
  PROVE  /\ Sound(e, t) /\ Starts(e) = BOOLEAN /\ e.src = d.src /\ e.unused = d.unused
         /\ e.status = st
<1>1. d \in Variants(d, Good(d, t), Starts(d)) /\ Sane(d)
  BY DEF Sound, Typed
<1>2. /\ e.size = d.size /\ e.chunks = d.chunks /\ e.finished = d.finished /\ e.done = d.done
      /\ e.status = st /\ e.tstatus = st /\ e.put = d.put /\ e.started = d.started
      /\ e.findTried = d.findTried /\ e.initialized = d.initialized /\ e.file = d.file
      /\ e.sizeDefined = d.sizeDefined /\ e.src = d.src /\ e.unused = d.unused
      /\ e.temp = d.temp /\ e.tempOff = d.tempOff /\ e.blocked = d.blocked
      /\ e.stat = d.stat /\ e.removing = d.removing /\ e.max = d.max
      /\ e.downloaded = d.downloaded
  BY <1>1 DEF WithStatus, Variants
<1>3. Typed(e, Good(d, t), Starts(d))
  BY <1>1 DEF WithStatus, Typed, Variants
<1>4. Present(e) = Present(d)
  BY <1>2 DEF Present, Pending
<1>5. Good(d, t) \subseteq Good(e, t) /\ Starts(d) \subseteq Starts(e)
  BY ZenonT(30), <1>2, <1>4, GoodGrows
<1>6. Sane(e)
  BY <1>1, <1>2 DEF Sane
<1>7. ASSUME t = {} PROVE FileFits(e)
  <2>1. FileFits(d)
    BY <1>7 DEF Sound
  <2>2. Whole(e) = Whole(d)
    BY <1>2 DEF Whole
  <2> QED
    BY ONLY <1>2, <1>4, <2>1, <2>2, st \in {"Running", "Aborted"} DEF FileFits
<1>8. Sound(e, t)
  BY <1>2, <1>3, <1>5, <1>6, <1>7, FieldsSound
<1>9. Starts(e) = BOOLEAN
  BY <1>2 DEF Starts
<1> QED
  BY <1>2, <1>8, <1>9

\* Nothing of another download is in the file.
FileReady(d, t) == t = {} => d.file = NoFile \/ d.initialized

LEMMA WithFileSound ==
  ASSUME NEW d, NEW t, Sound(d, t), FileReady(d, t), NEW e, e = WithFile(d)
  PROVE  /\ Sound(e, t) /\ e.initialized /\ e.status = d.status /\ e.put = d.put /\ e.size = d.size
         /\ e.findTried = d.findTried /\ e.src = d.src /\ e.unused = d.unused
         /\ (t = {} => ~e.removing)
<1>1. d \in Variants(d, Good(d, t), Starts(d)) /\ Sane(d)
  BY DEF Sound, Typed
<1>2. PICK file : file = IF d.file = NoFile THEN EmptyFile ELSE d.file
  OBVIOUS
<1>3. e = [d EXCEPT !.initialized = TRUE, !.file = file]
  BY <1>2 DEF WithFile
<1>4. /\ e.size = d.size /\ e.chunks = d.chunks /\ e.finished = d.finished /\ e.done = d.done
      /\ e.status = d.status /\ e.tstatus = d.tstatus /\ e.put = d.put /\ e.started = d.started
      /\ e.findTried = d.findTried /\ e.initialized /\ e.file = file
      /\ e.sizeDefined = d.sizeDefined /\ e.src = d.src /\ e.unused = d.unused
      /\ e.temp = d.temp /\ e.tempOff = d.tempOff /\ e.blocked = d.blocked
      /\ e.stat = d.stat /\ e.removing = d.removing /\ e.max = d.max
      /\ e.downloaded = d.downloaded
  BY ONLY <1>1, <1>3 DEF Variants
<1>5. Typed(e, Good(d, t), Starts(d))
  BY ONLY <1>1, <1>3 DEF Typed, Variants
<1>6. ASSUME NEW u \in Units
      PROVE  \/ file[u] = d.file[u] /\ d.file # NoFile
             \/ d.file[u] = "absent" /\ file[u] = "none" /\ d.file = NoFile
  BY <1>2 DEF NoFile, EmptyFile
<1>7. Present(e) = Present(d)
  <2>1. Pending(e) = Pending(d)
    BY <1>4 DEF Pending
  <2>2. \A u \in Units : e.file[u] \notin {"none", "absent"} <=> d.file[u] \notin {"none", "absent"}
    BY <1>4, <1>6
  <2> QED
    BY <2>1, <2>2 DEF Present
<1>8. Good(d, t) \subseteq Good(e, t) /\ Starts(d) \subseteq Starts(e)
  BY ZenonT(30), <1>4, <1>7, GoodGrows
<1>9. Sane(e)
  BY <1>1, <1>4 DEF Sane
<1>10. t = {} => ~e.removing
  BY <1>4 DEF Sound, FileFits, FileReady
<1>11. ASSUME t = {} PROVE FileFits(e)
  <2>1. FileFits(d)
    BY <1>11 DEF Sound
  <2>2. Whole(d) => Whole(e)
    BY <1>4, <1>6 DEF Whole
  <2>3. \A u \in Units : e.file[u] \in Contents /\ e.file[u] # "old"
    <3> SUFFICES ASSUME NEW u \in Units PROVE file[u] \in Contents /\ file[u] # "old"
      BY <1>4
    <3>1. CASE d.file = NoFile
      BY <1>6, <3>1 DEF Contents
    <3>2. CASE d.file # NoFile
      <4>1. d.initialized
        BY <1>11, <3>2 DEF FileReady
      <4> QED
        BY <1>6, <2>1, <3>2, <4>1 DEF FileFits
    <3> QED
      BY <3>1, <3>2
  <2>4. ~e.removing
    BY <1>10, <1>11
  <2> QED
    BY ONLY <1>4, <1>7, <2>1, <2>2, <2>3, <2>4 DEF FileFits
<1>12. Sound(e, t)
  BY <1>4, <1>5, <1>8, <1>9, <1>11, FieldsSound
<1> QED
  BY <1>4, <1>10, <1>12

LEMMA InitChunksSound ==
  ASSUME NEW d, NEW t, Sound(d, t), d.status # "Finished", NEW e, e = InitChunks(d)
  PROVE  /\ Sound(e, t) /\ e.initialized = d.initialized /\ e.status = d.status /\ e.put = d.put
         /\ e.size = d.size /\ e.findTried = d.findTried /\ e.src = d.src /\ e.unused = d.unused
         /\ e.chunks = (d.size # 0)
<1>1. d \in Variants(d, Good(d, t), Starts(d)) /\ Sane(d) /\ Parted(d)
  BY DEF Sound, Typed
<1>2. PICK chunks : chunks = (d.size # 0)
  OBVIOUS
<1>3. e = [d EXCEPT !.chunks = chunks]
  BY <1>2 DEF InitChunks
<1>4. /\ e.size = d.size /\ e.chunks = chunks /\ e.finished = d.finished /\ e.done = d.done
      /\ e.status = d.status /\ e.tstatus = d.tstatus /\ e.put = d.put /\ e.started = d.started
      /\ e.findTried = d.findTried /\ e.initialized = d.initialized /\ e.file = d.file
      /\ e.sizeDefined = d.sizeDefined /\ e.src = d.src /\ e.unused = d.unused
      /\ e.temp = d.temp /\ e.tempOff = d.tempOff /\ e.blocked = d.blocked
      /\ e.stat = d.stat /\ e.removing = d.removing /\ e.max = d.max
      /\ e.downloaded = d.downloaded
  BY ONLY <1>1, <1>3 DEF Variants
<1>5. Good(e, t) = Good(d, t) /\ Starts(e) = Starts(d) /\ Present(e) = Present(d)
  BY <1>4, GoodSame
<1>6. Typed(e, Good(d, t), Starts(d))
  BY ONLY <1>1, <1>3 DEF Typed, Variants
<1>7. ASSUME chunks, NEW m \in Used(d) PROVE Unknown \notin Owned(d, m)
  <2> SUFFICES ASSUME Unknown \in Owned(d, m) PROVE FALSE
    OBVIOUS
  <2>1. PICK i \in DOMAIN d.src[m].segs : Unknown \in Own(d.src[m].segs[i])
    BY DEF Owned, OwnOf
  <2>2. PICK s : s = d.src[m].segs[i]
    OBVIOUS
  <2>3. /\ s \in Good(d, t) /\ s.cur \in Chunks /\ s.end \in Chunks
    BY <2>2, SoundSegment
  <2>4. ~s.finding
    BY <1>2, <1>7, <2>3 DEF Good
  <2>5. Unknown \in s.cur .. s.end
    BY <2>1, <2>2, <2>4 DEF Own
  <2>6. Unknown \in Chunks
    BY ONLY <2>3, <2>5, ChunksAre
  <2> QED
    BY <2>6, UnknownIsNoChunk
<1>8. Used(e) = Used(d) /\ \A m \in Used(d) : Owned(e, m) = Owned(d, m)
  BY <1>4 DEF Used, Owned
<1>9. Parted(e)
  <2>1. ~chunks => ~d.chunks
    BY <1>1, <1>2 DEF Sane
  <2>2. e.chunks => \A m \in Used(e) : Unknown \notin Owned(e, m)
    BY <1>4, <1>7, <1>8
  <2>3. ~e.chunks => e.started = {}
    BY <1>1, <1>4, <2>1 DEF Parted, Loose
  <2>4. \A m \in Used(e) : Apart(e.src[m].segs)
    BY <1>1, <1>4, <1>8 DEF Parted, Loose
  <2> QED
    BY ONLY <1>1, <1>4, <1>8, <2>2, <2>3, <2>4 DEF Parted, Loose
<1>10. Known(e)
  BY <1>4, <1>8 DEF Sound, Known
<1>11. Sane(e)
  BY <1>1, <1>2, <1>4 DEF Sane
<1>12. t = {} => FileFits(e)
  BY <1>4, <1>5 DEF Sound, FileFits, Whole
<1> QED
  BY <1>2, <1>4, <1>5, <1>6, <1>9, <1>10, <1>11, <1>12 DEF Sound

\* The sources change, but the mirrors and the chunks of each stay.
LEMMA MappedSound ==
  ASSUME NEW d, NEW t, Sound(d, t), NEW e, Typed(e, Good(e, t), Starts(e)),
         e.started = d.started, e.finished = d.finished, e.chunks = d.chunks,
         e.unused = d.unused, Used(e) = Used(d),
         \A m \in Used(d) : Apart(e.src[m].segs),
         \A m \in Used(d) : \A c \in Owned(e, m) : c \in Owned(d, m),
         \A m \in Used(d) : \A c \in Owned(d, m) : c = Unknown \/ c \in Owned(e, m),
         Sane(e), t = {} => FileFits(e)
  PROVE  Sound(e, t)
<1>1. Parted(d) /\ Known(d)
  BY DEF Sound
<1>2. \A c \in d.started \ d.finished : \E m \in Used(e) : c \in Owned(e, m)
  <2> SUFFICES ASSUME NEW c \in d.started \ d.finished PROVE \E m \in Used(e) : c \in Owned(e, m)
    OBVIOUS
  <2>1. PICK m \in Used(d) : c \in Owned(d, m)
    BY <1>1 DEF Parted, Loose
  <2>2. c \in Chunks
    BY <1>1 DEF Parted, Loose
  <2>3. c # Unknown
    BY <2>2, UnknownIsNoChunk
  <2> QED
    BY <2>1, <2>3
<1>3. Loose(e)
  <2>1. \A m \in Used(d) : Owned(d, m) \cap d.finished = {}
    BY <1>1 DEF Parted, Loose
  <2>2. \A m \in Used(e) : Owned(e, m) \cap e.finished = {}
    BY <2>1
  <2>3. \A m, n \in Used(d) : m # n => Owned(d, m) \cap Owned(d, n) = {}
    BY <1>1 DEF Parted, Loose
  <2>4. \A m, n \in Used(e) : m # n => Owned(e, m) \cap Owned(e, n) = {}
    BY <2>3
  <2>5. e.chunks => \A m \in Used(e) : Unknown \notin Owned(e, m)
    BY <1>1 DEF Parted, Loose
  <2> QED
    BY <1>1, <1>2, <2>2, <2>4, <2>5 DEF Parted, Loose
<1>4. Parted(e)
  BY <1>1, <1>3 DEF Parted
<1>5. Known(e)
  BY <1>1 DEF Known
<1> QED
  BY <1>4, <1>5 DEF Sound

-----------------------------------------------------------------------------
(* Starting.                                                               *)

\* The start is put off.
PutOff(d, removing) == [d EXCEPT !.startTried = TRUE, !.removing = removing]

LEMMA PutOffSound ==
  ASSUME NEW d, NEW t, Sound(d, t), NEW b,
         t = {} => b = d.removing \/ (~d.initialized /\ d.file # NoFile),
         NEW e, e = PutOff(d, b)
  PROVE  Sound(e, t)
<1>1. d \in Variants(d, Good(d, t), Starts(d)) /\ Sane(d)
  BY DEF Sound, Typed
<1>2. /\ e.size = d.size /\ e.chunks = d.chunks /\ e.finished = d.finished /\ e.done = d.done
      /\ e.status = d.status /\ e.tstatus = d.tstatus /\ e.put = d.put
      /\ e.findTried = d.findTried /\ e.initialized = d.initialized /\ e.file = d.file
      /\ e.sizeDefined = d.sizeDefined /\ e.temp = d.temp /\ e.tempOff = d.tempOff
      /\ e.blocked = d.blocked /\ e.stat = d.stat /\ e.removing = b /\ e.max = d.max
      /\ e.downloaded = d.downloaded /\ e.src = d.src /\ e.started = d.started
      /\ e.unused = d.unused
  BY ONLY <1>1, e = PutOff(d, b) DEF Variants, PutOff
<1>3. Typed(e, Good(d, t), Starts(d))
  BY ONLY <1>1, e = PutOff(d, b) DEF Variants, PutOff, Typed
<1>4. Good(e, t) = Good(d, t) /\ Starts(e) = Starts(d) /\ Present(e) = Present(d)
  BY <1>2, GoodSame
<1>5. Sane(e)
  BY <1>1, <1>2 DEF Sane
<1>6. t = {} => FileFits(e)
  BY <1>2, <1>4 DEF Sound, FileFits, Whole
<1> QED
  BY <1>2, <1>3, <1>4, <1>5, <1>6, FieldsSound

\* The job that writes the file.
WithPut(d, p, b) == [d EXCEPT !.put = p, !.startTried = b]

LEMMA WithPutSound ==
  ASSUME NEW d, NEW t, Sound(d, t), d.status # "Finished", t = {} => d.initialized,
         NEW p, p = "open" \/ d.put # "open", NEW b, NEW e, e = WithPut(d, p, b)
  PROVE  /\ Sound(e, t) /\ e.put = p /\ e.status = d.status /\ e.file = d.file
         /\ e.initialized = d.initialized
<1>1. d \in Variants(d, Good(d, t), Starts(d)) /\ Sane(d)
  BY DEF Sound, Typed
<1>2. /\ e.size = d.size /\ e.chunks = d.chunks /\ e.finished = d.finished /\ e.done = d.done
      /\ e.status = d.status /\ e.tstatus = d.tstatus /\ e.put = p
      /\ e.findTried = d.findTried /\ e.initialized = d.initialized /\ e.file = d.file
      /\ e.sizeDefined = d.sizeDefined /\ e.temp = d.temp /\ e.tempOff = d.tempOff
      /\ e.blocked = d.blocked /\ e.stat = d.stat /\ e.removing = d.removing /\ e.max = d.max
      /\ e.downloaded = d.downloaded /\ e.src = d.src /\ e.started = d.started
      /\ e.unused = d.unused
  BY ONLY <1>1, e = WithPut(d, p, b) DEF Variants, WithPut
<1>3. Typed(e, Good(d, t), Starts(d))
  BY ONLY <1>1, e = WithPut(d, p, b) DEF Variants, WithPut, Typed
<1>4. Good(e, t) = Good(d, t) /\ Starts(e) = Starts(d) /\ Present(e) = Present(d)
  BY <1>2, GoodSame
<1>5. Sane(e)
  BY <1>1, <1>2 DEF Sane
<1>6. t = {} => FileFits(e)
  BY <1>2, <1>4 DEF Sound, FileFits, Whole
<1>7. Sound(e, t)
  BY <1>2, <1>3, <1>4, <1>5, <1>6, FieldsSound
<1> QED
  BY <1>2, <1>7

\* The file cannot be created.
Refused(d) == [d EXCEPT !.startTried = TRUE, !.initialized = TRUE]

LEMMA RefusedSound ==
  ASSUME NEW d, NEW t, Sound(d, t), d.file = NoFile, NEW e, e = Refused(d)
  PROVE  Sound(e, t) /\ e.status = d.status
<1>1. d \in Variants(d, Good(d, t), Starts(d)) /\ Sane(d)
  BY DEF Sound, Typed
<1>2. /\ e.size = d.size /\ e.chunks = d.chunks /\ e.finished = d.finished /\ e.done = d.done
      /\ e.status = d.status /\ e.tstatus = d.tstatus /\ e.put = d.put
      /\ e.findTried = d.findTried /\ e.initialized /\ e.file = d.file
      /\ e.sizeDefined = d.sizeDefined /\ e.temp = d.temp /\ e.tempOff = d.tempOff
      /\ e.blocked = d.blocked /\ e.stat = d.stat /\ e.removing = d.removing /\ e.max = d.max
      /\ e.downloaded = d.downloaded /\ e.src = d.src /\ e.started = d.started
      /\ e.unused = d.unused
  BY ONLY <1>1, e = Refused(d) DEF Variants, Refused
<1>3. Typed(e, Good(d, t), Starts(d))
  BY ONLY <1>1, e = Refused(d) DEF Variants, Refused, Typed
<1>4. Present(e) = Present(d)
  BY <1>2 DEF Present, Pending
<1>5. Good(d, t) \subseteq Good(e, t) /\ Starts(d) \subseteq Starts(e)
  BY SMTT(30), <1>2, <1>4, GoodGrows
<1>6. Sane(e)
  BY <1>1, <1>2 DEF Sane
<1>7. ASSUME t = {} PROVE FileFits(e)
  <2>1. FileFits(d) /\ Whole(e) = Whole(d)
    BY <1>2, <1>7 DEF Sound, Whole
  <2>2. \A u \in Units : e.file[u] = "absent"
    BY <1>2 DEF NoFile
  <2>3. \A u \in Units : e.file[u] \in Contents /\ e.file[u] # "old"
    BY <2>2 DEF Contents
  <2>4. ~e.removing
    BY <1>2, <2>1 DEF FileFits
  <2> QED
    BY ONLY <1>2, <1>4, <2>1, <2>3, <2>4 DEF FileFits
<1>8. Sound(e, t)
  BY <1>2, <1>3, <1>5, <1>6, <1>7, FieldsSound
<1> QED
  BY <1>2, <1>8

\* The size is sought once.
SizeSought(d) == [d EXCEPT !.findTried = TRUE]

LEMMA SizeSoughtSound ==
  ASSUME NEW d, NEW t, Sound(d, t), NEW e, e = SizeSought(d)
  PROVE  /\ Sound(e, t) /\ e.findTried /\ e.src = d.src /\ e.status = d.status /\ e.size = d.size
         /\ e.chunks = d.chunks
<1>1. d \in Variants(d, Good(d, t), Starts(d)) /\ Sane(d)
  BY DEF Sound, Typed
<1>2. /\ e.size = d.size /\ e.chunks = d.chunks /\ e.finished = d.finished /\ e.done = d.done
      /\ e.status = d.status /\ e.tstatus = d.tstatus /\ e.put = d.put
      /\ e.findTried /\ e.initialized = d.initialized /\ e.file = d.file
      /\ e.sizeDefined = d.sizeDefined /\ e.temp = d.temp /\ e.tempOff = d.tempOff
      /\ e.blocked = d.blocked /\ e.stat = d.stat /\ e.removing = d.removing /\ e.max = d.max
      /\ e.downloaded = d.downloaded /\ e.src = d.src /\ e.started = d.started
      /\ e.unused = d.unused
  BY ONLY <1>1, e = SizeSought(d) DEF Variants, SizeSought
<1>3. Typed(e, Good(d, t), Starts(d))
  BY ONLY <1>1, e = SizeSought(d) DEF Variants, SizeSought, Typed
<1>4. Present(e) = Present(d)
  BY <1>2 DEF Present, Pending
<1>5. Good(d, t) \subseteq Good(e, t) /\ Starts(d) \subseteq Starts(e)
  BY ZenonT(30), <1>2, <1>4, GoodGrows
<1>6. Sane(e)
  BY <1>1, <1>2 DEF Sane
<1>7. t = {} => FileFits(e)
  BY <1>2, <1>4 DEF Sound, FileFits, Whole
<1>8. Sound(e, t)
  BY <1>2, <1>3, <1>5, <1>6, <1>7, FieldsSound
<1> QED
  BY <1>2, <1>8

LEMMA OneOf ==
  ASSUME NEW S, NEW s \in S
  PROVE  <<s>> \in Seq(S) /\ DOMAIN <<s>> = {1} /\ <<s>>[1] = s
OBVIOUS

\* A mirror without segments gets the one that looks for the size.
LEMMA SeekerSound ==
  ASSUME NEW d, NEW t, Sound(d, t), d.findTried, d.size = 0, Starts(d) = BOOLEAN,
         t = {} => d.initialized,
         NEW m \in Used(d), \A n \in Used(d) : d.src[n].segs = <<>>,
         NEW w, w = StartTransfer(FindingSegment),
         NEW e, e = WithSegments(d, m, <<w>>, d.src[m].par, d.started)
  PROVE  Sound(e, t)
<1>1. d \in Variants(d, Good(d, t), Starts(d)) /\ Sane(d) /\ Parted(d)
  BY DEF Sound, Typed
<1>2. Closed(Good(d, t), Starts(d))
  BY GoodClosed
<1>3. /\ FindingSegment \in Segments /\ w = [FindingSegment EXCEPT !.job = w.job, !.pos = w.pos,
                                      !.resume = w.resume, !.running = TRUE]
      /\ w \in Fitting /\ Own(w) = {Unknown}
  BY FindingSegmentFits, StartTransferFits DEF Fitting
<1>4. PICK f \in Segments : f = FindingSegment
  BY <1>3
<1>5. /\ w.finding = f.finding /\ w.off = f.off /\ w.cur = f.cur /\ w.buf = f.buf
      /\ w.timers = f.timers
  BY <1>3, <1>4 DEF Segments
<1>6. w.finding /\ w.off = 0 /\ w.cur = 0 /\ w.buf = <<>> /\ w.timers = 0
  BY <1>4, <1>5, FindingSegmentFits
<1>7. t = {} => DataFits(w, d)
  <2>1. DOMAIN w.buf = {}
    BY <1>6
  <2>2. \A u \in Units : ~(SegSize * w.cur <= u /\ u < w.off)
    BY <1>6 DEF Units
  <2> QED
    BY <1>6, <2>1, <2>2 DEF DataFits
<1>8. d.tstatus # "Stopped"
  BY DEF Starts
<1>9. w \in Good(d, t)
  BY <1>3, <1>7, <1>8 DEF Good
<1>10. PICK q : q = <<w>>
  OBVIOUS
<1>11. q \in Seq(Good(d, t)) /\ DOMAIN q = {1} /\ q[1] = w
  BY ONLY <1>9, <1>10, OneOf
<1>12. Apart(q) /\ OwnOf(q) = {Unknown}
  BY ONLY <1>3, <1>11 DEF Apart, OwnOf
<1>13. PICK par \in Nat, A \in SUBSET Chunks : par = d.src[m].par /\ A = d.started
  BY <1>1, SrcsAre DEF Variants, Used
<1>14. e = WithSegments(d, m, q, par, A)
  BY <1>10, <1>13
<1>15. Typed(d, Good(d, t), Starts(d)) /\ m \in Used(d)
  BY <1>1 DEF Typed
<1>16. /\ e \in Variants(d, Good(d, t), Starts(d)) /\ Used(e) = Used(d) /\ e.finished = d.finished
       /\ e.chunks = d.chunks /\ e.started = A /\ e.src[m].segs = q
       /\ \A n \in Used(d) : n # m => e.src[n] = d.src[n]
  BY ONLY <1>2, <1>11, <1>13, <1>14, <1>15, SegmentsOfOne
<1>17. ~d.chunks
  BY <1>1 DEF Sane
<1>18. Owned(e, m) = {Unknown}
  BY <1>12, <1>16 DEF Owned
<1>19. \A n \in Used(d) : n # m => Owned(e, n) = {} /\ Owned(d, n) = {}
  BY <1>16, OwnOfNone DEF Owned
<1>20. Owned(d, m) = {}
  BY OwnOfNone DEF Owned
<1>21. d.started = {} /\ d.finished = {}
  BY <1>1, <1>17 DEF Parted, Loose
<1>22. \A n \in Used(d) : Apart(e.src[n].segs)
  <2>1. \A n \in Used(d) : n # m => e.src[n].segs = <<>>
    BY <1>16
  <2> QED
    BY <2>1, <1>12, <1>16, OwnOfNone
<1>23. Parted(e)
  BY ONLY <1>13, <1>16, <1>17, <1>18, <1>19, <1>21, <1>22 DEF Parted, Loose
<1>24. Known(e)
  BY <1>16 DEF Known
<1> QED
  BY <1>16, <1>23, <1>24, VariantSound

LEMMA FindOnceSound ==
  ASSUME NEW d, NEW t, Sound(d, t), d.status # "Finished", d.size = 0, t = {} => d.initialized,
         NEW e, e = FindOnce(d)
  PROVE  Sound(e, t)
<1>1. CASE d.findTried \/ Used(d) = {}
  BY <1>1 DEF FindOnce
<1>2. CASE ~(d.findTried \/ Used(d) = {})
  <2>1. PICK f : f = SizeSought(d)
    OBVIOUS
  <2>2. /\ Sound(f, t) /\ f.findTried /\ f.src = d.src /\ f.status = d.status /\ f.size = d.size
        /\ f.chunks = d.chunks
    BY <2>1, SizeSoughtSound
  <2>3. \A n \in Used(d) : d.src[n].segs = <<>>
    <3> SUFFICES ASSUME NEW n \in Used(d), d.src[n].segs # <<>> PROVE FALSE
      OBVIOUS
    <3>1. /\ Typed(d, Good(d, t), Starts(d)) /\ Parted(d) /\ Closed(Good(d, t), Starts(d))
      BY SoundMayStart
    <3>2. d.src[n].segs \in Seq(Good(d, t))
      BY <3>1, SrcsAre DEF Typed, Variants, Used
    <3>3. 1 \in DOMAIN d.src[n].segs
      BY <3>2
    <3>4. d.src[n].segs[1].finding /\ d.src[n].segs[1] \in Good(d, t)
      <4>1. ~d.chunks
        BY DEF Sound, Sane
      <4> QED
        BY ONLY <3>1, <3>3, <4>1, n \in Used(d), SegmentOf
    <3> QED
      BY <1>2, <3>4 DEF Good
  <2>4. Used(f) = Used(d)
    BY <2>2 DEF Used
  <2>5. PICK m : m = UsedInOrder(f)[1]
    OBVIOUS
  <2>6. m \in Used(d)
    <3>1. IsFiniteSet(Used(d))
      BY SrcsAre DEF Sound, Typed, Variants, Used
    <3> QED
      BY <1>2, <2>4, <2>5, <3>1, SetToSeqIs DEF UsedInOrder
  <2>7. PICK g : g = WithStatus(f, "Running")
    OBVIOUS
  <2>8. Sound(g, t) /\ Starts(g) = BOOLEAN /\ g.src = d.src /\ g.status = "Running"
    BY <2>2, <2>7, WithStatusSound
  <2>9. f \in Variants(f, Good(f, t), Starts(f))
    BY <2>2 DEF Sound, Typed
  <2>10. g.findTried = f.findTried /\ g.size = f.size /\ g.initialized = f.initialized /\ g.started = f.started
         /\ f.initialized = d.initialized
    BY <2>1, <2>7, <2>9 DEF WithStatus, Variants, SizeSought
  <2>11. PICK w : w = StartTransfer(FindingSegment)
    OBVIOUS
  <2>12. PICK x : x = WithSegments(g, m, <<w>>, g.src[m].par, g.started)
    OBVIOUS
  <2>13. m \in Used(g) /\ \A n \in Used(g) : g.src[n].segs = <<>>
    BY <2>3, <2>6, <2>8 DEF Used
  <2>14. Sound(x, t)
    BY ONLY <2>2, <2>8, <2>10, <2>11, <2>12, <2>13, d.size = 0, t = {} => d.initialized, SeekerSound
  <2>15. e = ChangeStatus([f EXCEPT !.src[m].segs = Append(@, w)], "Running")
    BY <1>2, <2>1, <2>2, <2>4, <2>5, <2>11 DEF FindOnce, FindFileSize, SizeSought
  <2>16. e = WithStatus([f EXCEPT !.src[m].segs = Append(@, w)], "Running")
    BY ONLY <2>15, "Running" # "Finished", ChangeStatusIs
  <2>17. f.src[m].segs = <<>> /\ Append(<<>>, w) = <<w>>
    BY <2>2, <2>3, <2>6
  <2>18. PICK s \in Sources(Good(f, t), Starts(f)) : s = f.src[m]
    BY <2>4, <2>6, <2>9, SrcsAre DEF Variants, Used
  <2>19. [s EXCEPT !.segs = Append(@, w)] = [s EXCEPT !.segs = <<w>>, !.par = s.par]
    BY ONLY <2>17, <2>18 DEF Sources
  <2>20. x = e
    <3>1. PICK r : r = [s EXCEPT !.segs = <<w>>, !.par = s.par]
      OBVIOUS
    <3>2. PICK src : src = [f.src EXCEPT ![m] = r]
      OBVIOUS
    <3>3. e = WithStatus([f EXCEPT !.src = src], "Running")
      BY <2>16, <2>18, <2>19, <3>1, <3>2
    <3>4. x = [g EXCEPT !.src = src, !.started = g.started]
      BY ZenonT(30), <2>2, <2>8, <2>12, <2>18, <3>1, <3>2 DEF WithSegments
    <3> QED
      BY ONLY <2>7, <2>9, <2>10, <3>3, <3>4 DEF WithStatus, Variants
  <2> QED
    BY <2>14, <2>20
<1> QED
  BY <1>1, <1>2

LEMMA AssignAnySound ==
  ASSUME NEW d, NEW t, Sound(d, t), NEW e, e = AssignAny(d)
  PROVE  Sound(e, t) /\ e.status = d.status
<1>1. /\ MayStart(d, Starts(d)) /\ d.sizeDefined \in BOOLEAN /\ Loose(d) /\ Parted(d) /\ Known(d)
      /\ Typed(d, Good(d, t), Starts(d)) /\ Closed(Good(d, t), Starts(d))
  BY SoundMayStart
<1>2. PICK G, started : G = Good(d, t) /\ started = Starts(d)
  OBVIOUS
<1>3. e \in Variants(d, G, started) /\ Parted(e) /\ Known(e)
  <2>1. CASE Used(d) = {} /\ d.unused # <<>>
    BY <1>1, <1>2, <2>1, AddFirstUnusedKeeps DEF AssignAny
  <2>2. CASE ~(Used(d) = {} /\ d.unused # <<>>)
    BY <1>1, <1>2, <2>2, AssignFirstKeeps DEF AssignAny
  <2> QED
    BY <2>1, <2>2
<1>4. e.status = d.status
  BY <1>3 DEF Variants
<1> QED
  BY <1>2, <1>3, <1>4, VariantSound

Forgiven(d) == [d EXCEPT !.assignTried = FALSE]

LEMMA AssignTriedSound ==
  ASSUME NEW d, NEW t, Sound(d, t), NEW e, e = AssignTried(d)
  PROVE  Sound(e, t) /\ e.status = d.status
<1>1. CASE ~d.assignTried
  BY <1>1 DEF AssignTried
<1>2. CASE d.assignTried
  <2>1. /\ Parted(d) /\ Known(d)
        /\ d \in Variants(d, Good(d, t), Starts(d)) /\ Closed(Good(d, t), Starts(d))
    BY SoundMayStart
  <2>2. PICK G, started : G = Good(d, t) /\ started = Starts(d)
    OBVIOUS
  <2>3. PICK f : f = Forgiven(d)
    OBVIOUS
  <2>4. /\ f \in Variants(d, G, started)
        /\ f.chunks = d.chunks /\ f.src = d.src /\ f.started = d.started /\ f.finished = d.finished
        /\ f.unused = d.unused /\ f.status = d.status
    BY ONLY ZenonT(30), <2>1, <2>2, <2>3 DEF Variants, Forgiven
  <2>5. Parted(f) /\ Used(f) = Used(d)
    BY ONLY <2>1, <2>4, PartedSame
  <2>6. Variants(f, G, started) = Variants(d, G, started) /\ Typed(f, G, started)
    BY ONLY <2>4, VariantsOfVariant
  <2>7. e = AssignAll(f)
    BY <1>2, <2>3 DEF AssignTried, Forgiven
  <2>8. Closed(G, started)
    BY <2>1, <2>2
  <2>9. AssignAll(f) \in Variants(f, G, started) /\ Parted(AssignAll(f)) /\ Used(AssignAll(f)) = Used(f)
        /\ (Known(f) => Known(AssignAll(f)))
    BY ONLY <2>5, <2>6, <2>8, AssignAllKeeps
  <2>10. e \in Variants(d, Good(d, t), Starts(d)) /\ Parted(e) /\ Used(e) = Used(d)
    BY <2>2, <2>5, <2>6, <2>7, <2>9
  <2>11. Known(e)
    <3>1. Known(f)
      BY <2>1, <2>4, <2>5 DEF Known
    <3> QED
      BY <2>7, <2>9, <3>1
  <2>12. e.status = d.status
    BY <2>10 DEF Variants
  <2> QED
    BY <2>10, <2>11, <2>12, VariantSound
<1> QED
  BY <1>1, <1>2

\* The sources change, and so does what was put off.
WithSources(d, src, b) == [d EXCEPT !.src = src, !.startTried = b]

LEMMA StartSourcesSound ==
  ASSUME NEW d, NEW t, Sound(d, t), d.status # "Finished",
         NEW e, e = ChangeStatus(StartSources(d), "Running")
  PROVE  Sound(e, t)
<1>1. PICK g : g = WithStatus(d, "Running")
  OBVIOUS
<1>2. Sound(g, t) /\ Starts(g) = BOOLEAN /\ g.src = d.src /\ g.unused = d.unused
  BY <1>1, WithStatusSound
<1>3. /\ g \in Variants(g, Good(g, t), Starts(g)) /\ d \in Variants(d, Good(d, t), Starts(d))
      /\ Parted(g) /\ Sane(g)
  BY <1>2 DEF Sound, Typed
<1>4. Closed(Good(g, t), Starts(g)) /\ TRUE \in Starts(g) /\ Used(g) = Used(d)
  BY <1>2, GoodClosed DEF Used
<1>5. PICK src : src = [m \in Used(d) |-> StartSource(d.src[m])]
  OBVIOUS
<1>6. PICK G, started : G = Good(g, t) /\ started = Starts(g)
  OBVIOUS
<1>7. ASSUME NEW m \in Used(d)
      PROVE  /\ src[m] \in Sources(G, started) /\ OwnOf(src[m].segs) = Owned(g, m)
             /\ Apart(src[m].segs)
  <2>1. PICK s \in Sources(G, started) : s = d.src[m]
    BY <1>2, <1>3, <1>4, <1>6, SrcsAre DEF Variants, Used
  <2>2. Apart(s.segs) /\ OwnOf(s.segs) = Owned(g, m)
    BY <1>2, <1>3, <1>4, <2>1 DEF Parted, Loose, Owned
  <2>3. PICK x : x = StartSource(s)
    OBVIOUS
  <2>4. x \in Sources(G, started) /\ OwnOf(x.segs) = OwnOf(s.segs) /\ Apart(x.segs)
    BY <1>4, <1>6, <2>1, <2>2, <2>3, StartSourceFits
  <2>5. src[m] = x
    BY <1>5, <2>1, <2>3
  <2> QED
    BY <2>2, <2>4, <2>5
<1>8. DOMAIN src = Used(d) /\ src \in [Used(d) -> Sources(G, started)]
  BY <1>5, <1>7
<1>9. src \in Srcs(G, started)
  <2>1. Used(d) \in SUBSET Mirrors
    BY <1>3, SrcsAre DEF Variants, Used
  <2> QED
    BY <1>8, <2>1, SrcsFrom
<1>10. PICK x : x = WithSources(g, src, FALSE)
  OBVIOUS
<1>11. /\ x.size = g.size /\ x.chunks = g.chunks /\ x.finished = g.finished /\ x.done = g.done
       /\ x.status = g.status /\ x.tstatus = g.tstatus /\ x.put = g.put
       /\ x.findTried = g.findTried /\ x.initialized = g.initialized /\ x.file = g.file
       /\ x.sizeDefined = g.sizeDefined /\ x.temp = g.temp /\ x.tempOff = g.tempOff
       /\ x.blocked = g.blocked /\ x.stat = g.stat /\ x.removing = g.removing /\ x.max = g.max
       /\ x.downloaded = g.downloaded /\ x.src = src /\ x.started = g.started
       /\ x.unused = g.unused
  BY ONLY <1>3, <1>10 DEF Variants, WithSources
<1>12. Good(x, t) = Good(g, t) /\ Starts(x) = Starts(g) /\ Present(x) = Present(g)
  BY <1>11, GoodSame
<1>13. Typed(x, Good(x, t), Starts(x))
  <2>1. g \in Variants(g, G, started)
    BY <1>3, <1>6
  <2>2. Typed(x, G, started)
    BY ONLY ZenonT(30), <2>1, <1>9, <1>10 DEF Typed, Variants, WithSources
  <2> QED
    BY <1>6, <1>12, <2>2
<1>14. Used(x) = Used(g)
  BY <1>4, <1>8, <1>11 DEF Used
<1>15. \A m \in Used(g) : Owned(x, m) = Owned(g, m) /\ Apart(x.src[m].segs)
  BY <1>4, <1>7, <1>11 DEF Owned
<1>16. Sane(x)
  BY <1>3, <1>11 DEF Sane
<1>17. t = {} => FileFits(x)
  BY <1>2, <1>11, <1>12 DEF Sound, FileFits, Whole
<1>18. Sound(x, t)
  BY <1>2, <1>11, <1>13, <1>14, <1>15, <1>16, <1>17, MappedSound
<1>19. e = WithStatus(WithSources(d, src, FALSE), "Running")
  BY <1>5, ChangeStatusIs DEF StartSources, WithSources
<1>20. x = e
  BY ONLY ZenonT(30), <1>1, <1>3, <1>10, <1>19 DEF WithStatus, WithSources, Variants
<1> QED
  BY <1>18, <1>20

LEMMA StartSound ==
  ASSUME NEW d, NEW t, Sound(d, t), NEW creatable, NEW e, e = Start(d, creatable)
  PROVE  Sound(e, t)
<1>1. d \in Variants(d, Good(d, t), Starts(d)) /\ Sane(d)
  BY DEF Sound, Typed
<1>2. CASE d.status = "Finished"
  BY <1>2 DEF Start
<1>3. CASE d.status # "Finished" /\ ~d.doDownload
  <2>1. PICK b : b = d.removing
    OBVIOUS
  <2>2. e = PutOff(d, b)
    <3>1. e = [d EXCEPT !.startTried = TRUE]
      BY <1>3 DEF Start
    <3> QED
      BY ONLY <1>1, <2>1, <3>1 DEF Variants, PutOff
  <2> QED
    BY <2>1, <2>2, PutOffSound
<1>4. CASE d.status # "Finished" /\ d.doDownload /\ ~d.initialized /\ d.file # NoFile
  <2>1. e = PutOff(d, TRUE)
    BY <1>4 DEF Start, PutOff
  <2> QED
    BY <1>4, <2>1, PutOffSound
<1>5. CASE d.status # "Finished" /\ d.doDownload /\ ~creatable /\ d.file = NoFile
  <2>1. PICK f : f = Refused(d)
    OBVIOUS
  <2>2. Sound(f, t) /\ f.status = d.status
    BY <1>5, <2>1, RefusedSound
  <2>3. e = ChangeStatus(f, "Aborted")
    BY <1>5, <2>1 DEF Start, Refused
  <2>4. e = WithStatus(f, "Aborted")
    BY <2>3, ChangeStatusIs
  <2>5. f.status # "Finished" /\ "Aborted" \in {"Running", "Aborted"}
    BY <1>5, <2>2
  <2>6. PICK st \in {"Running", "Aborted"} : st = "Aborted"
    OBVIOUS
  <2>7. e = WithStatus(f, st)
    BY <2>4, <2>6
  <2> QED
    BY ONLY <2>2, <2>5, <2>6, <2>7, WithStatusSound
<1>6. CASE /\ d.status # "Finished" /\ d.doDownload
           /\ ~(~d.initialized /\ d.file # NoFile) /\ ~(~creatable /\ d.file = NoFile)
  <2>1. PICK f : f = WithFile(d)
    OBVIOUS
  <2>2. FileReady(d, t)
    BY <1>6 DEF FileReady
  <2>3. /\ Sound(f, t) /\ f.initialized /\ f.status = d.status /\ f.put = d.put /\ f.size = d.size
        /\ f.findTried = d.findTried /\ f.src = d.src /\ f.unused = d.unused
    BY <2>1, <2>2, WithFileSound
  <2>4. CASE d.put = "none"
    <3>1. e = WithPut(f, "opening", TRUE)
      BY <1>6, <2>1, <2>4 DEF Start, WithPut
    <3>2. Sound(f, t) /\ f.status # "Finished" /\ (t = {} => f.initialized) /\ f.put # "open"
      BY <1>6, <2>3, <2>4
    <3>3. PICK p, b : p = "opening" /\ b = TRUE
      OBVIOUS
    <3>4. e = WithPut(f, p, b) /\ (p = "open" \/ f.put # "open")
      BY <3>1, <3>2, <3>3
    <3> QED
      BY ONLY <3>2, <3>4, WithPutSound
  <2>11. CASE d.put = "lost"
    <3>1. e = WithPut(f, "reopening", TRUE)
      BY <1>6, <2>1, <2>11 DEF Start, WithPut
    <3>2. Sound(f, t) /\ f.status # "Finished" /\ (t = {} => f.initialized) /\ f.put # "open"
      BY <1>6, <2>3, <2>11
    <3>3. PICK p, b : p = "reopening" /\ b = TRUE
      OBVIOUS
    <3>4. e = WithPut(f, p, b) /\ (p = "open" \/ f.put # "open")
      BY <3>1, <3>2, <3>3
    <3> QED
      BY ONLY <3>2, <3>4, WithPutSound
  <2>5. PICK g : g = Opened(d)
    OBVIOUS
  <2>6. g = InitChunks(f)
    BY <2>1, <2>5 DEF Opened
  <2>7. /\ Sound(g, t) /\ g.initialized /\ g.status = d.status /\ g.put = d.put /\ g.size = d.size
    BY <1>6, <2>3, <2>6, InitChunksSound
  <2>8. CASE d.put \notin {"none", "lost"} /\ d.put = "opening"
    <3>1. e = [g EXCEPT !.startTried = TRUE]
      BY <1>6, <2>5, <2>8 DEF Start
    <3>2. PICK b : b = g.removing
      OBVIOUS
    <3>3. g \in Variants(g, Good(g, t), Starts(g))
      BY <2>7 DEF Sound, Typed
    <3>4. e = PutOff(g, b)
      BY ONLY <3>1, <3>2, <3>3 DEF Variants, PutOff
    <3> QED
      BY <2>7, <3>2, <3>4, PutOffSound
  <2>9. CASE d.put \notin {"none", "lost", "opening"} /\ d.size = 0
    <3>1. PICK h : h = FindOnce(g)
      OBVIOUS
    <3>2. Sound(h, t)
      BY <1>6, <2>7, <2>9, <3>1, FindOnceSound
    <3>3. e = [h EXCEPT !.startTried = TRUE]
      BY <1>6, <2>5, <2>9, <3>1 DEF Start
    <3>4. PICK b : b = h.removing
      OBVIOUS
    <3>5. h \in Variants(h, Good(h, t), Starts(h))
      BY <3>2 DEF Sound, Typed
    <3>6. e = PutOff(h, b)
      BY ONLY <3>3, <3>4, <3>5 DEF Variants, PutOff
    <3> QED
      BY <3>2, <3>4, <3>6, PutOffSound
  <2>10. CASE d.put \notin {"none", "lost", "opening"} /\ d.size # 0
    <3>1. PICK h : h = AssignAny(g)
      OBVIOUS
    <3>2. Sound(h, t) /\ h.status = d.status
      BY <2>7, <3>1, AssignAnySound
    <3>3. PICK i : i = AssignTried(h)
      OBVIOUS
    <3>4. Sound(i, t) /\ i.status = d.status
      BY <3>2, <3>3, AssignTriedSound
    <3>5. e = ChangeStatus(StartSources(i), "Running")
      BY <1>6, <2>5, <2>10, <3>1, <3>3 DEF Start
    <3> QED
      BY <1>6, <3>4, <3>5, StartSourcesSound
  <2> QED
    BY <2>4, <2>11, <2>8, <2>9, <2>10
<1> QED
  BY <1>2, <1>3, <1>4, <1>5, <1>6

LEMMA StartIfTriedSound ==
  ASSUME NEW d, NEW t, Sound(d, t), NEW e, e = StartIfTried(d)
  PROVE  Sound(e, t)
BY StartSound DEF StartIfTried

-----------------------------------------------------------------------------
(* Stopping.                                                               *)

Idle(d, src) ==
  [d EXCEPT !.src = src, !.startTried = FALSE, !.findTried = FALSE, !.status = "Stopped",
            !.tstatus = "Stopped"]

LEMMA StopSound ==
  ASSUME NEW d, NEW t, Sound(d, t), NEW e, e = Stop(d)
  PROVE  Sound(e, t)
<1>1. CASE d.status = "Finished"
  BY <1>1 DEF Stop
<1>2. CASE d.status # "Finished"
  <2>1. d \in Variants(d, Good(d, t), Starts(d)) /\ Sane(d) /\ Parted(d)
    BY DEF Sound, Typed
  <2>2. Closed(Good(d, t), Starts(d))
    BY GoodClosed
  <2>3. PICK src : src = [m \in Used(d) |-> StopSource(d.src[m])]
    OBVIOUS
  <2>4. e = Idle(d, src)
    <3>1. PICK f : f = [d EXCEPT !.src = src, !.startTried = FALSE, !.findTried = FALSE]
      OBVIOUS
    <3>2. e = ChangeStatus(f, "Stopped")
      BY <1>2, <2>3, <3>1 DEF Stop
    <3>3. e = WithStatus(f, "Stopped")
      BY <3>2, ChangeStatusIs
    <3> QED
      BY <3>1, <3>3 DEF WithStatus, Idle
  <2>5. /\ e.size = d.size /\ e.chunks = d.chunks /\ e.finished = d.finished /\ e.done = d.done
        /\ e.status = "Stopped" /\ e.tstatus = "Stopped" /\ e.put = d.put
        /\ ~e.findTried /\ e.initialized = d.initialized /\ e.file = d.file
        /\ e.sizeDefined = d.sizeDefined /\ e.temp = d.temp /\ e.tempOff = d.tempOff
        /\ e.blocked = d.blocked /\ e.stat = d.stat /\ e.removing = d.removing /\ e.max = d.max
        /\ e.downloaded = d.downloaded /\ e.src = src /\ e.started = d.started
        /\ e.unused = d.unused
    BY ONLY <2>1, <2>4 DEF Variants, Idle
  <2>6. Present(e) = Present(d) /\ Starts(e) = {FALSE}
    BY <2>5 DEF Present, Pending, Starts
  <2>7. PICK G, started : G = Good(d, t) /\ started = Starts(d)
    OBVIOUS
  <2>8. ASSUME NEW s \in G, ~s.finding, s.job = "none" PROVE s \in Good(e, t)
    <3>1. DataFits(s, d) => DataFits(s, e)
      BY <2>5, <2>6 DEF DataFits
    <3> QED
      BY <2>7, <2>8, <3>1 DEF Good
  <2>9. ASSUME NEW m \in Used(d)
        PROVE  /\ src[m] \in Sources(Good(e, t), Starts(e)) /\ Apart(src[m].segs)
               /\ OwnOf(src[m].segs) = Owned(d, m) \ {Unknown}
    <3>1. PICK s \in Sources(G, started) : s = d.src[m]
      BY <2>1, <2>7, SrcsAre DEF Variants, Used
    <3>2. Apart(s.segs) /\ OwnOf(s.segs) = Owned(d, m)
      BY <2>1, <3>1 DEF Parted, Loose, Owned
    <3>3. PICK x : x = StopSource(s)
      OBVIOUS
    <3>4. /\ x \in Sources(G, started) /\ ~x.started /\ Apart(x.segs)
          /\ OwnOf(x.segs) = OwnOf(s.segs) \ {Unknown}
          /\ \A i \in DOMAIN x.segs : x.segs[i].job = "none" /\ ~x.segs[i].finding
      BY <2>2, <2>7, <3>2, <3>3, StopSourceFits
    <3>5. PICK q : q = x.segs
      OBVIOUS
    <3>6. q \in Seq(G) /\ \A i \in DOMAIN q : q[i] \in G /\ q[i] \in Good(e, t)
      <4>1. q \in Seq(G)
        BY <3>4, <3>5 DEF Sources
      <4>2. \A i \in DOMAIN q : q[i] \in G
        BY <4>1
      <4> QED
        BY <2>8, <3>4, <3>5, <4>1, <4>2
    <3>7. q \in Seq(Good(e, t))
      BY ONLY <3>6
    <3>8. x \in Sources(Good(e, t), Starts(e))
      <4>1. x.started \in BOOLEAN
        BY <2>7, <3>4 DEF Sources, Starts
      <4> QED
        BY <2>6, <3>4, <3>5, <3>7, <4>1 DEF Sources
    <3>9. src[m] = x
      BY <2>3, <3>1, <3>3
    <3> QED
      BY <3>2, <3>4, <3>8, <3>9
  <2>10. DOMAIN src = Used(d) /\ src \in [Used(d) -> Sources(Good(e, t), Starts(e))]
    BY <2>3, <2>9
  <2>11. src \in Srcs(Good(e, t), Starts(e))
    <3>1. Used(d) \in SUBSET Mirrors
      BY <2>1, SrcsAre DEF Variants, Used
    <3> QED
      BY <2>10, <3>1, SrcsFrom
  <2>12. Typed(e, Good(e, t), Starts(e))
    <3>1. PICK H, more : H = Good(e, t) /\ more = Starts(e)
      OBVIOUS
    <3>2. src \in Srcs(H, more) /\ d \in Variants(d, G, started)
      BY <2>1, <2>7, <2>11, <3>1
    <3>3. PICK f : f = WithSources(d, src, FALSE)
      OBVIOUS
    <3>4. f \in Variants(f, H, more)
      BY ONLY ZenonT(30), <3>2, <3>3 DEF Variants, WithSources
    <3>5. e = [f EXCEPT !.findTried = FALSE, !.status = "Stopped", !.tstatus = "Stopped"]
      BY <2>4, <3>3 DEF WithSources, Idle
    <3>6. Typed(e, H, more)
      BY ONLY <3>4, <3>5 DEF Typed, Variants
    <3> QED
      BY <3>1, <3>6
  <2>13. Used(e) = Used(d)
    BY <2>5, <2>10 DEF Used
  <2>14. \A m \in Used(d) : Apart(e.src[m].segs)
    BY <2>5, <2>9
  <2>17. \A m \in Used(d) : Owned(e, m) = Owned(d, m) \ {Unknown}
    BY <2>5, <2>9 DEF Owned
  <2>18. \A m \in Used(d) : \A c \in Owned(e, m) : c \in Owned(d, m)
    BY <2>17
  <2>19. \A m \in Used(d) : \A c \in Owned(d, m) : c = Unknown \/ c \in Owned(e, m)
    BY <2>17
  <2>15. Sane(e)
    BY <1>2, <2>1, <2>5 DEF Sane
  <2>16. ASSUME t = {} PROVE FileFits(e)
    <3>1. FileFits(d)
      BY <2>16 DEF Sound
    <3>2. Whole(e) = Whole(d)
      BY <2>5 DEF Whole
    <3> QED
      BY ONLY <2>5, <2>6, <3>1, <3>2 DEF FileFits
  <2> QED
    BY ONLY <2>5, <2>12, <2>13, <2>14, <2>15, <2>16, <2>18, <2>19, Sound(d, t), MappedSound
<1> QED
  BY <1>1, <1>2

-----------------------------------------------------------------------------
(* The steps that find the size, and the user's commands.                  *)

\* The segment that looked for the size gets all chunks.
AllChunks(s) ==
  [s EXCEPT !.finding = FALSE, !.end = NumChunks - 1, !.left = Size,
            !.last = LastSegSize(NumChunks - 1),
            !.segLeft = IF NumChunks = 1 THEN LastSegSize(0) ELSE SegSize]

LEMMA AllChunksFits ==
  ASSUME NEW s \in Fitting, s.finding, s.off = 0, NEW x, x = AllChunks(s)
  PROVE  /\ x \in Fitting /\ Own(x) = Chunks /\ ~x.finding /\ x.job = s.job /\ x.off = 0
         /\ x.cur = 0 /\ x.buf = s.buf /\ x.timers = s.timers
<1>1. s \in Segments /\ s.cur = 0
  BY DEF Fitting, Counts
<1>2. PICK n \in Nat : n = NumChunks - 1
  BY NumChunksIsNat
<1>3. n \in Chunks /\ 0 \in Chunks /\ 0 <= n
  BY <1>2, ChunksAre
<1>4. PICK last \in Nat : last = LastSegSize(n)
  BY <1>3, LastSegSizeIs
<1>5. PICK left \in Int : left = IF NumChunks = 1 THEN LastSegSize(0) ELSE SegSize
  BY <1>3, LastSegSizeIs, SizesAreNat
<1>6. PICK size \in Int : size = Size
  BY SizesAreNat
<1>7. x = [s EXCEPT !.finding = FALSE, !.end = n, !.left = size, !.last = last, !.segLeft = left]
  BY <1>2, <1>4, <1>5, <1>6 DEF AllChunks
<1>8. /\ x \in Segments /\ ~x.finding /\ x.end = n /\ x.left = size /\ x.last = last
      /\ x.segLeft = left /\ x.cur = 0 /\ x.off = 0 /\ x.job = s.job /\ x.buf = s.buf
      /\ x.timers = s.timers
  <2>1. s.off = 0 /\ s.cur = 0 /\ s \in Segments
    BY <1>1
  <2>2. x \in Segments
    <3>1. PICK y : y = [s EXCEPT !.finding = FALSE, !.end = n]
      OBVIOUS
    <3>2. y \in Segments
      BY ONLY <2>1, <1>3, <3>1 DEF Segments
    <3>3. x = [y EXCEPT !.left = size, !.last = last, !.segLeft = left]
      BY <1>7, <3>1
    <3> QED
      BY ONLY <3>2, <3>3 DEF Segments
  <2> QED
    BY ONLY <2>1, <2>2, <1>7 DEF Segments
<1>9. EndOf(n) = size
  BY <1>2, <1>6, LastChunkEnds
<1>10. EndOf(0) = left
  <2>1. EndOf(0) = LastSegSize(0)
    BY <1>3, Times, LastSegSizeIs DEF EndOf
  <2>2. NumChunks # 1 => LastSegSize(0) = SegSize
    <3>1. NumChunks # 1 => 1 \in Chunks
      BY NumChunksIsNat, ChunksAre
    <3> QED
      BY <1>3, <3>1, LastSegSizeIs
  <2> QED
    BY <1>5, <2>1, <2>2
<1>11. x \in Fitting
  BY <1>3, <1>4, <1>5, <1>6, <1>8, <1>9, <1>10 DEF Fitting, Counts
<1>12. Own(x) = Chunks
  BY <1>2, <1>8 DEF Own, Chunks
<1> QED
  BY <1>8, <1>11, <1>12

Sized(d, m, i, x) ==
  [d EXCEPT !.size = Size, !.chunks = TRUE, !.started = Chunks, !.src[m].segs[i] = x]

LEMMA SizedSound ==
  ASSUME NEW d, NEW t, Sound(d, t), NEW m \in Used(d), NEW i \in DOMAIN d.src[m].segs,
         d.src[m].segs[i].finding, d.src[m].segs[i].off = 0,
         NEW x, x = AllChunks(d.src[m].segs[i]), NEW e, e = Sized(d, m, i, x)
  PROVE  Sound(e, t)
<1>1. d \in Variants(d, Good(d, t), Starts(d)) /\ Sane(d) /\ Parted(d)
  BY DEF Sound, Typed
<1>2. PICK s : s = d.src[m].segs[i]
  OBVIOUS
<1>3. s \in Good(d, t) /\ s \in Fitting /\ s.finding /\ s.off = 0
  BY <1>2, SoundSegment
<1>4. /\ x \in Fitting /\ Own(x) = Chunks /\ ~x.finding /\ x.job = s.job /\ x.off = 0
      /\ x.cur = 0 /\ x.buf = s.buf /\ x.timers = s.timers
  BY <1>2, <1>3, AllChunksFits
<1>5. ~d.chunks /\ Len(d.src[m].segs) = 1 /\ Owned(d, m) = {Unknown}
  <2>1. /\ Typed(d, Good(d, t), Starts(d)) /\ Parted(d) /\ Closed(Good(d, t), Starts(d))
    BY SoundMayStart
  <2>2. d.chunks => ~s.finding
    BY ONLY <2>1, <1>2, m \in Used(d), i \in DOMAIN d.src[m].segs, SegmentOf
  <2>3. ~d.chunks => Len(d.src[m].segs) = 1 /\ Owned(d, m) = {Unknown}
    BY ONLY <2>1, <1>2, m \in Used(d), i \in DOMAIN d.src[m].segs, SegmentOf
  <2> QED
    BY <1>3, <2>2, <2>3
<1>6. d.started = {} /\ d.finished = {}
  BY <1>1, <1>5 DEF Parted, Loose
<1>7. \A n \in Used(d) : n # m => Owned(d, n) = {} /\ d.src[n].segs = <<>>
  <2> SUFFICES ASSUME NEW n \in Used(d), n # m PROVE Owned(d, n) = {} /\ d.src[n].segs = <<>>
    OBVIOUS
  <2>1. Owned(d, n) \cap {Unknown} = {} /\ Owned(d, n) \ {Unknown} \subseteq {}
    BY <1>1, <1>5, <1>6 DEF Parted, Loose
  <2>2. Owned(d, n) = {}
    BY <2>1
  <2>3. d.src[n].segs \in Seq(Good(d, t))
    BY <1>1, SrcsAre DEF Variants, Used
  <2>4. PICK q \in Seq(Good(d, t)) : q = d.src[n].segs
    BY <2>3
  <2>5. \A j \in DOMAIN q : q[j] \in Fitting /\ Own(q[j]) # {}
    <3>1. \A j \in DOMAIN q : q[j] \in Good(d, t)
      BY <2>4
    <3>2. \A w \in Fitting : Own(w) # {}
      <4> SUFFICES ASSUME NEW w \in Fitting PROVE Own(w) # {}
        OBVIOUS
      <4>1. w.cur \in Chunks /\ w.end \in Chunks /\ w.cur <= w.end
        BY DEF Fitting, Segments, Counts
      <4>2. PICK a \in Nat, b \in Nat : a = w.cur /\ b = w.end /\ a <= b
        BY <4>1, ChunksAre
      <4>3. w.cur \in w.cur .. w.end
        BY <4>2
      <4> QED
        BY <4>3 DEF Own
    <3> QED
      BY <3>1, <3>2 DEF Good
  <2>6. ASSUME NEW j \in DOMAIN q PROVE FALSE
    <3>1. PICK c : c \in Own(q[j])
      BY <2>5, <2>6
    <3>2. c \in Owned(d, n)
      BY <2>4, <2>6, <3>1 DEF Owned, OwnOf
    <3> QED
      BY <2>2, <3>2
  <2>7. q = <<>>
    <3>1. Len(q) \in Nat /\ DOMAIN q = 1 .. Len(q)
      BY <2>4
    <3>2. PICK l \in Nat : l = Len(q) /\ DOMAIN q = 1 .. l
      BY <3>1
    <3>3. l # 0 => 1 \in 1 .. l
      OBVIOUS
    <3>4. Len(q) = 0
      BY <2>6, <3>2, <3>3
    <3> QED
      BY <2>4, <3>4
  <2> QED
    BY <2>2, <2>4, <2>7
<1>8. PICK size \in Nat \ {0} : size = Size
  BY SizesAreNat
<1>9. PICK A \in SUBSET Chunks : A = Chunks
  OBVIOUS
<1>10. PICK q : q = Replaced(d.src[m].segs, i, x)
  OBVIOUS
<1>11. DOMAIN q = {1} /\ q[1] = x /\ q \in Seq({x})
  <2>1. PICK r \in Seq(Good(d, t)) : r = d.src[m].segs
    BY <1>1, SrcsAre DEF Variants, Used
  <2>2. Len(r) = 1 /\ DOMAIN r = 1 .. 1 /\ i \in 1 .. 1
    BY <1>5, <2>1
  <2>3. i = 1 /\ DOMAIN r = {1}
    BY <2>2
  <2>4. q = [k \in {1} |-> x]
    BY <1>10, <2>1, <2>3 DEF Replaced
  <2>5. q = [k \in 1 .. 1 |-> x] /\ 1 .. 1 = {1}
    BY <2>4
  <2>6. PICK S : S = {x}
    OBVIOUS
  <2>7. q \in [1 .. 1 -> S]
    BY <2>5, <2>6
  <2>8. PICK one \in Nat : one = 1
    OBVIOUS
  <2>9. q \in [1 .. one -> S]
    BY <2>7, <2>8
  <2>10. q \in Seq(S)
    BY ONLY <2>9
  <2> QED
    BY <2>4, <2>6, <2>10
<1>12. Apart(q) /\ OwnOf(q) = Chunks
  BY ONLY <1>4, <1>11 DEF Apart, OwnOf
<1>13. PICK y : y = [d.src[m] EXCEPT !.segs = q]
  OBVIOUS
<1>14. PICK src : src = [d.src EXCEPT ![m] = y]
  OBVIOUS
<1>15. e = [d EXCEPT !.size = size, !.chunks = TRUE, !.started = A, !.src = src]
  BY <1>8, <1>9, <1>10, <1>13, <1>14 DEF Sized, Replaced
<1>16. /\ e.size = size /\ e.chunks = TRUE /\ e.finished = d.finished /\ e.done = d.done
       /\ e.status = d.status /\ e.tstatus = d.tstatus /\ e.put = d.put
       /\ e.findTried = d.findTried /\ e.initialized = d.initialized /\ e.file = d.file
       /\ e.sizeDefined = d.sizeDefined /\ e.temp = d.temp /\ e.tempOff = d.tempOff
       /\ e.blocked = d.blocked /\ e.stat = d.stat /\ e.removing = d.removing /\ e.max = d.max
       /\ e.downloaded = d.downloaded /\ e.src = src /\ e.started = A
       /\ e.unused = d.unused
  BY ONLY <1>1, <1>15 DEF Variants
<1>17. Present(e) = Present(d) /\ Starts(e) = Starts(d)
  BY <1>16 DEF Present, Pending, Starts
<1>18. t = {} => DataFits(x, e)
  <2> SUFFICES ASSUME t = {} PROVE DataFits(x, e)
    OBVIOUS
  <2>1. DataFits(s, d)
    BY <1>3 DEF Good
  <2>2. \A u \in Units : ~(SegSize * x.cur <= u /\ u < x.off)
    BY <1>4 DEF Units
  <2>3. d.initialized
    BY <1>3, <2>1 DEF DataFits
  <2> QED
    BY ZenonT(30), <1>3, <1>4, <1>16, <2>1, <2>2, <2>3 DEF DataFits
<1>19. x \in Good(e, t)
  BY <1>3, <1>4, <1>16, <1>18 DEF Good
<1>20. PICK G, started, H : G = Good(d, t) /\ started = Starts(d) /\ H = Good(e, t)
  OBVIOUS
<1>21. src \in Srcs(H, started)
  <2>1. q \in Seq(H)
    BY <1>11, <1>19, <1>20
  <2>2. /\ d.src \in Srcs(G, started) /\ d.src \in [Used(d) -> Sources(G, started)]
        /\ Used(d) \in SUBSET Mirrors
    BY <1>1, <1>20, SrcsAre DEF Variants, Used
  <2>3. \A n \in Used(d) : src[n] \in Sources(H, started)
    <3> SUFFICES ASSUME NEW n \in Used(d) PROVE src[n] \in Sources(H, started)
      OBVIOUS
    <3>1. PICK z \in Sources(G, started) : z = d.src[n]
      BY <2>2
    <3>2. CASE n = m
      <4>1. src[n] = [z EXCEPT !.segs = q]
        BY <1>13, <1>14, <2>2, <3>1, <3>2
      <4> QED
        BY <2>1, <4>1 DEF Sources
    <3>3. CASE n # m
      <4>1. src[n] = z /\ z.segs = <<>>
        BY <1>7, <1>14, <2>2, <3>1, <3>3
      <4>2. <<>> \in Seq(H)
        OBVIOUS
      <4> QED
        BY <4>1, <4>2 DEF Sources
    <3> QED
      BY <3>2, <3>3
  <2>4. src \in [Used(d) -> Sources(H, started)]
    BY <1>14, <2>2, <2>3
  <2> QED
    BY <2>2, <2>4, SrcsFrom
<1>22. Typed(e, Good(e, t), Starts(e))
  <2>1. d \in Variants(d, G, started)
    BY <1>1, <1>20
  <2>2. PICK f : f = [d EXCEPT !.src = src]
    OBVIOUS
  <2>3. f \in Variants(f, H, started)
    BY ONLY <2>1, <2>2, <1>21 DEF Variants
  <2>4. e = [f EXCEPT !.size = size, !.chunks = TRUE, !.started = A]
    BY <1>15, <2>2
  <2>5. Typed(e, H, started)
    BY ONLY ZenonT(30), <2>3, <2>4, <1>9 DEF Typed, Variants
  <2> QED
    BY <1>17, <1>20, <2>5
<1>23. Used(e) = Used(d)
  BY <1>14, <1>16 DEF Used
<1>24. e.src[m].segs = q /\ \A n \in Used(d) : n # m => e.src[n] = d.src[n]
  <2>1. PICK z \in Sources(G, started) : z = d.src[m]
    BY <1>1, <1>20, SrcsAre DEF Variants, Used
  <2>2. y.segs = q
    BY <1>13, <2>1 DEF Sources
  <2> QED
    BY ZenonT(30), <1>14, <1>16, <2>2 DEF Used
<1>25. Owned(e, m) = Chunks
  BY <1>12, <1>24 DEF Owned
<1>26. \A n \in Used(d) : n # m => Owned(e, n) = {} /\ Apart(e.src[n].segs)
  BY <1>7, <1>24, OwnOfNone DEF Owned
<1>27. Apart(e.src[m].segs)
  BY <1>12, <1>24
<1>28. Parted(e)
  BY ONLY <1>6, <1>9, <1>16, <1>23, <1>25, <1>26, <1>27, UnknownIsNoChunk, m \in Used(d) DEF Parted, Loose
<1>29. Known(e)
  BY <1>23 DEF Known
<1>30. Sane(e)
  BY <1>1, <1>8, <1>16 DEF Sane
<1>31. t = {} => FileFits(e)
  BY ZenonT(30), <1>16, <1>17 DEF Sound, FileFits, Whole
<1> QED
  BY <1>22, <1>28, <1>29, <1>30, <1>31 DEF Sound

LEMMA JobSizeStep ==
  ASSUME IInv, NEW id \in SegmentIds, JobSize(id)
  PROVE  IInv'
<1>1. PICK m, i : m = id[1] /\ i = id[2]
  OBVIOUS
<1>2. PICK s : s = dl.src[m].segs[i]
  OBVIOUS
<1>3. /\ Sound(dl, tainted) /\ m \in Used(dl) /\ i \in DOMAIN dl.src[m].segs /\ Segment(id) = s
  BY <1>1, <1>2, SegmentOfId DEF IInv
<1>4. AwaitsSize(m, s) /\ Becomes(IF s.finding THEN SlotFoundFileSize(m, i) ELSE RemoveMirror(dl, m))
  BY <1>1, <1>3 DEF JobSize
<1>5. CASE ~s.finding
  <2>1. PICK e : e = RemoveMirror(dl, m)
    OBVIOUS
  <2>2. Sound(e, tainted) /\ Becomes(e)
    BY <1>3, <1>4, <1>5, <2>1, RemoveMirrorSound
  <2> QED
    BY <2>2, BecomesSound
<1>6. CASE s.finding
  <2>1. s.off = 0
    BY <1>4, <1>6 DEF AwaitsSize
  <2>2. PICK x : x = AllChunks(s)
    OBVIOUS
  <2>3. PICK d : d = Sized(dl, m, i, x)
    OBVIOUS
  <2>4. dl.src[m].segs[i].finding /\ dl.src[m].segs[i].off = 0 /\ x = AllChunks(dl.src[m].segs[i])
    BY <1>2, <1>6, <2>1, <2>2
  <2>5. Sound(d, tainted)
    BY ONLY <1>3, <2>3, <2>4, SizedSound
  <2>6. PICK e : e = StartIfTried(d)
    OBVIOUS
  <2>7. Sound(e, tainted)
    BY <2>5, <2>6, StartIfTriedSound
  <2>8. d = [InitChunks([dl EXCEPT !.size = Size]) EXCEPT !.started = Chunks, !.src[m].segs[i] = x]
    <3>1. dl \in Variants(dl, Good(dl, tainted), Starts(dl))
      BY <1>3 DEF Sound, Typed
    <3>2. PICK f : f = [dl EXCEPT !.size = Size]
      OBVIOUS
    <3>3. f.size = Size /\ Size # 0
      BY <3>1, <3>2, SizesAreNat DEF Variants
    <3>4. InitChunks(f) = [dl EXCEPT !.size = Size, !.chunks = TRUE]
      BY <3>2, <3>3 DEF InitChunks
    <3> QED
      BY <2>3, <3>2, <3>4 DEF Sized
  <2>9. SlotFoundFileSize(m, i) = StartIfTried(
          [InitChunks([dl EXCEPT !.size = Size]) EXCEPT !.started = Chunks, !.src[m].segs[i] = x])
    BY <1>2, <2>2 DEF SlotFoundFileSize, AllChunks
  <2>10. Becomes(e)
    BY <1>4, <1>6, <2>6, <2>8, <2>9
  <2> QED
    BY <2>7, <2>10, BecomesSound
<1> QED
  BY <1>5, <1>6

LEMMA DownloadEventsStep ==
  ASSUME IInv, DownloadEvents
  PROVE  IInv'
<1>1. PICK id \in SegmentIds :
        \/ JobSize(id) \/ (\E n \in 1 .. 2 : JobData(id, n)) \/ JobEnds(id) \/ JobFails(id)
        \/ RestTimer(id)
  BY DEF DownloadEvents
<1>2. CASE JobSize(id)
  BY <1>2, JobSizeStep
<1>3. CASE \E n \in 1 .. 2 : JobData(id, n)
  BY <1>3, JobDataStep
<1>4. CASE JobEnds(id)
  BY <1>4, JobEndsStep
<1>5. CASE JobFails(id)
  BY <1>5, JobFailsStep
<1>6. CASE RestTimer(id)
  BY <1>6, RestTimerStep
<1> QED
  BY <1>1, <1>2, <1>3, <1>4, <1>5, <1>6

-----------------------------------------------------------------------------
(* Commands, the verification and the scheduler.                           *)

LEMMA MostConnections == Max(Connections) \in Nat
<1>1. PICK s : s = SetToSeq(Connections)
  OBVIOUS
<1>2. PICK N \in Nat : N = Len(s)
  BY <1>1, SegmentAssumption, SetToSeqIs
<1>3. /\ s \in Seq(Connections) /\ \A x \in Connections : \E n \in 1 .. N : s[n] = x
  BY <1>1, <1>2, SegmentAssumption, SetToSeqIs
<1>4. \A n \in 1 .. N : s[n] \in Nat
  BY <1>2, <1>3, SegmentAssumption
<1>5. PICK T : T = {n \in 0 .. N : \E b \in Nat : \A k \in 1 .. n : s[k] <= b}
  OBVIOUS
<1>6. 0 \in T
  BY <1>5
<1>7. ASSUME NEW n \in 1 .. N, n - 1 \in T PROVE n \in T
  <2>1. PICK b \in Nat : \A k \in 1 .. (n - 1) : s[k] <= b
    BY <1>5, <1>7
  <2>2. PICK a \in Nat : a = s[n]
    BY <1>4
  <2>3. \A k \in 1 .. n : s[k] <= a + b
    <3> SUFFICES ASSUME NEW k \in 1 .. n PROVE s[k] <= a + b
      OBVIOUS
    <3>1. CASE k = n
      BY <2>2, <3>1
    <3>2. CASE k # n
      <4>1. k \in 1 .. (n - 1) /\ k \in 1 .. N
        BY <3>2
      <4>2. PICK c \in Nat : c = s[k]
        BY <1>4, <4>1
      <4> QED
        BY <2>1, <4>1, <4>2
    <3> QED
      BY <3>1, <3>2
  <2>4. a + b \in Nat /\ n \in 0 .. N
    OBVIOUS
  <2> QED
    BY <1>5, <2>3, <2>4
<1>8. N \in T
  <2>1. 0 .. N \subseteq T
    BY <1>6, <1>7, Counting
  <2> QED
    BY <2>1
<1>9. PICK b \in Nat : \A k \in 1 .. N : s[k] <= b
  BY <1>5, <1>8
<1>10. \A x \in Connections : x <= b
  BY <1>3, <1>9
<1>11. Connections \subseteq Nat /\ Connections # {}
  BY SegmentAssumption
<1> QED
  BY <1>10, <1>11, MaxOfBounded

\* The transfer takes the download as finished, or the download is to be repaired.
Noted(d, stat, tstatus, done) == [d EXCEPT !.stat = stat, !.tstatus = tstatus, !.done = done]

LEMMA NotedSound ==
  ASSUME NEW d, NEW t, Sound(d, t), NEW stat, stat \in {d.stat, FALSE},
         NEW done, done \in {d.done, FALSE}, NEW tstatus,
         tstatus = d.tstatus \/ (tstatus = "Finished" /\ d.stat),
         NEW e, e = Noted(d, stat, tstatus, done)
  PROVE  Sound(e, t)
<1>1. d \in Variants(d, Good(d, t), Starts(d)) /\ Sane(d)
  BY DEF Sound, Typed
<1>2. /\ e.size = d.size /\ e.chunks = d.chunks /\ e.finished = d.finished /\ e.done = done
      /\ e.status = d.status /\ e.tstatus = tstatus /\ e.put = d.put
      /\ e.findTried = d.findTried /\ e.initialized = d.initialized /\ e.file = d.file
      /\ e.sizeDefined = d.sizeDefined /\ e.temp = d.temp /\ e.tempOff = d.tempOff
      /\ e.blocked = d.blocked /\ e.stat = stat /\ e.removing = d.removing /\ e.max = d.max
      /\ e.downloaded = d.downloaded /\ e.src = d.src /\ e.started = d.started
      /\ e.unused = d.unused
  BY ONLY <1>1, e = Noted(d, stat, tstatus, done) DEF Variants, Noted
<1>3. Typed(e, Good(d, t), Starts(d))
  BY ONLY <1>1, e = Noted(d, stat, tstatus, done) DEF Variants, Noted, Typed
<1>4. Present(e) = Present(d)
  BY <1>2 DEF Present, Pending
<1>5. Good(d, t) \subseteq Good(e, t) /\ Starts(d) \subseteq Starts(e)
  <2>1. d.tstatus = "Stopped" \/ e.tstatus # "Stopped"
    BY <1>2
  <2>2. d.findTried => e.findTried
    BY <1>2
  <2>3. d.size = 0 \/ d.status = "Finished" => e.size = 0 \/ e.status = "Finished"
    BY <1>2
  <2>4. d.initialized => e.initialized
    BY <1>2
  <2>5. t = {} => Present(d) \subseteq Present(e)
    BY <1>4
  <2> QED
    BY ONLY <2>1, <2>2, <2>3, <2>4, <2>5, GoodGrows
<1>6. Sane(e)
  BY <1>1, <1>2 DEF Sane
<1>7. ASSUME t = {} PROVE FileFits(e)
  <2>1. FileFits(d)
    BY <1>7 DEF Sound
  <2>2. Whole(e) = Whole(d)
    BY <1>2 DEF Whole
  <2>3. (stat => d.stat) /\ (done => d.done) /\ (tstatus = "Finished" => d.tstatus = "Finished" \/ d.stat)
    OBVIOUS
  <2> QED
    BY ONLY <1>2, <1>4, <2>1, <2>2, <2>3 DEF FileFits
<1> QED
  BY <1>2, <1>3, <1>5, <1>6, <1>7, FieldsSound

LEMMA SlotStatResultStep ==
  ASSUME IInv, SlotStatResult
  PROVE  IInv'
<1>1. PICK done : done = dl.done
  OBVIOUS
<1>2. PICK e : e = Noted(dl, FALSE, "Finished", done)
  OBVIOUS
<1>3. dl \in Variants(dl, Good(dl, tainted), Starts(dl)) /\ Sound(dl, tainted)
  BY DEF IInv, Sound, Typed
<1>4. e = [dl EXCEPT !.stat = FALSE, !.tstatus = "Finished"]
  BY ONLY <1>1, <1>2, <1>3 DEF Variants, Noted
<1>5. dl.stat /\ Becomes(e)
  BY <1>4 DEF SlotStatResult
<1>6. Sound(e, tainted)
  BY <1>1, <1>2, <1>3, <1>5, NotedSound
<1> QED
  BY <1>5, <1>6, BecomesSound

LEMMA FlagSound ==
  ASSUME NEW d, NEW t, Sound(d, t), NEW c, NEW e,
         \/ e = [d EXCEPT !.doDownload = c] \/ e = [d EXCEPT !.verified = c]
         \/ e = [d EXCEPT !.repairing = c] \/ e = [d EXCEPT !.source = c]
  PROVE  Sound(e, t)
<1>1. d \in Variants(d, Good(d, t), Starts(d))
  BY DEF Sound, Typed
<1>2. PICK s, b, v, r, x : /\ s = d.startTried /\ b = d.doDownload /\ v = d.verified
                          /\ r = d.repairing /\ x = d.source
  OBVIOUS
<1>3. CASE e = [d EXCEPT !.doDownload = c]
  <2>1. e = Flagged(d, s, c, v, r, x)
    BY ONLY <1>1, <1>2, <1>3 DEF Variants, Flagged
  <2> QED
    BY <2>1, FlaggedSound
<1>4. CASE e = [d EXCEPT !.verified = c]
  <2>1. e = Flagged(d, s, b, c, r, x)
    BY ONLY <1>1, <1>2, <1>4 DEF Variants, Flagged
  <2> QED
    BY <2>1, FlaggedSound
<1>5. CASE e = [d EXCEPT !.repairing = c]
  <2>1. e = Flagged(d, s, b, v, c, x)
    BY ONLY <1>1, <1>2, <1>5 DEF Variants, Flagged
  <2> QED
    BY <2>1, FlaggedSound
<1>6. CASE e = [d EXCEPT !.source = c]
  <2>1. e = Flagged(d, s, b, v, r, c)
    BY ONLY <1>1, <1>2, <1>6 DEF Variants, Flagged
  <2> QED
    BY <2>1, FlaggedSound
<1> QED
  BY <1>3, <1>4, <1>5, <1>6

LEMMA VerifiedStep ==
  ASSUME IInv, Verified
  PROVE  IInv'
<1>1. PICK c : c = IF \A u \in Units : dl.file[u] = "right" THEN "yes" ELSE "broken"
  OBVIOUS
<1>2. PICK e : e = [dl EXCEPT !.verified = c]
  OBVIOUS
<1>3. Sound(e, tainted)
  BY <1>2, FlagSound DEF IInv
<1>4. Becomes(e)
  BY <1>1, <1>2 DEF Verified
<1> QED
  BY <1>3, <1>4, BecomesSound

LEMMA RepairStep ==
  ASSUME IInv, Repair
  PROVE  IInv'
<1>1. PICK stat, tstatus : stat = dl.stat /\ tstatus = dl.tstatus
  OBVIOUS
<1>2. PICK d : d = Noted(dl, stat, tstatus, FALSE)
  OBVIOUS
<1>3. Sound(d, tainted)
  BY <1>1, <1>2, NotedSound DEF IInv
<1>4. PICK e : e = [d EXCEPT !.repairing = TRUE]
  OBVIOUS
<1>5. Sound(e, tainted)
  BY <1>3, <1>4, FlagSound
<1>6. dl \in Variants(dl, Good(dl, tainted), Starts(dl))
  BY DEF IInv, Sound, Typed
<1>7. e = [dl EXCEPT !.done = FALSE, !.repairing = TRUE]
  BY ONLY <1>1, <1>2, <1>4, <1>6 DEF Variants, Noted
<1>8. Becomes(e)
  BY <1>7 DEF Repair, Command
<1> QED
  BY <1>5, <1>8, BecomesSound

LEMMA StartCommandStep ==
  ASSUME IInv, NEW c, StartTransferCommand(c)
  PROVE  IInv'
<1>1. PICK e : e = Start(dl, c)
  OBVIOUS
<1>2. Sound(e, tainted)
  BY <1>1, StartSound DEF IInv
<1>3. Becomes(e)
  BY <1>1 DEF StartTransferCommand, Command
<1> QED
  BY <1>2, <1>3, BecomesSound

LEMMA StopCommandStep ==
  ASSUME IInv, StopTransferCommand
  PROVE  IInv'
<1>1. PICK e : e = Stop(dl)
  OBVIOUS
<1>2. Sound(e, tainted) /\ Sound(dl, tainted)
  BY <1>1, StopSound DEF IInv
<1>3. Becomes(e) \/ Becomes(dl)
  BY <1>1 DEF StopTransferCommand, Command
<1> QED
  BY <1>2, <1>3, BecomesSound

LEMMA SetMirrorsStep ==
  ASSUME IInv, NEW new \in MirrorChoices, SetAvailableMirrors(new)
  PROVE  IInv'
<1>1. PICK d : d = SetMirrors(dl, new)
  OBVIOUS
<1>2. PICK G, started : G = Good(dl, tainted) /\ started = Starts(dl)
  OBVIOUS
<1>3. /\ MayStart(dl, started) /\ dl.sizeDefined \in BOOLEAN /\ Parted(dl)
      /\ Typed(dl, G, started) /\ Closed(G, started) /\ Sound(dl, tainted)
  BY <1>2, SoundMayStart DEF IInv
<1>4. d \in Variants(dl, G, started) /\ Parted(d) /\ Known(d)
  BY <1>1, <1>3, SetMirrorsKeeps
<1>5. Sound(d, tainted)
  BY <1>2, <1>3, <1>4, VariantSound
<1>6. PICK c : c = LET usedNew == SetToSeq({m \in DOMAIN new : new[m][1]})
                   IN  IF usedNew = <<>> THEN "none" ELSE Head(usedNew)
  OBVIOUS
<1>7. PICK e : e = [d EXCEPT !.source = c]
  OBVIOUS
<1>8. Sound(e, tainted)
  BY <1>5, <1>7, FlagSound
<1>9. Becomes(e)
  BY <1>1, <1>6, <1>7 DEF SetAvailableMirrors, Command
<1> QED
  BY <1>8, <1>9, BecomesSound

LEMMA SearchStep ==
  ASSUME IInv, NEW m \in Mirrors, SlotSearchUrls(m)
  PROVE  IInv'
<1>1. PICK conns \in Nat : conns = Max(Connections)
  BY MostConnections
<1>2. PICK e : e = AddMirror(dl, m, TRUE, conns, FALSE)
  OBVIOUS
<1>3. PICK G, started : G = Good(dl, tainted) /\ started = Starts(dl)
  OBVIOUS
<1>4. /\ MayStart(dl, started) /\ dl.sizeDefined \in BOOLEAN /\ Parted(dl)
      /\ Typed(dl, G, started) /\ Closed(G, started) /\ Sound(dl, tainted)
  BY <1>3, SoundMayStart DEF IInv
<1>5. e \in Variants(dl, G, started) /\ Parted(e) /\ Known(e)
  BY <1>2, <1>4, AddMirrorKeeps
<1>6. Sound(e, tainted)
  BY <1>3, <1>4, <1>5, VariantSound
<1>7. Becomes(e)
  BY <1>1, <1>2 DEF SlotSearchUrls, Command
<1> QED
  BY <1>6, <1>7, BecomesSound

LEMMA SetDoDownloadStep ==
  ASSUME IInv, NEW b, SetDoDownload(b)
  PROVE  IInv'
<1>1. PICK d : d = [dl EXCEPT !.doDownload = b]
  OBVIOUS
<1>2. Sound(d, tainted)
  BY <1>1, FlagSound DEF IInv
<1>3. PICK e, f : e = StartIfTried(d) /\ f = Stop(d)
  OBVIOUS
<1>4. Sound(e, tainted) /\ Sound(f, tainted)
  BY <1>2, <1>3, StartIfTriedSound, StopSound
<1>5. Becomes(e) \/ Becomes(f) \/ Becomes(d)
  BY <1>1, <1>3 DEF SetDoDownload, Command
<1> QED
  BY <1>2, <1>4, <1>5, BecomesSound

LEMMA SchedulerStartsStep ==
  ASSUME IInv, SchedulerStarts
  PROVE  IInv'
<1>1. PICK e : e = Start(dl, TRUE)
  OBVIOUS
<1>2. Sound(e, tainted)
  BY <1>1, StartSound DEF IInv
<1>3. Becomes(e)
  BY <1>1 DEF SchedulerStarts
<1> QED
  BY <1>2, <1>3, BecomesSound

LEMMA SchedulerRestartsStep ==
  ASSUME IInv, SchedulerRestarts
  PROVE  IInv'
<1>1. PICK d : d = Stop(dl)
  OBVIOUS
<1>2. PICK e : e = Start(d, TRUE)
  OBVIOUS
<1>3. Sound(d, tainted)
  BY <1>1, StopSound DEF IInv
<1>4. Sound(e, tainted)
  BY <1>2, <1>3, StartSound
<1>5. Becomes(e)
  BY <1>1, <1>2 DEF SchedulerRestarts
<1> QED
  BY <1>4, <1>5, BecomesSound

-----------------------------------------------------------------------------
(* The job that writes the file.                                           *)

LEMMA PutOpenStep ==
  ASSUME IInv, PutOpen
  PROVE  IInv'
<1>1. dl \in Variants(dl, Good(dl, tainted), Starts(dl)) /\ Sane(dl) /\ Sound(dl, tainted)
  BY DEF IInv, Sound, Typed
<1>2. dl.put \in {"opening", "reopening"} /\ Becomes(StartIfTried(InitChunks([dl EXCEPT !.put = "open"])))
  BY DEF PutOpen
<1>3. dl.status # "Finished"
  BY <1>1, <1>2 DEF Sane
<1>4. tainted = {} => dl.initialized
  BY <1>1, <1>2 DEF Sound, FileFits
<1>5. PICK p, b : p = "open" /\ b = dl.startTried
  OBVIOUS
<1>6. PICK d : d = WithPut(dl, p, b)
  OBVIOUS
<1>7. p = "open" \/ dl.put # "open"
  BY <1>5
<1>8. Sound(d, tainted) /\ d.status = dl.status
  BY ONLY <1>1, <1>3, <1>4, <1>6, <1>7, WithPutSound
<1>9. d = [dl EXCEPT !.put = "open"]
  BY ONLY <1>1, <1>5, <1>6 DEF Variants, WithPut
<1>10. PICK e : e = InitChunks(d)
  OBVIOUS
<1>11. Sound(e, tainted)
  BY <1>3, <1>8, <1>10, InitChunksSound
<1>12. PICK f : f = StartIfTried(e)
  OBVIOUS
<1>13. Sound(f, tainted)
  BY <1>11, <1>12, StartIfTriedSound
<1>14. Becomes(f)
  BY <1>2, <1>9, <1>10, <1>12
<1> QED
  BY <1>13, <1>14, BecomesSound

LEMMA PutFailsStep ==
  ASSUME IInv, PutFails
  PROVE  IInv'
<1>13. PICK p \in {"none", "lost"} : p = IF dl.put = "opening" THEN "none" ELSE "lost"
  OBVIOUS
<1>1. PICK e : e = [dl EXCEPT !.put = p, !.temp = <<>>]
  OBVIOUS
<1>14. dl \in Variants(dl, Good(dl, tainted), Starts(dl))
  BY DEF IInv, Sound, Typed
<1>15. e = [dl EXCEPT !.put = IF @ = "opening" THEN "none" ELSE "lost", !.temp = <<>>]
  BY ONLY <1>1, <1>13, <1>14 DEF Variants
<1>2. dl' = e /\ tainted' = tainted \cup {"write failed"}
  BY <1>15 DEF PutFails
<1>3. PICK t : t = tainted'
  OBVIOUS
<1>4. tainted \subseteq t /\ t # {}
  BY <1>2, <1>3
<1>5. Sound(dl, t)
  BY <1>4, SoundGrows DEF IInv
<1>6. dl \in Variants(dl, Good(dl, t), Starts(dl)) /\ Sane(dl)
  BY <1>5 DEF Sound, Typed
<1>7. /\ e.size = dl.size /\ e.chunks = dl.chunks /\ e.finished = dl.finished
      /\ e.status = dl.status /\ e.tstatus = dl.tstatus /\ e.put = p
      /\ e.findTried = dl.findTried /\ e.initialized = dl.initialized
      /\ e.sizeDefined = dl.sizeDefined /\ e.temp = <<>> /\ e.tempOff = dl.tempOff
      /\ e.max = dl.max /\ e.downloaded = dl.downloaded /\ e.src = dl.src
      /\ e.started = dl.started /\ e.unused = dl.unused
  BY ONLY <1>1, <1>6 DEF Variants
<1>8. Typed(e, Good(dl, t), Starts(dl))
  BY ONLY <1>1, <1>6 DEF Variants, Typed
<1>9. Good(dl, t) \subseteq Good(e, t) /\ Starts(dl) \subseteq Starts(e)
  BY <1>4, <1>7, GoodGrows
<1>10. Sane(e)
  BY <1>6, <1>7, OwnOfNone DEF Sane
<1>11. Sound(e, t)
  BY <1>4, <1>5, <1>7, <1>8, <1>9, <1>10, FieldsSound
<1>12. Sound(dl', tainted')
  BY <1>2, <1>3, <1>11
<1> QED
  BY <1>3, <1>4, <1>12 DEF IInv, Sound

\* The old file is gone.
Cleared(d) == [d EXCEPT !.removing = FALSE, !.file = NoFile, !.startTried = FALSE]

LEMMA ClearedSound ==
  ASSUME NEW d, NEW t, Sound(d, t), d.removing, NEW e, e = Cleared(d)
  PROVE  Sound(e, t)
<1>1. d \in Variants(d, Good(d, t), Starts(d)) /\ Sane(d)
  BY DEF Sound, Typed
<1>2. PICK file : file = NoFile
  OBVIOUS
<1>3. e = [d EXCEPT !.removing = FALSE, !.file = file, !.startTried = FALSE]
  BY <1>2 DEF Cleared
<1>4. /\ e.size = d.size /\ e.chunks = d.chunks /\ e.finished = d.finished /\ e.done = d.done
      /\ e.status = d.status /\ e.tstatus = d.tstatus /\ e.put = d.put /\ e.started = d.started
      /\ e.findTried = d.findTried /\ e.initialized = d.initialized /\ e.file = file
      /\ e.sizeDefined = d.sizeDefined /\ e.src = d.src /\ e.unused = d.unused
      /\ e.temp = d.temp /\ e.tempOff = d.tempOff /\ e.blocked = d.blocked
      /\ e.stat = d.stat /\ ~e.removing /\ e.max = d.max
      /\ e.downloaded = d.downloaded
  BY ONLY <1>1, <1>3 DEF Variants
<1>5. Typed(e, Good(d, t), Starts(d))
  BY ONLY <1>1, <1>3 DEF Variants, Typed
<1>6. t = {} => FileFits(d) /\ ~d.initialized
  BY DEF Sound, FileFits
<1>7. ASSUME t = {}, NEW s \in Segments, DataFits(s, d) PROVE DataFits(s, e)
  <2>1. \A u \in Units : ~(SegSize * s.cur <= u /\ u < s.off)
    <3> SUFFICES ASSUME NEW u \in Units, SegSize * s.cur <= u, u < s.off PROVE FALSE
      OBVIOUS
    <3>1. s.off <= SegSize * s.cur
      BY <1>6, <1>7 DEF DataFits
    <3>2. s.cur \in Int
      <4>1. PICK c \in Chunks : c = s.cur
        BY <1>7 DEF Segments
      <4>2. c \in Int
        BY <4>1, ChunksAre
      <4> QED
        BY <4>1, <4>2
    <3>3. PICK a \in Int : a = SegSize * s.cur
      BY <3>2, TimesIsInt
    <3>4. PICK b \in Int : b = s.off
      BY <1>7 DEF Segments
    <3>5. u \in Int
      BY SizesAreNat DEF Units
    <3> QED
      BY <3>1, <3>3, <3>4, <3>5
  <2> QED
    BY <1>4, <1>7, <2>1 DEF DataFits
<1>8. Good(d, t) \subseteq Good(e, t) /\ Starts(d) \subseteq Starts(e)
  <2> SUFFICES ASSUME NEW s \in Good(d, t) PROVE s \in Good(e, t)
    BY <1>4 DEF Starts
  <2>1. s \in Fitting /\ s \in Segments
    BY DEF Good, Fitting
  <2>2. t = {} => DataFits(s, e)
    BY <1>7, <2>1 DEF Good
  <2> QED
    BY <1>4, <2>1, <2>2 DEF Good
<1>9. Sane(e)
  BY <1>1, <1>4 DEF Sane
<1>10. ASSUME t = {} PROVE FileFits(e)
  <2>1. \A u \in Units : e.file[u] \in Contents /\ e.file[u] # "old"
    BY <1>2, <1>4 DEF NoFile, Contents
  <2>2. /\ d.put = "none" /\ d.finished = {} /\ ~d.done
        /\ "Finished" \notin {d.status, d.tstatus} /\ ~d.stat
        /\ (d.blocked <=> d.temp # <<>>) /\ (d.temp # <<>> => d.put = "open")
    BY <1>6, <1>10 DEF FileFits
  <2>3. \A k \in DOMAIN e.temp : e.temp[k] \in {e.tempOff + k - 1, Corrupt}
    BY <1>4, <1>6, <1>10 DEF FileFits
  <2> QED
    BY ONLY <1>4, <2>1, <2>2, <2>3 DEF FileFits
<1> QED
  BY <1>4, <1>5, <1>8, <1>9, <1>10, FieldsSound

LEMMA FileRemovedStep ==
  ASSUME IInv, FileRemoved
  PROVE  IInv'
<1>1. PICK d : d = Cleared(dl)
  OBVIOUS
<1>2. dl.removing
  BY DEF FileRemoved
<1>3. Sound(d, tainted)
  BY <1>1, <1>2, ClearedSound DEF IInv
<1>4. PICK e : e = Start(d, TRUE)
  OBVIOUS
<1>5. Sound(e, tainted)
  BY <1>3, <1>4, StartSound
<1>6. Becomes(e) \/ Becomes(d)
  BY <1>1, <1>4 DEF FileRemoved, Cleared
<1> QED
  BY <1>3, <1>5, <1>6, BecomesSound

\* What is on its way is in the file, and the bytes are counted.
Kept(d, file, n) ==
  [d EXCEPT !.file = file, !.downloaded = n, !.blocked = FALSE, !.temp = <<>>, !.tempOff = 0]

WithContents(d, file) == [d EXCEPT !.file = file]

\* The file holds what was on its way, where it belongs.
StoredAs(d, t, file) ==
  /\ \A u \in Units : u \notin Pending(d) => file[u] = d.file[u]
  /\ t = {} => \A u \in Units : u \in Pending(d) => file[u] \in {"right", "corrupt"}

LEMMA StoreIs ==
  ASSUME NEW d, NEW t, Sound(d, t)
  PROVE  \E file : Store(d) = WithContents(d, file) /\ StoredAs(d, t, file)
<1>1. PICK file : file = [u \in Units |->
     IF u \notin d.tempOff .. d.tempOff + Len(d.temp) - 1 THEN d.file[u]
     ELSE CASE d.temp[u - d.tempOff + 1] = u       -> "right"
            [] d.temp[u - d.tempOff + 1] = Corrupt -> "corrupt"
            [] OTHER                               -> "misplaced"]
  OBVIOUS
<1>2. Store(d) = WithContents(d, file)
  <2>1. d \in Variants(d, Good(d, t), Starts(d))
    BY DEF Sound, Typed
  <2> QED
    BY <1>1 DEF Store, WithContents
<1>3. \A u \in Units : u \notin Pending(d) => file[u] = d.file[u]
  BY <1>1 DEF Pending
<1>4. ASSUME t = {}, NEW u \in Units, u \in Pending(d) PROVE file[u] \in {"right", "corrupt"}
  <2>1. PICK temp \in Seq(Int), off \in Nat : temp = d.temp /\ off = d.tempOff
    BY DEF Sound, Sane
  <2>2. PICK l \in Nat : l = Len(temp)
    BY <2>1
  <2>3. u \in off .. off + l - 1
    BY <1>4, <2>1, <2>2 DEF Pending
  <2>4. PICK k \in Int : k = u - off + 1
    BY <2>1, <2>3
  <2>5. k \in 1 .. l /\ k \in DOMAIN temp /\ off + k - 1 = u
    <3>1. DOMAIN temp = 1 .. l
      BY <2>1, <2>2
    <3>2. PICK v \in Int : v = u
      BY <2>3
    <3>3. off <= v /\ v <= off + l - 1
      BY <2>1, <2>2, <2>3, <3>2
    <3>4. 1 <= k /\ k <= l /\ off + k - 1 = v
      BY <2>4, <3>2, <3>3
    <3> QED
      BY <2>4, <3>1, <3>2, <3>4
  <2>6. temp[k] \in {off + k - 1, Corrupt}
    BY <1>4, <2>1, <2>5 DEF Sound, FileFits
  <2>7. temp[k] = u \/ temp[k] = Corrupt
    BY <2>5, <2>6
  <2>8. file[u] = CASE temp[k] = u       -> "right"
                    [] temp[k] = Corrupt -> "corrupt"
                    [] OTHER             -> "misplaced"
    BY <1>1, <2>1, <2>2, <2>3, <2>4
  <2>9. u # Corrupt
    BY SizesAreNat DEF Units, Corrupt
  <2>10. CASE temp[k] = u
    BY <2>8, <2>9, <2>10
  <2>11. CASE temp[k] # u
    BY <2>7, <2>8, <2>11
  <2> QED
    BY <2>10, <2>11
<1> QED
  BY <1>2, <1>3, <1>4 DEF StoredAs

LEMMA KeptSound ==
  ASSUME NEW d, NEW t, Sound(d, t), d.temp # <<>>, NEW n \in Nat, NEW file,
         StoredAs(d, t, file), NEW e, e = Kept(d, file, n)
  PROVE  /\ Sound(e, t) /\ e.temp = <<>> /\ (t = {} => e.initialized /\ (d.done => Whole(e)))
<1>1. d \in Variants(d, Good(d, t), Starts(d)) /\ Sane(d)
  BY DEF Sound, Typed
<1>2. /\ e.size = d.size /\ e.chunks = d.chunks /\ e.finished = d.finished /\ e.done = d.done
      /\ e.status = d.status /\ e.tstatus = d.tstatus /\ e.put = d.put /\ e.started = d.started
      /\ e.findTried = d.findTried /\ e.initialized = d.initialized /\ e.file = file
      /\ e.sizeDefined = d.sizeDefined /\ e.src = d.src /\ e.unused = d.unused
      /\ e.temp = <<>> /\ e.tempOff = 0 /\ e.blocked = FALSE
      /\ e.stat = d.stat /\ e.removing = d.removing /\ e.max = d.max
      /\ e.downloaded = n
  BY ONLY <1>1, e = Kept(d, file, n) DEF Variants, Kept
<1>3. Typed(e, Good(d, t), Starts(d))
  BY ONLY <1>1, e = Kept(d, file, n) DEF Variants, Kept, Typed
<1>4. t = {} => FileFits(d) /\ d.put = "open" /\ d.initialized /\ ~d.removing
  BY DEF Sound, FileFits
<1>5. ASSUME t = {}, NEW u \in Units
      PROVE  /\ u \in Present(d) => file[u] \notin {"none", "absent"}
             /\ file[u] \in Contents /\ file[u] # "old"
             /\ u \in Present(d) => file[u] \in {"right", "corrupt"}
             /\ d.file[u] \in {"right", "corrupt"} => file[u] \in {"right", "corrupt"}
  <2>1. d.file[u] \in Contents /\ d.file[u] # "old"
    BY <1>4, <1>5 DEF FileFits
  <2>2. CASE u \in Pending(d)
    BY <1>5, <2>2 DEF Contents, StoredAs
  <2>3. CASE u \notin Pending(d)
    BY <1>5, <2>1, <2>3 DEF Present, Contents, StoredAs
  <2> QED
    BY <2>2, <2>3
<1>6. t = {} => Present(d) \subseteq Present(e)
  BY <1>2, <1>5 DEF Present
<1>7. Good(d, t) \subseteq Good(e, t) /\ Starts(d) \subseteq Starts(e)
  BY ZenonT(30), <1>2, <1>6, GoodGrows
<1>8. Sane(e)
  BY <1>1, <1>2, OwnOfNone DEF Sane
<1>9. ASSUME t = {} PROVE FileFits(e)
  <2>1. FileFits(d) /\ Present(d) \subseteq Present(e)
    BY <1>4, <1>6, <1>9
  <2>2. Whole(d) => Whole(e)
    BY <1>2, <1>5, <1>9 DEF Whole
  <2>3. \A u \in Units : e.file[u] \in Contents /\ e.file[u] # "old"
    BY <1>2, <1>5, <1>9
  <2>4. ~e.removing /\ e.initialized /\ DOMAIN e.temp = {}
    BY <1>2, <1>4, <1>9
  <2> QED
    BY ONLY <1>2, <2>1, <2>2, <2>3, <2>4 DEF FileFits
<1>10. Sound(e, t)
  BY <1>2, <1>3, <1>7, <1>8, <1>9, FieldsSound
<1>11. t = {} /\ d.done => Whole(e)
  <2> SUFFICES ASSUME t = {}, d.done, NEW u \in Units PROVE file[u] \in {"right", "corrupt"}
    BY <1>2 DEF Whole
  <2>1. u \in Present(d)
    BY <1>4 DEF FileFits
  <2> QED
    BY <1>5, <2>1
<1> QED
  BY <1>2, <1>4, <1>10, <1>11

\* The download finishes.
Completed(d, size, n, found, stat, tstatus) ==
  [d EXCEPT !.put = "none", !.status = "Finished", !.downloaded = n, !.size = size,
            !.foundOnFinish = found, !.verified = "running", !.stat = stat, !.tstatus = tstatus]

LEMMA CompletedSound ==
  ASSUME NEW d, NEW t, Sound(d, t), d.temp = <<>>, t = {} => d.initialized /\ Whole(d),
         NEW size \in Nat, d.size # 0 => size = d.size, NEW n \in Nat, NEW found, NEW stat,
         NEW tstatus, tstatus \in {d.tstatus, "Finished"},
         NEW e, e = Completed(d, size, n, found, stat, tstatus)
  PROVE  Sound(e, t)
<1>1. d \in Variants(d, Good(d, t), Starts(d)) /\ Sane(d)
  BY DEF Sound, Typed
<1>2. /\ e.size = size /\ e.chunks = d.chunks /\ e.finished = d.finished /\ e.done = d.done
      /\ e.status = "Finished" /\ e.tstatus = tstatus /\ e.put = "none" /\ e.started = d.started
      /\ e.findTried = d.findTried /\ e.initialized = d.initialized /\ e.file = d.file
      /\ e.sizeDefined = d.sizeDefined /\ e.src = d.src /\ e.unused = d.unused
      /\ e.temp = d.temp /\ e.tempOff = d.tempOff /\ e.blocked = d.blocked
      /\ e.stat = stat /\ e.removing = d.removing /\ e.max = d.max
      /\ e.downloaded = n
  BY ONLY <1>1, e = Completed(d, size, n, found, stat, tstatus) DEF Variants, Completed
<1>3. Typed(e, Good(d, t), Starts(d))
  BY ONLY <1>1, e = Completed(d, size, n, found, stat, tstatus) DEF Variants, Completed, Typed
<1>4. Present(e) = Present(d)
  BY <1>2 DEF Present, Pending
<1>5. Good(d, t) \subseteq Good(e, t) /\ Starts(d) \subseteq Starts(e)
  <2>1. d.tstatus = "Stopped" \/ e.tstatus # "Stopped"
    BY <1>2
  <2>2. d.size = 0 \/ d.status = "Finished" => e.size = 0 \/ e.status = "Finished"
    BY <1>2
  <2>3. (d.findTried => e.findTried) /\ (d.initialized => e.initialized)
        /\ (t = {} => Present(d) \subseteq Present(e))
    BY <1>2, <1>4
  <2> QED
    BY ONLY <2>1, <2>2, <2>3, GoodGrows
<1>6. Sane(e)
  BY <1>1, <1>2 DEF Sane
<1>7. ASSUME t = {} PROVE FileFits(e)
  <2>1. FileFits(d)
    BY <1>7 DEF Sound
  <2>2. Whole(e) /\ e.initialized
    BY <1>2, <1>7 DEF Whole
  <2> QED
    BY ONLY <1>2, <1>4, <2>1, <2>2, d.temp = <<>> DEF FileFits
<1> QED
  BY <1>2, <1>3, <1>5, <1>6, <1>7, FieldsSound

\* Its status, as far as ChangeStatus changes it.
Over(d, size, n, found, stat, tstatus) ==
  [d EXCEPT !.status = "Finished", !.downloaded = n, !.size = size, !.foundOnFinish = found,
            !.verified = "running", !.stat = stat, !.tstatus = tstatus]

LEMMA CompletedIs ==
  ASSUME NEW d, NEW G, NEW started, Typed(d, G, started), Sane(d)
  PROVE  \E size \in Nat, n \in Nat : \E found, stat, tstatus :
           /\ d.size # 0 => size = d.size
           /\ tstatus \in {d.tstatus, "Finished"}
           /\ ChangeStatus(d, "Finished") = Over(d, size, n, found, stat, tstatus)
<1>1. d \in Variants(d, G, started) /\ d.size \in Nat /\ d.downloaded \in Nat
  BY DEF Typed, Sane
<1>2. PICK n \in Nat, size \in Nat :
        /\ n = IF d.size # 0 THEN d.size ELSE d.downloaded
        /\ size = IF d.size # 0 THEN d.size ELSE d.downloaded
  BY <1>1
<1>f. PICK found : found = (d.foundOnFinish \/ (d.size = 0 /\ d.downloaded # 0))
  OBVIOUS
<1>3. PICK f : f = [d EXCEPT !.status = "Finished", !.downloaded = n, !.size = size,
                           !.foundOnFinish = found, !.verified = "running"]
  OBVIOUS
<1>4. ChangeStatus(d, "Finished") = SlotDataSourceFactoryChange(f, "Finished")
  BY <1>2, <1>f, <1>3 DEF ChangeStatus
<1>5. f.ftp = d.ftp
  BY ONLY <1>1, <1>3 DEF Variants
<1>6. PICK stat, tstatus : /\ stat = IF d.ftp THEN TRUE ELSE d.stat
                          /\ tstatus = IF d.ftp THEN d.tstatus ELSE "Finished"
  OBVIOUS
<1>7. PICK g : g = Over(d, size, n, found, stat, tstatus)
  OBVIOUS
<1>8. CASE d.ftp
  <2>1. ChangeStatus(d, "Finished") = [f EXCEPT !.stat = TRUE]
    BY <1>4, <1>5, <1>8 DEF SlotDataSourceFactoryChange
  <2>2. stat = TRUE /\ tstatus = d.tstatus
    BY <1>6, <1>8
  <2>3. g = [f EXCEPT !.stat = TRUE]
    BY ONLY <1>1, <1>3, <1>7, <2>2 DEF Variants, Over
  <2>4. ChangeStatus(d, "Finished") = Over(d, size, n, found, stat, tstatus)
    BY <1>7, <2>1, <2>3
  <2>5. (d.size # 0 => size = d.size) /\ tstatus \in {d.tstatus, "Finished"}
    BY <1>2, <2>2
  <2>6. size \in Nat /\ n \in Nat
    OBVIOUS
  <2> QED
    BY ONLY <2>4, <2>5, <2>6
<1>9. CASE ~d.ftp
  <2>1. ChangeStatus(d, "Finished") = [f EXCEPT !.tstatus = "Finished"]
    BY <1>4, <1>5, <1>9 DEF SlotDataSourceFactoryChange
  <2>2. stat = d.stat /\ tstatus = "Finished"
    BY <1>6, <1>9
  <2>3. g = [f EXCEPT !.tstatus = "Finished"]
    BY ONLY <1>1, <1>3, <1>7, <2>2 DEF Variants, Over
  <2>4. ChangeStatus(d, "Finished") = Over(d, size, n, found, stat, tstatus)
    BY <1>7, <2>1, <2>3
  <2>5. (d.size # 0 => size = d.size) /\ tstatus \in {d.tstatus, "Finished"}
    BY <1>2, <2>2
  <2>6. size \in Nat /\ n \in Nat
    OBVIOUS
  <2> QED
    BY ONLY <2>4, <2>5, <2>6
<1> QED
  BY <1>8, <1>9

LEMMA PutWrittenStep ==
  ASSUME IInv, PutWritten
  PROVE  IInv'
<1>1. PICK G, started : G = Good(dl, tainted) /\ started = Starts(dl)
  OBVIOUS
<1>2. dl \in Variants(dl, G, started) /\ Sane(dl) /\ Sound(dl, tainted) /\ dl.temp # <<>>
  BY <1>1 DEF IInv, Sound, Typed, PutWritten
<1>3. PICK file : Store(dl) = WithContents(dl, file) /\ StoredAs(dl, tainted, file)
  BY <1>2, StoreIs
<1>4. PICK a : a = Store(dl)
  OBVIOUS
<1>5. a.downloaded = dl.downloaded
  BY ONLY <1>2, <1>3, <1>4 DEF Variants, WithContents
<1>6. PICK n \in Nat : n = Counted(a.downloaded + Len(dl.temp))
  <2>1. PICK l \in Nat, b \in Nat, z \in Nat : l = Len(dl.temp) /\ b = a.downloaded /\ z = Size
    BY <1>2, <1>5, SizesAreNat DEF Sane
  <2>2. Counted(b + l) \in Nat
    BY <2>1 DEF Counted
  <2> QED
    BY <2>1, <2>2
<1>7. PICK d : d = [a EXCEPT !.downloaded = n]
  OBVIOUS
<1>8. PICK e : e = Kept(dl, file, n)
  OBVIOUS
<1>9. Sound(e, tainted) /\ e.temp = <<>> /\ (tainted = {} => e.initialized /\ (dl.done => Whole(e)))
  <2>1. Sound(dl, tainted) /\ dl.temp # <<>> /\ n \in Nat
    BY <1>2
  <2>2. StoredAs(dl, tainted, file)
    BY <1>3
  <2> QED
    BY ONLY <1>8, <2>1, <2>2, KeptSound
<1>10. d = [Store(dl) EXCEPT !.downloaded = Counted(@ + Len(dl.temp))]
  BY <1>4, <1>6, <1>7
<1>11. CASE ~dl.done
  <2>1. Becomes([d EXCEPT !.blocked = FALSE, !.temp = <<>>, !.tempOff = 0])
    BY <1>10, <1>11 DEF PutWritten
  <2>2. e = [d EXCEPT !.blocked = FALSE, !.temp = <<>>, !.tempOff = 0]
    BY ONLY <1>2, <1>3, <1>4, <1>7, <1>8 DEF Variants, Kept, WithContents
  <2> QED
    BY <1>9, <2>1, <2>2, BecomesSound
<1>12. CASE dl.done
  <2>1. PICK f : f = [d EXCEPT !.put = "none"]
    OBVIOUS
  <2>2. Becomes([ChangeStatus(f, "Finished") EXCEPT !.blocked = FALSE, !.temp = <<>>, !.tempOff = 0])
    BY <1>10, <1>12, <2>1 DEF PutWritten
  <2>3. d = [dl EXCEPT !.file = file, !.downloaded = n]
    BY ONLY <1>2, <1>3, <1>4, <1>7 DEF Variants, WithContents
  <2>4. Typed(f, G, started)
    BY ONLY <1>2, <2>1, <2>3 DEF Typed, Variants
  <2>5. f.size = dl.size /\ f.downloaded = n /\ f.tstatus = dl.tstatus
    BY ONLY <1>2, <2>1, <2>3 DEF Variants
  <2>6. Sane(f)
    <3>1. /\ f.max = dl.max /\ f.sizeDefined = dl.sizeDefined /\ f.temp = dl.temp
          /\ f.tempOff = dl.tempOff /\ f.chunks = dl.chunks /\ f.status = dl.status
          /\ f.put = "none"
      BY ONLY <1>2, <2>1, <2>3 DEF Variants
    <3> QED
      BY <1>2, <2>5, <3>1 DEF Sane
  <2>k. PICK size \in Nat, k \in Nat : \E found, stat, tstatus :
           /\ f.size # 0 => size = f.size
           /\ tstatus \in {f.tstatus, "Finished"}
           /\ ChangeStatus(f, "Finished") = Over(f, size, k, found, stat, tstatus)
    BY <2>4, <2>6, CompletedIs
  <2>7. PICK found, stat, tstatus :
           /\ f.size # 0 => size = f.size
           /\ tstatus \in {f.tstatus, "Finished"}
           /\ ChangeStatus(f, "Finished") = Over(f, size, k, found, stat, tstatus)
    BY <2>k
  <2>8. e.size = dl.size /\ e.tstatus = dl.tstatus
    BY ONLY <1>2, <1>8 DEF Variants, Kept
  <2>9. PICK g : g = Completed(e, size, k, found, stat, tstatus)
    OBVIOUS
  <2>10. tainted = {} => e.initialized /\ Whole(e)
    BY <1>9, <1>12
  <2>11. (e.size # 0 => size = e.size) /\ tstatus \in {e.tstatus, "Finished"}
    BY <2>5, <2>7, <2>8
  <2>12. size \in Nat /\ k \in Nat
    OBVIOUS
  <2>13. Sound(g, tainted)
    BY ONLY <1>9, <2>9, <2>10, <2>11, <2>12, CompletedSound
  <2>14. PICK h : h = ChangeStatus(f, "Finished")
    OBVIOUS
  <2>15. h = Over(f, size, k, found, stat, tstatus)
    BY <2>7, <2>14
  <2>16. g = [h EXCEPT !.blocked = FALSE, !.temp = <<>>, !.tempOff = 0]
    BY ONLY ZenonT(30), <1>2, <1>8, <2>1, <2>3, <2>9, <2>15 DEF Variants, Kept, Completed, Over
  <2>17. Becomes(g)
    BY <2>2, <2>14, <2>16
  <2> QED
    BY <2>13, <2>17, BecomesSound
<1> QED
  BY <1>11, <1>12

-----------------------------------------------------------------------------
(* Repairing.                                                              *)

Forgotten(d, S, F, n) == [d EXCEPT !.started = S, !.finished = F, !.downloaded = n]

\* A repair gives chunks up that segments may be at, so the mirrors are removed.
LEMMA ForgottenIs ==
  ASSUME NEW G, NEW started, Closed(G, started), NEW d, Typed(d, G, started), Parted(d), NEW again
  PROVE  \E S \in SUBSET Chunks, F \in SUBSET Chunks, n \in Nat :
           /\ ForgetBroken(d, again) = Forgotten(d, S, F, n)
           /\ \E gone : S = d.started \ gone /\ F = d.finished \ gone
<1>1. d \in Variants(d, G, started) /\ d.started \subseteq Chunks /\ d.finished \subseteq Chunks
  BY DEF Typed, Parted, Loose
<1>2. CASE ~d.chunks
  <2>1. PICK S \in SUBSET Chunks, F \in SUBSET Chunks, n \in Nat :
          S = d.started /\ F = d.finished /\ n = 0
    BY <1>1
  <2>2. ForgetBroken(d, again) = [d EXCEPT !.downloaded = n]
    BY <1>2, <2>1 DEF ForgetBroken
  <2>3. ForgetBroken(d, again) = Forgotten(d, S, F, n)
    BY ONLY <1>1, <2>1, <2>2 DEF Variants, Forgotten
  <2>4. S = d.started \ {} /\ F = d.finished \ {}
    BY <2>1
  <2> QED
    BY <2>3, <2>4
<1>3. CASE d.chunks
  <2>1. IsFiniteSet(d.finished \ again)
    <3>1. IsFiniteSet(Chunks)
      <4>1. NumChunks - 1 \in Int
        BY NumChunksIsNat
      <4> QED
        BY <4>1, FS_Interval DEF Chunks
    <3> QED
      BY <1>1, <3>1, FS_Subset
  <2>2. PICK c \in Nat : c = Cardinality(d.finished \ again)
    BY <2>1, FS_CardinalityType
  <2>3. PICK n \in Nat : n = SegSize * c
    BY <2>2, Times
  <2>4. PICK S \in SUBSET Chunks, F \in SUBSET Chunks :
          S = d.started \ again /\ F = d.finished \ again
    BY <1>1
  <2>5. ForgetBroken(d, again) = Forgotten(d, S, F, n)
    BY <1>3, <2>2, <2>3, <2>4 DEF ForgetBroken, Forgotten
  <2> QED
    BY <2>4, <2>5
<1> QED
  BY <1>2, <1>3

LEMMA ForgottenTyped ==
  ASSUME NEW d, NEW G, NEW started, Typed(d, G, started),
         NEW S, S \in SUBSET Chunks, NEW F, NEW n, NEW f, f = Forgotten(d, S, F, n),
         NEW a, a = [f EXCEPT !.repairing = FALSE]
  PROVE  Typed(a, G, started)
<1>1. d \in Variants(d, G, started) /\ S \in SUBSET Chunks
  BY DEF Typed
<1>2. f \in Variants(f, G, started)
  <2>1. PICK e : e = [d EXCEPT !.finished = F, !.downloaded = n]
    OBVIOUS
  <2>2. e \in Variants(e, G, started)
    BY ONLY <1>1, <2>1 DEF Variants
  <2>3. f = [e EXCEPT !.started = S]
    BY ONLY <1>1, <2>1, f = Forgotten(d, S, F, n) DEF Variants, Forgotten
  <2> QED
    BY ONLY <1>1, <2>2, <2>3 DEF Variants
<1>3. a \in Variants(a, G, started)
  BY ONLY <1>2, a = [f EXCEPT !.repairing = FALSE] DEF Variants
<1> QED
  BY <1>3 DEF Typed

LEMMA LooseWithout ==
  ASSUME NEW d, Loose(d), NEW e, NEW gone, e.src = d.src, e.chunks = d.chunks,
         e.started = d.started \ gone, e.finished = d.finished \ gone
  PROVE  Loose(e) /\ Used(e) = Used(d)
BY DEF Loose, Used, Owned

LEMMA NobodyParted ==
  ASSUME NEW d, Loose(d), Used(d) = {}
  PROVE  Parted(d)
BY DEF Parted

LEMMA SlotRepairSound ==
  ASSUME NEW d, NEW t, Sound(d, t), NEW pieces, NEW e, e = SlotRepair(d, pieces)
  PROVE  Sound(e, t)
<1>1. PICK again : again = IF pieces = {} THEN Chunks ELSE UNION {RepairRange(p) : p \in pieces}
  OBVIOUS
<1>2. PICK G, started : G = Good(d, t) /\ started = Starts(d)
  OBVIOUS
<1>3. /\ MayStart(d, started) /\ d.sizeDefined \in BOOLEAN /\ Loose(d) /\ Parted(d) /\ Known(d)
      /\ d \in Variants(d, G, started) /\ Typed(d, G, started) /\ Closed(G, started)
  BY <1>2, SoundMayStart
<1>4. PICK S \in SUBSET Chunks, F \in SUBSET Chunks, n \in Nat :
        /\ ForgetBroken(d, again) = Forgotten(d, S, F, n)
        /\ \E gone : S = d.started \ gone /\ F = d.finished \ gone
  BY ZenonT(30), <1>3, ForgottenIs
<1>5. PICK gone : S = d.started \ gone /\ F = d.finished \ gone
  BY <1>4
<1>6. PICK f, a : f = Forgotten(d, S, F, n) /\ a = [f EXCEPT !.repairing = FALSE]
  OBVIOUS
<1>7. /\ a.size = d.size /\ a.chunks = d.chunks /\ a.finished = F /\ a.done = d.done
      /\ a.status = d.status /\ a.tstatus = d.tstatus /\ a.put = d.put
      /\ a.findTried = d.findTried /\ a.initialized = d.initialized /\ a.file = d.file
      /\ a.sizeDefined = d.sizeDefined /\ a.temp = d.temp /\ a.tempOff = d.tempOff
      /\ a.blocked = d.blocked /\ a.stat = d.stat /\ a.removing = d.removing
      /\ a.downloaded = n /\ a.src = d.src /\ a.started = S /\ a.unused = d.unused
      /\ f.src = d.src
  BY ONLY <1>3, <1>6 DEF Variants, Forgotten
<1>8. Typed(a, G, started)
  <2>1. S \in SUBSET Chunks
    BY <1>4
  <2>2. Typed(d, G, started)
    BY <1>3
  <2>3. f = Forgotten(d, S, F, n)
    BY <1>6
  <2>4. a = [f EXCEPT !.repairing = FALSE]
    BY <1>6
  <2> QED
    BY ONLY <2>1, <2>2, <2>3, <2>4, ForgottenTyped
<1>9. Loose(a) /\ Used(a) = Used(d)
  <2>1. a.started = d.started \ gone /\ a.finished = d.finished \ gone
    BY <1>5, <1>7
  <2> QED
    BY ONLY <1>3, <1>7, <2>1, LooseWithout
<1>10. PICK U : U = Used(d)
  OBVIOUS
<1>11. PICK s : s = SetToSeq(U)
  OBVIOUS
<1>12. /\ s \in Seq(U) /\ U \subseteq {s[k] : k \in 1 .. Len(s)}
  <2>1. IsFiniteSet(U)
    BY <1>3, <1>10, SrcsAre DEF Variants, Used
  <2>2. /\ s \in Seq(U) /\ Len(s) = Cardinality(U)
        /\ \A x \in U : \E k \in 1 .. Cardinality(U) : s[k] = x
    BY ONLY <1>11, <2>1, SetToSeqIs
  <2> QED
    BY <2>2
<1>13. PICK b : b = InTurn(RemoveMirror, a, s)
  OBVIOUS
<1>14. /\ b \in Variants(a, G, started) /\ Loose(b)
       /\ Used(b) = Used(a) \ {s[k] : k \in 1 .. Len(s)} /\ (Known(a) => Known(b))
  <2>1. Closed(G, started)
    BY <1>3
  <2>2. s \in Seq(U)
    BY <1>12
  <2>3. Loose(a)
    BY <1>9
  <2> QED
    BY ONLY <1>8, <1>13, <2>1, <2>2, <2>3, RemoveMirrorInTurn
<1>15. Used(b) = {} /\ b.unused # <<>>
  <2>1. Used(b) = {}
    BY <1>9, <1>10, <1>12, <1>14
  <2>2. Known(a)
    BY <1>3, <1>7, <1>9 DEF Known
  <2> QED
    BY <1>14, <2>1, <2>2 DEF Known
<1>16. Parted(b)
  BY <1>14, <1>15, NobodyParted
<1>17. PICK c : c = [b EXCEPT !.status = "Stopped"]
  OBVIOUS
<1>18. /\ c.size = d.size /\ c.status = "Stopped" /\ c.tstatus = d.tstatus
       /\ c.findTried = d.findTried /\ c.initialized = d.initialized /\ c.file = d.file
       /\ c.temp = d.temp /\ c.tempOff = d.tempOff
  BY ONLY <1>7, <1>14, <1>17 DEF Variants
<1>19. PICK H : H = Good(c, t)
  OBVIOUS
<1>20. Closed(H, started)
  <2>1. Starts(c) = started
    BY <1>2, <1>18 DEF Starts
  <2> QED
    BY <1>19, <2>1, GoodClosed
<1>21. Typed(b, H, started)
  <2>1. b.src \in Srcs(H, started)
    <3>1. DOMAIN b.src = {}
      BY <1>15 DEF Used
    <3>2. b.src \in [DOMAIN b.src -> Sources(G, started)]
      BY <1>14, SrcsAre DEF Variants
    <3>3. b.src \in [{} -> Sources(H, started)]
      BY <3>1, <3>2
    <3> QED
      BY <3>3, SrcsFrom
  <2> QED
    BY ONLY <1>14, <2>1 DEF Variants, Typed
<1>22. PICK h : h = AddFirstUnused(b)
  OBVIOUS
<1>23. h \in Variants(b, H, started) /\ Parted(h) /\ Known(h)
  <2>1. b.unused # <<>>
    BY <1>15
  <2>2. b.sizeDefined \in BOOLEAN /\ MayStart(b, started)
    BY <1>3, <1>7, <1>14 DEF Variants, MayStart
  <2> QED
    BY ONLY <1>16, <1>20, <1>21, <1>22, <2>1, <2>2, AddFirstUnusedKeeps
<1>24. PICK k : k = [h EXCEPT !.status = "Stopped"]
  OBVIOUS
<1>25. b \in Variants(a, G, started)
  BY <1>14
<1>26. /\ k.size = d.size /\ k.chunks = d.chunks /\ k.finished = F /\ k.done = d.done
       /\ k.status = "Stopped" /\ k.tstatus = d.tstatus /\ k.put = d.put
       /\ k.findTried = d.findTried /\ k.initialized = d.initialized /\ k.file = d.file
       /\ k.sizeDefined = d.sizeDefined /\ k.temp = d.temp /\ k.tempOff = d.tempOff
       /\ k.blocked = d.blocked /\ k.stat = d.stat /\ k.removing = d.removing
       /\ k.downloaded = n /\ k.max \in Nat
       /\ k.src = h.src /\ k.started = h.started /\ k.unused = h.unused
       /\ h.chunks = d.chunks /\ h.finished = F
  <2>1. /\ b.size = d.size /\ b.chunks = d.chunks /\ b.finished = F /\ b.done = d.done
        /\ b.tstatus = d.tstatus /\ b.put = d.put
        /\ b.findTried = d.findTried /\ b.initialized = d.initialized /\ b.file = d.file
        /\ b.sizeDefined = d.sizeDefined /\ b.temp = d.temp /\ b.tempOff = d.tempOff
        /\ b.blocked = d.blocked /\ b.stat = d.stat /\ b.removing = d.removing
        /\ b.downloaded = n
    BY ONLY <1>7, <1>25 DEF Variants
  <2> QED
    BY ONLY <1>23, <1>24, <2>1 DEF Variants
<1>27. Good(k, t) = H /\ Starts(k) = started /\ Present(k) = Present(d)
  <2>1. Good(k, t) = Good(c, t) /\ Starts(k) = Starts(c)
    BY <1>18, <1>26, GoodSame
  <2> QED
    BY <1>2, <1>18, <1>19, <1>26, <2>1 DEF Starts, Present, Pending
<1>28. Typed(k, H, started)
  BY ONLY <1>23, <1>24 DEF Variants, Typed
<1>29. Parted(k) /\ Used(k) = Used(h)
  <2>1. Parted(h)
    BY <1>23
  <2>2. k.chunks = h.chunks /\ k.src = h.src /\ k.started = h.started /\ k.finished = h.finished
    BY <1>26
  <2> QED
    BY ONLY <2>1, <2>2, PartedSame
<1>30. Known(k)
  BY <1>23, <1>26, <1>29 DEF Known
<1>31. Sane(k)
  BY <1>26 DEF Sane, Sound
<1>32. ASSUME t = {} PROVE FileFits(k)
  <2>1. FileFits(d)
    BY <1>32 DEF Sound
  <2>2. F \subseteq d.finished
    BY <1>5
  <2>3. Whole(k) = Whole(d)
    BY <1>26 DEF Whole
  <2>4. Present(k) = Present(d)
    BY <1>27
  <2> QED
    BY ONLY <1>26, <2>1, <2>2, <2>3, <2>4 DEF FileFits
<1>33. Sound(k, t)
  BY <1>27, <1>28, <1>29, <1>30, <1>31, <1>32 DEF Sound
<1>34. e = Start(k, TRUE)
  <2>1. b = RemoveMirrors(f)
    BY <1>6, <1>7, <1>10, <1>11, <1>13 DEF RemoveMirrors, UsedInOrder, Used
  <2> QED
    BY <1>1, <1>4, <1>6, <1>22, <1>24, <2>1 DEF SlotRepair
<1> QED
  BY <1>33, <1>34, StartSound

LEMMA BrokenPiecesFoundStep ==
  ASSUME IInv, BrokenPiecesFound
  PROVE  IInv'
<1>1. PICK e : e = SlotRepair(dl, BrokenPieces(dl))
  OBVIOUS
<1>2. Sound(e, tainted)
  BY <1>1, SlotRepairSound DEF IInv
<1>3. Becomes(e)
  BY <1>1 DEF BrokenPiecesFound
<1> QED
  BY <1>2, <1>3, BecomesSound

-----------------------------------------------------------------------------
(* A download as it is made, and as it is loaded.                          *)

\* The segments of a download whose sources were not started.
Unbegun == {s \in Fitting :
  ~s.finding /\ s.job = "none" /\ s.buf = <<>> /\ s.off = SegSize * s.cur /\ s.timers = 0}

LEMMA UnbegunClosed == Closed(Unbegun, {FALSE})
<1>1. ASSUME NEW r \in Ranges PROVE NewSegment(r, LastSegSize(r[2])) \in Unbegun
  BY NewSegmentFits DEF Unbegun
<1>2. ASSUME NEW s \in Unbegun PROVE StopTransfer(s) \in Unbegun
  <2>1. PICK x : x = [s EXCEPT !.running = FALSE]
    OBVIOUS
  <2>2. s \in Segments /\ s \in Fitting
    BY DEF Unbegun, Fitting
  <2>3. StopTransfer(s) = x
    BY <2>1 DEF StopTransfer, Unbegun
  <2>4. /\ x.finding = s.finding /\ x.off = s.off /\ x.cur = s.cur /\ x.buf = s.buf
        /\ x.timers = s.timers /\ x.job = s.job
    BY ONLY <2>1, <2>2 DEF Segments
  <2>5. x \in Fitting
    BY <2>2, <2>3, StopTransferFits
  <2> QED
    BY <2>3, <2>4, <2>5 DEF Unbegun
<1>3. ASSUME NEW s \in Unbegun, Unfinished(s) > 0 PROVE SplitSegment(s) \in Unbegun
  <2>1. s \in Fitting /\ s \in Segments
    BY DEF Unbegun, Fitting
  <2>2. PICK x : x = SplitSegment(s)
    OBVIOUS
  <2>3. /\ x = [s EXCEPT !.end = s.end - Freed(s), !.last = SegSize, !.left = x.left, !.job = x.job]
        /\ x.job = IF s.job = "none" THEN "none" ELSE "active"
        /\ x \in Fitting
    BY <1>3, <2>1, <2>2, SplitSegmentFits
  <2>4. /\ x.finding = s.finding /\ x.off = s.off /\ x.cur = s.cur /\ x.buf = s.buf
        /\ x.timers = s.timers
    BY <2>1, <2>3 DEF Segments
  <2>5. s.job = "none"
    BY DEF Unbegun
  <2> QED
    BY <2>2, <2>5, <2>3, <2>4 DEF Unbegun
<1>4. ASSUME NEW s \in Unbegun, NEW r \in Ranges, s.end + 1 = r[1]
      PROVE  MergeSegment(s, LastSegSize(r[2]), r) \in Unbegun
  <2>1. s \in Fitting /\ s \in Segments /\ ~s.finding
    BY DEF Unbegun, Fitting
  <2>2. PICK x : x = MergeSegment(s, LastSegSize(r[2]), r)
    OBVIOUS
  <2>3. /\ x = [s EXCEPT !.end = r[2], !.last = LastSegSize(r[2]), !.left = x.left]
        /\ x \in Fitting
    BY <1>4, <2>1, <2>2, MergeSegmentFits
  <2>4. /\ x.finding = s.finding /\ x.off = s.off /\ x.cur = s.cur /\ x.buf = s.buf
        /\ x.timers = s.timers /\ x.job = s.job
    BY <2>1, <2>3 DEF Segments
  <2> QED
    BY <2>2, <2>3, <2>4 DEF Unbegun
<1>5. Unbegun \subseteq Fitting
  BY DEF Unbegun
<1> QED
  BY <1>1, <1>2, <1>3, <1>4, <1>5 DEF Closed

\* Such segments fit every download, and no job of theirs is out of place.
LEMMA UnbegunFits ==
  ASSUME NEW d, NEW t
  PROVE  Unbegun \subseteq Good(d, t)
<1> SUFFICES ASSUME NEW s \in Unbegun PROVE s \in Good(d, t)
  OBVIOUS
<1>1. s \in Segments
  BY DEF Unbegun, Fitting
<1>2. PICK a \in Int : a = SegSize * s.cur
  <2>1. s.cur \in Chunks
    BY <1>1 DEF Segments
  <2>2. PICK c \in Chunks : c = s.cur
    BY <2>1
  <2>3. s.cur \in Int
    BY <2>2, ChunksAre
  <2> QED
    BY <2>3, TimesIsInt
<1>3. DOMAIN s.buf = {} /\ ~s.finding /\ s.off = a
  BY <1>2 DEF Unbegun
<1>4. \A u \in Units : ~(a <= u /\ u < a)
  BY SizesAreNat DEF Units
<1>5. DataFits(s, d)
  BY <1>2, <1>3, <1>4 DEF DataFits
<1> QED
  BY <1>5 DEF Good, Unbegun

LEMMA FreshSound ==
  ASSUME NEW d, NEW t, Typed(d, Unbegun, {FALSE}), Parted(d), Known(d), Sane(d),
         t = {} => FileFits(d)
  PROVE  Sound(d, t) /\ Placed(d)
<1>1. PICK H, started : H = Good(d, t) /\ started = Starts(d)
  OBVIOUS
<1>2. Unbegun \subseteq H /\ FALSE \in started
  BY <1>1, UnbegunFits DEF Starts
<1>3. d \in Variants(d, Unbegun, {FALSE})
  BY DEF Typed
<1>4. d.src \in Srcs(Unbegun, {FALSE})
  BY ONLY <1>3 DEF Variants
<1>5. d.src \in Srcs(H, started)
  <2>1. PICK U \in SUBSET Mirrors : d.src \in [U -> Sources(Unbegun, {FALSE})]
    BY <1>4 DEF Srcs
  <2>2. ASSUME NEW x \in Sources(Unbegun, {FALSE}) PROVE x \in Sources(H, started)
    <3>1. PICK q : q = x.segs
      OBVIOUS
    <3>2. q \in Seq(Unbegun)
      BY ONLY <2>2, <3>1 DEF Sources
    <3>3. q \in Seq(H)
      BY ONLY <1>2, <3>2
    <3> QED
      BY ONLY <2>2, <1>2, <3>1, <3>3 DEF Sources
  <2>3. d.src \in [U -> Sources(H, started)]
    BY <2>1, <2>2
  <2> QED
    BY <2>3, SrcsFrom
<1>6. Typed(d, H, started)
  BY ONLY <1>3, <1>5 DEF Typed, Variants
<1>7. Placed(d)
  <2> SUFFICES ASSUME NEW m \in Used(d), NEW i \in DOMAIN d.src[m].segs
               PROVE  ~Misplaced(d.src[m].segs[i])
    BY DEF Placed
  <2>1. d.src[m].segs \in Seq(Unbegun)
    BY <1>4, SrcsAre DEF Used
  <2>2. d.src[m].segs[i] \in Unbegun
    BY <2>1
  <2> QED
    BY <2>2 DEF Unbegun, Misplaced
<1> QED
  BY <1>1, <1>6, <1>7 DEF Sound

\* A new download before it has its mirror.
Blank(m, known, ftp, file) ==
  [size |-> IF known THEN Size ELSE 0, sizeDefined |-> known, chunks |-> FALSE,
   started |-> {}, finished |-> {}, downloaded |-> 0, done |-> FALSE,
   blocked |-> FALSE, temp |-> <<>>, tempOff |-> 0, put |-> "none",
   startTried |-> FALSE, findTried |-> FALSE, assignTried |-> FALSE,
   removing |-> FALSE, initialized |-> FALSE, doDownload |-> TRUE,
   foundOnFinish |-> FALSE, max |-> MaxMirrors, src |-> <<>>, unused |-> <<>>,
   source |-> m, status |-> "Stopped", tstatus |-> "Stopped", ftp |-> ftp,
   stat |-> FALSE, verified |-> "no", repairing |-> FALSE, file |-> file]

LEMMA BlankFits ==
  ASSUME NEW m, NEW known \in BOOLEAN, NEW ftp, NEW file, NEW d, d = Blank(m, known, ftp, file)
  PROVE  Typed(d, Unbegun, {FALSE}) /\ Parted(d) /\ Used(d) = {}
<1>1. PICK q : q = <<>>
  OBVIOUS
<1>2. DOMAIN q = {} /\ q \in Seq(Mirrors \X Nat) /\ q \in [{} -> Sources(Unbegun, {FALSE})]
  BY <1>1
<1>3. q \in Srcs(Unbegun, {FALSE})
  BY <1>2, SrcsFrom
<1>4. q \in UnusedLists
  BY <1>2 DEF UnusedLists
<1>5. MaxMirrors \in Nat
  BY SegmentAssumption
<1>6. Typed(d, Unbegun, {FALSE})
  BY ONLY <1>1, <1>3, <1>4, <1>5, d = Blank(m, known, ftp, file) DEF Blank, Typed, Variants
<1>7. Used(d) = {}
  BY <1>1, <1>2 DEF Blank, Used
<1>8. Parted(d)
  BY <1>7 DEF Parted, Loose, Blank
<1> QED
  BY <1>6, <1>7, <1>8

LEMMA NewDownloadFits ==
  ASSUME NEW m, NEW known \in BOOLEAN, NEW ftp, NEW file,
         NEW b, b = Blank(m, known, ftp, file), NEW d, d = NewDownload(m, known, ftp, file)
  PROVE  /\ d \in Variants(b, Unbegun, {FALSE}) /\ Parted(d) /\ (m \in Mirrors => Known(d))
         /\ Typed(d, Unbegun, {FALSE})
<1>1. Typed(b, Unbegun, {FALSE}) /\ Parted(b)
  BY BlankFits
<1>2. CASE m \notin Mirrors
  <2>1. d = b
    BY <1>2 DEF NewDownload, Blank
  <2> QED
    BY <1>1, <1>2, <2>1 DEF Typed
<1>3. CASE m \in Mirrors
  <2>1. PICK conns \in Nat : conns = Max(Connections)
    BY MostConnections
  <2>2. PICK used \in BOOLEAN, defined \in BOOLEAN : used = TRUE /\ defined = FALSE
    OBVIOUS
  <2>3. d = AddMirror(b, m, used, conns, defined)
    BY <1>3, <2>1, <2>2 DEF NewDownload, Blank
  <2>4. Closed(Unbegun, {FALSE})
    BY UnbegunClosed
  <2>5. b.sizeDefined \in BOOLEAN /\ b.status = "Stopped"
    BY DEF Blank
  <2>6. MayStart(b, {FALSE})
    BY <2>5 DEF MayStart
  <2>7. PICK started : started = {FALSE}
    OBVIOUS
  <2>8. Closed(Unbegun, started) /\ MayStart(b, started) /\ Typed(b, Unbegun, started)
    BY <1>1, <2>4, <2>6, <2>7
  <2>9. d \in Variants(b, Unbegun, started) /\ Parted(d) /\ Known(d)
    BY ONLY <1>1, <1>3, <2>1, <2>2, <2>3, <2>5, <2>8, AddMirrorKeeps
  <2>10. Typed(d, Unbegun, started)
    BY <2>9, VariantsOfVariant
  <2> QED
    BY <2>7, <2>9, <2>10
<1> QED
  BY <1>2, <1>3

LEMMA InitStep == Init => IInv
<1> SUFFICES ASSUME Init PROVE IInv
  OBVIOUS
<1>1. PICK s \in Setups :
        dl = NewDownload(s.first, s.case = "known", s.case = "ftp",
                         IF s.case = "old file" THEN [u \in Units |-> "old"] ELSE NoFile)
  BY DEF Init
<1>2. PICK m, known, ftp, file :
        /\ m = s.first /\ known = (s.case = "known") /\ ftp = (s.case = "ftp")
        /\ file = IF s.case = "old file" THEN [u \in Units |-> "old"] ELSE NoFile
  OBVIOUS
<1>3. m \in Mirrors /\ known \in BOOLEAN /\ tainted = {}
  <2>1. s \in [server : [Mirrors -> ServerKinds], first : Mirrors, case : Cases]
    BY SegmentAssumption
  <2> QED
    BY <1>2, <2>1 DEF Init
<1>4. \A u \in Units : file[u] \in {"old", "absent"}
  BY <1>2 DEF NoFile
<1>5. PICK b : b = Blank(m, known, ftp, file)
  OBVIOUS
<1>6. /\ b.size \in Nat /\ ~b.chunks /\ b.finished = {} /\ ~b.done
      /\ b.status = "Stopped" /\ b.tstatus = "Stopped" /\ b.put = "none"
      /\ ~b.initialized /\ b.file = file
      /\ b.sizeDefined \in BOOLEAN /\ b.temp = <<>> /\ b.tempOff = 0
      /\ ~b.blocked /\ ~b.stat /\ ~b.removing /\ b.downloaded = 0
  BY <1>3, <1>5, SizesAreNat DEF Blank
<1>7. dl = NewDownload(m, known, ftp, file)
  BY <1>1, <1>2
<1>8. dl \in Variants(b, Unbegun, {FALSE}) /\ Parted(dl) /\ Known(dl) /\ Typed(dl, Unbegun, {FALSE})
  BY <1>3, <1>5, <1>7, NewDownloadFits
<1>9. dl \in Variants(b, Unbegun, {FALSE})
  BY <1>8
<1>10. /\ dl.size = b.size /\ dl.chunks = b.chunks /\ dl.finished = b.finished /\ dl.done = b.done
       /\ dl.status = b.status /\ dl.tstatus = b.tstatus /\ dl.put = b.put
       /\ dl.initialized = b.initialized /\ dl.file = b.file
       /\ dl.sizeDefined = b.sizeDefined /\ dl.temp = b.temp /\ dl.tempOff = b.tempOff
       /\ dl.blocked = b.blocked /\ dl.stat = b.stat /\ dl.removing = b.removing
       /\ dl.downloaded = b.downloaded /\ dl.max \in Nat
  BY ONLY <1>9 DEF Variants
<1>11. <<>> \in Seq(Int) /\ DOMAIN <<>> = {}
  OBVIOUS
<1>12. Sane(dl)
  BY <1>6, <1>10, <1>11 DEF Sane
<1>13. FileFits(dl)
  BY <1>4, <1>6, <1>10, <1>11 DEF FileFits, Contents
<1>14. Sound(dl, tainted) /\ Placed(dl)
  BY <1>8, <1>12, <1>13, FreshSound
<1> QED
  BY <1>14 DEF IInv

LEMMA ProcessedSizeIsNat ==
  ASSUME NEW d, NEW t, Sound(d, t)
  PROVE  ProcessedSize(d) \in Nat
<1>1. PICK last : last = NumChunks - 1
  OBVIOUS
<1>2. last \in Chunks
  BY <1>1, ChunksAre
<1>3. d.finished \subseteq Chunks /\ d.downloaded \in Nat
  BY DEF Sound, Parted, Loose, Sane
<1>4. IsFiniteSet(d.finished \ {last})
  <2>1. IsFiniteSet(Chunks)
    <3>1. NumChunks - 1 \in Int
      BY NumChunksIsNat
    <3> QED
      BY <3>1, FS_Interval DEF Chunks
  <2> QED
    BY <1>3, <2>1, FS_Subset
<1>5. PICK c \in Nat : c = Cardinality(d.finished \ {last})
  BY <1>4, FS_CardinalityType
<1>6. PICK n \in Nat : n = SegSize * c
  <2>1. c \in Int /\ c \in Nat
    OBVIOUS
  <2>2. SegSize * c \in Nat
    BY ONLY <2>1, Times
  <2> QED
    BY <2>2
<1>7. PICK l \in Nat : l = LastSegSize(last)
  BY <1>2, LastSegSizeIs
<1>8. \/ ProcessedSize(d) = d.downloaded
      \/ ProcessedSize(d) = n + (IF last \in d.finished THEN l ELSE 0)
  BY <1>1, <1>5, <1>6, <1>7 DEF ProcessedSize
<1> QED
  BY <1>3, <1>8

\* What Transfer::load and DataSourceFactory::load write into a new download.
Restored(f, size, n, sizeDefined, found, do, init, max, S, tstatus) ==
  [f EXCEPT !.size = size, !.downloaded = n, !.sizeDefined = sizeDefined,
            !.foundOnFinish = found, !.doDownload = do, !.initialized = init, !.max = max,
            !.started = S, !.finished = S, !.tstatus = tstatus]
RestoredFlags(f, n, sizeDefined, found, do, init) ==
  [f EXCEPT !.downloaded = n, !.sizeDefined = sizeDefined,
            !.foundOnFinish = found, !.doDownload = do, !.initialized = init]
RestoredChunks(f, size, max, S, tstatus) ==
  [f EXCEPT !.size = size, !.max = max, !.started = S, !.finished = S, !.tstatus = tstatus]

LEMMA RestoredTyped ==
  ASSUME NEW f, Typed(f, Unbegun, {FALSE}), NEW size, NEW n, NEW sizeDefined, NEW found, NEW do,
         NEW init, NEW max \in Nat, NEW S \in SUBSET Chunks, NEW tstatus,
         NEW e, e = Restored(f, size, n, sizeDefined, found, do, init, max, S, tstatus),
         NEW c, NEW x, x = [e EXCEPT !.chunks = c]
  PROVE  Typed(x, Unbegun, {FALSE})
<1>1. f \in Variants(f, Unbegun, {FALSE}) /\ S \in SUBSET Chunks /\ max \in Nat
  BY DEF Typed
<1>2. e \in Variants(e, Unbegun, {FALSE})
  <2>1. PICK a : a = RestoredFlags(f, n, sizeDefined, found, do, init)
    OBVIOUS
  <2>2. a \in Variants(a, Unbegun, {FALSE})
    BY ONLY <1>1, <2>1 DEF Variants, RestoredFlags
  <2>3. e = RestoredChunks(a, size, max, S, tstatus)
    BY ONLY <1>1, <2>1, e = Restored(f, size, n, sizeDefined, found, do, init, max, S, tstatus)
       DEF Variants, Restored, RestoredFlags, RestoredChunks
  <2>4. PICK b : b = [a EXCEPT !.max = max, !.tstatus = tstatus]
    OBVIOUS
  <2>5. b \in Variants(b, Unbegun, {FALSE})
    BY ONLY ZenonT(30), <1>1, <2>2, <2>4 DEF Variants
  <2>6. e = [b EXCEPT !.size = size, !.started = S, !.finished = S]
    BY ONLY <2>2, <2>3, <2>4 DEF Variants, RestoredChunks
  <2> QED
    BY ONLY ZenonT(30), <1>1, <2>5, <2>6 DEF Variants
<1>3. x \in Variants(x, Unbegun, {FALSE})
  BY ONLY <1>2, x = [e EXCEPT !.chunks = c] DEF Variants
<1> QED
  BY <1>3 DEF Typed

\* A download of unknown size whose sources were not started has no segments.
LEMMA UnbegunOwnsNothing ==
  ASSUME NEW f, Typed(f, Unbegun, {FALSE}), Parted(f), ~f.chunks, NEW m \in Used(f)
  PROVE  Owned(f, m) = {} /\ Apart(f.src[m].segs)
<1>1. ASSUME NEW i \in DOMAIN f.src[m].segs PROVE FALSE
  <2>1. PICK G, started : G = Unbegun /\ started = {FALSE}
    OBVIOUS
  <2>2. Closed(G, started) /\ Typed(f, G, started)
    BY <2>1, UnbegunClosed
  <2>3. PICK s : s = f.src[m].segs[i]
    OBVIOUS
  <2>4. s \in G /\ s.finding
    BY <2>2, <2>3, SegmentOf
  <2> QED
    BY <2>1, <2>4 DEF Unbegun
<1> QED
  BY <1>1 DEF Owned, OwnOf, Apart

LEMMA RestoredParted ==
  ASSUME NEW f, Typed(f, Unbegun, {FALSE}), Parted(f), ~f.chunks, NEW S \in SUBSET Chunks,
         NEW x, x.src = f.src, x.started = S, x.finished = S, ~x.chunks => S = {}
  PROVE  Parted(x)
<1>1. Used(x) = Used(f) /\ \A m \in Used(f) : Owned(x, m) = {} /\ Apart(x.src[m].segs)
  BY UnbegunOwnsNothing DEF Used, Owned
<1> QED
  BY <1>1 DEF Parted, Loose

\* The mirrors a saved list names.
SavedUsed(d)   == SetToSeq({<<m, TRUE, d.src[m].par>> : m \in Used(d)})
SavedUnused(d) == [n \in DOMAIN d.unused |-> <<d.unused[n][1], FALSE, d.unused[n][2]>>]

LEMMA SavedListsAre ==
  ASSUME NEW d, NEW G, NEW started, Typed(d, G, started), Known(d)
  PROVE  /\ SavedUsed(d) \in Seq(Listed) /\ SavedUnused(d) \in Seq(Listed)
         /\ SavedUsed(d) # <<>> \/ SavedUnused(d) # <<>>
<1>1. d.src \in Srcs(G, started) /\ d.unused \in UnusedLists
  BY DEF Typed, Variants
<1>2. Used(d) \subseteq Mirrors /\ IsFiniteSet(Used(d)) /\ \A m \in Used(d) : d.src[m].par \in Nat
  BY <1>1, SrcsAre DEF Used
<1>3. PICK L : L = {<<m, TRUE, d.src[m].par>> : m \in Used(d)}
  OBVIOUS
<1>4. L \subseteq Listed
  <2> SUFFICES ASSUME NEW m \in Used(d) PROVE <<m, TRUE, d.src[m].par>> \in Listed
    BY <1>3
  <2>1. PICK p \in Nat : p = d.src[m].par
    BY <1>2
  <2>2. PICK u \in BOOLEAN : u = TRUE
    OBVIOUS
  <2>3. <<m, u, p>> \in Listed
    BY <1>2 DEF Listed
  <2> QED
    BY <2>1, <2>2, <2>3
<1>5. IsFiniteSet(L) /\ (Used(d) # {} => L # {})
  <2>1. PICK g : g = [m \in Used(d) |-> <<m, TRUE, d.src[m].par>>]
    OBVIOUS
  <2>2. L = {g[m] : m \in Used(d)}
    BY <1>3, <2>1
  <2>3. g \in Surjection(Used(d), L)
    BY <2>1, <2>2 DEF Surjection
  <2> QED
    BY <1>2, <2>2, <2>3, FS_Surjection
<1>6. PICK s : s = SetToSeq(L)
  OBVIOUS
<1>7. s \in Seq(L) /\ (L # {} => s # <<>>)
  BY <1>5, <1>6, SetToSeqIs
<1>8. SavedUsed(d) = s
  BY <1>3, <1>6 DEF SavedUsed
<1>9. PICK q \in Seq(Mirrors \X Nat) : q = d.unused
  BY <1>1 DEF UnusedLists
<1>10. PICK k \in Nat : k = Len(q) /\ DOMAIN q = 1 .. k
  OBVIOUS
<1>11. PICK r : r = [n \in 1 .. k |-> <<q[n][1], FALSE, q[n][2]>>]
  OBVIOUS
<1>12. \A n \in 1 .. k : r[n] \in Listed
  <2> SUFFICES ASSUME NEW n \in 1 .. k PROVE r[n] \in Listed
    OBVIOUS
  <2>1. q[n] \in Mirrors \X Nat
    BY <1>10
  <2>2. PICK m \in Mirrors, p \in Nat : m = q[n][1] /\ p = q[n][2]
    BY <2>1
  <2>3. PICK u \in BOOLEAN : u = FALSE
    OBVIOUS
  <2>4. <<m, u, p>> \in Listed
    BY DEF Listed
  <2> QED
    BY <1>11, <2>2, <2>3, <2>4
<1>13. r \in [1 .. k -> Listed]
  BY <1>11, <1>12
<1>14. r \in Seq(Listed) /\ (k # 0 => r # <<>>)
  <2>1. r \in Seq(Listed)
    BY ONLY <1>13, k \in Nat
  <2>2. k # 0 => 1 \in DOMAIN r
    BY <1>11
  <2> QED
    BY <2>1, <2>2
<1>15. SavedUnused(d) = r
  BY <1>9, <1>10, <1>11 DEF SavedUnused
<1>16. q # <<>> => k # 0
  BY <1>9, <1>10
<1> QED
  BY <1>4, <1>5, <1>7, <1>8, <1>9, <1>14, <1>15, <1>16 DEF Known

\* What a restart keeps of a download, and what it begins anew.
Reloaded(x, d, file, n, S) ==
  /\ x.size = d.size /\ x.downloaded = n /\ x.sizeDefined = d.sizeDefined /\ x.max \in Nat
  /\ x.initialized = d.initialized /\ x.finished = S /\ x.chunks = (d.size # 0) /\ x.file = file
  /\ x.status = "Stopped" /\ x.put = "none" /\ x.temp = <<>> /\ x.tempOff = 0
  /\ ~x.done /\ ~x.blocked /\ ~x.removing /\ ~x.stat
  /\ x.tstatus = "Stopped" \/ (x.tstatus = "Finished" /\ d.size # 0)

LEMMA LoadFits ==
  ASSUME NEW d, NEW t, Sound(d, t), NEW c, NEW x, x = Load(SaveOf(d), c)
  PROVE  /\ Typed(x, Unbegun, {FALSE}) /\ Parted(x) /\ Known(x)
         /\ \E n \in Nat, S \in SUBSET Chunks :
              Reloaded(x, d, c.file, n, S) /\ S \subseteq d.finished
<1>1. /\ d.size \in Nat /\ d.max \in Nat /\ d.sizeDefined \in BOOLEAN /\ (d.chunks => d.size # 0)
      /\ d.finished \subseteq Chunks /\ Known(d) /\ Typed(d, Good(d, t), Starts(d))
  BY DEF Sound, Sane, Parted, Loose
<1>2. PICK n \in Nat : n = ProcessedSize(d)
  BY ProcessedSizeIsNat
<1>3. PICK S \in SUBSET Chunks : S = IF d.chunks /\ ~d.foundOnFinish THEN d.finished ELSE {}
  BY <1>1
<1>0. PICK known \in BOOLEAN : known = FALSE
  OBVIOUS
<1>4. PICK m, ftp, file : m = d.source /\ ftp = c.ftp /\ file = c.file
  OBVIOUS
<1>5. PICK b : b = Blank(m, known, ftp, file)
  OBVIOUS
<1>6. PICK f : f = NewDownload(m, known, ftp, file)
  OBVIOUS
<1>7. /\ f \in Variants(b, Unbegun, {FALSE}) /\ Parted(f) /\ Typed(f, Unbegun, {FALSE})
  BY ONLY <1>5, <1>6, known \in BOOLEAN, NewDownloadFits
<1>8. f \in Variants(b, Unbegun, {FALSE})
  BY <1>7
<1>9. /\ f.chunks = FALSE /\ f.done = FALSE /\ f.status = "Stopped" /\ f.tstatus = "Stopped"
      /\ f.put = "none" /\ f.file = file /\ f.temp = <<>> /\ f.tempOff = 0 /\ f.blocked = FALSE
      /\ f.stat = FALSE /\ f.removing = FALSE
  BY ONLY <1>5, <1>8 DEF Variants, Blank
<1>10. PICK tstatus : tstatus = IF d.size = d.downloaded /\ d.size # 0 THEN "Finished" ELSE f.tstatus
  OBVIOUS
<1>m. PICK max \in Nat : max = d.max
  BY <1>1
<1>11. PICK size, sizeDefined, found, do, init :
         /\ size = d.size /\ sizeDefined = d.sizeDefined /\ found = d.foundOnFinish
         /\ do = d.doDownload /\ init = d.initialized
  OBVIOUS
<1>12. PICK e : e = Restored(f, size, n, sizeDefined, found, do, init, max, S, tstatus)
  OBVIOUS
<1>13. PICK k : k = (size # 0)
  OBVIOUS
<1>14. PICK y : y = [e EXCEPT !.chunks = k]
  OBVIOUS
<1>15. Typed(y, Unbegun, {FALSE})
  <2>1. Typed(f, Unbegun, {FALSE})
    BY <1>7
  <2> QED
    BY ONLY <1>12, <1>14, <2>1, max \in Nat, S \in SUBSET Chunks, RestoredTyped
<1>16. f \in Variants(f, Unbegun, {FALSE})
  BY <1>7 DEF Typed
<1>17. /\ y.size = size /\ y.downloaded = n /\ y.sizeDefined = sizeDefined /\ y.max = max
       /\ y.initialized = init /\ y.started = S /\ y.finished = S /\ y.tstatus = tstatus
       /\ y.chunks = k /\ y.src = f.src
       /\ y.file = f.file /\ y.status = f.status /\ y.put = f.put /\ y.temp = f.temp
       /\ y.tempOff = f.tempOff /\ y.done = f.done /\ y.blocked = f.blocked
       /\ y.removing = f.removing /\ y.stat = f.stat
  BY ONLY <1>12, <1>14, <1>16 DEF Variants, Restored
<1>18. Parted(y)
  <2>1. ~y.chunks => S = {}
    BY <1>1, <1>3, <1>11, <1>13, <1>17
  <2>2. Typed(f, Unbegun, {FALSE}) /\ Parted(f) /\ ~f.chunks
    BY <1>7, <1>9
  <2>3. y.src = f.src /\ y.started = S /\ y.finished = S
    BY <1>17
  <2> QED
    BY ONLY <2>1, <2>2, <2>3, S \in SUBSET Chunks, RestoredParted
<1>19. PICK used, unused : used = SavedUsed(d) /\ unused = SavedUnused(d)
  OBVIOUS
<1>20. used \in Seq(Listed) /\ unused \in Seq(Listed) /\ (used # <<>> \/ unused # <<>>)
  BY <1>1, <1>19, SavedListsAre
<1>21. PICK started : started = {FALSE}
  OBVIOUS
<1>22. Closed(Unbegun, started) /\ Typed(y, Unbegun, started)
  BY <1>15, <1>21, UnbegunClosed
<1>23. y.sizeDefined \in BOOLEAN /\ MayStart(y, started)
  BY <1>1, <1>9, <1>11, <1>17 DEF MayStart
<1>24. PICK z : z = InTurn(AddListed, y, used)
  OBVIOUS
<1>25. z \in Variants(y, Unbegun, started) /\ Parted(z) /\ (Known(y) \/ used # <<>> => Known(z))
  <2>1. used \in Seq(Listed)
    BY <1>20
  <2> QED
    BY ONLY <1>18, <1>22, <1>23, <1>24, <2>1, AddListedInTurn
<1>26. Typed(z, Unbegun, started) /\ z.sizeDefined \in BOOLEAN /\ MayStart(z, started)
  <2>1. z \in Variants(y, Unbegun, started)
    BY <1>25
  <2>2. Typed(z, Unbegun, started)
    BY <2>1, VariantsOfVariant
  <2>3. z.sizeDefined = y.sizeDefined /\ z.status = y.status
    BY ONLY <2>1 DEF Variants
  <2> QED
    BY <1>23, <2>2, <2>3 DEF MayStart
<1>27. PICK v : v = InTurn(AddListed, z, unused)
  OBVIOUS
<1>28. v \in Variants(z, Unbegun, started) /\ Parted(v) /\ (Known(z) \/ unused # <<>> => Known(v))
  <2>1. unused \in Seq(Listed)
    BY <1>20
  <2>2. Parted(z)
    BY <1>25
  <2> QED
    BY ONLY <1>22, <1>26, <1>27, <2>1, <2>2, AddListedInTurn
<1>29. Typed(v, Unbegun, started) /\ Known(v)
  BY <1>20, <1>25, <1>28, VariantsOfVariant
<1>30. x = v
  <2>1. PICK s : s = SaveOf(d)
    OBVIOUS
  <2>2. /\ s.total = size /\ s.downloaded = d.downloaded /\ s.processed = n
        /\ s.chunks = (d.chunks /\ ~d.foundOnFinish) /\ s.finished = d.finished
        /\ s.sizeDefined = sizeDefined /\ s.foundOnFinish = found /\ s.doDownload = do
        /\ s.initialized = init /\ s.max = max /\ s.source = m
        /\ s.urls = [u \in Used(d) |-> d.src[u].par] /\ s.unused = d.unused
    BY <1>2, <1>4, <1>m, <1>11, <2>1 DEF SaveOf
  <2>3. f = NewDownload(s.source, FALSE, c.ftp, c.file)
    BY <1>0, <1>4, <1>6, <2>2
  <2>4. PICK a : a = [f EXCEPT
                 !.size = s.total, !.downloaded = s.processed, !.sizeDefined = s.sizeDefined,
                 !.foundOnFinish = s.foundOnFinish, !.doDownload = s.doDownload,
                 !.initialized = s.initialized, !.max = s.max,
                 !.started = IF s.chunks THEN s.finished ELSE {},
                 !.finished = IF s.chunks THEN s.finished ELSE {},
                 !.tstatus = IF s.total = s.downloaded /\ s.total # 0 THEN "Finished" ELSE @]
    OBVIOUS
  <2>5. a = e
    BY ZenonT(30), <1>3, <1>10, <1>11, <1>12, <1>16, <2>2, <2>4 DEF Restored
  <2>6. e.size = size
    BY ONLY <1>12, <1>16 DEF Variants, Restored
  <2>7. InitChunks(a) = y
    BY <1>13, <1>14, <2>5, <2>6 DEF InitChunks
  <2>8. SetToSeq({<<u, TRUE, s.urls[u]>> : u \in DOMAIN s.urls}) = used
    <3>1. {<<u, TRUE, s.urls[u]>> : u \in DOMAIN s.urls} = {<<u, TRUE, d.src[u].par>> : u \in Used(d)}
      BY <2>2
    <3> QED
      BY <1>19, <3>1 DEF SavedUsed
  <2>9. [i \in DOMAIN s.unused |-> <<s.unused[i][1], FALSE, s.unused[i][2]>>] = unused
    BY <1>19, <2>2 DEF SavedUnused
  <2>10. Load(s, c) = InTurn(AddListed, InTurn(AddListed, y, used), unused)
    BY <2>3, <2>4, <2>7, <2>8, <2>9 DEF Load
  <2> QED
    BY <1>24, <1>27, <2>1, <2>10
<1>31. Reloaded(x, d, c.file, n, S)
  <2>1. z \in Variants(y, Unbegun, started) /\ v \in Variants(z, Unbegun, started)
    BY <1>25, <1>28
  <2>2. /\ v.size = y.size /\ v.downloaded = y.downloaded /\ v.sizeDefined = y.sizeDefined
        /\ v.max \in Nat /\ v.initialized = y.initialized /\ v.finished = y.finished
        /\ v.chunks = y.chunks /\ v.file = y.file /\ v.status = y.status /\ v.put = y.put
        /\ v.temp = y.temp /\ v.tempOff = y.tempOff /\ v.done = y.done
        /\ v.blocked = y.blocked /\ v.removing = y.removing /\ v.stat = y.stat
        /\ v.tstatus = y.tstatus
    BY ONLY <2>1 DEF Variants
  <2> QED
    BY <1>4, <1>9, <1>10, <1>m, <1>11, <1>13, <1>17, <1>30, <2>2 DEF Reloaded
<1>32. S \subseteq d.finished
  BY <1>3
<1> QED
  BY <1>21, <1>28, <1>29, <1>30, <1>31, <1>32

LEMMA SaveAndRestartStep ==
  ASSUME IInv, NEW through, SaveAndRestart(through)
  PROVE  IInv'
<1>1. Sound(dl, tainted)
  BY DEF IInv
<1>2. PICK c : c = IF through THEN Store(dl) ELSE dl
  OBVIOUS
<1>3. PICK x : x = Load(SaveOf(dl), c)
  OBVIOUS
<1>4. /\ dl' = x /\ tainted \subseteq tainted'
      /\ \/ tainted' # {}
         \/ /\ ~\E k \in x.finished : \E u \in ChunkUnits(k) : x.file[u] \in {"none", "absent"}
            /\ x.finished # Chunks
            /\ ~(x.tstatus = "Finished" /\ x.chunks /\ x.finished # Chunks)
  BY <1>2, <1>3 DEF SaveAndRestart
<1>5. PICK t : t = tainted'
  OBVIOUS
<1>6. PICK n \in Nat, S \in SUBSET Chunks : Reloaded(x, dl, c.file, n, S) /\ S \subseteq dl.finished
  BY <1>1, <1>3, LoadFits
<1>7. Typed(x, Unbegun, {FALSE}) /\ Parted(x) /\ Known(x)
  BY <1>1, <1>3, LoadFits
<1>8. Sane(x)
  <2>1. dl.size \in Nat /\ dl.sizeDefined \in BOOLEAN
    BY <1>1 DEF Sound, Sane
  <2>2. <<>> \in Seq(Int) /\ 0 \in Nat
    OBVIOUS
  <2> QED
    BY <1>6, <2>1, <2>2 DEF Reloaded, Sane
<1>9. ASSUME t = {} PROVE FileFits(x)
  <2>1. tainted = {} /\ FileFits(dl)
    BY <1>1, <1>4, <1>5, <1>9 DEF Sound
  <2>2. \A u \in Units : c.file[u] \in Contents /\ (dl.initialized => c.file[u] # "old")
    <3>1. CASE ~through
      BY <1>2, <2>1, <3>1 DEF FileFits
    <3>2. CASE through
      <4>1. PICK file : Store(dl) = WithContents(dl, file) /\ StoredAs(dl, tainted, file)
        BY <1>1, StoreIs
      <4>2. c = WithContents(dl, file)
        BY <1>2, <3>2, <4>1
      <4>3. dl \in Variants(dl, Good(dl, tainted), Starts(dl))
        BY <1>1, SoundMayStart
      <4>4. c.file = file
        BY ONLY <4>2, <4>3 DEF Variants, WithContents
      <4>5. ASSUME NEW u \in Units
            PROVE  file[u] \in Contents /\ (dl.initialized => file[u] # "old")
        BY <2>1, <4>1 DEF StoredAs, FileFits, Contents
      <4> QED
        BY <4>4, <4>5
    <3> QED
      BY <3>1, <3>2
  <2>3. x.tstatus # "Finished" /\ \A k \in x.finished : ChunkUnits(k) \subseteq Present(x)
    <3>1. x.tstatus # "Finished"
      BY <1>4, <1>5, <1>6, <1>9 DEF Reloaded
    <3>2. ASSUME NEW k \in x.finished PROVE ChunkUnits(k) \subseteq Present(x)
      BY <1>4, <1>5, <1>9 DEF Present, ChunkUnits
    <3> QED
      BY <3>1, <3>2
  <2>4. ~x.initialized => x.finished = {}
    BY <1>6, <2>1 DEF Reloaded, FileFits
  <2>5. DOMAIN <<>> = {}
    OBVIOUS
  <2> QED
    BY <1>6, <2>2, <2>3, <2>4, <2>5 DEF Reloaded, FileFits
<1>10. Sound(x, t) /\ Placed(x)
  BY <1>7, <1>8, <1>9, FreshSound
<1>11. Sound(dl', tainted') /\ Placed(dl')
  BY <1>4, <1>5, <1>10
<1> QED
  BY <1>11 DEF IInv, Sound, Placed

-----------------------------------------------------------------------------
(* The invariant, and what it says.                                        *)

LEMMA NextStep ==
  ASSUME IInv, Next
  PROVE  IInv'
<1>1. CASE DownloadEvents
  BY <1>1, DownloadEventsStep
<1>2. CASE Files
  <2>1. CASE PutOpen
    BY <2>1, PutOpenStep
  <2>2. CASE PutWritten
    BY <2>2, PutWrittenStep
  <2>3. CASE PutFails
    BY <2>3, PutFailsStep
  <2>4. CASE FileRemoved
    BY <2>4, FileRemovedStep
  <2>5. CASE SlotStatResult
    BY <2>5, SlotStatResultStep
  <2> QED
    BY <1>2, <2>1, <2>2, <2>3, <2>4, <2>5 DEF Files
<1>3. CASE Commands
  <2>1. CASE \E c \in BOOLEAN : StartTransferCommand(c)
    BY <2>1, StartCommandStep
  <2>2. CASE StopTransferCommand
    BY <2>2, StopCommandStep
  <2>3. CASE \E new \in MirrorChoices : SetAvailableMirrors(new)
    BY <2>3, SetMirrorsStep
  <2>4. CASE \E m \in Mirrors : SlotSearchUrls(m)
    BY <2>4, SearchStep
  <2>5. CASE \E b \in BOOLEAN : SetDoDownload(b)
    BY <2>5, SetDoDownloadStep
  <2>6. CASE Repair
    BY <2>6, RepairStep
  <2> QED
    BY <1>3, <2>1, <2>2, <2>3, <2>4, <2>5, <2>6 DEF Commands
<1>4. CASE Verified
  BY <1>4, VerifiedStep
<1>5. CASE BrokenPiecesFound
  BY <1>5, BrokenPiecesFoundStep
<1>6. CASE SchedulerStarts
  BY <1>6, SchedulerStartsStep
<1>7. CASE SchedulerRestarts
  BY <1>7, SchedulerRestartsStep
<1>8. CASE \E through \in BOOLEAN : SaveAndRestart(through)
  BY <1>8, SaveAndRestartStep
<1> QED
  BY <1>1, <1>2, <1>3, <1>4, <1>5, <1>6, <1>7, <1>8 DEF Next

LEMMA SegmentNamed ==
  ASSUME IInv, NEW id \in SegmentIds, NEW s, s = Segment(id)
  PROVE  \E m \in Used(dl) : \E i \in DOMAIN dl.src[m].segs :
           /\ id = <<m, i>> /\ s = dl.src[m].segs[i]
           /\ s \in Good(dl, tainted) /\ s \in Fitting /\ (dl.chunks => ~s.finding)
<1>1. PICK m \in Used(dl) : id \in {m} \X DOMAIN dl.src[m].segs
  BY DEF SegmentIds
<1>2. PICK i \in DOMAIN dl.src[m].segs : id = <<m, i>>
  BY <1>1
<1>3. PICK G, started : G = Good(dl, tainted) /\ started = Starts(dl)
  OBVIOUS
<1>4. Closed(G, started) /\ Typed(dl, G, started) /\ Parted(dl)
  BY <1>3, SoundMayStart DEF IInv
<1>5. s = dl.src[m].segs[i]
  BY <1>2 DEF Segment
<1>6. s \in G /\ s \in Fitting /\ (dl.chunks => ~s.finding)
  BY ONLY <1>4, <1>5, m \in Used(dl), i \in DOMAIN dl.src[m].segs, SegmentOf
<1>7. s \in Good(dl, tainted)
  BY ONLY <1>3, <1>6
<1>8. s \in Fitting /\ (dl.chunks => ~s.finding)
  BY <1>6
<1> QED
  BY ONLY <1>2, <1>5, <1>7, <1>8, m \in Used(dl), i \in DOMAIN dl.src[m].segs

LEMMA ChunksAreSomebodys == IInv => EveryChunkIsSomebodys
<1> SUFFICES ASSUME IInv, dl.chunks
             PROVE  /\ \A a, b \in SegmentIds : a # b => Fetched(a) \cap Fetched(b) = {}
                    /\ dl.started \ dl.finished = UNION {Fetched(id) : id \in SegmentIds}
  BY DEF EveryChunkIsSomebodys
<1>1. Parted(dl) /\ Loose(dl)
  BY DEF IInv, Sound, Parted
<1>2. ASSUME NEW id \in SegmentIds
      PROVE  /\ id[1] \in Used(dl) /\ id[2] \in DOMAIN dl.src[id[1]].segs /\ id = <<id[1], id[2]>>
             /\ Fetched(id) = Own(dl.src[id[1]].segs[id[2]]) /\ Fetched(id) \subseteq Owned(dl, id[1])
  <2>1. PICK s : s = Segment(id)
    OBVIOUS
  <2>2. \E m \in Used(dl) : \E i \in DOMAIN dl.src[m].segs :
          id = <<m, i>> /\ s = dl.src[m].segs[i] /\ (dl.chunks => ~s.finding)
    BY <2>1, SegmentNamed
  <2>3. PICK m \in Used(dl) : \E i \in DOMAIN dl.src[m].segs :
          id = <<m, i>> /\ s = dl.src[m].segs[i] /\ (dl.chunks => ~s.finding)
    BY <2>2
  <2>4. PICK i \in DOMAIN dl.src[m].segs :
          id = <<m, i>> /\ s = dl.src[m].segs[i] /\ (dl.chunks => ~s.finding)
    BY <2>3
  <2>5. Fetched(id) = Own(s)
    BY <2>1, <2>4 DEF Fetched, Own
  <2>6. Fetched(id) \subseteq Owned(dl, m)
    BY <2>4, <2>5 DEF Owned, OwnOf
  <2>7. id[1] = m /\ id[2] = i
    BY <2>4
  <2> QED
    BY <2>4, <2>5, <2>6, <2>7
<1>3. ASSUME NEW a \in SegmentIds, NEW b \in SegmentIds, a # b
      PROVE  Fetched(a) \cap Fetched(b) = {}
  <2>1. CASE a[1] = b[1]
    <3>1. a[2] # b[2]
      BY <1>2, <1>3, <2>1
    <3> QED
      BY <1>1, <1>2, <2>1, <3>1 DEF Loose, Apart
  <2>2. CASE a[1] # b[1]
    <3>1. Owned(dl, a[1]) \cap Owned(dl, b[1]) = {}
      BY <1>1, <1>2, <2>2 DEF Loose
    <3> QED
      BY <1>2, <3>1
  <2> QED
    BY <2>1, <2>2
<1>4. ASSUME NEW c \in dl.started \ dl.finished
      PROVE  \E id \in SegmentIds : c \in Fetched(id)
  <2>1. PICK m \in Used(dl) : c \in Owned(dl, m)
    BY <1>1 DEF Loose
  <2>2. PICK i \in DOMAIN dl.src[m].segs : c \in Own(dl.src[m].segs[i])
    BY <2>1 DEF Owned, OwnOf
  <2>3. <<m, i>> \in SegmentIds
    BY DEF SegmentIds
  <2> QED
    BY <1>2, <2>2, <2>3
<1>5. ASSUME NEW id \in SegmentIds, NEW c \in Fetched(id)
      PROVE  c \in dl.started \ dl.finished
  <2>1. PICK m \in Used(dl) : m = id[1] /\ c \in Owned(dl, m)
    BY <1>2
  <2>2. c # Unknown /\ c \notin dl.finished
    BY <1>1, <2>1 DEF Loose
  <2> QED
    BY <1>1, <2>1, <2>2 DEF Parted
<1> QED
  BY <1>3, <1>4, <1>5

LEMMA IInvSaysIt == IInv => ChunksFit
<1> SUFFICES ASSUME IInv PROVE ChunksFit
  OBVIOUS
<1>1. EveryChunkIsSomebodys
  BY ChunksAreSomebodys
<1>2. CountersFitChunks
  <2> SUFFICES ASSUME NEW id \in SegmentIds, ~Segment(id).finding
               PROVE  /\ Segment(id).off + Segment(id).left
                           = SegSize * Segment(id).end + LastSegSize(Segment(id).end)
                      /\ Segment(id).off + Segment(id).segLeft
                           = SegSize * Segment(id).cur + LastSegSize(Segment(id).cur)
    BY DEF CountersFitChunks
  <2>1. PICK s : s = Segment(id)
    OBVIOUS
  <2>2. s \in Fitting
    BY <2>1, SegmentNamed
  <2> QED
    BY <2>1, <2>2 DEF Fitting, Counts, EndOf
<1>3. FinishedIsWhole
  <2> SUFFICES ASSUME "Finished" \in {dl.status, dl.tstatus}, tainted = {}
               PROVE  \A u \in Units : dl.file[u] \in {"right", "corrupt"}
    BY DEF FinishedIsWhole
  <2> QED
    BY DEF IInv, Sound, FileFits, Whole
<1>4. StoppedIsIdle
  <2> SUFFICES ASSUME dl.tstatus = "Stopped", NEW id \in SegmentIds
               PROVE  Segment(id).job # "active"
    BY DEF StoppedIsIdle
  <2>1. PICK s : s = Segment(id)
    OBVIOUS
  <2>2. s \in Good(dl, tainted)
    BY <2>1, SegmentNamed
  <2> QED
    BY <2>1, <2>2 DEF Good
<1> QED
  BY <1>1, <1>2, <1>3, <1>4 DEF ChunksFit

\* Whatever the servers, the mirrors and their connections, the sizes of the file
\* and of its chunks, and the faults, commands and restarts: a chunk that is started
\* and not finished belongs to exactly one segment, each segment's counters end where
\* its chunks end, a finished download has the whole file unless one of the known
\* ways to a wrong file was taken, and a stopped one receives nothing.
THEOREM ChunksAlwaysFit == Spec => []ChunksFit
<1>1. Init => IInv
  BY InitStep
<1>2. IInv /\ [Next]_vars => IInv'
  <2>1. ASSUME IInv, UNCHANGED vars PROVE IInv'
    <3>1. dl' = dl /\ tainted' = tainted
      BY <2>1 DEF vars
    <3> QED
      BY <2>1, <3>1 DEF IInv, Sound, Placed
  <2> QED
    BY <2>1, NextStep
<1>3. IInv => ChunksFit
  BY IInvSaysIt
<1> QED
  BY <1>1, <1>2, <1>3, PTL DEF Spec
=============================================================================
