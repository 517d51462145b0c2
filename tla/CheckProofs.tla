------------------------------ MODULE CheckProofs ------------------------------
(***************************************************************************)
(* That a Verifier's answers are right (VerifierFits), each of the request *)
(* it is taken for, and a search for broken pieces of the pieces that hold *)
(* something wrong; and that keys are fetched once (OneDownloadPerKey).    *)
(*                                                                         *)
(* The GUI thread appends to three lists, the verification thread takes    *)
(* from each of them; the invariant says that the three together are the   *)
(* requests without an answer, unless searches and requests were mixed.    *)
(***************************************************************************)
EXTENDS Verification, Keys, WellFoundedInduction, TLAPS

-----------------------------------------------------------------------------
(* The inductive invariant.                                                *)

IsSeq(s) == s \in Seq(Range(s))

\* The thread is to search for broken pieces, and has not taken the checksums yet.
Searching == work = "BrokenPieces" /\ verifying.at \in {"begin", "pieces"}
SearchReady ==
  /\ asked = <<>> /\ lists.files = 1 /\ Len(lists.types) = 1
  /\ Len(lists.sums) = IF pieceLength = 0 THEN 0 ELSE NumPieces(pieceLength)

\* The requests without an answer are the one that is hashed and those in the lists.
Taken == IF verifying.at = "hash" THEN 1 ELSE 0
Aligned ==
  /\ Len(lists.types) = lists.files /\ Len(lists.sums) = lists.files
  /\ Len(asked) = Taken + lists.files
  /\ verifying.at = "hash" => asked[1] = <<verifying.type, verifying.sum>>
  /\ \A i \in 1..lists.files : asked[Taken + i] = <<lists.types[i], lists.sums[i]>>

\* What the thread does is what it is to do.
Working ==
  /\ verifying.at \in {"off", "begin", "take", "hash", "pieces", "end"}
  /\ verifying.at = "begin" => work \in {"Verify", "BrokenPieces"}
  /\ verifying.at = "pieces" => work = "BrokenPieces"
  /\ verifying.at \in {"take", "hash"} => work = "Verify"

\* An answer to a search: BrokenPiecesAreFound of what is still on its way.
Found(r) ==
  r.length # 0 =>
    LET Piece(o) == {u \in 1 .. FileSize : o < u /\ u <= o + r.length}
        wrong    == {u \in 1 .. FileSize : ~r.of[u]}
    IN  /\ wrong \subseteq UNION {Piece(o) : o \in r.offsets}
        /\ \A o \in r.offsets : Piece(o) \cap wrong # {}

InStep ==
  /\ DOMAIN lists = {"types", "sums", "files"} /\ DOMAIN verifying = {"at", "type", "sum"}
  /\ IsSeq(lists.types) /\ IsSeq(lists.sums) /\ lists.files \in Nat
  /\ IsSeq(asked) /\ IsSeq(results)
  /\ Working
  /\ IF Searching THEN SearchReady ELSE Aligned
  /\ \A i \in 1..Len(results) : results[i].kind = "pieces" => Found(results[i])
  /\ broken.kind = "pieces" => Found(broken)

VInv ==
  /\ file \in Contents /\ pieceLength \in Nat
  /\ "mixed" \notin spoilt => InStep

-----------------------------------------------------------------------------
(* Sequences, whatever they hold.                                          *)

LEMMA EmptyIsSeq == IsSeq(<<>>) /\ Len(<<>>) = 0
  BY DEF IsSeq

LEMMA SeqIsSeq ==
    ASSUME NEW S, NEW s \in Seq(S)
    PROVE  IsSeq(s)
<1>1. DOMAIN s = 1..Len(s) /\ Len(s) \in Nat
  OBVIOUS
<1>2. \A i \in 1..Len(s) : s[i] \in Range(s)
  BY <1>1 DEF Range
<1>3. s = [i \in 1..Len(s) |-> s[i]]
  OBVIOUS
<1>4. [i \in 1..Len(s) |-> s[i]] \in Seq(Range(s))
  BY <1>1, <1>2
<1> QED
  BY <1>3, <1>4 DEF IsSeq

LEMMA FunctionIsSeq ==
    ASSUME NEW n \in Nat, NEW s, DOMAIN s = 1..n, s = [i \in 1..n |-> s[i]]
    PROVE  IsSeq(s) /\ Len(s) = n
<1>1. \A i \in 1..n : s[i] \in Range(s)
  BY DEF Range
<1>2. [i \in 1..n |-> s[i]] \in Seq(Range(s)) /\ Len([i \in 1..n |-> s[i]]) = n
  BY <1>1
<1> QED
  BY <1>2 DEF IsSeq

LEMMA AppendIsSeq ==
    ASSUME NEW s, IsSeq(s), NEW e
    PROVE  /\ IsSeq(Append(s, e)) /\ Len(Append(s, e)) = Len(s) + 1 /\ Len(s) \in Nat
           /\ Append(s, e)[Len(s) + 1] = e /\ \A i \in 1..Len(s) : Append(s, e)[i] = s[i]
<1>1. s \in Seq(Range(s) \cup {e}) /\ e \in Range(s) \cup {e}
  BY DEF IsSeq
<1>2. Append(s, e) \in Seq(Range(s) \cup {e})
  BY <1>1
<1>3. IsSeq(Append(s, e))
  BY <1>2, SeqIsSeq
<1> HIDE DEF IsSeq
<1> QED
  BY <1>1, <1>3

LEMMA TailIsSeq ==
    ASSUME NEW s, IsSeq(s), s # <<>>
    PROVE  /\ IsSeq(Tail(s)) /\ Len(Tail(s)) = Len(s) - 1 /\ Len(s) \in Nat \ {0}
           /\ Head(s) = s[1] /\ \A i \in 1..Len(s) - 1 : Tail(s)[i] = s[i + 1]
<1>1. s \in Seq(Range(s))
  BY DEF IsSeq
<1>2. Tail(s) \in Seq(Range(s))
  BY <1>1
<1>3. IsSeq(Tail(s))
  BY <1>2, SeqIsSeq
<1> QED
  BY <1>1, <1>3

-----------------------------------------------------------------------------
(* Pieces.                                                                 *)

\* Every piece begins in the file, and every unit of the file is in a piece.
LEMMA PiecesCover ==
    ASSUME NEW length \in Nat \ {0}
    PROVE  /\ NumPieces(length) \in Nat
           /\ \A j \in 0..NumPieces(length) - 1 : length * j \in Nat /\ length * j < FileSize
           /\ \A u \in 1..FileSize : \E j \in 0..NumPieces(length) - 1 :
                length * j < u /\ u <= length * (j + 1)
<1> DEFINE q == FileSize \div length
           r == FileSize % length
           n == NumPieces(length)
<1>0. FileSize \in Nat
  BY VerificationAssumption
<1>1. q \in Nat /\ r \in Nat /\ r < length /\ FileSize = length * q + r /\ FileSize \in Nat
  BY <1>0
<1>2. n = IF r = 0 THEN q ELSE q + 1
  BY <1>1 DEF NumPieces
<1> HIDE DEF q, r, n
<1>3. \A i, j \in Nat : i <= j => length * i \in Nat /\ length * i <= length * j
  OBVIOUS
<1>4. length * (q + 1) = length * q + length
  BY <1>1
<1>5. n \in Nat /\ FileSize <= length * n
  BY <1>1, <1>2, <1>4
<1>6. ASSUME NEW j \in 0..n - 1 PROVE length * j \in Nat /\ length * j < FileSize
  <2>1. CASE r = 0
    <3>1. j + 1 <= q /\ j \in Nat /\ j + 1 \in Nat /\ length * (j + 1) = length * j + length
      BY <1>1, <1>2, <2>1
    <3>2. length * (j + 1) <= length * q /\ length * j \in Nat
      BY <1>1, <1>3, <3>1
    <3> QED
      BY <1>1, <2>1, <3>1, <3>2
  <2>2. CASE r # 0
    <3>1. j <= q /\ j \in Nat
      BY <1>1, <1>2, <2>2
    <3>2. length * j <= length * q /\ length * j \in Nat
      BY <1>1, <1>3, <3>1
    <3> QED
      BY <1>1, <1>3, <2>2, <3>2
  <2> QED
    BY <2>1, <2>2
<1>7. ASSUME NEW u \in 1..FileSize
      PROVE  \E j \in 0..n - 1 : length * j < u /\ u <= length * (j + 1)
  <2> DEFINE j == (u - 1) \div length
             k == (u - 1) % length
  <2>1. j \in Nat /\ k \in Nat /\ k < length /\ u - 1 = length * j + k
    BY <1>1
  <2> HIDE DEF j, k
  <2>2. length * (j + 1) = length * j + length /\ length * j \in Nat
    BY <2>1
  <2>3. j < n
    <3> SUFFICES ASSUME n <= j PROVE FALSE
      BY <1>5, <2>1
    <3>1. length * n <= length * j
      BY <1>3, <1>5, <2>1
    <3>2. length * n \in Nat
      BY <1>3, <1>5
    <3> QED
      BY <1>1, <1>5, <2>1, <2>2, <3>1, <3>2
  <2> QED
    BY <1>5, <2>1, <2>2, <2>3
<1> QED
  BY <1>5, <1>6, <1>7 DEF n

\* What is hashed of a piece, of `length` units or what is left of the file.
LEMMA PieceUnits ==
    ASSUME NEW length \in Nat \ {0}, NEW j \in 0..NumPieces(length) - 1
    PROVE  \E last \in Nat :
             /\ last <= FileSize /\ last <= length * j + length
             /\ last = FileSize \/ last = length * j + length
             /\ \A c \in Contents :
                  PartialChecksum(c, length, j) = [i \in 1..(last - length * j) |-> c[length * j + i]]
<1> DEFINE bound == length * (j + 1)
           last == Min({FileSize, bound})
           at == length * j
<1>1. NumPieces(length) \in Nat /\ FileSize \in Nat /\ at \in Nat /\ at < FileSize
  BY PiecesCover, VerificationAssumption
<1>2. bound = at + length
  <2>1. j \in Nat
    BY <1>1
  <2> QED
    BY <2>1
<1>3. \A c : PartialChecksum(c, length, j) = SubSeq(c, at + 1, last)
  BY DEF PartialChecksum
<1> HIDE DEF at, bound
<1>4. last \in Nat /\ last <= FileSize /\ last <= at + length /\ (last = FileSize \/ last = at + length)
  BY <1>1, <1>2 DEF Min
<1> HIDE DEF last
<1>5. ASSUME NEW c \in Contents
      PROVE  SubSeq(c, at + 1, last) = [i \in 1..(last - at) |-> c[at + i]]
  <2>1. c \in Seq(BOOLEAN) /\ Len(c) = FileSize
    BY <1>1 DEF Contents
  <2> DEFINE s == SubSeq(c, at + 1, last)
  <2>2. s \in Seq(BOOLEAN) /\ Len(s) = last - at /\ \A i \in 1..(last - at) : s[i] = c[at + i]
    BY <1>1, <1>4, <2>1
  <2> HIDE DEF s
  <2>3. s = [i \in 1..(last - at) |-> s[i]]
    BY <2>2
  <2> QED
    BY <2>2, <2>3 DEF s
<1> QED
  BY <1>3, <1>4, <1>5 DEF at

\* The hash of a piece is another one if something in the piece is wrong.
LEMMA PieceDiffers ==
    ASSUME NEW c \in Contents, NEW length \in Nat \ {0}, NEW j \in 0..NumPieces(length) - 1
    PROVE  PartialChecksum(c, length, j) # PartialChecksum(Right, length, j)
             <=> \E u \in 1..FileSize : length * j < u /\ u <= length * j + length /\ ~c[u]
<1>1. PICK last \in Nat :
        /\ last <= FileSize /\ last <= length * j + length
        /\ last = FileSize \/ last = length * j + length
        /\ \A d \in Contents :
             PartialChecksum(d, length, j) = [i \in 1..(last - length * j) |-> d[length * j + i]]
  BY PieceUnits
<1> DEFINE at == length * j
<1>2. /\ at \in Nat /\ FileSize \in Nat /\ last <= FileSize /\ last <= at + length
      /\ last = FileSize \/ last = at + length
  BY <1>1, PiecesCover, VerificationAssumption
<1>3. /\ PartialChecksum(c, length, j) = [i \in 1..(last - at) |-> c[at + i]]
      /\ PartialChecksum(Right, length, j) = [i \in 1..(last - at) |-> Right[at + i]]
  BY <1>1 DEF Right, Contents
<1> HIDE DEF at
<1>4. \A i \in 1..(last - at) : at + i \in 1..FileSize /\ c[at + i] \in BOOLEAN /\ Right[at + i] = TRUE
  <2> TAKE i \in 1..(last - at)
  <2>1. at + i \in 1..FileSize
    BY <1>2
  <2> QED
    BY <2>1 DEF Contents, Right
<1>5. ASSUME NEW u \in 1..FileSize, at < u, u <= at + length, ~c[u]
      PROVE  [i \in 1..(last - at) |-> c[at + i]] # [i \in 1..(last - at) |-> Right[at + i]]
  <2>1. PICK k \in 1..(last - at) : at + k = u
    <3>1. u - at \in 1..(last - at) /\ at + (u - at) = u
      BY <1>2, <1>5
    <3> QED
      BY <3>1
  <2>2. [i \in 1..(last - at) |-> c[at + i]][k] = c[u] /\ [i \in 1..(last - at) |-> Right[at + i]][k] = TRUE
    BY <1>4, <2>1
  <2> QED
    BY <1>5, <2>2
<1>6. ASSUME [i \in 1..(last - at) |-> c[at + i]] # [i \in 1..(last - at) |-> Right[at + i]]
      PROVE  \E u \in 1..FileSize : at < u /\ u <= at + length /\ ~c[u]
  <2>1. PICK k \in 1..(last - at) : c[at + k] # Right[at + k]
    BY <1>6
  <2>2. at < at + k /\ at + k <= at + length
    BY <1>2
  <2> QED
    BY <1>4, <2>1, <2>2
<1> QED
  BY <1>3, <1>5, <1>6 DEF at

\* The search names the pieces that hold something wrong.
LEMMA SearchFinds ==
    ASSUME NEW c \in Contents, NEW r, r.of = c, r.length \in Nat,
           r.length # 0 => r.offsets = BrokenOffsets(c, r.length)
    PROVE  Found(r)
<1> DEFINE length == r.length
           Piece(o) == {u \in 1 .. FileSize : o < u /\ u <= o + length}
           wrong == {u \in 1 .. FileSize : ~c[u]}
           Differs(j) == PartialChecksum(c, length, j) # PartialChecksum(Right, length, j)
<1> SUFFICES ASSUME length # 0
             PROVE  /\ wrong \subseteq UNION {Piece(o) : o \in r.offsets}
                    /\ \A o \in r.offsets : Piece(o) \cap wrong # {}
  BY DEF Found
<1>1. /\ length \in Nat \ {0} /\ FileSize \in Nat /\ NumPieces(length) \in Nat
      /\ Right \in Contents /\ \A u \in 1..FileSize : Right[u] = TRUE
  BY PiecesCover, VerificationAssumption DEF Right, Contents
<1>2. ASSUME NEW j \in 0..NumPieces(length) - 1 PROVE ToInt(length * j) = length * j /\ length * j \in Nat
  <2>1. length * j \in Nat /\ length * j < FileSize
    BY <1>1, PiecesCover
  <2> DEFINE n == length * j
  <2>2. n \in Nat /\ n < IntHalf /\ IntHalf \in Nat \ {0}
    BY <2>1, VerificationAssumption
  <2> HIDE DEF n
  <2>3. (n + IntHalf) % (2 * IntHalf) = n + IntHalf
    BY <2>2
  <2>4. ToInt(n) = n
    BY <2>2, <2>3 DEF ToInt
  <2> QED
    BY <2>2, <2>4 DEF n
<1>3. /\ \A j \in 0..NumPieces(length) - 1 : Differs(j) => length * j \in r.offsets
      /\ \A o \in r.offsets : \E j \in 0..NumPieces(length) - 1 : Differs(j) /\ o = length * j
  <2>1. r.offsets = {ToInt(length * i) : i \in {j \in 0 .. NumPieces(length) - 1 : Differs(j)}}
    BY <1>1 DEF BrokenOffsets
  <2> HIDE DEF length, Differs
  <2> QED
    BY <1>2, <2>1
<1>4. ASSUME NEW j \in 0..NumPieces(length) - 1
      PROVE  Differs(j) <=> Piece(length * j) \cap wrong # {}
  BY <1>1, PieceDiffers
<1>5. ASSUME NEW u \in wrong PROVE \E o \in r.offsets : u \in Piece(o)
  <2>1. PICK j \in 0..NumPieces(length) - 1 : length * j < u /\ u <= length * (j + 1)
    BY <1>1, PiecesCover
  <2>2. length * (j + 1) = length * j + length
    <3>1. j \in Nat
      BY <1>1
    <3> QED
      BY <1>1, <3>1
  <2>3. u \in Piece(length * j)
    BY <2>1, <2>2
  <2> QED
    BY <1>3, <1>4, <2>3
<1>6. ASSUME NEW o \in r.offsets PROVE Piece(o) \cap wrong # {}
  <2>1. PICK j \in 0..NumPieces(length) - 1 : Differs(j) /\ o = length * j
    BY <1>3
  <2> QED
    BY <1>4, <2>1
<1> QED
  BY <1>5, <1>6

-----------------------------------------------------------------------------
(* The steps.                                                              *)

LEMMA VerifierInitOK ==
    ASSUME VerifierInit
    PROVE  VInv
<1>1. file \in Contents /\ pieceLength \in Nat
  BY VerificationAssumption DEF VerifierInit, Contents
<1>2. InStep
  <2>1. /\ DOMAIN lists = {"types", "sums", "files"} /\ DOMAIN verifying = {"at", "type", "sum"}
        /\ lists.types = <<>> /\ lists.sums = <<>> /\ lists.files = 0 /\ asked = <<>> /\ results = <<>>
        /\ verifying.at = "off" /\ broken.kind = "none"
    BY DEF VerifierInit, Idle
  <2>2. Working /\ ~Searching
    BY <2>1 DEF Working, Searching
  <2>3. Aligned
    BY <2>1, EmptyIsSeq DEF Aligned, Taken
  <2> QED
    BY <2>1, <2>2, <2>3, EmptyIsSeq DEF InStep
<1> QED
  BY <1>1, <1>2 DEF VInv

\* A request is appended to each of the lists.
LEMMA RequestOK ==
    ASSUME VInv, NEW row, Verify(row)
    PROVE  VInv'
<1> DEFINE type == IF row = 0 THEN "" ELSE table[row].type
           sum == IF row = 0 THEN NoSum ELSE table[row].sum
<1>1. /\ lists' = [types |-> Append(lists.types, type), sums |-> Append(lists.sums, sum),
                   files |-> lists.files + 1]
      /\ work' = "Verify" /\ verifying' = StartThread /\ asked' = Append(asked, <<type, sum>>)
      /\ UNCHANGED <<file, pieceLength, results, broken>>
      /\ "mixed" \in spoilt => "mixed" \in spoilt'
      /\ Running /\ work = "BrokenPieces" => "mixed" \in spoilt'
  BY DEF Verify, Request
<1> HIDE DEF type, sum
<1>2. SUFFICES ASSUME "mixed" \notin spoilt' PROVE InStep'
  BY <1>1 DEF VInv
<1>3. InStep /\ ~(Running /\ work = "BrokenPieces")
  BY <1>1, <1>2 DEF VInv
<1>4. ~Searching /\ Aligned
  BY <1>3 DEF Searching, Running, InStep
<1>5. /\ DOMAIN verifying' = {"at", "type", "sum"}
      /\ verifying'.at = (IF verifying.at = "off" THEN "begin" ELSE verifying.at)
      /\ verifying'.type = verifying.type /\ verifying'.sum = verifying.sum
  BY <1>1, <1>3 DEF InStep, StartThread, Running
<1>6. Working' /\ ~Searching'
  BY <1>1, <1>3, <1>5 DEF InStep, Working, Searching, Running
<1>7. Taken' = Taken /\ Taken \in {0, 1}
  BY <1>5 DEF Taken
<1>8. /\ lists'.types = Append(lists.types, type) /\ lists'.sums = Append(lists.sums, sum)
      /\ lists'.files = lists.files + 1 /\ DOMAIN lists' = {"types", "sums", "files"}
  BY <1>1
<1>9. IsSeq(lists.types) /\ IsSeq(lists.sums) /\ IsSeq(asked) /\ lists.files \in Nat
  BY <1>3 DEF InStep
<1>10. /\ IsSeq(lists'.types) /\ Len(lists'.types) = Len(lists.types) + 1
       /\ lists'.types[Len(lists.types) + 1] = type
       /\ \A i \in 1..Len(lists.types) : lists'.types[i] = lists.types[i]
  BY <1>8, <1>9, AppendIsSeq
<1>11. /\ IsSeq(lists'.sums) /\ Len(lists'.sums) = Len(lists.sums) + 1
       /\ lists'.sums[Len(lists.sums) + 1] = sum
       /\ \A i \in 1..Len(lists.sums) : lists'.sums[i] = lists.sums[i]
  BY <1>8, <1>9, AppendIsSeq
<1>12. /\ IsSeq(asked') /\ Len(asked') = Len(asked) + 1 /\ asked'[Len(asked) + 1] = <<type, sum>>
       /\ \A i \in 1..Len(asked) : asked'[i] = asked[i]
  BY <1>1, <1>9, AppendIsSeq
<1>13. Aligned'
  <2>1. /\ Len(lists'.types) = lists'.files /\ Len(lists'.sums) = lists'.files
        /\ Len(asked') = Taken' + lists'.files
    BY <1>4, <1>7, <1>8, <1>9, <1>10, <1>11, <1>12 DEF Aligned
  <2>2. verifying'.at = "hash" => asked'[1] = <<verifying'.type, verifying'.sum>>
    BY <1>4, <1>5, <1>9, <1>12 DEF Aligned, Taken
  <2>3. ASSUME NEW i \in 1..lists'.files
        PROVE  asked'[Taken' + i] = <<lists'.types[i], lists'.sums[i]>>
    <3>1. CASE i \in 1..lists.files
      <4>1. Taken + i \in 1..Len(asked)
        BY <1>4, <1>7, <1>9, <3>1 DEF Aligned
      <4>2. lists'.types[i] = lists.types[i] /\ lists'.sums[i] = lists.sums[i]
        BY <1>4, <1>10, <1>11, <3>1 DEF Aligned
      <4>3. asked[Taken + i] = <<lists.types[i], lists.sums[i]>>
        BY <1>4, <3>1 DEF Aligned
      <4>4. asked'[Taken + i] = asked[Taken + i]
        BY <1>12, <4>1
      <4>5. Taken' + i = Taken + i
        BY <1>7
      <4>6. asked'[Taken' + i] = <<lists.types[i], lists.sums[i]>>
        BY <4>3, <4>4, <4>5
      <4> QED
        BY <4>2, <4>6
    <3>2. CASE i = lists.files + 1
      <4>1. Taken + i = Len(asked) + 1
        BY <1>4, <1>7, <1>9, <3>2 DEF Aligned
      <4>2. lists'.types[i] = type /\ lists'.sums[i] = sum
        BY <1>4, <1>10, <1>11, <3>2 DEF Aligned
      <4> QED
        BY <1>7, <1>12, <4>1, <4>2
    <3>3. i \in 1..lists.files \/ i = lists.files + 1
      <4>1. lists'.files = lists.files + 1 /\ lists.files \in Nat
        BY <1>8, <1>9
      <4> QED
        BY <4>1
    <3> QED
      BY <3>1, <3>2, <3>3
  <2> QED
    BY <2>1, <2>2, <2>3 DEF Aligned
<1>14. lists'.files \in Nat /\ IsSeq(results')
  BY <1>1, <1>3, <1>8, <1>9 DEF InStep
<1>15. /\ \A i \in 1..Len(results') : results'[i].kind = "pieces" => Found(results'[i])
       /\ broken'.kind = "pieces" => Found(broken')
  BY <1>1, <1>3 DEF InStep
<1> QED
  BY <1>5, <1>6, <1>8, <1>10, <1>11, <1>12, <1>13, <1>14, <1>15 DEF InStep

\* A search replaces what is in the lists; if nothing is mixed they are empty.
LEMMA SearchOK ==
    ASSUME VInv, FindBrokenPieces
    PROVE  VInv'
<1> DEFINE n == IF pieceLength = 0 THEN 0 ELSE NumPieces(pieceLength)
           sums == [i \in 1 .. n |-> HashOf(AvailablePartialChecksum, PartialChecksum(Right, pieceLength, i - 1))]
           type == AvailablePartialChecksum
<1>1. /\ lists' = [types |-> <<type>>, sums |-> sums, files |-> 1]
      /\ work' = "BrokenPieces" /\ verifying' = StartThread
      /\ UNCHANGED <<file, pieceLength, results, asked, broken>>
      /\ spoilt \subseteq spoilt'
      /\ Running \/ lists.files > 0 => "mixed" \in spoilt'
  BY DEF FindBrokenPieces
<1>2. SUFFICES ASSUME "mixed" \notin spoilt' PROVE InStep'
  BY <1>1 DEF VInv
<1>3. InStep /\ ~Running /\ lists.files = 0
  BY <1>1, <1>2 DEF VInv, InStep
<1>4. Aligned /\ asked = <<>>
  <2>1. Aligned /\ Taken = 0
    BY <1>3 DEF InStep, Searching, Running, Taken
  <2>2. Len(asked) = 0 /\ asked \in Seq(Range(asked))
    BY <1>3, <2>1 DEF Aligned, InStep, IsSeq
  <2> QED
    BY <2>1, <2>2
<1>5. DOMAIN verifying' = {"at", "type", "sum"} /\ verifying'.at = "begin"
  BY <1>1, <1>3 DEF InStep, StartThread, Running
<1>6. n \in Nat
  BY PiecesCover DEF VInv
<1>7. IsSeq(sums) /\ Len(sums) = n
  <2>1. DOMAIN sums = 1..n /\ sums = [i \in 1..n |-> sums[i]]
    OBVIOUS
  <2> HIDE DEF sums, n
  <2> QED
    BY <1>6, <2>1, FunctionIsSeq
<1>8. IsSeq(<<type>>) /\ Len(<<type>>) = 1
  <2> HIDE DEF type
  <2>1. <<type>> \in Seq({type})
    OBVIOUS
  <2> QED
    BY <2>1, SeqIsSeq
<1>9. /\ DOMAIN lists' = {"types", "sums", "files"} /\ lists'.files = 1
      /\ IsSeq(lists'.types) /\ IsSeq(lists'.sums) /\ Len(lists'.types) = 1 /\ Len(lists'.sums) = n
  <2> HIDE DEF sums, type, n
  <2> QED
    BY <1>1, <1>7, <1>8
<1>10. Searching' /\ SearchReady'
  BY <1>1, <1>4, <1>5, <1>9 DEF Searching, SearchReady
<1>11. Working'
  BY <1>1, <1>5 DEF Working
<1> HIDE DEF sums, type, n
<1> QED
  BY <1>1, <1>3, <1>5, <1>9, <1>10, <1>11 DEF InStep

\* What is edited in the table touches nothing of this; the file is what a search
\* that comes later looks at.
LEMMA EditsOK ==
    ASSUME VInv, UNCHANGED <<pieceLength, work, lists, verifying, results, asked, broken, spoilt>>,
           file' \in Contents
    PROVE  VInv'
<1>1. InStep => InStep'
  <2>1. (IF Searching THEN SearchReady ELSE Aligned) => (IF Searching THEN SearchReady ELSE Aligned)'
    BY DEF Searching, SearchReady, Aligned, Taken
  <2> QED
    BY <2>1 DEF InStep, Working
<1> QED
  BY <1>1 DEF VInv

\* The GUI thread takes an answer.
LEMMA ChangeStatusOK ==
    ASSUME VInv, ChangeStatus
    PROVE  VInv'
<1>1. /\ results # <<>> /\ results' = Tail(results)
      /\ UNCHANGED <<file, pieceLength, work, lists, verifying, asked, spoilt>>
      /\ broken' = broken \/ broken' = Head(results)
  BY DEF ChangeStatus
<1>2. SUFFICES ASSUME "mixed" \notin spoilt' PROVE InStep'
  BY <1>1 DEF VInv
<1>3. InStep
  BY <1>1, <1>2 DEF VInv
<1>4. /\ IsSeq(results') /\ Len(results') = Len(results) - 1 /\ Len(results) \in Nat \ {0}
      /\ Head(results) = results[1] /\ \A i \in 1..Len(results) - 1 : results'[i] = results[i + 1]
  BY <1>1, <1>3, TailIsSeq DEF InStep
<1>5. \A i \in 1..Len(results') : results'[i].kind = "pieces" => Found(results'[i])
  <2> TAKE i \in 1..Len(results')
  <2>1. i + 1 \in 1..Len(results) /\ results'[i] = results[i + 1]
    BY <1>4
  <2> QED
    BY <1>3, <2>1 DEF InStep
<1>6. broken'.kind = "pieces" => Found(broken')
  BY <1>1, <1>3, <1>4 DEF InStep
<1>7. Working' /\ (IF Searching THEN SearchReady ELSE Aligned)'
  BY <1>1, <1>3 DEF InStep, Searching, SearchReady, Aligned, Taken, Working
<1> QED
  BY <1>1, <1>3, <1>4, <1>5, <1>6, <1>7 DEF InStep

\* The program ends, with all that was asked.
LEMMA RestartOK ==
    ASSUME VInv, Restart
    PROVE  VInv'
<1>1. /\ work' = "Nothing" /\ verifying' = Idle /\ results' = <<>> /\ asked' = <<>>
      /\ lists' = [types |-> <<>>, sums |-> <<>>, files |-> 0]
      /\ ("mixed" \in spoilt' <=> "mixed" \in spoilt) /\ UNCHANGED <<file, pieceLength, broken>>
  BY DEF Restart
<1>2. /\ DOMAIN lists' = {"types", "sums", "files"} /\ DOMAIN verifying' = {"at", "type", "sum"}
      /\ lists'.types = <<>> /\ lists'.sums = <<>> /\ lists'.files = 0 /\ verifying'.at = "off"
  BY <1>1 DEF Idle
<1>3. Working' /\ ~Searching' /\ Aligned'
  BY <1>1, <1>2, EmptyIsSeq DEF Working, Searching, Aligned, Taken
<1>4. "mixed" \notin spoilt' => (broken'.kind = "pieces" => Found(broken'))
  BY <1>1 DEF VInv, InStep
<1>5. "mixed" \notin spoilt' => InStep'
  BY <1>1, <1>2, <1>3, <1>4, EmptyIsSeq DEF InStep
<1> QED
  BY <1>1, <1>5 DEF VInv

\* The thread begins and ends.
LEMMA RunOK ==
    ASSUME VInv, Run \/ End
    PROVE  VInv'
<1>1. UNCHANGED <<file, pieceLength, work, lists, results, asked, broken, spoilt>>
  BY DEF Run, End, Unread
<1>2. SUFFICES ASSUME "mixed" \notin spoilt' PROVE InStep'
  BY <1>1 DEF VInv
<1>3. InStep
  BY <1>1, <1>2 DEF VInv
<1>4. /\ DOMAIN verifying' = {"at", "type", "sum"}
      /\ \/ /\ verifying.at = "begin" /\ work = "Verify" /\ verifying'.at = "take"
         \/ /\ verifying.at = "begin" /\ work = "BrokenPieces" /\ verifying'.at = "pieces"
         \/ /\ verifying.at = "end" /\ verifying'.at = "off"
  BY <1>3 DEF Run, End, At, Goes, InStep, Working
<1>5. Working'
  BY <1>1, <1>4 DEF Working
<1>6. (IF Searching THEN SearchReady ELSE Aligned)'
  <2>1. verifying.at # "hash" /\ verifying'.at # "hash" /\ Searching' = Searching
    BY <1>1, <1>4 DEF Searching
  <2> QED
    BY <1>1, <1>3, <2>1 DEF InStep, Searching, SearchReady, Aligned, Taken
<1>7. /\ \A i \in 1..Len(results') : results'[i].kind = "pieces" => Found(results'[i])
      /\ broken'.kind = "pieces" => Found(broken')
  BY <1>1, <1>3 DEF InStep
<1> QED
  BY <1>1, <1>3, <1>4, <1>5, <1>6, <1>7 DEF InStep

\* doVerify takes the next request from each of the lists.
LEMMA TakeFirstOK ==
    ASSUME VInv, TakeFirst
    PROVE  VInv'
<1>1. /\ UNCHANGED <<file, pieceLength, work, results, broken, spoilt>>
      /\ verifying.at = "take"
  BY DEF TakeFirst, Unread, At
<1>2. SUFFICES ASSUME "mixed" \notin spoilt' PROVE InStep'
  BY <1>1 DEF VInv
<1>3. InStep /\ work = "Verify"
  BY <1>1, <1>2 DEF VInv, InStep, Working
<1>4. ~Searching /\ ~Searching' /\ Aligned /\ Taken = 0
  BY <1>1, <1>3 DEF Searching, InStep, Taken
<1>5. IsSeq(lists.types) /\ IsSeq(lists.sums) /\ IsSeq(asked) /\ lists.files \in Nat
  BY <1>3 DEF InStep
<1>6. /\ Len(lists.types) = lists.files /\ Len(lists.sums) = lists.files /\ Len(asked) = lists.files
      /\ \A i \in 1..lists.files : asked[i] = <<lists.types[i], lists.sums[i]>>
  BY <1>4, <1>5 DEF Aligned
<1>7. (lists.types = <<>> \/ lists.sums = <<>>) => lists.files = 0
  BY <1>6
<1>8. /\ \A i \in 1..Len(results') : results'[i].kind = "pieces" => Found(results'[i])
      /\ broken'.kind = "pieces" => Found(broken')
      /\ IsSeq(results')
  BY <1>1, <1>3 DEF InStep
<1>9. CASE lists.types = <<>> \/ lists.sums = <<>>
  <2>1. verifying' = [verifying EXCEPT !.at = "end"] /\ lists' = lists /\ asked' = asked
    BY <1>7, <1>9 DEF TakeFirst, Goes
  <2>2. DOMAIN verifying' = {"at", "type", "sum"} /\ verifying'.at = "end"
    BY <1>3, <2>1 DEF InStep
  <2>3. Working'
    BY <2>2 DEF Working
  <2>4. Aligned'
    BY <1>4, <1>6, <2>1, <2>2 DEF Aligned, Taken
  <2> QED
    BY <1>3, <1>4, <1>5, <1>8, <2>1, <2>2, <2>3, <2>4 DEF InStep
<1>10. CASE ~(lists.types = <<>> \/ lists.sums = <<>>)
  <2> DEFINE type == Head(lists.types)
             sum == Head(lists.sums)
             empty == type = "" \/ sum = NoSum
  <2>1. /\ lists' = [types |-> Tail(lists.types), sums |-> Tail(lists.sums), files |-> lists.files - 1]
        /\ verifying' = IF empty THEN [verifying EXCEPT !.at = IF lists.files > 1 THEN "take" ELSE "end"]
                        ELSE [at |-> "hash", type |-> type, sum |-> sum]
        /\ asked' = IF empty /\ asked # <<>> THEN Tail(asked) ELSE asked
    BY <1>10 DEF TakeFirst
  <2>2. /\ lists'.types = Tail(lists.types) /\ lists'.sums = Tail(lists.sums)
        /\ lists'.files = lists.files - 1 /\ DOMAIN lists' = {"types", "sums", "files"}
    BY <2>1
  <2>3. /\ IsSeq(lists'.types) /\ Len(lists'.types) = lists.files - 1 /\ lists.files \in Nat \ {0}
        /\ type = lists.types[1] /\ \A i \in 1..lists.files - 1 : lists'.types[i] = lists.types[i + 1]
    BY <1>5, <1>6, <1>10, <2>2, TailIsSeq
  <2>4. /\ IsSeq(lists'.sums) /\ Len(lists'.sums) = lists.files - 1
        /\ sum = lists.sums[1] /\ \A i \in 1..lists.files - 1 : lists'.sums[i] = lists.sums[i + 1]
    BY <1>5, <1>6, <1>10, <2>2, TailIsSeq
  <2>5. asked # <<>> /\ asked[1] = <<type, sum>>
    BY <1>6, <2>3, <2>4, EmptyIsSeq
  <2> HIDE DEF type, sum
  <2>6. CASE empty
    <3>1. DOMAIN verifying' = {"at", "type", "sum"} /\ verifying'.at \in {"take", "end"}
      BY <1>3, <2>1, <2>6 DEF InStep
    <3>2. /\ IsSeq(asked') /\ Len(asked') = lists.files - 1
          /\ \A i \in 1..lists.files - 1 : asked'[i] = asked[i + 1]
      BY <1>5, <1>6, <2>1, <2>5, <2>6, TailIsSeq
    <3>3. Working'
      BY <1>1, <1>3, <3>1 DEF Working
    <3>4. Taken' = 0
      BY <3>1 DEF Taken
    <3>5. ASSUME NEW i \in 1..lists'.files
          PROVE  asked'[Taken' + i] = <<lists'.types[i], lists'.sums[i]>>
      <4>1. i \in 1..lists.files - 1 /\ i + 1 \in 1..lists.files /\ Taken' + i = i
        BY <2>2, <2>3, <3>4
      <4>2. asked[i + 1] = <<lists.types[i + 1], lists.sums[i + 1]>>
        BY <1>6, <4>1
      <4> QED
        BY <2>3, <2>4, <3>2, <4>1, <4>2
    <3>6. Aligned'
      <4>1. Len(lists'.types) = lists'.files /\ Len(lists'.sums) = lists'.files
        BY <2>2, <2>3, <2>4
      <4>2. Len(asked') = Taken' + lists'.files
        BY <2>2, <2>3, <3>2, <3>4
      <4> QED
        BY <3>1, <3>5, <4>1, <4>2 DEF Aligned
    <3>7. lists'.files \in Nat
      BY <2>2, <2>3
    <3> QED
      BY <1>4, <1>8, <2>2, <2>3, <2>4, <3>1, <3>2, <3>3, <3>6, <3>7 DEF InStep
  <2>7. CASE ~empty
    <3>1. /\ DOMAIN verifying' = {"at", "type", "sum"} /\ verifying'.at = "hash"
          /\ verifying'.type = type /\ verifying'.sum = sum /\ asked' = asked
      BY <2>1, <2>7
    <3>2. Working'
      BY <1>1, <1>3, <3>1 DEF Working
    <3>3. Taken' = 1
      BY <3>1 DEF Taken
    <3>4. ASSUME NEW i \in 1..lists'.files
          PROVE  asked'[Taken' + i] = <<lists'.types[i], lists'.sums[i]>>
      <4>1. i \in 1..lists.files - 1 /\ i + 1 \in 1..lists.files /\ Taken' + i = i + 1
        BY <2>2, <2>3, <3>3
      <4>2. asked[i + 1] = <<lists.types[i + 1], lists.sums[i + 1]>>
        BY <1>6, <4>1
      <4> QED
        BY <2>3, <2>4, <3>1, <4>1, <4>2
    <3>5. Aligned'
      <4>1. Len(lists'.types) = lists'.files /\ Len(lists'.sums) = lists'.files
        BY <2>2, <2>3, <2>4
      <4>2. Len(asked') = Taken' + lists'.files
        BY <1>6, <2>2, <2>3, <3>1, <3>3
      <4>3. asked'[1] = <<verifying'.type, verifying'.sum>>
        BY <2>5, <3>1
      <4> QED
        BY <3>4, <4>1, <4>2, <4>3 DEF Aligned
    <3>6. lists'.files \in Nat
      BY <2>2, <2>3
    <3> QED
      BY <1>4, <1>5, <1>8, <2>2, <2>3, <2>4, <3>1, <3>2, <3>5, <3>6 DEF InStep
  <2> QED
    BY <2>6, <2>7
<1> QED
  BY <1>9, <1>10

\* The hash is compared and the result on its way.
LEMMA HashIsOK ==
    ASSUME VInv, Hash
    PROVE  VInv'
<1> DEFINE r == [kind |-> "verified", type |-> verifying.type, ok |-> verifying.sum = HashOf(verifying.type, file)]
<1>1. /\ UNCHANGED <<file, pieceLength, work, lists, broken, spoilt>>
      /\ verifying.at = "hash" /\ results' = Append(results, r)
      /\ asked' = IF asked = <<>> THEN asked ELSE Tail(asked)
      /\ verifying' = [Idle EXCEPT !.at = IF lists.files > 0 THEN "take" ELSE "end"]
  BY DEF Hash, Unread, At
<1>2. r.kind = "verified"
  OBVIOUS
<1> HIDE DEF r
<1>3. SUFFICES ASSUME "mixed" \notin spoilt' PROVE InStep'
  BY <1>1 DEF VInv
<1>4. InStep /\ work = "Verify" /\ Taken = 1
  BY <1>1, <1>3 DEF VInv, InStep, Working, Taken
<1>5. ~Searching /\ ~Searching' /\ Aligned
  BY <1>1, <1>4 DEF Searching, InStep
<1>6. IsSeq(asked) /\ IsSeq(results) /\ lists.files \in Nat
  BY <1>4 DEF InStep
<1>7. Len(asked) = lists.files + 1 /\ asked # <<>>
  BY <1>4, <1>5, <1>6, EmptyIsSeq DEF Aligned
<1>8. IsSeq(asked') /\ Len(asked') = lists.files /\ \A i \in 1..lists.files : asked'[i] = asked[i + 1]
  BY <1>1, <1>6, <1>7, TailIsSeq
<1>9. DOMAIN verifying' = {"at", "type", "sum"} /\ verifying'.at \in {"take", "end"}
  BY <1>1 DEF Idle
<1>10. Working' /\ Taken' = 0
  BY <1>1, <1>4, <1>9 DEF Working, Taken
<1>11. ASSUME NEW i \in 1..lists.files PROVE asked'[Taken' + i] = <<lists.types[i], lists.sums[i]>>
  <2>1. asked'[Taken' + i] = asked[i + 1] /\ asked[Taken + i] = asked[i + 1]
    BY <1>4, <1>6, <1>8, <1>10
  <2> QED
    BY <1>5, <2>1 DEF Aligned
<1>12. Aligned'
  <2>1. lists' = lists /\ verifying'.at # "hash"
    BY <1>1, <1>9
  <2>2. Len(lists'.types) = lists'.files /\ Len(lists'.sums) = lists'.files
    BY <1>5, <2>1 DEF Aligned
  <2>3. Len(asked') = Taken' + lists'.files
    BY <1>6, <1>8, <1>10, <2>1
  <2>4. \A i \in 1..lists'.files : asked'[Taken' + i] = <<lists'.types[i], lists'.sums[i]>>
    BY <1>11, <2>1
  <2> QED
    BY <2>1, <2>2, <2>3, <2>4 DEF Aligned
<1>13. /\ IsSeq(results') /\ Len(results') = Len(results) + 1 /\ Len(results) \in Nat
       /\ results'[Len(results) + 1] = r /\ \A i \in 1..Len(results) : results'[i] = results[i]
  BY <1>1, <1>6, AppendIsSeq
<1>14. \A i \in 1..Len(results') : results'[i].kind = "pieces" => Found(results'[i])
  <2> TAKE i \in 1..Len(results')
  <2>1. i \in 1..Len(results) \/ i = Len(results) + 1
    BY <1>13
  <2> QED
    BY <1>2, <1>4, <1>13, <2>1 DEF InStep
<1> QED
  BY <1>1, <1>4, <1>5, <1>6, <1>8, <1>9, <1>10, <1>12, <1>13, <1>14 DEF InStep

\* doBrokenPieces looks at the file, and its result is on its way.
LEMMA DoBrokenPiecesOK ==
    ASSUME VInv, DoBrokenPieces
    PROVE  VInv'
<1> DEFINE r == [kind |-> "pieces", length |-> pieceLength, of |-> file,
                 offsets |-> IF pieceLength # 0 /\ Len(lists.sums) = NumPieces(pieceLength)
                             THEN BrokenOffsets(file, pieceLength) ELSE {}]
<1>1. UNCHANGED <<file, pieceLength, work, asked, broken, spoilt>> /\ verifying.at = "pieces"
  BY DEF DoBrokenPieces, Unread, At
<1>2. SUFFICES ASSUME "mixed" \notin spoilt' PROVE InStep'
  BY <1>1 DEF VInv
<1>3. InStep /\ work = "BrokenPieces" /\ Searching /\ SearchReady
  BY <1>1, <1>2 DEF VInv, InStep, Working, Searching
<1>4. IsSeq(lists.types) /\ lists.types # <<>> /\ lists.files = 1
  BY <1>3, EmptyIsSeq DEF InStep, SearchReady
<1>5. /\ lists' = [types |-> Tail(lists.types), sums |-> <<>>, files |-> lists.files - 1]
      /\ results' = Append(results, r)
      /\ verifying' = [verifying EXCEPT !.at = "end"]
  BY <1>4 DEF DoBrokenPieces, Goes
<1>6. Found(r)
  <2>1. r.of = file /\ r.length = pieceLength /\ file \in Contents /\ pieceLength \in Nat
    BY DEF VInv
  <2>2. r.length # 0 => r.offsets = BrokenOffsets(file, r.length)
    BY <1>3 DEF SearchReady
  <2> HIDE DEF r
  <2> QED
    BY <2>1, <2>2, SearchFinds
<1> HIDE DEF r
<1>7. /\ IsSeq(results') /\ Len(results') = Len(results) + 1 /\ Len(results) \in Nat
      /\ results'[Len(results) + 1] = r /\ \A i \in 1..Len(results) : results'[i] = results[i]
  BY <1>3, <1>5, AppendIsSeq DEF InStep
<1>8. \A i \in 1..Len(results') : results'[i].kind = "pieces" => Found(results'[i])
  <2> TAKE i \in 1..Len(results')
  <2>1. i \in 1..Len(results) \/ i = Len(results) + 1
    BY <1>7
  <2> QED
    BY <1>3, <1>6, <1>7, <2>1 DEF InStep
<1>9. DOMAIN verifying' = {"at", "type", "sum"} /\ verifying'.at = "end"
  BY <1>3, <1>5 DEF InStep
<1>10. Working' /\ ~Searching' /\ Taken' = 0
  BY <1>9 DEF Working, Searching, Taken
<1>11. /\ DOMAIN lists' = {"types", "sums", "files"} /\ lists'.files = 0 /\ lists'.sums = <<>>
       /\ lists'.types = Tail(lists.types)
  BY <1>4, <1>5
<1>12. IsSeq(lists'.types) /\ Len(lists'.types) = 0
  BY <1>3, <1>4, <1>11, TailIsSeq DEF SearchReady
<1>13. Aligned'
  BY <1>1, <1>3, <1>9, <1>10, <1>11, <1>12, EmptyIsSeq DEF Aligned, SearchReady
<1> QED
  BY <1>1, <1>3, <1>7, <1>8, <1>9, <1>10, <1>11, <1>12, <1>13, EmptyIsSeq DEF InStep

LEMMA VerifierNextOK ==
    ASSUME VInv, [VerifierNext]_verifierVars
    PROVE  VInv'
<1>1. CASE VerificationThread
  BY <1>1, RunOK, TakeFirstOK, HashIsOK, DoBrokenPiecesOK DEF VerificationThread
<1>2. CASE VerifyAvailable \/ VerifyRow
  BY <1>2, RequestOK DEF VerifyAvailable, VerifyRow
<1>3. CASE ChangeStatus \/ FindBrokenPieces \/ Restart
  BY <1>3, ChangeStatusOK, SearchOK, RestartOK
<1>4. CASE \/ \E t \in Types : \E s \in Entered(t) : AddChecksum(t, s)
           \/ \E i \in DOMAIN table, t \in Types : \E s \in Entered(t) \cup {table[i].sum} : SetData(i, t, s)
           \/ \E i \in DOMAIN table : RemoveRow(i)
           \/ \E c \in Contents : FileChanges(c)
  <2>1. UNCHANGED <<pieceLength, work, lists, verifying, results, asked, broken, spoilt>>
    BY <1>4 DEF AddChecksum, SetData, RemoveRow, FileChanges
  <2>2. file' \in Contents
    BY <1>4 DEF AddChecksum, SetData, RemoveRow, FileChanges, VInv
  <2> QED
    BY <2>1, <2>2, EditsOK
<1>5. CASE UNCHANGED verifierVars
  BY <1>5, EditsOK DEF verifierVars, VInv
<1> QED
  BY <1>1, <1>2, <1>3, <1>4, <1>5 DEF VerifierNext

\* Each answer is of the request it is taken for, and a search finds what is broken,
\* for every file, length of the pieces and number of requests and edits, as long as
\* no search overlaps a request (VerificationThread::verify, run).
THEOREM VerifierIsRight == VerifierSpec => []VerifierFits
<1>1. VerifierInit => VInv
  BY VerifierInitOK
<1>2. VInv /\ [VerifierNext]_verifierVars => VInv'
  BY VerifierNextOK
<1>3. VInv => AnswersMatchRequests
  <2> SUFFICES ASSUME VInv, "mixed" \notin spoilt
               PROVE  /\ verifying.at = "hash" => asked # <<>> /\ Head(asked) = <<verifying.type, verifying.sum>>
                      /\ verifying.at # "undefined"
    BY DEF AnswersMatchRequests, At
  <2>1. InStep
    BY DEF VInv
  <2>2. ASSUME verifying.at = "hash" PROVE asked # <<>> /\ Head(asked) = <<verifying.type, verifying.sum>>
    <3>1. Aligned /\ Taken = 1 /\ IsSeq(asked) /\ lists.files \in Nat
      BY <2>1, <2>2 DEF InStep, Searching, Taken
    <3>2. asked # <<>> /\ asked[1] = <<verifying.type, verifying.sum>>
      BY <2>2, <3>1, EmptyIsSeq DEF Aligned
    <3> QED
      BY <3>1, <3>2, TailIsSeq
  <2> QED
    BY <2>1, <2>2 DEF InStep, Working
<1>4. VInv => BrokenPiecesAreFound
  BY DEF VInv, InStep, Found, BrokenPiecesAreFound
<1> QED
  BY <1>1, <1>2, <1>3, <1>4, PTL DEF VerifierSpec, VerifierFits

-----------------------------------------------------------------------------
(* Keys: while a key is fetched somebody waits for it, so that whoever asks*)
(* for it joins them.                                                      *)

KInv ==
  /\ \A f \in {downloading, triedMirrors, keyJobs} : DOMAIN f = FingerprintKeys
  /\ answer \in [ToSet(KeyServers) -> [FingerprintKeys -> Answers]]
  /\ \A k \in FingerprintKeys :
       keyJobs[k] # "none" => downloading[k] # {} /\ keyJobs[k] \in ToSet(KeyServers)

\* OneDownloadPerKey of a step and one key.
FetchesOn(k) ==
  keyJobs[k] # "none" /\ keyJobs'[k] # keyJobs[k] /\ keyJobs'[k] # "none"
    => keyJobs'[k] \notin triedMirrors[k] /\ answer[keyJobs[k]][k] = "nothing"

KStep == KInv' /\ \A k \in FingerprintKeys : FetchesOn(k)

\* A set of natural numbers that is not empty has a least one.
LEMMA MinOfNaturals ==
    ASSUME NEW S, S \subseteq Nat, S # {}
    PROVE  Min(S) \in S
<1>1. PICK m \in S : \A i \in S : <<i, m>> \notin OpToRel(<, Nat)
  BY WFMin, NatLessThanWellFounded, Zenon
<1>2. \A i \in S : ~(i < m)
  BY <1>1 DEF OpToRel
<1>3. \A i \in S : m <= i
  BY <1>2
<1> QED
  BY <1>3 DEF Min

LEMMA ServersInOrder ==
    /\ \A i \in DOMAIN KeyServers : i \in Nat /\ KeyServers[i] \in ToSet(KeyServers)
    /\ KeyServers # <<>> => KeyServers[1] \in ToSet(KeyServers)
<1>1. KeyServers \in Seq(ToSet(KeyServers))
  BY KeysAssumption
<1>2. DOMAIN KeyServers = 1..Len(KeyServers) /\ Len(KeyServers) \in Nat
  BY <1>1
<1>3. KeyServers # <<>> => 1 \in DOMAIN KeyServers
  BY <1>1, <1>2
<1> QED
  BY <1>2, <1>3 DEF ToSet

\* The next server is one that was not tried.
LEMMA NextIsUntried ==
    ASSUME NEW k, Untried(k) # {}
    PROVE  NextMirror(k) \in ToSet(KeyServers) /\ NextMirror(k) \notin triedMirrors[k]
<1>1. Untried(k) \subseteq Nat
  BY ServersInOrder DEF Untried
<1>2. Min(Untried(k)) \in Untried(k)
  BY <1>1, MinOfNaturals
<1> QED
  BY <1>2, ServersInOrder DEF Untried, NextMirror

LEMMA KeysInitOK == KeysInit => KInv
  BY KeysAssumption DEF KeysInit, KInv

LEMMA DownloadKeyOK ==
    ASSUME KInv, NEW k, NEW s, DownloadKey(k, s), UNCHANGED answer
    PROVE  KStep
<1>1. CASE downloading[k] # {}
  BY <1>1 DEF DownloadKey, KInv, KStep, FetchesOn
<1>2. CASE downloading[k] = {} /\ KeyServers = <<>>
  BY <1>2 DEF DownloadKey, jobVars, KInv, KStep, FetchesOn
<1>3. CASE downloading[k] = {} /\ KeyServers # <<>>
  <2>1. PICK first, tried :
          /\ first \in ToSet(KeyServers)
          /\ downloading' = [downloading EXCEPT ![k] = {s}]
          /\ keyJobs' = [keyJobs EXCEPT ![k] = first]
          /\ triedMirrors' = [triedMirrors EXCEPT ![k] = tried]
    BY <1>3, ServersInOrder DEF DownloadKey
  <2>2. k \in FingerprintKeys => keyJobs[k] = "none"
    BY <1>3 DEF KInv
  <2>3. \A j \in FingerprintKeys : j # k => keyJobs'[j] = keyJobs[j] /\ downloading'[j] = downloading[j]
    BY <2>1 DEF KInv
  <2>4. k \in FingerprintKeys => keyJobs'[k] \in ToSet(KeyServers) /\ downloading'[k] # {}
    BY <2>1 DEF KInv
  <2>5. \A f \in {downloading, triedMirrors, keyJobs}' : DOMAIN f = FingerprintKeys
    BY <2>1 DEF KInv
  <2>6. KInv'
    BY <2>3, <2>4, <2>5 DEF KInv
  <2> QED
    BY <2>2, <2>3, <2>6 DEF KStep, FetchesOn
<1> QED
  BY <1>1, <1>2, <1>3

LEMMA SlotDownloadedOK ==
    ASSUME KInv, NEW k \in FingerprintKeys, SlotDownloaded(k)
    PROVE  KStep
<1>1. keyJobs[k] # "none" /\ keyJobs[k] \in ToSet(KeyServers) /\ UNCHANGED answer
  BY DEF SlotDownloaded, KInv
<1>2. answer[keyJobs[k]][k] \in Answers
  BY <1>1 DEF KInv
<1>3. CASE answer[keyJobs[k]][k] = "nothing"
  <2>1. MirrorFailed(k) /\ UNCHANGED downloading
    BY <1>3 DEF SlotDownloaded
  <2>2. CASE Untried(k) = {}
    BY <1>1, <2>1, <2>2 DEF MirrorFailed, KInv, KStep, FetchesOn
  <2>3. CASE Untried(k) # {}
    <3>1. keyJobs' = [keyJobs EXCEPT ![k] = NextMirror(k)]
      BY <2>1, <2>3 DEF MirrorFailed
    <3>2. \E tried : triedMirrors' = [triedMirrors EXCEPT ![k] = tried]
      BY <2>1, <2>3 DEF MirrorFailed
    <3>3. NextMirror(k) \in ToSet(KeyServers) /\ NextMirror(k) \notin triedMirrors[k]
      BY <2>3, NextIsUntried
    <3> HIDE DEF NextMirror
    <3> QED
      BY <1>1, <1>3, <2>1, <3>1, <3>2, <3>3 DEF KInv, KStep, FetchesOn
  <2> QED
    BY <2>2, <2>3
<1>4. CASE answer[keyJobs[k]][k] # "nothing"
  <2>1. keyJobs' = [keyJobs EXCEPT ![k] = "none"] /\ UNCHANGED triedMirrors
    BY <1>2, <1>4 DEF SlotDownloaded, Answers, ImportFailed, KeyImported
  <2>2. \E rest : downloading' \in {downloading, [downloading EXCEPT ![k] = rest]}
    BY <1>2, <1>4 DEF SlotDownloaded, Answers, ImportFailed, KeyImported
  <2> QED
    BY <1>1, <2>1, <2>2 DEF KInv, KStep, FetchesOn
<1> QED
  BY <1>3, <1>4

LEMMA KeysNextOK ==
    ASSUME KInv, [KeysNext]_keyVars
    PROVE  KStep
<1>1. CASE UNCHANGED <<answer, jobVars>>
  BY <1>1 DEF jobVars, KInv, KStep, FetchesOn
<1>2. CASE \E s \in Sigs : SignatureThread(s) \/ VerifySignature(s)
  BY <1>1, <1>2 DEF SignatureThread, VerifySignature
<1>3. CASE \E s \in Sigs : DownloadKeyCommand(s)
  BY <1>3, DownloadKeyOK DEF DownloadKeyCommand
<1>4. CASE \E s \in Sigs, automatic \in BOOLEAN : SlotVerified(s, automatic)
  <2>1. PICK s \in Sigs, automatic \in BOOLEAN : SlotVerified(s, automatic)
    BY <1>4
  <2>2. UNCHANGED answer /\ (UNCHANGED jobVars \/ DownloadKey(Head(found[s]).key, s))
    BY <2>1 DEF SlotVerified
  <2> QED
    BY <1>1, <2>2, DownloadKeyOK
<1>8. CASE \E download \in BOOLEAN : QuestionAnswered(download)
  <2>1. /\ UNCHANGED answer
        /\ UNCHANGED jobVars \/ DownloadKey(fingerprint[Last(questions)], Last(questions))
    BY <1>8 DEF QuestionAnswered
  <2> QED
    BY <1>1, <2>1, DownloadKeyOK
<1>5. CASE \E s \in Sigs, d \in SignatureData : SetSignature(s, d)
  BY <1>1, <1>5 DEF SetSignature
<1>6. CASE \E k \in FingerprintKeys : SlotDownloaded(k) \/ KeyDeleted(k)
  BY <1>1, <1>6, SlotDownloadedOK DEF KeyDeleted
<1>7. CASE UNCHANGED keyVars
  BY <1>1, <1>7 DEF keyVars
<1> QED
  BY <1>2, <1>3, <1>4, <1>5, <1>6, <1>7, <1>8 DEF KeysNext

\* Whatever the servers answer and however many signatures want a key, it is fetched
\* from one server at a time, and from none that had nothing (downloadKey).
THEOREM KeysAreFetchedOnce == KeysSpec => OneDownloadPerKey
<1>1. KeysInit => KInv
  BY KeysInitOK
<1>2. KInv /\ [KeysNext]_keyVars => KStep
  BY KeysNextOK
<1>3. KStep => KInv' /\ [\A k \in FingerprintKeys : FetchesOn(k)]_keyVars
  BY DEF KStep
<1>4. KeysSpec => [][\A k \in FingerprintKeys : FetchesOn(k)]_keyVars
  BY <1>1, <1>2, <1>3, PTL DEF KeysSpec
<1> QED
  BY <1>4 DEF OneDownloadPerKey, FetchesOn
=============================================================================
