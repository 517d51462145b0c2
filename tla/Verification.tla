---------------------------- MODULE Verification ----------------------------
(***************************************************************************)
(* A Verifier (src/core/verifier.cpp), the table of its checksums          *)
(* (verificationmodel.cpp) and its thread (verificationthread.cpp).        *)
(*                                                                         *)
(* Two threads: the GUI thread hands work to the verification thread       *)
(* through three lists guarded by a mutex, and starts the thread when it   *)
(* is not running; the thread's signals come back through the event queue. *)
(* A step of the thread is what it does while it holds the mutex, or       *)
(* between two holdings.  QThread::isRunning() is true until the thread    *)
(* has ended, which is some time after it found nothing more to do.        *)
(*                                                                         *)
(* The file is a sequence of units, TRUE where it is right.  A hash stands *)
(* for what it is the hash of; the text of a checksum may have capitals,   *)
(* and differs then from what the thread computes.                         *)
(***************************************************************************)
EXTENDS Integers, SequencesExt, FiniteSetsExt

CONSTANTS
  Types,        \* the types of checksums used, among SUPPORTED_ALGOS
  FileSize,     \* units of the file
  VerifierSetups, \* [file, types: of the checksums known at first, in their order,
                \*  strength, length: of the pieces with checksums, 0 if there are none]
  IntHalf,      \* an int holds -IntHalf .. IntHalf - 1 (2^31 in the code)
  MaxAsked,     \* bound: requests of a verification
  MaxEdits      \* bound: changes of the table and of the file, repairs, restarts

\* SUPPORTED_ALGOS, the strongest first.
SupportedAlgos == <<"sha512", "sha384", "sha256", "sha1", "md5", "md4">>
Strengths      == {"Weak", "Strong", "Strongest"}
DigestLength(type) ==
  CASE type = "sha512" -> 128 [] type = "sha384" -> 96 [] type = "sha256" -> 64
    [] type = "sha1" -> 40 [] type \in {"md5", "md4"} -> 32

ASSUME VerificationAssumption ==
  /\ Types \subseteq ToSet(SupportedAlgos)
  /\ {FileSize, IntHalf} \subseteq Nat \ {0} /\ FileSize < IntHalf
  /\ {MaxAsked, MaxEdits} \subseteq Nat
  /\ \A s \in VerifierSetups : s.file \in [1 .. FileSize -> BOOLEAN] /\ s.length \in Nat

VARIABLES
  file,        \* what is in the file
  table,       \* VerificationModel: its rows
  strength,    \* Settings::checksumStrength
  pieceLength, \* m_length of the partial checksums
  vstatus,     \* Verifier's status
  work,        \* m_type of the thread
  lists,       \* m_types, m_checksums and the length of m_files
  verifying,   \* the thread: where it is, and what it took
  results,     \* signals on their way to the GUI thread
  asked,       \* history: requests that were not answered or dropped, oldest first
  broken,      \* history: the answer to the last search for broken pieces
  spoilt,      \* history: why a request may go wrong
  counts       \* requests and edits so far

verifierVars == <<file, table, strength, pieceLength, vstatus, work, lists, verifying, results,
                  asked, broken, spoilt, counts>>

Contents == [1 .. FileSize -> BOOLEAN]
Right    == [u \in 1 .. FileSize |-> TRUE]
\* The hash of content c by an algorithm, as the program computes it.
HashOf(type, c) == [by |-> type, of |-> c, upper |-> FALSE]
\* Checksums somebody enters: the right one, in both cases, and a wrong one.
Entered(type) == {HashOf(type, Right), [HashOf(type, Right) EXCEPT !.upper = TRUE],
                  HashOf(type, [u \in 1 .. FileSize |-> FALSE])}
NoSum == [by |-> "", of |-> <<>>, upper |-> FALSE]

(***************************************************************************)
(* Which checksum is used                                                  *)
(***************************************************************************)
\* QList::move.
Moved(s, from, to) == InsertAt(RemoveAt(s, from), to, s[from])

OrderChecksumTypes(s) ==
  CASE s = "Weak"      -> Moved(Reverse(SupportedAlgos), 1, 2)
    [] s = "Strong"    -> Moved(Moved(Reverse(SupportedAlgos), 2, 6), 1, 6)
    [] s = "Strongest" -> SupportedAlgos

RowsOf(type) == {i \in DOMAIN table : table[i].type = type}

\* The row whose checksum is used, 0 if there is none.
AvailableChecksum ==
  LET order == SelectSeq(OrderChecksumTypes(strength), LAMBDA t : RowsOf(t) # {})
  IN  IF order = <<>> THEN 0 ELSE Min(RowsOf(order[1]))

(***************************************************************************)
(* The checksums of pieces                                                 *)
(***************************************************************************)

\* partialChecksums with a length: the last piece may be shorter.
NumPieces(length) == (FileSize \div length) + (IF FileSize % length = 0 THEN 0 ELSE 1)
PartialChecksum(c, length, i) ==
  SubSeq(c, length * i + 1, Min({FileSize, length * (i + 1)}))

\* int brokenStart = length * i
ToInt(n) == ((n + IntHalf) % (2 * IntHalf)) - IntHalf

BrokenOffsets(c, length) ==
  IF length = 0 THEN {}
  ELSE {ToInt(length * i) : i \in {j \in 0 .. NumPieces(length) - 1 :
          PartialChecksum(c, length, j) # PartialChecksum(Right, length, j)}}

(***************************************************************************)
(* The GUI thread                                                          *)
(***************************************************************************)
Count(what) == counts' = [counts EXCEPT ![what] = @ + 1]
May(what)   == counts[what] < IF what = "asked" THEN MaxAsked ELSE MaxEdits

Running    == verifying.at # "off"
StartThread == IF Running THEN verifying ELSE [verifying EXCEPT !.at = "begin"]

\* VerificationThread::verify.  With broken pieces to be found at the same time
\* the lists get mixed up; a request after the last look at the list waits for the
\* next one, which starts the thread again.
Request(row) ==
  LET type == IF row = 0 THEN "" ELSE table[row].type
      sum  == IF row = 0 THEN NoSum ELSE table[row].sum
  IN  /\ lists' = [types |-> Append(lists.types, type), sums |-> Append(lists.sums, sum),
                   files |-> lists.files + 1]
      /\ work' = "Verify"
      /\ verifying' = StartThread
      /\ asked' = Append(asked, <<type, sum>>)
      /\ spoilt' = (IF Running THEN spoilt ELSE spoilt \ {"late"})
           \cup (IF Running /\ work = "BrokenPieces" THEN {"mixed"} ELSE {})
           \cup (IF verifying.at = "end" THEN {"late"} ELSE {})

Verify(row) ==
  /\ May("asked") /\ Count("asked")
  /\ Request(row)
  /\ UNCHANGED <<file, table, strength, pieceLength, vstatus, results, broken>>

\* Verifier::verify() without a row; D-Bus may call it without a checksum.
VerifyAvailable == Verify(AvailableChecksum)
VerifyRow       == \E i \in DOMAIN table : Verify(i)

\* The type of the checksums of pieces.
AvailablePartialChecksum == IF pieceLength = 0 THEN "" ELSE "sha1"

\* Verifier::brokenPieces, to repair or over D-Bus: it throws away what the lists hold.
FindBrokenPieces ==
  /\ May("edits") /\ Count("edits")
  /\ lists' = [types |-> <<AvailablePartialChecksum>>,
               sums  |-> [i \in 1 .. (IF pieceLength = 0 THEN 0 ELSE NumPieces(pieceLength)) |->
                            HashOf(AvailablePartialChecksum, PartialChecksum(Right, pieceLength, i - 1))],
               files |-> 1]
  /\ work' = "BrokenPieces"
  /\ verifying' = StartThread
  /\ spoilt' = spoilt \cup (IF Running \/ lists.files > 0 THEN {"mixed"} ELSE {})
  /\ UNCHANGED <<file, table, strength, pieceLength, vstatus, results, asked, broken>>

\* A checksum of a type that is there replaces the text only.
AddChecksum(type, sum) ==
  /\ May("edits") /\ Count("edits")
  /\ table' = IF RowsOf(type) # {}
              THEN [table EXCEPT ![Min(RowsOf(type))].sum = sum]
              ELSE Append(table, [type |-> type, sum |-> HashOf(type, sum.of), verified |-> "NoResult"])
  /\ UNCHANGED <<file, strength, pieceLength, vstatus, work, lists, verifying, results, asked,
                 broken, spoilt>>

\* Edited in the table: the type, with the checksum of the old one, or the checksum.
SetData(i, type, sum) ==
  /\ May("edits") /\ Count("edits")
  /\ \/ RowsOf(type) = {} /\ sum = table[i].sum
     \/ type = table[i].type
  /\ table' = [table EXCEPT ![i].type = type, ![i].sum = sum]
  /\ UNCHANGED <<file, strength, pieceLength, vstatus, work, lists, verifying, results, asked,
                 broken, spoilt>>

RemoveRow(i) ==
  /\ May("edits") /\ Count("edits")
  /\ table' = RemoveAt(table, i)
  /\ UNCHANGED <<file, strength, pieceLength, vstatus, work, lists, verifying, results, asked,
                 broken, spoilt>>

\* The download, or somebody else, writes the file.
FileChanges(c) ==
  /\ May("edits") /\ Count("edits") /\ c # file
  /\ file' = c
  /\ UNCHANGED <<table, strength, pieceLength, vstatus, work, lists, verifying, results, asked,
                 broken, spoilt>>

\* A result arrives (changeStatus); it is entered where the type is now.
ChangeStatus ==
  LET r == Head(results)
  IN  /\ results # <<>> /\ results' = Tail(results)
      /\ IF r.kind = "verified"
         THEN /\ vstatus' = IF r.ok THEN "Verified" ELSE "NotVerified"
              /\ table' = [i \in DOMAIN table |->
                             IF RowsOf(r.type) # {} /\ i = Min(RowsOf(r.type))
                             THEN [table[i] EXCEPT !.verified = vstatus'] ELSE table[i]]
              /\ UNCHANGED broken
         ELSE broken' = r /\ UNCHANGED <<vstatus, table>>
      /\ UNCHANGED <<file, strength, pieceLength, work, lists, verifying, asked, spoilt, counts>>

Idle == [at |-> "off", type |-> "", sum |-> NoSum]

\* The destructor waits for the thread, which stops at the next look at m_abort; save
\* and load keep the table, but for checksums too long or short, and the status.
Restart ==
  /\ May("edits") /\ Count("edits")
  /\ table' = SelectSeq([i \in DOMAIN table |-> [table[i] EXCEPT !.sum.upper = FALSE]],
                        LAMBDA row : DigestLength(row.type) = DigestLength(row.sum.by))
  /\ work' = "Nothing" /\ verifying' = Idle /\ results' = <<>> /\ asked' = <<>>
  /\ lists' = [types |-> <<>>, sums |-> <<>>, files |-> 0]
  /\ spoilt' = spoilt \ {"late"}
  /\ UNCHANGED <<file, strength, pieceLength, vstatus, broken>>

(***************************************************************************)
(* The verification thread                                                 *)
(***************************************************************************)
At(place) == verifying.at = place
Goes(place) == verifying' = [verifying EXCEPT !.at = place]
Unread == UNCHANGED <<file, table, strength, pieceLength, vstatus, work, broken, counts>>

\* run(): m_type is read without the mutex.
Run ==
  /\ At("begin")
  /\ Goes(CASE work = "Verify" -> "take" [] work = "BrokenPieces" -> "pieces" [] OTHER -> "end")
  /\ UNCHANGED <<lists, results, asked, spoilt>> /\ Unread

\* a mutant: the last checksum for the first type
TakeFirstLast ==
  /\ At("take") /\ lists.files > 0 /\ lists.sums # <<>>
  /\ lists' = [types |-> Tail(lists.types), sums |-> Front(lists.sums), files |-> lists.files - 1]
  /\ verifying' = [at |-> "hash", type |-> Head(lists.types), sum |-> Last(lists.sums)]
  /\ UNCHANGED <<results, asked, spoilt>> /\ Unread

\* A list that ran out while another did not: QList::takeFirst is undefined then.
TakeFirst ==
  /\ At("take")
  /\ IF lists.types = <<>> \/ lists.sums = <<>>
     THEN Goes(IF lists.files = 0 THEN "end" ELSE "undefined") /\ UNCHANGED <<lists, asked>>
     ELSE LET type  == Head(lists.types)
              sum   == Head(lists.sums)
              empty == type = "" \/ sum = NoSum
          IN  /\ lists' = [types |-> Tail(lists.types), sums |-> Tail(lists.sums),
                           files |-> lists.files - 1]
              /\ verifying' = IF empty THEN [verifying EXCEPT !.at = IF lists.files > 1 THEN "take" ELSE "end"]
                              ELSE [at |-> "hash", type |-> type, sum |-> sum]
              /\ asked' = IF empty /\ asked # <<>> THEN Tail(asked) ELSE asked
  /\ UNCHANGED <<results, spoilt>> /\ Unread

\* a mutant: the list is not looked at again
HashOnce ==
  /\ At("hash")
  /\ results' = Append(results, [kind |-> "verified", type |-> verifying.type,
                                 ok |-> verifying.sum = HashOf(verifying.type, file)])
  /\ asked' = IF asked = <<>> THEN asked ELSE Tail(asked)
  /\ Goes("end")
  /\ UNCHANGED <<lists, spoilt>> /\ Unread

\* The file is hashed, the result emitted, and the list looked at again.
Hash ==
  LET r == [kind |-> "verified", type |-> verifying.type, ok |-> verifying.sum = HashOf(verifying.type, file)]
  IN  /\ At("hash")
      /\ results' = Append(results, r)
      /\ asked' = IF asked = <<>> THEN asked ELSE Tail(asked)
      /\ verifying' = [Idle EXCEPT !.at = IF lists.files > 0 THEN "take" ELSE "end"]
      /\ UNCHANGED <<lists, spoilt>> /\ Unread

DoBrokenPieces ==
  /\ At("pieces")
  /\ IF lists.types = <<>> \/ lists.files = 0 THEN Goes("undefined") /\ UNCHANGED <<lists, results>>
     ELSE /\ lists' = [types |-> Tail(lists.types), sums |-> <<>>, files |-> lists.files - 1]
          /\ results' = Append(results,
               [kind |-> "pieces", length |-> pieceLength, of |-> file,
                offsets |-> IF pieceLength # 0 /\ Len(lists.sums) = NumPieces(pieceLength)
                            THEN BrokenOffsets(file, pieceLength) ELSE {}])
          /\ Goes("end")
  /\ UNCHANGED <<asked, spoilt>> /\ Unread

End ==
  /\ At("end") /\ Goes("off")
  /\ UNCHANGED <<lists, results, asked, spoilt>> /\ Unread

----------------------------------------------------------------------------
VerifierInit ==
  /\ \E s \in VerifierSetups :
       /\ file = s.file /\ strength = s.strength /\ pieceLength = s.length
       /\ table = [i \in DOMAIN s.types |->
                     [type |-> s.types[i], sum |-> HashOf(s.types[i], Right), verified |-> "NoResult"]]
  /\ vstatus = "NoResult" /\ work = "Nothing"
  /\ lists = [types |-> <<>>, sums |-> <<>>, files |-> 0]
  /\ verifying = Idle /\ results = <<>>
  /\ asked = <<>> /\ broken = [kind |-> "none"] /\ spoilt = {}
  /\ counts = [asked |-> 0, edits |-> 0]

VerificationThread == Run \/ TakeFirst \/ Hash \/ DoBrokenPieces \/ End

VerifierNext ==
  \/ VerificationThread \/ ChangeStatus \/ VerifyAvailable \/ VerifyRow \/ FindBrokenPieces
  \/ (\E t \in Types : \E s \in Entered(t) : AddChecksum(t, s))
  \/ (\E i \in DOMAIN table, t \in Types : \E s \in Entered(t) \cup {table[i].sum} : SetData(i, t, s))
  \/ (\E i \in DOMAIN table : RemoveRow(i))
  \/ (\E c \in Contents : FileChanges(c)) \/ Restart

\* A thread that can go on does, and the event loop delivers what arrives.
VerifierFairness == WF_verifierVars(VerificationThread) /\ WF_verifierVars(ChangeStatus)

VerifierSpec == VerifierInit /\ [][VerifierNext]_verifierVars /\ VerifierFairness

----------------------------------------------------------------------------
\* What the thread verifies is what was asked first and not answered: no request is
\* answered with another one's checksum, and the three lists never run out of step,
\* unless a search for broken pieces overlaps (verify, findBrokenPieces, doVerify).
AnswersMatchRequests ==
  "mixed" \notin spoilt =>
    /\ At("hash") => asked # <<>> /\ Head(asked) = <<verifying.type, verifying.sum>>
    /\ ~At("undefined")

\* Each request is answered, or dropped if it has no checksum.  One that comes when the
\* thread has looked at its list for the last time and still counts as running is
\* forgotten, but only until the next request starts the thread: that run answers both.
RequestsAreAnswered ==
  <>[]("mixed" \notin spoilt) => []<>(asked = <<>> \/ "late" \in spoilt)

\* The search names pieces that hold something wrong, and all the wrong units lie in
\* pieces it names, the shorter last piece included.
BrokenPiecesAreFound ==
  broken.kind = "pieces" /\ broken.length # 0 /\ "mixed" \notin spoilt =>
    LET Piece(o) == {u \in 1 .. FileSize : o < u /\ u <= o + broken.length}
        wrong    == {u \in 1 .. FileSize : ~broken.of[u]}
    IN  /\ wrong \subseteq UNION {Piece(o) : o \in broken.offsets}
        /\ \A o \in broken.offsets : Piece(o) \cap wrong # {}

\* What the thread answers is right: for the request it is about, and of the file.
VerifierFits == AnswersMatchRequests /\ BrokenPiecesAreFound
=============================================================================
