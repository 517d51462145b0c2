-------------------------------- MODULE Keys --------------------------------
(***************************************************************************)
(* Signatures of downloaded files and the keys to verify them with:        *)
(* Signature (src/core/signature.cpp), one thread each                     *)
(* (signaturethread.cpp), and the one KeyDownloader they share             *)
(* (keydownloader.cpp).                                                    *)
(*                                                                         *)
(* What GpgME, the key servers and the KIO jobs answer is external.  The   *)
(* data of a signature is the key it was made with and whether it fits its *)
(* file.  A thread that found its list empty still counts as running until *)
(* it has ended (see Verification).                                        *)
(***************************************************************************)
EXTENDS Integers, SequencesExt, FiniteSetsExt

CONSTANTS
  Sigs,            \* the signatures
  FingerprintKeys, \* the keys
  KeyServers,      \* signatureKeyServers, in their order
  KeySetups,       \* [data: of each signature, answer: of each server and key]
  MaxVerified,     \* bound: verifications and downloads the user asks for
  MaxChanges       \* bound: signatures replaced and keys deleted

\* An error page, or nothing that is a key; the key; another one, which imports as well;
\* a key whose import fails.
Answers == {"nothing", "key", "other key", "broken key"}

SignatureData == [key : FingerprintKeys, fits : BOOLEAN]

ASSUME KeysAssumption ==
  /\ KeyServers \in Seq(ToSet(KeyServers))
  /\ \A s \in KeySetups : /\ s.data \in [Sigs -> SignatureData]
                          /\ s.answer \in [ToSet(KeyServers) -> [FingerprintKeys -> Answers]]
  /\ {MaxVerified, MaxChanges} \subseteq Nat

VARIABLES
  answer,        \* what each server answers for each key
  keyring,       \* keys that are imported
  data,          \* signature of each Signature
  fingerprint,   \* the key its last result named, or "none"
  sstatus,       \* its status
  verifyTried,   \* whether it waits to be verified again
  waiting,       \* m_sig, its thread's list
  thread,        \* where its thread is
  found,         \* results of its thread under way
  questions,     \* signatures whose question is open, the innermost last
  downloading,   \* m_downloading: the signatures that wait for each key
  triedMirrors,  \* m_triedMirrors
  keyJobs,       \* the server each key is being fetched from, or "none"
  given,         \* history: keys that were given up, by the servers or the user
  late,          \* history: signatures queued while their thread was ending
  keyCounts      \* verifications and changes so far

sigVars  == <<data, fingerprint, sstatus, verifyTried>>
listVars == <<waiting, thread, late>>
jobVars  == <<downloading, triedMirrors, keyJobs>>
keyVars  == <<answer, keyring, sigVars, listVars, found, questions, jobVars, given, keyCounts>>

\* What verifyDetachedSignature finds.
VerificationResult(d) ==
  [key |-> d.key,
   summary |-> IF d.key \notin keyring THEN "KeyMissing" ELSE IF d.fits THEN "Valid" ELSE "Red"]

Counted(what, max) == keyCounts[what] < max /\ keyCounts' = [keyCounts EXCEPT ![what] = @ + 1]

(***************************************************************************)
(* SignatureThread                                                         *)
(***************************************************************************)
\* SignatureThread::verify, for the signatures in ss.  One whose thread is ending is
\* queued, but nothing takes it.
Enqueue(ss) ==
  /\ waiting' = [s \in Sigs |-> IF s \in ss THEN Append(waiting[s], data[s]) ELSE waiting[s]]
  /\ thread' = [s \in Sigs |-> IF s \in ss /\ thread[s] = "off" THEN "look" ELSE thread[s]]
  /\ late' = late \cup {s \in ss : thread[s] = "end"}

\* run(): the list is looked at without the mutex.
TakeSignature(s) ==
  /\ thread[s] = "look" /\ waiting[s] # <<>>
  /\ waiting' = [waiting EXCEPT ![s] = Tail(@)]
  /\ found' = [found EXCEPT ![s] = Append(@, VerificationResult(Head(waiting[s])))]
  /\ UNCHANGED <<thread, late>>

LeaveLoop(s) ==
  /\ thread[s] = "look" /\ waiting[s] = <<>>
  /\ thread' = [thread EXCEPT ![s] = "end"] /\ UNCHANGED <<waiting, found, late>>

EndThread(s) ==
  /\ thread[s] = "end" /\ thread' = [thread EXCEPT ![s] = "off"]
  /\ UNCHANGED <<waiting, found, late>>

SignatureThread(s) ==
  /\ TakeSignature(s) \/ LeaveLoop(s) \/ EndThread(s)
  /\ UNCHANGED <<answer, keyring, sigVars, questions, jobVars, given, keyCounts>>

(***************************************************************************)
(* KeyDownloader                                                           *)
(***************************************************************************)
\* a mutant: it is not noticed that the key is being downloaded
DownloadKeyAgain(k, s) ==
  /\ downloading' = [downloading EXCEPT ![k] = @ \cup {s}]
  /\ keyJobs' = [keyJobs EXCEPT ![k] = KeyServers[1]]
  /\ triedMirrors' = [triedMirrors EXCEPT ![k] = @ \cup {KeyServers[1]}]

\* downloadKey for a signature: the first server, unless the key is being downloaded.
DownloadKey(k, s) ==
  IF downloading[k] # {}
  THEN downloading' = [downloading EXCEPT ![k] = @ \cup {s}] /\ UNCHANGED <<triedMirrors, keyJobs>>
  ELSE IF KeyServers = <<>> THEN UNCHANGED jobVars
  ELSE /\ downloading' = [downloading EXCEPT ![k] = {s}]
       /\ keyJobs' = [keyJobs EXCEPT ![k] = KeyServers[1]]
       /\ triedMirrors' = [triedMirrors EXCEPT ![k] = @ \cup {KeyServers[1]}]

\* The servers that were not tried, of which the first is the next.
Untried(k) == {i \in DOMAIN KeyServers : KeyServers[i] \notin triedMirrors[k]}
NextMirror(k) == KeyServers[Min(Untried(k))]

\* downloadKey with mirrorFailed.  Without another server the signatures stay listed,
\* and who asks later joins them.
MirrorFailed(k) ==
  IF Untried(k) = {}
  THEN /\ keyJobs' = [keyJobs EXCEPT ![k] = "none"] /\ given' = given \cup {k}
       /\ UNCHANGED triedMirrors
  ELSE /\ keyJobs' = [keyJobs EXCEPT ![k] = NextMirror(k)]
       /\ triedMirrors' = [triedMirrors EXCEPT ![k] = @ \cup {NextMirror(k)}]
       /\ UNCHANGED given

\* a mutant: one of those that wait is notified
NotifyOne(k) == Enqueue({CHOOSE s \in downloading[k] : TRUE})

\* signatureDownloaded of each signature that waits.
Notify(k) == Enqueue({s \in downloading[k] : verifyTried[s]})

\* Whatever key it was that could be imported, those that wait are notified.
KeyImported(k, imported) ==
  /\ keyring' = keyring \cup imported
  /\ Notify(k)
  /\ downloading' = [downloading EXCEPT ![k] = {}]
  /\ keyJobs' = [keyJobs EXCEPT ![k] = "none"]
  /\ UNCHANGED <<triedMirrors, given>>

\* A key that cannot be imported: nothing else is tried.
ImportFailed(k) ==
  /\ keyJobs' = [keyJobs EXCEPT ![k] = "none"] /\ given' = given \cup {k}
  /\ UNCHANGED <<triedMirrors, downloading>>

SlotDownloaded(k) ==
  /\ keyJobs[k] # "none"
  /\ CASE answer[keyJobs[k]][k] = "nothing"    -> MirrorFailed(k) /\ UNCHANGED <<keyring, downloading, listVars>>
       [] answer[keyJobs[k]][k] = "broken key" -> ImportFailed(k) /\ UNCHANGED <<keyring, listVars>>
       [] answer[keyJobs[k]][k] = "key"        -> KeyImported(k, {k})
       [] answer[keyJobs[k]][k] = "other key"  -> KeyImported(k, {})
  /\ UNCHANGED <<answer, sigVars, found, questions, keyCounts>>

(***************************************************************************)
(* Signature                                                               *)
(***************************************************************************)
VerifySignature(s) ==
  /\ Counted("verified", MaxVerified)
  /\ Enqueue({s})
  /\ UNCHANGED <<answer, keyring, sigVars, found, questions, jobVars, given>>

\* slotVerified: a missing key is downloaded, automatically or if the user says so.
\* The question is modal, yet everything else goes on under it, its own signature
\* included.
SlotVerified(s, automatic) ==
  LET result  == Head(found[s])
      missing == result.summary = "KeyMissing"
  IN  /\ found[s] # <<>>
      /\ found' = [found EXCEPT ![s] = Tail(@)]
      /\ fingerprint' = [fingerprint EXCEPT ![s] = result.key]
      /\ sstatus' = [sstatus EXCEPT ![s] = CASE missing                    -> "NotWorked"
                                             [] result.summary = "Red"   -> "NotVerified"
                                             [] result.summary = "Valid" -> "Verified"]
      /\ questions' = IF missing /\ ~automatic THEN Append(questions, s) ELSE questions
      /\ IF missing /\ automatic
         THEN verifyTried' = [verifyTried EXCEPT ![s] = TRUE] /\ DownloadKey(result.key, s)
         ELSE UNCHANGED <<verifyTried, jobVars>>
      /\ UNCHANGED <<answer, keyring, data, listVars, given, keyCounts>>

\* The innermost question is answered: the fingerprint is the one the signature has by
\* now.  No server has a key without one, which SetSignature leaves.
QuestionAnswered(download) ==
  LET s == Last(questions)
      k == fingerprint[s]
  IN  /\ questions # <<>> /\ questions' = Front(questions)
      /\ verifyTried' = [verifyTried EXCEPT ![s] = @ \/ download]
      /\ given' = given \cup (IF download THEN {} ELSE {k} \ {"none"})
      /\ IF download /\ k # "none" THEN DownloadKey(k, s) ELSE UNCHANGED jobVars
      /\ UNCHANGED <<answer, keyring, data, fingerprint, sstatus, listVars, found, keyCounts>>

\* downloadKey from the dialog, for the fingerprint found.
DownloadKeyCommand(s) ==
  /\ Counted("verified", MaxVerified) /\ sstatus[s] = "NotWorked"
  /\ DownloadKey(fingerprint[s], s)
  /\ UNCHANGED <<answer, keyring, sigVars, listVars, found, questions, given>>

\* Another signature: what is queued or under way is not dropped.
SetSignature(s, d) ==
  /\ Counted("changed", MaxChanges) /\ d # data[s]
  /\ data' = [data EXCEPT ![s] = d]
  /\ fingerprint' = [fingerprint EXCEPT ![s] = "none"]
  /\ sstatus' = [sstatus EXCEPT ![s] = "NoResult"]
  /\ UNCHANGED <<answer, keyring, verifyTried, listVars, found, questions, jobVars, given>>

\* Outside, a key is removed from the keyring, so that it is missing again.
KeyDeleted(k) ==
  /\ Counted("changed", MaxChanges) /\ k \in keyring
  /\ keyring' = keyring \ {k}
  /\ UNCHANGED <<answer, sigVars, listVars, found, questions, jobVars, given>>

----------------------------------------------------------------------------
KeysInit ==
  /\ \E s \in KeySetups : data = s.data /\ answer = s.answer
  /\ keyring = {} /\ fingerprint = [s \in Sigs |-> "none"]
  /\ sstatus = [s \in Sigs |-> "NoResult"] /\ verifyTried = [s \in Sigs |-> FALSE]
  /\ waiting = [s \in Sigs |-> <<>>] /\ thread = [s \in Sigs |-> "off"]
  /\ found = [s \in Sigs |-> <<>>] /\ questions = <<>>
  /\ downloading = [k \in FingerprintKeys |-> {}] /\ triedMirrors = [k \in FingerprintKeys |-> {}]
  /\ keyJobs = [k \in FingerprintKeys |-> "none"] /\ given = {} /\ late = {}
  /\ keyCounts = [verified |-> 0, changed |-> 0]

KeysNext ==
  \/ \E s \in Sigs : SignatureThread(s) \/ VerifySignature(s) \/ DownloadKeyCommand(s)
  \/ \E s \in Sigs, automatic \in BOOLEAN : SlotVerified(s, automatic)
  \/ \E download \in BOOLEAN : QuestionAnswered(download)
  \/ \E s \in Sigs, d \in SignatureData : SetSignature(s, d)
  \/ \E k \in FingerprintKeys : SlotDownloaded(k) \/ KeyDeleted(k)

\* The threads run, and the event loop, that of an open question too, delivers results
\* and finished jobs.  The user owes no answer.
KeysFairness ==
  /\ \A s \in Sigs : WF_keyVars(SignatureThread(s))
  /\ \A s \in Sigs : WF_keyVars(\E automatic \in BOOLEAN : SlotVerified(s, automatic))
  /\ \A k \in FingerprintKeys : WF_keyVars(SlotDownloaded(k))

KeysSpec == KeysInit /\ [][KeysNext]_keyVars /\ KeysFairness

----------------------------------------------------------------------------
\* While a key is being fetched no second download of it starts, and no server that
\* failed is asked for it again (downloadKey).
OneDownloadPerKey ==
  [][\A k \in FingerprintKeys :
       keyJobs[k] # "none" /\ keyJobs'[k] # keyJobs[k] /\ keyJobs'[k] # "none"
         => keyJobs'[k] \notin triedMirrors[k] /\ answer[keyJobs[k]][k] = "nothing"]_keyVars

\* No server answers with another key, and one has each key.
ServersHaveKeys ==
  \A k \in FingerprintKeys :
    /\ \E m \in ToSet(KeyServers) : answer[m][k] = "key"
    /\ \A m \in ToSet(KeyServers) : answer[m][k] \in {"nothing", "key"}

\* A signature whose key is missing and wanted is verified again in the end, however
\* many others wait for the same key and whichever servers fail (slotVerified,
\* slotDownloaded, signatureDownloaded); while it is asked about, it waits for the user.
MissingKeysArrive ==
  \A s \in Sigs :
    verifyTried[s] /\ sstatus[s] = "NotWorked" /\ ServersHaveKeys
      ~> sstatus[s] # "NotWorked" \/ s \in late \/ given # {} \/ s \in ToSet(questions)
=============================================================================
