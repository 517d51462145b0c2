----------------------------- MODULE MmsDownload -----------------------------
(***************************************************************************)
(* A transfer of a mms stream: MmsTransfer, its MmsDownload, which is a    *)
(* thread that splits the stream and starts the others, and the MmsThreads *)
(* that read (src/transfer-plugins/mmsthreads).                            *)
(*                                                                         *)
(* Scheduler has the MmsTransfer as one of its plug-ins and the threads as *)
(* one worker; here are the threads.  They post signals, which the slots   *)
(* of MmsTransfer and MmsDownload take one after the other in the GUI      *)
(* thread.  Lists that two threads write without a lock are taken to change*)
(* in one step.                                                            *)
(***************************************************************************)
EXTENDS Integers, SequencesExt, FiniteSetsExt

CONSTANTS
  StreamLength,       \* the length of the stream, in what one read gets
  ThreadsSetting,      \* the setting: how many threads
  MaxMmsMishaps    \* bound: what fails, stops, and ends of the program, together

\* m_mapEndIni has int for the places in the stream, while its length is a qulonglong:
\* what fits no int is left out.  Its parts would end too early, so that the count
\* never got to the length.
MaxInt == 2147483647

ASSUME MmsAssumption ==
  /\ {StreamLength, ThreadsSetting} \subseteq Nat \ {0} /\ ThreadsSetting <= StreamLength
  /\ StreamLength <= MaxInt
  /\ MaxMmsMishaps \in Nat

VARIABLES
  mms,       \* MmsTransfer; and what it leaves on the disk
  download,  \* MmsDownload and its threads
  posted,    \* signals on their way to the GUI thread
  mmsMishaps,   \* mmsMishaps so far
  missed     \* history: what was read as nothing

mmsVars == <<mms, download, posted, mmsMishaps, missed>>

\* What MmsDownload has when it is created; `toStart`: the parts whose threads
\* startTransfer has still to start, named by their ends, as in m_mapEndIni.
NewDownload(amount) ==
  [state |-> "connecting", amount |-> amount, fails |-> 0, connections |-> 0, size |-> 0,
   parts |-> <<>>, toStart |-> {}, list |-> {}, quit |-> FALSE, thread |-> <<>>]
NoDownload == [NewDownload(0) EXCEPT !.state = "none"]
DownloadExists(d)  == d.state # "none"

NoFile == [kept |-> FALSE, parts |-> <<>>, size |-> 0]

----------------------------------------------------------------------------
(* MmsTransfer                                                             *)

MmsStart(m, d) ==
  IF DownloadExists(d) \/ m.status = "Finished" THEN <<m, d>>
  ELSE <<[m EXCEPT !.status = "Running"], NewDownload(m.amount)>>

StopThreads(d) ==
  [d EXCEPT !.thread = [e \in DOMAIN @ |-> IF e \in d.list THEN [@[e] EXCEPT !.download = FALSE] ELSE @[e]]]

\* stop: threads that are not there yet are not told.
MmsStop(m, d) ==
  IF m.status \in {"Stopped", "Finished"} THEN <<m, d>>
  ELSE <<[m EXCEPT !.status = "Stopped"], StopThreads(d)>>

\* The scheduler's update after a stop: start is called if the transfer may run,
\* and refused as long as the download is there.
MmsUpdated(m, d) == IF m.may /\ m.status = "Stopped" THEN MmsStart(m, d) ELSE <<m, d>>
MmsStopped(m, d)   == MmsUpdated(MmsStop(m, d)[1], MmsStop(m, d)[2])

\* slotConnectionsErrors.
ConnectionsErrors(m, d) ==
  <<[MmsStopped(m, d)[1] EXCEPT !.retry = TRUE,
                             !.amount = IF d.connections > 0 THEN d.connections ELSE @ - 1],
    MmsStopped(m, d)[2]>>

\* slotResult, when the thread of MmsDownload has finished.
MmsSlotResult(m) ==
  LET whole == m.downloaded = m.total /\ m.total # 0
      ended == IF whole THEN [m EXCEPT !.status = "Finished", !.file = NoFile] ELSE m
  IN  IF m.retry THEN MmsStart([ended EXCEPT !.retry = FALSE, !.file = NoFile], NoDownload)
      ELSE <<ended, NoDownload>>

----------------------------------------------------------------------------
(* MmsDownload                                                             *)

Signal(kind, end) == [kind |-> kind, end |-> end]

\* splitTransfer: parts of one size, the last one takes the rest.
SplitParts(amount) ==
  LET part == StreamLength \div amount
      end(i) == IF i = amount THEN StreamLength ELSE i * part
  IN  [e \in {end(i) : i \in 1..amount} |-> CHOOSE b \in {(i - 1) * part : i \in 1..amount} :
        \E i \in 1..amount : e = end(i) /\ b = (i - 1) * part]

\* A negative amount, which slotConnectionsErrors may count down to, makes no part.
PartsOf(amount) == IF amount > 0 THEN SplitParts(amount) ELSE <<>>

\* A mutant: the parts are split anew, the size is kept.
SplitTransferAnew(d, file) ==
  LET amount == IF mms.seekable /\ d.amount # 0 THEN d.amount ELSE 1
  IN  [d EXCEPT !.state = "starting", !.amount = amount, !.parts = PartsOf(amount),
                !.toStart = DOMAIN PartsOf(amount), !.size = file.size]

SplitTransfer(d, file) ==
  LET amount == IF mms.seekable /\ d.amount # 0 THEN d.amount ELSE 1
      kept   == file.kept /\ mms.seekable /\ d.amount # 0
      parts  == IF kept THEN file.parts ELSE PartsOf(amount)
  IN  [d EXCEPT !.state = "starting", !.amount = amount, !.parts = parts,
                !.toStart = DOMAIN parts, !.size = IF kept THEN file.size ELSE 0]

\* run; signTotalSize is the first signal, and is taken before any other.
Connects ==
  /\ download.state = "connecting"
  /\ download' = SplitTransfer(download, mms.file)
  /\ mms' = [mms EXCEPT !.file = IF mms.seekable /\ download.amount # 0 THEN @ ELSE NoFile,
                        !.total = StreamLength]
  /\ UNCHANGED <<posted, mmsMishaps, missed>>

MmsBrokenUrl ==
  /\ download.state = "connecting" /\ mmsMishaps < MaxMmsMishaps
  /\ download' = [download EXCEPT !.state = "finished"]
  /\ posted' = posted \o <<Signal("brokenUrl", 0), Signal("finished", 0)>>
  /\ mmsMishaps' = mmsMishaps + 1
  /\ UNCHANGED <<mms, missed>>

\* The next thread of startTransfer's loop, which follows m_mapEndIni: the part with the
\* least end.
StartTransfer ==
  /\ download.state = "starting"
  /\ \E e \in download.toStart :
       LET t == [state |-> "connecting", begin |-> download.parts[e], download |-> TRUE]
       IN  /\ \A x \in download.toStart : e <= x
           /\ download' = [download EXCEPT !.toStart = @ \ {e}, !.list = @ \cup {e},
                             !.thread = [x \in DOMAIN @ \cup {e} |-> IF x = e THEN t ELSE @[x]]]
  /\ UNCHANGED <<mms, posted, mmsMishaps, missed>>

\* exec: it returns when quit is called, or was called before.
Exec ==
  /\ \/ download.state = "starting" /\ download.toStart = {}
     \/ download.state = "executing" /\ download.quit
  /\ IF download.quit
     THEN /\ download' = [download EXCEPT !.state = "finished"]
          /\ posted' = Append(posted, Signal("finished", 0))
     ELSE download' = [download EXCEPT !.state = "executing"] /\ UNCHANGED posted
  /\ UNCHANGED <<mms, mmsMishaps, missed>>

----------------------------------------------------------------------------
(* MmsThread: run                                                          *)

ThreadConnects(e) ==
  /\ download.thread[e].state = "connecting"
  /\ download' = [download EXCEPT !.thread[e].state = "reading"]
  /\ posted' = Append(posted, Signal("connected", e))
  /\ UNCHANGED <<mms, mmsMishaps, missed>>

\* A mutant: without the quit the thread stays in its event loop.
ThreadFailsSilently(e) ==
  /\ download.thread[e].state = "connecting" /\ mmsMishaps < MaxMmsMishaps
  /\ download' = [download EXCEPT !.thread[e].state = "ended"]
  /\ posted' = Append(posted, Signal("notConnected", e))
  /\ mmsMishaps' = mmsMishaps + 1
  /\ UNCHANGED <<mms, missed>>

ThreadFails(e) ==
  /\ download.thread[e].state = "connecting" /\ mmsMishaps < MaxMmsMishaps
  /\ download' = [download EXCEPT !.thread[e].state = "ended"]
  /\ posted' = posted \o <<Signal("notConnected", e), Signal("threadFinished", e)>>
  /\ mmsMishaps' = mmsMishaps + 1
  /\ UNCHANGED <<mms, missed>>

\* A read counts, whether it got anything or not.
ThreadReads(e, got) ==
  LET t == download.thread[e] IN
  /\ t.state = "reading" /\ t.begin < e /\ t.download
  /\ download' = [download EXCEPT !.thread[e].begin = @ + 1]
  /\ mms' = [mms EXCEPT !.written = IF got THEN @ \cup {t.begin} ELSE @]
  /\ posted' = Append(posted, [kind |-> "reading", end |-> e, begin |-> t.begin + 1])
  /\ missed' = IF got THEN missed ELSE missed \cup {t.begin}
  /\ IF got THEN UNCHANGED mmsMishaps
     ELSE mmsMishaps < MaxMmsMishaps /\ mmsMishaps' = mmsMishaps + 1

ThreadEnds(e) ==
  LET t == download.thread[e] IN
  /\ t.state = "reading" /\ ~(t.begin < e /\ t.download)
  /\ download' = [download EXCEPT !.thread[e].state = "ended"]
  /\ posted' = Append(posted, Signal("threadFinished", e))
  /\ UNCHANGED <<mms, mmsMishaps, missed>>

----------------------------------------------------------------------------
(* The GUI thread takes the signals                                        *)

\* slotIsThreadConnected.
IsThreadConnected(d, connected) ==
  IF connected THEN [d EXCEPT !.connections = @ + 1] ELSE [d EXCEPT !.fails = @ + 1]

SomeNotConnected(d) == d.fails # 0 /\ d.fails + d.connections = d.amount

\* slotRead.
SlotRead(d, s) ==
  LET parts == IF s.begin = s.end THEN [e \in DOMAIN d.parts \ {s.end} |-> d.parts[e]]
               ELSE [e \in DOMAIN d.parts \cup {s.end} |-> IF e = s.end THEN s.begin ELSE d.parts[e]]
  IN  [d EXCEPT !.parts = parts, !.size = @ + 1]

\* slotThreadFinish: the last thread in the list ends the download.
SlotThreadFinish(d, e) ==
  [d EXCEPT !.list = @ \ {e}, !.quit = @ \/ d.list \ {e} = {}]

Serialization(d) == [kept |-> TRUE, parts |-> d.parts, size |-> d.size]

\* A signal of a download that is deleted reaches nobody.
TakeMms(s) ==
  LET d == download
      both(r) == mms' = r[1] /\ download' = r[2]
  IN  CASE s.kind = "brokenUrl" -> mms' = [mms EXCEPT !.status = "Aborted"] /\ UNCHANGED download
        [] s.kind = "finished"  -> both(MmsSlotResult(mms))
        [] s.kind = "reading" ->
             /\ download' = SlotRead(d, s)
             /\ mms' = [mms EXCEPT !.downloaded = d.size + 1]
        [] s.kind = "threadFinished" ->
             LET n == SlotThreadFinish(d, s.end)
             IN  /\ download' = n
                 /\ mms' = IF n.list = {} THEN [mms EXCEPT !.file = Serialization(n)] ELSE mms
        [] s.kind \in {"connected", "notConnected"} ->
             LET n == IsThreadConnected(d, s.kind = "connected")
             IN  IF SomeNotConnected(n) THEN both(ConnectionsErrors(mms, n))
                 ELSE download' = n /\ UNCHANGED mms

TakeSignal ==
  /\ posted # <<>>
  /\ TakeMms(Head(posted))
  /\ posted' = IF Head(posted).kind = "finished" THEN <<>> ELSE Tail(posted)
  /\ UNCHANGED <<mmsMishaps, missed>>

----------------------------------------------------------------------------
(* The user, the scheduler, the end of the program                         *)

UserStopsMms ==
  /\ mms.may /\ mmsMishaps < MaxMmsMishaps
  /\ LET m == [mms EXCEPT !.may = FALSE]
         r == IF m.status = "Running" THEN MmsStop(m, download) ELSE <<m, download>>
     IN  mms' = r[1] /\ download' = r[2]
  /\ mmsMishaps' = mmsMishaps + 1
  /\ UNCHANGED <<posted, missed>>

UserStartsMms ==
  /\ ~mms.may
  /\ LET r == MmsUpdated([mms EXCEPT !.may = TRUE], download) IN mms' = r[1] /\ download' = r[2]
  /\ UNCHANGED <<posted, mmsMishaps, missed>>

\* MmsDownload starts its timer for the speed from another thread than the timer's,
\* which does not work: the speed is always zero.
MmsStallTimeout ==
  /\ mms.status = "Running" /\ mmsMishaps < MaxMmsMishaps
  /\ LET r == MmsStopped(mms, download) IN mms' = r[1] /\ download' = r[2]
  /\ mmsMishaps' = mmsMishaps + 1
  /\ UNCHANGED <<posted, missed>>

MmsQueueUpdated ==
  /\ LET r == MmsUpdated(mms, download) IN r # <<mms, download>> /\ mms' = r[1] /\ download' = r[2]
  /\ UNCHANGED <<posted, mmsMishaps, missed>>

MmsRestart ==
  /\ mmsMishaps < MaxMmsMishaps
  /\ mmsMishaps' = mmsMishaps + 1
  /\ LET loaded == [mms EXCEPT !.status = IF @ = "Finished" THEN @ ELSE "Stopped", !.retry = FALSE,
                               !.amount = ThreadsSetting]
         r == MmsUpdated(loaded, NoDownload)
     IN  mms' = r[1] /\ download' = r[2]
  /\ posted' = <<>>
  /\ UNCHANGED missed

----------------------------------------------------------------------------
\* MmsTransfer's constructor.
NewMms(seekable, may) ==
  [seekable |-> seekable, status |-> "Stopped", may |-> may, amount |-> ThreadsSetting,
   retry |-> FALSE, total |-> 0, downloaded |-> 0, file |-> NoFile, written |-> {}]

MmsInit ==
  /\ \E seekable \in BOOLEAN : mms = NewMms(seekable, TRUE)
  /\ download = NoDownload /\ posted = <<>> /\ missed = {}
  /\ mmsMishaps = 0

ThreadSteps ==
  \/ Connects \/ MmsBrokenUrl \/ StartTransfer \/ Exec
  \/ \E e \in DOMAIN download.thread :
       ThreadConnects(e) \/ ThreadFails(e) \/ ThreadEnds(e) \/ (\E got \in BOOLEAN : ThreadReads(e, got))

MmsNext ==
  \/ ThreadSteps \/ TakeSignal \/ UserStopsMms \/ UserStartsMms
  \/ MmsStallTimeout \/ MmsQueueUpdated \/ MmsRestart

\* Connections succeed or fail, reads return, signals are taken.
MmsFairness == WF_mmsVars(ThreadSteps) /\ WF_mmsVars(TakeSignal)

----------------------------------------------------------------------------
(* Properties                                                              *)

\* What is Finished has been read to the last byte, with threads that end, fail,
\* are stopped and begin again where they were, over restarts; but what a read
\* did not get is counted as well (MmsThread::run).
FinishedHasEveryPart ==
  mms.status = "Finished" => 0..(StreamLength - 1) \subseteq mms.written \cup missed

\* A download thread ends, whatever its threads meet: stop, failure, the end of
\* their parts (MmsDownload::slotThreadFinish).  Not if it has no part at all.
DownloadEnds ==
  (download.state = "starting" /\ download.parts # <<>>) ~> (download.state \in {"none", "connecting"})
=============================================================================
