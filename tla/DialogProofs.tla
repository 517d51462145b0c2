----------------------------- MODULE DialogProofs -----------------------------
(***************************************************************************)
(* Proofs about what users see around the downloads, for every value of    *)
(* the constants: that the desktop's job tracker shows what runs           *)
(* (TrackerShowsRunning), the details of a torrent what libktorrent has    *)
(* (DetailsFollowTorrent), that what is copied is downloaded as the user   *)
(* arranged it (PastesAsArranged), and that no download waits in vain for  *)
(* a listing (WaitersHaveAJob).                                            *)
(***************************************************************************)
EXTENDS JobTracker, TorrentDetails, AutoPaste, Searches, FiniteSetTheorems, SequenceTheorems, TLAPS

-----------------------------------------------------------------------------
(* The job tracker: the inductive invariant.                               *)

JobLists == [registered : SUBSET (Addresses \cup {Global}), invalid : SUBSET Addresses,
             suspendRequested : SUBSET Addresses]

\* What is suspended in the tracker is registered there.
TrackerOK ==
  /\ DOMAIN status \subseteq Addresses
  /\ status \in [DOMAIN status -> {"running", "stopped", "finished"}]
  /\ changed \subseteq DOMAIN status
  /\ showAs \in [integration : BOOLEAN, global : BOOLEAN]
  /\ shownJobs \in JobLists
  /\ shownJobs.suspendRequested \subseteq paused /\ paused \subseteq shownJobs.registered \ {Global}

\* Each transfer has its own job in the tracker.
EachShown == showAs.integration /\ ~showAs.global

\* A transfer whose changes were all told is shown if it is to be; one with a change to be
\* told may be shown wrongly, as long as jobs are shown for single transfers at all.
\* A job that is left of a transfer that was removed was suspended.
JobsOK ==
  /\ EachShown => Running(status) \ changed \subseteq shownJobs.registered \cup stopping
  /\ \A t \in shownJobs.registered \ {Global} :
       t \in paused \/ (EachShown /\ t \in changed \cup Running(status))

GlobalOK ==
  Global \in shownJobs.registered =>
    /\ showAs.integration /\ showAs.global
    /\ changed = {} => Running(status) # {}

TrackerInv == TrackerOK /\ JobsOK /\ GlobalOK

-----------------------------------------------------------------------------
(* What the functions of KUiServerJobs make of its lists.                  *)

\* The global job is shown only while a transfer runs; no other job is touched.
LEMMA GlobalShown ==
    ASSUME NEW j \in JobLists, NEW st, NEW set
    PROVE  /\ ShowGlobal(j, st, set) \in JobLists
           /\ ShowGlobal(j, st, set).registered \ {Global} = j.registered \ {Global}
           /\ ShowGlobal(j, st, set).invalid = j.invalid
           /\ ShowGlobal(j, st, set).suspendRequested = j.suspendRequested
           /\ Global \in ShowGlobal(j, st, set).registered
              => set.integration /\ set.global /\ Running(st) \ j.invalid # {}
<1>1. Global \notin j.suspendRequested
  BY JobTrackerAssumption DEF JobLists
<1>2. CASE ShouldBeShown(Global, st, j, set)
  <2>1. ShowGlobal(j, st, set) = [j EXCEPT !.registered = @ \cup {Global}]
    BY <1>2 DEF ShowGlobal, Register
  <2>2. set.integration /\ set.global /\ Running(st) \ j.invalid # {}
    BY <1>2 DEF ShouldBeShown, ExistRunningTransfers
  <2> QED
    BY <2>1, <2>2 DEF JobLists
<1>3. CASE ~ShouldBeShown(Global, st, j, set)
  <2>1. ShowGlobal(j, st, set)
        = IF Global \notin j.registered THEN j ELSE [j EXCEPT !.registered = @ \ {Global}]
    BY <1>1, <1>3 DEF ShowGlobal, Unregister
  <2> QED
    BY <2>1 DEF JobLists
<1> QED
  BY <1>2, <1>3

\* A job is unregistered, unless it was to be suspended.
LEMMA Unregistered ==
    ASSUME NEW j \in JobLists, NEW t
    PROVE  /\ Unregister(j, t) \in JobLists
           /\ Unregister(j, t).registered
              = IF t \in j.suspendRequested THEN j.registered ELSE j.registered \ {t}
           /\ Unregister(j, t).suspendRequested \subseteq j.suspendRequested
           /\ Unregister(j, t).invalid = j.invalid
BY DEF Unregister, JobLists

-----------------------------------------------------------------------------
(* The invariant is inductive.                                             *)

LEMMA TrackerInitOK == TrackerInit => TrackerInv
BY DEF TrackerInit, TrackerInv, TrackerOK, JobsOK, GlobalOK, JobLists, Running, EachShown

\* Each transfer is shown by itself when the global job is not.
LEMMA EachIsShown ==
    ASSUME NEW t \in Addresses, NEW st, NEW j, NEW set
    PROVE  ShouldBeShown(t, st, j, set) <=> set.integration /\ ~set.global /\ t \in Running(st)
BY JobTrackerAssumption DEF ShouldBeShown

\* TransferRemoved: its job stays when it was to be suspended.
LEMMA RemovedOK == TrackerInv /\ TransferRemoved => TrackerInv'
<1> SUFFICES ASSUME TrackerInv, TransferRemoved PROVE TrackerInv'
  OBVIOUS
<1> USE DEF TrackerInv, TrackerOK
<1>1. PICK t \in DOMAIN status :
        /\ shownJobs' = SlotTransferAboutToBeRemoved(shownJobs, t, status, showAs)
        /\ status' = Restrict(status, DOMAIN status \ {t})
        /\ changed' = changed \ {t} /\ stopping' = stopping \ {t} /\ Keeps(shownJobs')
        /\ UNCHANGED <<suspended, showAs>>
  BY DEF TransferRemoved
<1> DEFINE gone == [shownJobs EXCEPT !.invalid = @ \cup {t}]
           left == Unregister(gone, t)
<1>2. /\ gone \in JobLists /\ gone.registered = shownJobs.registered
      /\ gone.suspendRequested = shownJobs.suspendRequested /\ t \in gone.invalid
  BY DEF JobLists
<1> HIDE DEF gone
<1>3. /\ left \in JobLists
      /\ left.registered
         = IF t \in shownJobs.suspendRequested THEN shownJobs.registered
           ELSE shownJobs.registered \ {t}
      /\ left.suspendRequested \subseteq shownJobs.suspendRequested
  BY <1>2, Unregistered, ZenonT(30)
<1>4. /\ shownJobs' \in JobLists
      /\ shownJobs'.registered \ {Global} = left.registered \ {Global}
      /\ shownJobs'.suspendRequested = left.suspendRequested
      /\ Global \in shownJobs'.registered
         => showAs.integration /\ showAs.global /\ Running(status) \ {t} # {}
  <2>1. left \in JobLists /\ left.invalid = gone.invalid
    BY <1>2, Unregistered
  <2>2. shownJobs' = ShowGlobal(left, status, showAs)
    BY <1>1 DEF SlotTransferAboutToBeRemoved, gone
  <2> HIDE DEF left
  <2> QED
    BY <1>2, <2>1, <2>2, GlobalShown
<1> HIDE DEF left
<1>5. /\ Running(status') = Running(status) \ {t}
      /\ status' \in [DOMAIN status' -> {"running", "stopped", "finished"}]
      /\ DOMAIN status' = DOMAIN status \ {t}
  BY <1>1 DEF Restrict, Running
<1>6. paused' = paused \cap shownJobs'.registered
  BY <1>1 DEF Keeps
<1>7. TrackerOK'
  BY <1>1, <1>3, <1>4, <1>5, <1>6, JobTrackerAssumption DEF JobLists
<1>8. JobsOK'
  <2>1. EachShown' <=> EachShown
    BY <1>1 DEF EachShown
  <2>2. EachShown => (Running(status) \ changed) \ {t} \subseteq shownJobs'.registered \cup stopping'
    <3> SUFFICES ASSUME EachShown, NEW u \in (Running(status) \ changed) \ {t}
                 PROVE  u \in shownJobs'.registered \cup stopping'
      OBVIOUS
    <3>1. u \in shownJobs.registered \cup stopping /\ u # Global
      BY JobTrackerAssumption DEF JobsOK, Running
    <3> QED
      BY <1>1, <1>3, <1>4, <3>1
  <2>3. ASSUME NEW u \in shownJobs'.registered \ {Global}
        PROVE  u \in paused' \/ (EachShown /\ u \in changed' \cup Running(status'))
    <3>1. u \in shownJobs.registered \ {Global} /\ (u = t => t \in paused)
      BY <1>3, <1>4
    <3> QED
      BY <1>1, <1>5, <1>6, <3>1 DEF JobsOK
  <2> QED
    BY <1>1, <1>5, <2>1, <2>2, <2>3 DEF JobsOK
<1>9. GlobalOK'
  BY <1>1, <1>4, <1>5 DEF GlobalOK
<1> QED
  BY <1>7, <1>8, <1>9

\* TransferAdded: its address may be that of a removed one, whose job is still shown.
LEMMA AddedOK == TrackerInv /\ TransferAdded => TrackerInv'
<1> SUFFICES ASSUME TrackerInv, TransferAdded PROVE TrackerInv'
  OBVIOUS
<1> USE DEF TrackerInv, TrackerOK
<1>1. PICK t \in Addresses \ DOMAIN status, s \in {"running", "stopped"} :
        /\ status' = [u \in DOMAIN status \cup {t} |-> IF u = t THEN s ELSE status[u]]
        /\ shownJobs' = SlotTransfersAdded(shownJobs, {t}, status', showAs)
        /\ UNCHANGED <<changed, stopping, paused, showAs>>
  BY DEF TransferAdded
<1>2. /\ DOMAIN status' = DOMAIN status \cup {t}
      /\ status' \in [DOMAIN status' -> {"running", "stopped", "finished"}]
      /\ Running(status') = Running(status) \cup (IF s = "running" THEN {t} ELSE {})
  BY <1>1 DEF Running
<1>3. /\ shownJobs' \in JobLists
      /\ shownJobs'.registered \ {Global}
         = (shownJobs.registered \ {Global})
           \cup (IF EachShown /\ t \in Running(status') THEN {t} ELSE {})
      /\ shownJobs'.suspendRequested = shownJobs.suspendRequested
      /\ Global \in shownJobs'.registered
         => showAs.integration /\ showAs.global /\ Running(status') # {}
  <2> DEFINE with == [shownJobs EXCEPT !.registered =
                        @ \cup {u \in {t} : ShouldBeShown(u, status', shownJobs, showAs)}]
  <2>1. shownJobs' = ShowGlobal(with, status', showAs)
    BY <1>1 DEF SlotTransfersAdded
  <2>2. /\ with \in JobLists /\ with.suspendRequested = shownJobs.suspendRequested
        /\ with.registered = shownJobs.registered
                             \cup (IF EachShown /\ t \in Running(status') THEN {t} ELSE {})
    BY EachIsShown DEF JobLists, EachShown
  <2> HIDE DEF with
  <2>3. t # Global
    BY JobTrackerAssumption
  <2> QED
    BY <2>1, <2>2, <2>3, GlobalShown
<1>4. EachShown' <=> EachShown
  BY <1>1 DEF EachShown
<1>5. TrackerOK'
  BY <1>1, <1>2, <1>3
<1>6. JobsOK'
  <2>1. EachShown => Running(status') \ changed \subseteq shownJobs'.registered \cup stopping
    <3> SUFFICES ASSUME EachShown, NEW u \in Running(status') \ changed
                 PROVE  u \in shownJobs'.registered \cup stopping
      OBVIOUS
    <3>1. u # t => u \in shownJobs.registered \cup stopping /\ u # Global
      BY <1>2, JobTrackerAssumption DEF JobsOK, Running
    <3> QED
      BY <1>3, <3>1
  <2>2. ASSUME NEW u \in shownJobs'.registered \ {Global}
        PROVE  u \in paused \/ (EachShown /\ u \in changed \cup Running(status'))
    BY <1>2, <1>3 DEF JobsOK
  <2> QED
    BY <1>1, <1>4, <2>1, <2>2 DEF JobsOK
<1>7. GlobalOK'
  BY <1>1, <1>3 DEF GlobalOK
<1> QED
  BY <1>5, <1>6, <1>7

\* TransferChanges: what is not told yet may be shown wrongly.
LEMMA ChangedOK == TrackerInv /\ TransferChanges => TrackerInv'
<1> SUFFICES ASSUME TrackerInv, TransferChanges PROVE TrackerInv'
  OBVIOUS
<1> USE DEF TrackerInv, TrackerOK
<1>1. PICK t \in DOMAIN status, s \in {"running", "stopped", "finished"} :
        /\ status' = [status EXCEPT ![t] = s]
        /\ stopping' = IF s = "running" THEN stopping ELSE stopping \ {t}
        /\ changed' = changed \cup {t}
        /\ UNCHANGED <<shownJobs, paused, showAs>>
  BY DEF TransferChanges
<1>2. /\ DOMAIN status' = DOMAIN status
      /\ status' \in [DOMAIN status' -> {"running", "stopped", "finished"}]
      /\ Running(status') \ {t} = Running(status) \ {t}
  BY <1>1 DEF Running
<1>3. TrackerOK'
  BY <1>1, <1>2
<1>4. JobsOK'
  BY <1>1, <1>2 DEF JobsOK, EachShown
<1>5. GlobalOK'
  BY <1>1 DEF GlobalOK
<1> QED
  BY <1>3, <1>4, <1>5

\* The jobs of ts are shown again as they should be; others are as they were.
LEMMA ShownAgain ==
    ASSUME TrackerOK, NEW ts \in SUBSET DOMAIN status, NEW set,
           NEW j, j = ShowGlobal(ShowTransfers(shownJobs, ts, status, set), status, set)
    PROVE  /\ j \in JobLists
           /\ j.suspendRequested \subseteq paused \cap j.registered
           /\ \A u \in Addresses \ ts : u \in j.registered <=> u \in shownJobs.registered
           /\ \A u \in ts :
                IF set.integration /\ ~set.global /\ u \in Running(status)
                THEN u \in j.registered
                ELSE u \in j.registered => u \in paused
           /\ Global \in j.registered => set.integration /\ set.global /\ Running(status) # {}
<1> USE DEF TrackerOK
<1> DEFINE k == ShowTransfers(shownJobs, ts, status, set)
           shown == {u \in ts : ShouldBeShown(u, status, shownJobs, set)}
<1>1. ts \in SUBSET Addresses /\ shownJobs \in JobLists
  OBVIOUS
<1>2. /\ k \in JobLists
      /\ k.registered
         = (shownJobs.registered \cup shown) \ ((ts \ shown) \ shownJobs.suspendRequested)
      /\ k.suspendRequested \subseteq shownJobs.suspendRequested
  BY <1>1 DEF ShowTransfers, JobLists
<1>3. shown = {u \in ts : set.integration /\ ~set.global /\ u \in Running(status)}
  BY <1>1, EachIsShown
<1> HIDE DEF k, shown
<1>4. /\ j \in JobLists
      /\ j.registered \ {Global} = k.registered \ {Global}
      /\ j.suspendRequested = k.suspendRequested
      /\ Global \in j.registered => set.integration /\ set.global /\ Running(status) # {}
  BY <1>2, GlobalShown DEF k
<1>5. \A u \in Addresses : u # Global
  BY JobTrackerAssumption
<1>6. j.suspendRequested \subseteq paused \cap j.registered
  BY <1>2, <1>4, <1>5 DEF JobLists
<1> QED
  BY <1>1, <1>2, <1>3, <1>4, <1>5, <1>6

\* ModelReports: without integration the tracker does not listen.
LEMMA ReportedOK == TrackerInv /\ ModelReports => TrackerInv'
<1> SUFFICES ASSUME TrackerInv, ModelReports PROVE TrackerInv'
  OBVIOUS
<1>1. /\ changed' = {} /\ UNCHANGED <<status, stopping, showAs>>
      /\ shownJobs' = SlotTransfersChanged(shownJobs, changed, status, showAs)
      /\ paused' = paused \cap shownJobs'.registered
  BY DEF ModelReports, Keeps
<1> USE DEF TrackerInv
<1>2. CASE ~showAs.integration
  <2>1. shownJobs' = shownJobs /\ paused' = paused
    BY <1>1, <1>2 DEF SlotTransfersChanged, TrackerOK
  <2>2. ~EachShown /\ ~EachShown'
    BY <1>1, <1>2 DEF EachShown
  <2> QED
    BY <1>1, <1>2, <2>1, <2>2 DEF TrackerOK, JobsOK, GlobalOK
<1>3. CASE showAs.integration
  <2>1. shownJobs' = ShowGlobal(ShowTransfers(shownJobs, changed, status, showAs), status, showAs)
    BY <1>1, <1>3 DEF SlotTransfersChanged
  <2>2. /\ shownJobs' \in JobLists
        /\ shownJobs'.suspendRequested \subseteq paused \cap shownJobs'.registered
        /\ \A u \in Addresses \ changed :
             u \in shownJobs'.registered <=> u \in shownJobs.registered
        /\ \A u \in changed :
             IF showAs.integration /\ ~showAs.global /\ u \in Running(status)
             THEN u \in shownJobs'.registered
             ELSE u \in shownJobs'.registered => u \in paused
        /\ Global \in shownJobs'.registered
           => showAs.integration /\ showAs.global /\ Running(status) # {}
    <3>1. changed \in SUBSET DOMAIN status
      BY DEF TrackerOK
    <3> QED
      BY <2>1, <3>1, ShownAgain
  <2> USE DEF TrackerOK
  <2>3. EachShown' <=> EachShown
    BY <1>1 DEF EachShown
  <2>4. \A u \in Addresses : u # Global
    BY JobTrackerAssumption
  <2>5. TrackerOK'
    BY <1>1, <2>2, <2>4
  <2>6. EachShown => Running(status) \subseteq shownJobs'.registered \cup stopping
    BY <2>2, <2>4 DEF JobsOK, Running, EachShown
  <2>7. ASSUME NEW u \in shownJobs'.registered \ {Global}
        PROVE  u \in paused' \/ (EachShown /\ u \in Running(status))
    <3>1. u \in Addresses
      BY <2>2 DEF JobLists
    <3> QED
      BY <1>1, <2>2, <3>1 DEF JobsOK, EachShown
  <2>8. JobsOK'
    BY <1>1, <2>3, <2>6, <2>7 DEF JobsOK
  <2> QED
    BY <1>1, <2>2, <2>5, <2>8 DEF GlobalOK
<1> QED
  BY <1>2, <1>3

\* ChangeSettings: the jobs of all transfers are shown again.
LEMMA SettingsOK == TrackerInv /\ ChangeSettings => TrackerInv'
<1> SUFFICES ASSUME TrackerInv, ChangeSettings PROVE TrackerInv'
  OBVIOUS
<1> USE DEF TrackerInv
<1>1. /\ showAs' \in [integration : BOOLEAN, global : BOOLEAN]
      /\ UNCHANGED <<status, changed, stopping>>
      /\ shownJobs' = ShowGlobal(ShowTransfers(shownJobs, DOMAIN status, status, showAs'), status, showAs')
      /\ paused' = paused \cap shownJobs'.registered
  BY DEF ChangeSettings, Keeps, TrackerSettingsChanged
<1>2. /\ shownJobs' \in JobLists
      /\ shownJobs'.suspendRequested \subseteq paused \cap shownJobs'.registered
      /\ \A u \in Addresses \ DOMAIN status :
           u \in shownJobs'.registered <=> u \in shownJobs.registered
      /\ \A u \in DOMAIN status :
           IF showAs'.integration /\ ~showAs'.global /\ u \in Running(status)
           THEN u \in shownJobs'.registered
           ELSE u \in shownJobs'.registered => u \in paused
      /\ Global \in shownJobs'.registered
         => showAs'.integration /\ showAs'.global /\ Running(status) # {}
  <2>1. DOMAIN status \in SUBSET DOMAIN status
    OBVIOUS
  <2>2. PICK set : set = showAs'
    OBVIOUS
  <2>3. shownJobs'
        = ShowGlobal(ShowTransfers(shownJobs, DOMAIN status, status, set), status, set)
    BY <1>1, <2>2
  <2>4. /\ shownJobs' \in JobLists
        /\ shownJobs'.suspendRequested \subseteq paused \cap shownJobs'.registered
        /\ \A u \in Addresses \ DOMAIN status :
             u \in shownJobs'.registered <=> u \in shownJobs.registered
        /\ \A u \in DOMAIN status :
             IF set.integration /\ ~set.global /\ u \in Running(status)
             THEN u \in shownJobs'.registered
             ELSE u \in shownJobs'.registered => u \in paused
        /\ Global \in shownJobs'.registered => set.integration /\ set.global /\ Running(status) # {}
    BY <2>1, <2>3, ShownAgain
  <2> QED
    BY <2>2, <2>4
<1> USE DEF TrackerOK
<1>3. \A u \in Addresses : u # Global
  BY JobTrackerAssumption
<1>4. TrackerOK'
  BY <1>1, <1>2, <1>3
<1>5. EachShown' => Running(status) \subseteq shownJobs'.registered
  BY <1>2 DEF Running, EachShown
<1>6. ASSUME NEW u \in shownJobs'.registered \ {Global}
      PROVE  u \in paused' \/ (EachShown' /\ u \in Running(status))
  <2>1. u \in Addresses
    BY <1>2 DEF JobLists
  <2>2. u \notin DOMAIN status => u \in paused
    BY <1>2, <2>1 DEF JobsOK, Running
  <2> QED
    BY <1>1, <1>2, <2>1, <2>2 DEF EachShown
<1>7. JobsOK'
  BY <1>1, <1>5, <1>6 DEF JobsOK
<1> QED
  BY <1>1, <1>2, <1>4, <1>7 DEF GlobalOK

-----------------------------------------------------------------------------
(* Commands: what stops or starts has a change to be told.                 *)

Asked ==
  /\ DOMAIN status' = DOMAIN status
  /\ status' \in [DOMAIN status -> {"running", "stopped", "finished"}]
  /\ changed \subseteq changed' /\ changed' \subseteq DOMAIN status
  /\ stopping \subseteq stopping'
  /\ Running(status') \ changed' \subseteq Running(status) \ changed
  /\ Running(status) \subseteq Running(status') \cup changed'

\* What still runs after it was asked to stop is stopping.
LEMMA StopAsks ==
    ASSUME TrackerInv, NEW ts, Stop(ts)
    PROVE  Asked /\ (Running(status') \ changed') \cap ts \subseteq stopping'
<1> USE DEF TrackerInv, TrackerOK
<1>1. PICK late \in SUBSET (ts \cap Running(status)) :
        /\ status' = [t \in DOMAIN status |->
                        IF t \in (ts \cap Running(status)) \ late THEN "stopped" ELSE status[t]]
        /\ changed' = changed \cup ((ts \cap Running(status)) \ late)
        /\ stopping' = stopping \cup late
  BY DEF Stop
<1>2. Running(status') = Running(status) \ ((ts \cap Running(status)) \ late)
  BY <1>1 DEF Running
<1>3. Running(status) \subseteq DOMAIN status
  BY DEF Running
<1>4. status' \in [DOMAIN status -> {"running", "stopped", "finished"}]
  BY <1>1
<1> QED
  BY <1>1, <1>2, <1>3, <1>4 DEF Asked

LEMMA StartAsks ==
    ASSUME TrackerInv, NEW t \in DOMAIN status, Start(t)
    PROVE  Asked
<1> USE DEF TrackerInv, TrackerOK
<1>1. /\ status' = [status EXCEPT ![t] = IF @ = "stopped" THEN "running" ELSE @]
      /\ changed' = IF status[t] = "stopped" THEN changed \cup {t} ELSE changed
      /\ stopping' = stopping
  BY DEF Start
<1> QED
  BY <1>1 DEF Asked, Running

\* Where jobs are unregistered at most, and only those of ts that were asked to stop.
LEMMA CommandOK ==
    ASSUME TrackerInv, Asked, showAs' = showAs, NEW ts,
           (Running(status') \ changed') \cap ts \subseteq stopping',
           shownJobs' \in JobLists,
           shownJobs'.registered \subseteq shownJobs.registered,
           shownJobs.registered \ shownJobs'.registered \subseteq ts,
           shownJobs'.suspendRequested \subseteq paused',
           paused' \subseteq shownJobs'.registered \ {Global},
           paused \cap shownJobs'.registered \subseteq paused'
    PROVE  TrackerInv'
<1> USE DEF TrackerInv, TrackerOK, Asked
<1>1. EachShown' <=> EachShown
  BY DEF EachShown
<1>2. TrackerOK'
  OBVIOUS
<1>3. EachShown => Running(status') \ changed' \subseteq shownJobs'.registered \cup stopping'
  BY DEF JobsOK
<1>4. ASSUME NEW u \in shownJobs'.registered \ {Global}
      PROVE  u \in paused' \/ (EachShown /\ u \in changed' \cup Running(status'))
  BY DEF JobsOK
<1>5. JobsOK'
  BY <1>1, <1>3, <1>4 DEF JobsOK
<1>6. GlobalOK'
  BY DEF GlobalOK
<1> QED
  BY <1>2, <1>5, <1>6

LEMMA KilledOK == TrackerInv /\ KillInTracker => TrackerInv'
<1> SUFFICES ASSUME TrackerInv, KillInTracker PROVE TrackerInv'
  OBVIOUS
<1>1. PICK t \in shownJobs.registered \cap DOMAIN status :
        /\ shownJobs' = Unregister(shownJobs, t) /\ Keeps(shownJobs')
        /\ IF Unregisters(shownJobs, t) THEN Stop({t}) ELSE UNCHANGED <<status, changed, stopping>>
        /\ UNCHANGED showAs
  BY DEF KillInTracker
<1>2. paused' = paused \cap shownJobs'.registered
  BY <1>1 DEF Keeps
<1>3. /\ shownJobs' \in JobLists
      /\ shownJobs'.registered = IF t \in shownJobs.suspendRequested THEN shownJobs.registered
                                 ELSE shownJobs.registered \ {t}
      /\ shownJobs'.suspendRequested \subseteq shownJobs.suspendRequested
  BY <1>1, Unregistered DEF TrackerInv, TrackerOK
<1>4. /\ shownJobs'.suspendRequested \subseteq paused'
      /\ paused' \subseteq shownJobs'.registered \ {Global}
      /\ paused \cap shownJobs'.registered \subseteq paused'
  BY <1>2, <1>3 DEF TrackerInv, TrackerOK
<1>5. CASE Unregisters(shownJobs, t)
  <2>1. Asked /\ (Running(status') \ changed') \cap {t} \subseteq stopping'
    BY <1>1, <1>5, StopAsks
  <2>2. /\ shownJobs'.registered \subseteq shownJobs.registered
        /\ shownJobs.registered \ shownJobs'.registered \subseteq {t}
    BY <1>3
  <2> QED
    BY <1>1, <1>3, <1>4, <2>1, <2>2, CommandOK
<1>6. CASE ~Unregisters(shownJobs, t)
  <2>1. Asked /\ (Running(status') \ changed') \cap {} \subseteq stopping'
    BY <1>1, <1>6 DEF Asked, TrackerInv, TrackerOK
  <2>2. /\ shownJobs'.registered \subseteq shownJobs.registered
        /\ shownJobs.registered \ shownJobs'.registered \subseteq {}
    BY <1>1, <1>3, <1>6 DEF Unregisters
  <2> QED
    BY <1>1, <1>3, <1>4, <2>1, <2>2, CommandOK
<1> QED
  BY <1>5, <1>6

LEMMA KilledGlobalOK == TrackerInv /\ KillGlobal => TrackerInv'
<1> SUFFICES ASSUME TrackerInv, KillGlobal PROVE TrackerInv'
  OBVIOUS
<1>1. /\ shownJobs' = Unregister(shownJobs, Global) /\ Stop(DOMAIN status)
      /\ UNCHANGED <<paused, showAs>>
  BY DEF KillGlobal
<1>2. /\ shownJobs' \in JobLists
      /\ shownJobs'.registered = IF Global \in shownJobs.suspendRequested THEN shownJobs.registered
                                 ELSE shownJobs.registered \ {Global}
      /\ shownJobs'.suspendRequested \subseteq shownJobs.suspendRequested
  BY <1>1, Unregistered DEF TrackerInv, TrackerOK
<1>3. /\ shownJobs'.suspendRequested \subseteq paused'
      /\ paused' \subseteq shownJobs'.registered \ {Global}
      /\ paused \cap shownJobs'.registered \subseteq paused'
  BY <1>1, <1>2 DEF TrackerInv, TrackerOK
<1>4. Asked
  BY <1>1, StopAsks
<1>5. /\ (Running(status') \ changed') \cap {Global} \subseteq stopping'
      /\ shownJobs'.registered \subseteq shownJobs.registered
      /\ shownJobs.registered \ shownJobs'.registered \subseteq {Global}
  BY <1>2, <1>4, JobTrackerAssumption DEF Asked, TrackerInv, TrackerOK, Running
<1> QED
  BY <1>1, <1>2, <1>3, <1>4, <1>5, CommandOK

LEMMA SuspendedOK == TrackerInv /\ SuspendInTracker => TrackerInv'
<1> SUFFICES ASSUME TrackerInv, SuspendInTracker PROVE TrackerInv'
  OBVIOUS
<1>1. PICK t \in shownJobs.registered \cap DOMAIN status \cap Resuming :
        /\ shownJobs' = [shownJobs EXCEPT !.suspendRequested = @ \cup {t}]
        /\ paused' = paused \cup {t} /\ Stop({t}) /\ UNCHANGED showAs
  BY DEF SuspendInTracker
<1>2. t \in Addresses /\ t # Global
  BY JobTrackerAssumption
<1>3. /\ shownJobs' \in JobLists
      /\ shownJobs'.registered = shownJobs.registered
      /\ shownJobs'.suspendRequested = shownJobs.suspendRequested \cup {t}
  BY <1>1, <1>2 DEF TrackerInv, TrackerOK, JobLists
<1>4. /\ shownJobs'.suspendRequested \subseteq paused'
      /\ paused' \subseteq shownJobs'.registered \ {Global}
      /\ paused \cap shownJobs'.registered \subseteq paused'
  BY <1>1, <1>2, <1>3 DEF TrackerInv, TrackerOK
<1>5. Asked /\ (Running(status') \ changed') \cap {t} \subseteq stopping'
  BY <1>1, StopAsks
<1>6. /\ shownJobs'.registered \subseteq shownJobs.registered
      /\ shownJobs.registered \ shownJobs'.registered \subseteq {t}
  BY <1>3
<1> QED
  BY <1>1, <1>3, <1>4, <1>5, <1>6, CommandOK

\* ResumeInTracker, UserCommand: no job is touched.
LEMMA StartedOrStoppedOK == TrackerInv /\ (ResumeInTracker \/ UserCommand) => TrackerInv'
<1> SUFFICES ASSUME TrackerInv, ResumeInTracker \/ UserCommand PROVE TrackerInv'
  OBVIOUS
<1>1. PICK t \in DOMAIN status :
        (Start(t) \/ Stop({t})) /\ UNCHANGED <<shownJobs, paused, showAs>>
  BY DEF ResumeInTracker, UserCommand
<1>2. Asked
  BY <1>1, StartAsks, StopAsks
<1>3. /\ (Running(status') \ changed') \cap {} \subseteq stopping'
      /\ shownJobs' \in JobLists
      /\ shownJobs'.registered \subseteq shownJobs.registered
      /\ shownJobs.registered \ shownJobs'.registered \subseteq {}
      /\ shownJobs'.suspendRequested \subseteq paused'
      /\ paused' \subseteq shownJobs'.registered \ {Global}
      /\ paused \cap shownJobs'.registered \subseteq paused'
  BY <1>1 DEF TrackerInv, TrackerOK
<1> QED
  BY <1>1, <1>2, <1>3, CommandOK

LEMMA TrackerNextOK == TrackerInv /\ [TrackerNext]_trackerVars => TrackerInv'
<1> SUFFICES ASSUME TrackerInv, [TrackerNext]_trackerVars PROVE TrackerInv'
  OBVIOUS
<1>1. CASE UNCHANGED trackerVars
  BY <1>1 DEF trackerVars, TrackerInv, TrackerOK, JobsOK, GlobalOK, EachShown
<1> QED
  BY <1>1, AddedOK, RemovedOK, ChangedOK, ReportedOK, SettingsOK, KilledOK, KilledGlobalOK,
     SuspendedOK, StartedOrStoppedOK
     DEF TrackerNext

LEMMA TrackerInvShows == TrackerInv => TrackerShowsRunning
<1> SUFFICES ASSUME TrackerInv, changed = {}
             PROVE  /\ \A t \in DOMAIN status :
                         /\ ShouldBeShown(t, status, shownJobs, showAs)
                            => t \in shownJobs.registered \cup stopping
                         /\ t \in shownJobs.registered
                            => ShouldBeShown(t, status, shownJobs, showAs) \/ t \in paused
                    /\ Global \in shownJobs.registered => showAs.global /\ Running(status) # {}
  BY DEF TrackerShowsRunning
<1>1. Global \in shownJobs.registered => showAs.global /\ Running(status) # {}
  BY DEF TrackerInv, GlobalOK
<1>2. ASSUME NEW t \in DOMAIN status
      PROVE  /\ ShouldBeShown(t, status, shownJobs, showAs)
                => t \in shownJobs.registered \cup stopping
             /\ t \in shownJobs.registered
                => ShouldBeShown(t, status, shownJobs, showAs) \/ t \in paused
  <2>1. t \in Addresses /\ t # Global
    BY JobTrackerAssumption DEF TrackerInv, TrackerOK
  <2>2. ShouldBeShown(t, status, shownJobs, showAs) <=> EachShown /\ t \in Running(status)
    BY <2>1, EachIsShown DEF EachShown
  <2> QED
    BY <2>1, <2>2 DEF TrackerInv, JobsOK
<1> QED
  BY <1>1, <1>2

\* Once all changes were told, the tracker shows what runs and nothing that does not
\* (KUiServerJobs), for any transfers, and with handlers that get the address of a removed one.
THEOREM TrackerIsRight == TrackerInit /\ [][TrackerNext]_trackerVars => []TrackerShowsRunning
BY TrackerInitOK, TrackerNextOK, TrackerInvShows, PTL

-----------------------------------------------------------------------------
(* The details of a torrent: the inductive invariant.                      *)

Trackers == ToSet(FirstTrackers) \cup NewTrackers
Seeds    == ToSet(FirstSeeds) \cup NewSeeds
Answered == {"nothing", "peers"}

\* libktorrent knows each tracker once.
SwarmOK ==
  /\ DOMAIN swarm = {"multi", "running", "have", "prio", "trackers", "custom", "disabled", "seeds", "answer"}
  /\ swarm.have \subseteq Chunks
  /\ swarm.trackers \in Seq(Trackers) /\ IsInjective(swarm.trackers)
  /\ swarm.answer \in [Trackers -> Answered]
  /\ swarm.seeds \in Seq(Seeds)

RowSet == [trk : Trackers, shown : Answered]

\* The view of the trackers, as long as none was removed that cannot be.
RowsOK ==
  details.open /\ ~slipped =>
    /\ details.rows \in Seq(RowSet) /\ details.current \in 0 .. Len(details.rows)
    /\ Len(details.rows) = Len(swarm.trackers)
    /\ \A i \in 1 .. Len(details.rows) : details.rows[i].trk = swarm.trackers[i]

SeedsOK ==
  details.open => details.seeds = Len(swarm.seeds) /\ details.seed \in 0 .. details.seeds

ViewOK ==
  /\ DOMAIN details = {"open", "tab", "percent", "rows", "current", "canRemove", "canChange",
                       "seeds", "seed", "canRemoveSeed"}
  /\ slipped \in BOOLEAN /\ details.open \in BOOLEAN

\* The tree of the files was filled when the window was made; what had no loss has as much still.
NoFileExceeds ==
  details.open =>
    \A f \in Files \ lost :
      /\ details.percent[f] \in Nat
      /\ details.percent[f] * Cardinality(FileChunks[f]) <= 100 * Cardinality(FileChunks[f] \cap swarm.have)

ItemOK ==
  /\ item = "Running" => swarm.running
  /\ item = "Finished" /\ lost = {} => Complete

DetailsInv == SwarmOK /\ ViewOK /\ RowsOK /\ SeedsOK /\ NoFileExceeds /\ ItemOK

-----------------------------------------------------------------------------
(* Lemmas about lists.                                                     *)

LEMMA RemoveAtPlaces ==
    ASSUME NEW S, NEW s \in Seq(S), NEW i \in 1 .. Len(s)
    PROVE  /\ RemoveAt(s, i) \in Seq(S)
           /\ Len(RemoveAt(s, i)) = Len(s) - 1
           /\ \A k \in 1 .. (Len(s) - 1) :
                RemoveAt(s, i)[k] = IF k < i THEN s[k] ELSE s[k + 1]
<1>1. PICK a : a = SubSeq(s, 1, i - 1)
  OBVIOUS
<1>2. PICK b : b = SubSeq(s, i + 1, Len(s))
  OBVIOUS
<1>3. a \in Seq(S) /\ Len(a) = i - 1 /\ \A k \in 1 .. (i - 1) : a[k] = s[k]
  BY <1>1
<1>4. b \in Seq(S) /\ Len(b) = Len(s) - i /\ \A k \in 1 .. (Len(s) - i) : b[k] = s[k + i]
  BY <1>2
<1>5. RemoveAt(s, i) = a \o b
  BY <1>1, <1>2 DEF RemoveAt
<1>6. /\ a \o b \in Seq(S) /\ Len(a \o b) = Len(s) - 1
      /\ \A k \in 1 .. (Len(s) - 1) : (a \o b)[k] = IF k < i THEN s[k] ELSE s[k + 1]
  <2>1. /\ a \o b \in Seq(S) /\ Len(a \o b) = Len(s) - 1
        /\ \A k \in 1 .. (Len(s) - 1) : (a \o b)[k] = IF k < i THEN a[k] ELSE b[k - (i - 1)]
    <3>1. /\ a \o b \in Seq(S) /\ Len(a \o b) = Len(a) + Len(b)
          /\ \A k \in 1 .. (Len(a) + Len(b)) :
                (a \o b)[k] = IF k <= Len(a) THEN a[k] ELSE b[k - Len(a)]
      BY ONLY <1>3, <1>4, ConcatProperties
    <3>2. /\ Len(a) = i - 1 /\ Len(a) + Len(b) = Len(s) - 1
          /\ \A k \in 1 .. (Len(s) - 1) : k <= Len(a) <=> k < i
      BY <1>3, <1>4
    <3> HIDE <1>3, <1>4
    <3> QED
      BY <3>1, <3>2
  <2>2. ASSUME NEW k \in 1 .. (Len(s) - 1), k >= i PROVE b[k - (i - 1)] = s[k + 1]
    <3>1. k - (i - 1) \in 1 .. (Len(s) - i) /\ k - (i - 1) + i = k + 1
      BY <2>2
    <3> QED
      BY <1>4, <3>1
  <2> QED
    BY <1>3, <2>1, <2>2
<1> QED
  BY <1>5, <1>6

\* A list in which nothing is twice stays so when what is not in it is put in.
LEMMA InjectiveWith ==
    ASSUME NEW S, NEW s \in Seq(S), IsInjective(s), NEW i \in 1 .. (Len(s) + 1),
           NEW e, e \notin ToSet(s), NEW r \in Seq(S), Len(r) = Len(s) + 1,
           \A k \in 1 .. (Len(s) + 1) : r[k] = IF k < i THEN s[k] ELSE IF k = i THEN e ELSE s[k - 1]
    PROVE  IsInjective(r)
<1>1. \A k, l \in 1 .. Len(s) : s[k] # e /\ (s[k] = s[l] => k = l)
  BY DEF IsInjective, ToSet
<1> SUFFICES ASSUME NEW k \in 1 .. (Len(s) + 1), NEW l \in 1 .. (Len(s) + 1), k # l
             PROVE  r[k] # r[l]
  BY DEF IsInjective
<1> DEFINE P(x) == IF x < i THEN x ELSE x - 1
<1>2. /\ k # i => P(k) \in 1 .. Len(s) /\ r[k] = s[P(k)]
      /\ l # i => P(l) \in 1 .. Len(s) /\ r[l] = s[P(l)]
      /\ k = i => r[k] = e
      /\ l = i => r[l] = e
  OBVIOUS
<1>3. k # i /\ l # i => P(k) # P(l)
  OBVIOUS
<1> QED
  BY <1>1, <1>2, <1>3

LEMMA InsertAtPlaces ==
    ASSUME NEW S, NEW s \in Seq(S), NEW i \in 1 .. (Len(s) + 1), NEW e \in S
    PROVE  /\ InsertAt(s, i, e) \in Seq(S)
           /\ Len(InsertAt(s, i, e)) = Len(s) + 1
           /\ \A k \in 1 .. (Len(s) + 1) :
                InsertAt(s, i, e)[k] = IF k < i THEN s[k] ELSE IF k = i THEN e ELSE s[k - 1]
           /\ IsInjective(s) /\ e \notin ToSet(s) => IsInjective(InsertAt(s, i, e))
<1>1. PICK a : a = SubSeq(s, 1, i - 1)
  OBVIOUS
<1>2. PICK b : b = SubSeq(s, i, Len(s))
  OBVIOUS
<1>3. a \in Seq(S) /\ Len(a) = i - 1 /\ \A k \in 1 .. (i - 1) : a[k] = s[k]
  BY <1>1
<1>4. /\ b \in Seq(S) /\ Len(b) = Len(s) - i + 1
      /\ \A k \in 1 .. (Len(s) - i + 1) : b[k] = s[k + i - 1]
  BY <1>2
<1>5. PICK c : c = a \o <<e>>
  OBVIOUS
<1>6. c \in Seq(S) /\ Len(c) = i /\ \A k \in 1 .. i : c[k] = IF k < i THEN s[k] ELSE e
  BY <1>3, <1>5
<1>7. InsertAt(s, i, e) = c \o b
  BY <1>1, <1>2, <1>5 DEF InsertAt
<1>8. /\ c \o b \in Seq(S) /\ Len(c \o b) = Len(s) + 1
      /\ \A k \in 1 .. (Len(s) + 1) :
           (c \o b)[k] = IF k < i THEN s[k] ELSE IF k = i THEN e ELSE s[k - 1]
  <2>1. /\ c \o b \in Seq(S) /\ Len(c \o b) = Len(s) + 1
        /\ \A k \in 1 .. (Len(s) + 1) : (c \o b)[k] = IF k <= i THEN c[k] ELSE b[k - i]
    <3>1. /\ c \in Seq(S) /\ Len(c) = i /\ b \in Seq(S) /\ Len(b) = Len(s) - i + 1
          /\ Len(s) \in Nat /\ i \in Nat
      BY <1>4, <1>6
    <3>2. c \o b \in Seq(S) /\ Len(c \o b) = Len(c) + Len(b)
          /\ \A k \in 1 .. Len(c) + Len(b) : (c \o b)[k] = IF k <= Len(c) THEN c[k] ELSE b[k - Len(c)]
      BY <3>1, ConcatProperties
    <3>3. Len(c) + Len(b) = Len(s) + 1
      BY <3>1
    <3> QED
      BY <3>1, <3>2, <3>3
  <2>2. ASSUME NEW k \in 1 .. (Len(s) + 1), k > i PROVE b[k - i] = s[k - 1]
    <3>1. k - i \in 1 .. (Len(s) - i + 1) /\ k - i + i - 1 = k - 1
      BY <2>2
    <3> QED
      BY <1>4, <3>1
  <2> QED
    BY <1>6, <2>1, <2>2
<1>9. ASSUME IsInjective(s), e \notin ToSet(s) PROVE IsInjective(c \o b)
  BY <1>8, <1>9, InjectiveWith
<1> QED
  BY <1>7, <1>8, <1>9

\* Of an element that is there once, the first occurrence is the one at its place.
LEMMA RemoveFirstPlace ==
    ASSUME NEW S, NEW s \in Seq(S), IsInjective(s), NEW i \in 1 .. Len(s)
    PROVE  RemoveFirst(s, s[i]) = RemoveAt(s, i)
<1>1. {k \in 1 .. Len(s) : s[k] = s[i]} = {i}
  BY DEF IsInjective
<1>2. Min({i}) = i
  BY DEF Min
<1> QED
  BY <1>1, <1>2 DEF RemoveFirst, SelectInSeq

\* It stays so when something is taken out.
LEMMA RemovedInjective ==
    ASSUME NEW S, NEW s \in Seq(S), IsInjective(s), NEW i \in 1 .. Len(s)
    PROVE  IsInjective(RemoveAt(s, i))
<1>1. /\ Len(RemoveAt(s, i)) = Len(s) - 1 /\ RemoveAt(s, i) \in Seq(S)
      /\ \A k \in 1 .. (Len(s) - 1) : RemoveAt(s, i)[k] = IF k < i THEN s[k] ELSE s[k + 1]
  BY RemoveAtPlaces
<1>2. \A k, l \in 1 .. Len(s) : s[k] = s[l] => k = l
  BY DEF IsInjective
<1> SUFFICES ASSUME NEW k \in 1 .. (Len(s) - 1), NEW l \in 1 .. (Len(s) - 1), k # l
             PROVE  RemoveAt(s, i)[k] # RemoveAt(s, i)[l]
  BY <1>1 DEF IsInjective
<1> DEFINE P(x) == IF x < i THEN x ELSE x + 1
<1>3. /\ P(k) \in 1 .. Len(s) /\ RemoveAt(s, i)[k] = s[P(k)]
      /\ P(l) \in 1 .. Len(s) /\ RemoveAt(s, i)[l] = s[P(l)]
  BY <1>1
<1>4. P(k) # P(l)
  OBVIOUS
<1> QED
  BY <1>2, <1>3, <1>4

-----------------------------------------------------------------------------
(* The details of a torrent: the invariant is inductive.                   *)

\* What a window shows that is opened.
LEMMA NewRows ==
    ASSUME SwarmOK
    PROVE  /\ TrackerRows \in Seq(RowSet) /\ Len(TrackerRows) = Len(swarm.trackers)
           /\ \A i \in 1 .. Len(TrackerRows) : TrackerRows[i].trk = swarm.trackers[i]
<1>1. DOMAIN swarm.trackers = 1 .. Len(swarm.trackers) /\ Len(swarm.trackers) \in Nat
  BY DEF SwarmOK
<1>2. \A i \in 1 .. Len(swarm.trackers) :
        TrackerItem(swarm.trackers[i]) \in RowSet
        /\ TrackerItem(swarm.trackers[i]).trk = swarm.trackers[i]
  BY <1>1 DEF SwarmOK, TrackerItem, RowSet, Answered
<1>3. TrackerRows = [i \in 1 .. Len(swarm.trackers) |-> TrackerItem(swarm.trackers[i])]
  BY <1>1 DEF TrackerRows
<1>4. TrackerRows \in [1 .. Len(swarm.trackers) -> RowSet]
  BY <1>2, <1>3
<1>5. TrackerRows \in Seq(RowSet) /\ Len(TrackerRows) = Len(swarm.trackers)
  BY <1>1, <1>4
<1> QED
  BY <1>2, <1>3, <1>5

\* A file's percentage is not more than it has: Percentage rounds down.
LEMMA PercentageFits ==
    ASSUME SwarmOK, NEW f \in Files
    PROVE  /\ f \in TreeNodes /\ Percentage(f) \in Nat
           /\ Percentage(f) * Cardinality(FileChunks[f]) <= 100 * Cardinality(FileChunks[f] \cap swarm.have)
<1>1. f \in Seq(STRING)
  BY DetailsAssumption
<1>2. f = SubSeq(f, 1, Len(f)) /\ Len(f) \in 0 .. Len(f)
  BY <1>1
<1>3. f \in TreeNodes
  <2>1. f \in {SubSeq(f, 1, n) : n \in 0 .. Len(f)}
    BY <1>2
  <2> QED
    BY <2>1 DEF TreeNodes
<1>4. Under(f) = {f}
  <2>1. IsPrefix(f, f)
    BY <1>1 DEF IsPrefix
  <2> QED
    BY <2>1, DetailsAssumption DEF Under
<1>5. UNION {FileChunks[g] : g \in Under(f)} = FileChunks[f]
  BY <1>4
<1>6. IsFiniteSet(FileChunks[f]) /\ FileChunks[f] # {} /\ FileChunks[f] \subseteq Chunks
  BY DetailsAssumption DEF Chunks
<1>7. PICK n : n = Cardinality(FileChunks[f])
  OBVIOUS
<1>8. PICK m : m = Cardinality(FileChunks[f] \cap swarm.have)
  OBVIOUS
<1>9. n \in Nat \ {0} /\ m \in 0 .. n
  <2>1. IsFiniteSet(FileChunks[f] \cap swarm.have) /\ Cardinality(FileChunks[f] \cap swarm.have) <= n
    BY <1>6, <1>7, FS_Subset
  <2>2. n # 0
    BY <1>6, <1>7, FS_EmptySet
  <2> QED
    BY <1>6, <1>7, <1>8, <2>1, <2>2, FS_CardinalityType
<1>10. Percentage(f) = CASE swarm.have = {} -> 0
                         [] swarm.have # {} /\ swarm.have = Chunks -> 100
                         [] OTHER -> (100 * m) \div n
  BY <1>5, <1>7, <1>8 DEF Percentage
<1>11. CASE swarm.have = {}
  BY <1>7, <1>8, <1>9, <1>10, <1>11, <1>3
<1>12. CASE swarm.have # {} /\ swarm.have = Chunks
  <2>1. FileChunks[f] \cap swarm.have = FileChunks[f]
    BY <1>6, <1>12
  <2>2. m = n /\ Percentage(f) = 100
    BY <1>7, <1>8, <1>10, <1>12, <2>1
  <2>3. 100 * n <= 100 * n
    BY <1>9
  <2> QED
    BY <1>3, <1>7, <1>8, <2>2, <2>3
<1>13. CASE swarm.have # {} /\ swarm.have # Chunks
  <2>1. (100 * m) \div n \in Nat /\ ((100 * m) \div n) * n <= 100 * m
    BY <1>9
  <2> QED
    BY <1>3, <1>7, <1>8, <1>10, <1>13, <2>1
<1> QED
  BY <1>11, <1>12, <1>13

LEMMA DetailsInitOK == DetailsInit => DetailsInv
<1> SUFFICES ASSUME DetailsInit PROVE DetailsInv
  OBVIOUS
<1>1. PICK multi \in TorrentKinds :
        swarm = [multi |-> multi, running |-> TRUE, have |-> {}, prio |-> [f \in Files |-> "normal"],
                 trackers |-> FirstTrackers, custom |-> FirstCustom, disabled |-> {}, seeds |-> FirstSeeds,
                 answer |-> [t \in ToSet(FirstTrackers) \cup NewTrackers |-> "nothing"]]
  BY DEF DetailsInit
<1>2. details = Closed /\ item = "none" /\ slipped = FALSE /\ details.open = FALSE
  BY DEF DetailsInit, Closed
<1>3. FirstTrackers \in Seq(Trackers) /\ FirstSeeds \in Seq(Seeds)
  BY DetailsAssumption DEF Trackers, Seeds
<1>4. SwarmOK
  BY <1>1, <1>3, DetailsAssumption DEF SwarmOK, Trackers, Answered
<1> QED
  BY <1>2, <1>4 DEF DetailsInv, ViewOK, RowsOK, SeedsOK, NoFileExceeds, ItemOK, Closed

\* OpenDetails, CloseDetails, ShowTab, SelectTracker, SelectSeed: only the window changes.
LEMMA ViewStepOK ==
    ASSUME DetailsInv,
           \/ OpenDetails \/ CloseDetails
           \/ \E tab \in {"files", "trackers", "seeds"} : ShowTab(tab)
           \/ \E i \in DOMAIN details.rows : SelectTracker(i)
           \/ \E i \in 1 .. details.seeds : SelectSeed(i)
    PROVE  DetailsInv'
<1> USE DEF DetailsInv
<1>1. UNCHANGED <<swarm, item, slipped, lost>>
  BY DEF OpenDetails, CloseDetails, ShowTab, SelectTracker, SelectSeed, Shows
<1>2. SwarmOK' /\ ItemOK'
  BY <1>1 DEF SwarmOK, ItemOK, Complete
<1>3. CASE OpenDetails
  <2>1. details' = Opened
    BY <1>3 DEF OpenDetails, Shows
  <2>2. /\ DOMAIN details' = DOMAIN details /\ details'.open = TRUE
        /\ details'.rows = TrackerRows /\ details'.current = 0 /\ details'.percent = TreeShown
        /\ details'.seeds = Len(swarm.seeds) /\ details'.seed = 0
    BY <2>1 DEF Opened, Closed, ViewOK
  <2>3. Len(swarm.seeds) \in Nat /\ Len(TrackerRows) \in Nat
    BY NewRows DEF SwarmOK
  <2>4. \A f \in Files : TreeShown[f] = Percentage(f)
    BY PercentageFits DEF TreeShown
  <2>5. NoFileExceeds'
    BY <1>1, <2>2, <2>4, PercentageFits DEF NoFileExceeds
  <2>6. RowsOK'
    <3>1. /\ TrackerRows \in Seq(RowSet) /\ Len(TrackerRows) = Len(swarm.trackers)
          /\ \A i \in 1 .. Len(TrackerRows) : TrackerRows[i].trk = swarm.trackers[i]
      BY NewRows
    <3> QED
      BY <1>1, <2>2, <2>3, <3>1 DEF RowsOK
  <2>7. ViewOK'
    BY <1>1, <2>2 DEF ViewOK
  <2>8. SeedsOK'
    BY <1>1, <2>2, <2>3 DEF SeedsOK
  <2> QED
    BY <1>2, <2>5, <2>6, <2>7, <2>8
<1>4. CASE CloseDetails
  <2>1. details' = Closed
    BY <1>4 DEF CloseDetails, Shows
  <2> QED
    BY <1>1, <1>2, <2>1 DEF Closed, ViewOK, RowsOK, SeedsOK, NoFileExceeds
<1>5. CASE \E tab \in {"files", "trackers", "seeds"} : ShowTab(tab)
  <2>1. PICK tab : details' = [details EXCEPT !.tab = tab]
    BY <1>5 DEF ShowTab, Shows
  <2> QED
    BY <1>1, <1>2, <2>1 DEF ViewOK, RowsOK, SeedsOK, NoFileExceeds
<1>6. CASE \E i \in DOMAIN details.rows : SelectTracker(i)
  <2>1. PICK i \in DOMAIN details.rows : details' = CurrentChanged(details, i) /\ details.open
    BY <1>6 DEF SelectTracker, OnTab, Shows
  <2>2. /\ DOMAIN details' = DOMAIN details /\ details'.open = details.open /\ details'.rows = details.rows
        /\ details'.current = i /\ details'.percent = details.percent
        /\ details'.seeds = details.seeds /\ details'.seed = details.seed
    BY <2>1 DEF CurrentChanged, ViewOK
  <2> QED
    BY <1>1, <1>2, <2>1, <2>2 DEF ViewOK, RowsOK, SeedsOK, NoFileExceeds
<1>7. CASE \E i \in 1 .. details.seeds : SelectSeed(i)
  <2>1. PICK i \in 1 .. details.seeds :
          details' = [details EXCEPT !.seed = i, !.canRemoveSeed = UserCreated(i)]
    BY <1>7 DEF SelectSeed, Shows
  <2>2. /\ DOMAIN details' = DOMAIN details /\ details'.open = details.open /\ details'.rows = details.rows
        /\ details'.current = details.current /\ details'.percent = details.percent
        /\ details'.seeds = details.seeds /\ details'.seed = i
    BY <2>1 DEF ViewOK
  <2> QED
    BY <1>1, <1>2, <2>2, SMTT(30) DEF ViewOK, RowsOK, SeedsOK, NoFileExceeds
<1> QED
  BY <1>3, <1>4, <1>5, <1>6, <1>7

\* Where the data and the running stay as they are, so do what is shown of the files and the item.
LEMMA DataKept ==
    ASSUME DetailsInv, swarm'.have = swarm.have, swarm'.running = swarm.running, lost' = lost, item' = item,
           details'.open = details.open, details'.percent = details.percent
    PROVE  NoFileExceeds' /\ ItemOK'
BY DEF DetailsInv, NoFileExceeds, ItemOK, Complete

\* AddTracker: libktorrent may put it anywhere, the rows follow.
LEMMA AddTrackerOK ==
    ASSUME DetailsInv, NEW trk \in NewTrackers, NEW place \in 1 .. (Len(swarm.trackers) + 1),
           AddTracker(trk, place)
    PROVE  DetailsInv'
<1> USE DEF DetailsInv
<1> DEFINE trackers == InsertAt(swarm.trackers, place, trk)
<1>1. /\ trk \notin ToSet(swarm.trackers)
      /\ swarm' = [swarm EXCEPT !.trackers = trackers, !.custom = @ \cup {trk}]
      /\ details' = [details EXCEPT !.rows = InsertRows(@, trackers)]
      /\ UNCHANGED <<item, scan, slipped, lost>>
  BY DEF AddTracker
<1>2. trk \in Trackers /\ swarm.trackers \in Seq(Trackers) /\ IsInjective(swarm.trackers)
  BY DEF Trackers, SwarmOK
<1>3. /\ trackers \in Seq(Trackers) /\ Len(trackers) = Len(swarm.trackers) + 1 /\ IsInjective(trackers)
  BY <1>1, <1>2, InsertAtPlaces
<1> HIDE DEF trackers
<1>4. /\ DOMAIN swarm' = DOMAIN swarm /\ swarm'.trackers = trackers /\ swarm'.have = swarm.have
      /\ swarm'.running = swarm.running /\ swarm'.answer = swarm.answer /\ swarm'.seeds = swarm.seeds
  BY <1>1 DEF SwarmOK
<1>5. /\ DOMAIN details' = DOMAIN details /\ details'.open = details.open
      /\ details'.rows = InsertRows(details.rows, trackers)
      /\ details'.current = details.current /\ details'.percent = details.percent
      /\ details'.seeds = details.seeds /\ details'.seed = details.seed
  BY <1>1 DEF ViewOK
<1>6. SwarmOK' /\ ViewOK' /\ SeedsOK' /\ NoFileExceeds' /\ ItemOK'
  BY <1>1, <1>3, <1>4, <1>5, DataKept DEF SwarmOK, ViewOK, SeedsOK
<1>7. RowsOK'
  <2> SUFFICES ASSUME details.open, ~slipped PROVE RowsOK'
    BY <1>1, <1>5 DEF RowsOK
  <2>1. details.rows \in Seq(RowSet) /\ details.current \in 0 .. Len(details.rows)
        /\ Len(details.rows) = Len(swarm.trackers)
    BY DEF RowsOK
  <2>2. DOMAIN trackers = 1 .. Len(trackers) /\ Len(trackers) \in Nat
    BY <1>3
  <2> DEFINE Row(i) == IF i \in DOMAIN details.rows THEN [details.rows[i] EXCEPT !.trk = trackers[i]]
                       ELSE TrackerItem(trackers[i])
  <2>3. \A i \in 1 .. Len(trackers) : Row(i) \in RowSet /\ Row(i).trk = trackers[i]
    <3> SUFFICES ASSUME NEW i \in 1 .. Len(trackers) PROVE Row(i) \in RowSet /\ Row(i).trk = trackers[i]
      OBVIOUS
    <3>1. trackers[i] \in Trackers
      BY <1>3
    <3>2. CASE i \in DOMAIN details.rows
      <4>1. details.rows[i] \in RowSet
        BY <2>1, <3>2
      <4> QED
        BY <3>1, <3>2, <4>1 DEF RowSet
    <3>3. CASE i \notin DOMAIN details.rows
      BY <3>1, <3>3 DEF RowSet, TrackerItem, Answered
    <3> QED
      BY <3>2, <3>3
  <2>4. details'.rows = [i \in 1 .. Len(trackers) |-> Row(i)]
    BY <1>5, <2>2 DEF InsertRows
  <2> HIDE DEF Row
  <2>5. details'.rows \in [1 .. Len(trackers) -> RowSet]
    BY <2>3, <2>4
  <2>6. details'.rows \in Seq(RowSet) /\ Len(details'.rows) = Len(trackers)
    BY <2>2, <2>5
  <2>7. \A i \in 1 .. Len(trackers) : details'.rows[i].trk = trackers[i]
    BY <2>3, <2>4
  <2>8. details'.current \in 0 .. Len(trackers)
    BY <1>3, <1>5, <2>1
  <2> QED
    BY <1>4, <2>6, <2>7, <2>8 DEF RowsOK
<1> QED
  BY <1>6, <1>7

\* RemoveTracker: the row and the tracker go from the same place.
LEMMA RemoveTrackerOK ==
    ASSUME DetailsInv, NEW next \in 0 .. Len(details.rows), RemoveTracker(next)
    PROVE  DetailsInv'
<1> USE DEF DetailsInv
<1> DEFINE trk == details.rows[details.current].trk
           d   == CurrentChanged(details, next)
           at  == details.current
<1>1. /\ details.open /\ at # 0
      /\ IF Len(details.rows) = 1 THEN next = 0 ELSE next \in DOMAIN details.rows \ {at}
      /\ details' = [d EXCEPT !.rows = RemoveAt(@, at), !.current = IF @ > at THEN @ - 1 ELSE @]
      /\ swarm' = Removed(trk)
      /\ slipped' = (slipped \/ trk \notin swarm.custom)
      /\ UNCHANGED <<item, scan, lost>>
  BY DEF RemoveTracker, OnTab
<1>2. /\ DOMAIN details' = DOMAIN details /\ details'.open = details.open
      /\ details'.rows = RemoveAt(details.rows, at)
      /\ details'.current = (IF next > at THEN next - 1 ELSE next)
      /\ details'.percent = details.percent
      /\ details'.seeds = details.seeds /\ details'.seed = details.seed
  BY <1>1 DEF CurrentChanged, ViewOK
<1>3. /\ DOMAIN swarm' = DOMAIN swarm /\ swarm'.have = swarm.have /\ swarm'.running = swarm.running
      /\ swarm'.answer = swarm.answer /\ swarm'.seeds = swarm.seeds
      /\ swarm'.trackers = IF trk \in swarm.custom THEN RemoveFirst(swarm.trackers, trk) ELSE swarm.trackers
  BY <1>1 DEF Removed, SwarmOK
<1>4. /\ RemoveFirst(swarm.trackers, trk) \in Seq(Trackers)
      /\ IsInjective(RemoveFirst(swarm.trackers, trk))
  <2>1. swarm.trackers \in Seq(Trackers) /\ IsInjective(swarm.trackers)
    BY DEF SwarmOK
  <2>2. CASE \E i \in 1 .. Len(swarm.trackers) : swarm.trackers[i] = trk
    <3>1. PICK i \in 1 .. Len(swarm.trackers) : swarm.trackers[i] = trk
      BY <2>2
    <3>2. RemoveFirst(swarm.trackers, trk) = RemoveAt(swarm.trackers, i)
      BY <2>1, <3>1, RemoveFirstPlace
    <3> QED
      BY <2>1, <3>2, RemoveAtPlaces, RemovedInjective
  <2>3. CASE ~\E i \in 1 .. Len(swarm.trackers) : swarm.trackers[i] = trk
    BY <2>1, <2>3 DEF RemoveFirst
  <2> QED
    BY <2>2, <2>3
<1>5. SwarmOK' /\ ViewOK' /\ SeedsOK' /\ NoFileExceeds' /\ ItemOK'
  BY <1>1, <1>2, <1>3, <1>4, DataKept DEF SwarmOK, ViewOK, SeedsOK
<1>6. RowsOK'
  <2> SUFFICES ASSUME ~slipped, trk \in swarm.custom PROVE RowsOK'
    BY <1>1 DEF RowsOK, ViewOK
  <2>1. /\ details.rows \in Seq(RowSet) /\ at \in 1 .. Len(details.rows)
        /\ Len(details.rows) = Len(swarm.trackers) /\ swarm.trackers[at] = trk
        /\ \A i \in 1 .. Len(details.rows) : details.rows[i].trk = swarm.trackers[i]
    BY <1>1 DEF RowsOK
  <2>2. swarm.trackers \in Seq(Trackers) /\ IsInjective(swarm.trackers) /\ at \in 1 .. Len(swarm.trackers)
    BY <2>1 DEF SwarmOK
  <2>3. swarm'.trackers = RemoveAt(swarm.trackers, at)
    BY <1>3, <2>1, <2>2, RemoveFirstPlace
  <2> HIDE DEF trk, d
  <2>4. PICK n \in Nat : n = Len(details.rows) /\ at \in 1 .. n
    BY <2>1
  <2>5. /\ details'.rows \in Seq(RowSet) /\ Len(details'.rows) = n - 1
        /\ \A k \in 1 .. (n - 1) :
             details'.rows[k] = IF k < at THEN details.rows[k] ELSE details.rows[k + 1]
    <3>1. /\ RemoveAt(details.rows, at) \in Seq(RowSet)
          /\ Len(RemoveAt(details.rows, at)) = Len(details.rows) - 1
          /\ \A k \in 1 .. (Len(details.rows) - 1) :
               RemoveAt(details.rows, at)[k]
               = IF k < at THEN details.rows[k] ELSE details.rows[k + 1]
      BY ONLY <2>1, RemoveAtPlaces
    <3> QED
      BY <1>2, <2>4, <3>1
  <2>6. /\ Len(swarm'.trackers) = n - 1
        /\ \A k \in 1 .. (n - 1) :
             swarm'.trackers[k] = IF k < at THEN swarm.trackers[k] ELSE swarm.trackers[k + 1]
    <3>1. /\ Len(RemoveAt(swarm.trackers, at)) = Len(swarm.trackers) - 1
          /\ \A k \in 1 .. (Len(swarm.trackers) - 1) :
               RemoveAt(swarm.trackers, at)[k]
               = IF k < at THEN swarm.trackers[k] ELSE swarm.trackers[k + 1]
      BY ONLY <2>2, RemoveAtPlaces
    <3> QED
      BY <2>1, <2>3, <2>4, <3>1
  <2>7. \A k \in 1 .. (n - 1) : details'.rows[k].trk = swarm'.trackers[k]
    <3>1. \A k \in 1 .. (n - 1) : k \in 1 .. n /\ k + 1 \in 1 .. n
      BY <2>4
    <3> QED
      BY <2>1, <2>4, <2>5, <2>6, <3>1
  <2>8. details'.current \in 0 .. (n - 1)
    <3>1. DOMAIN details.rows = 1 .. n
      BY <2>1, <2>4
    <3> QED
      BY <1>1, <1>2, <2>4, <3>1
  <2> QED
    BY <2>5, <2>6, <2>7, <2>8 DEF RowsOK
<1> QED
  BY <1>5, <1>6

\* RestoreTrackers: the rows are made anew.
LEMMA RestoreTrackersOK ==
    ASSUME DetailsInv, RestoreTrackers
    PROVE  DetailsInv'
<1> USE DEF DetailsInv
<1>1. PICK trackers \in SetToSeqs(ToSet(swarm.trackers) \ swarm.custom) :
        /\ swarm' = [swarm EXCEPT !.trackers = trackers, !.custom = {}]
        /\ details' = ResetTrackers(details, trackers)
        /\ slipped' = FALSE /\ UNCHANGED <<item, scan, lost>>
  BY DEF RestoreTrackers
<1> DEFINE S == ToSet(swarm.trackers) \ swarm.custom
           n == Cardinality(S)
<1>2. n \in Nat /\ S \subseteq Trackers
  <2>1. swarm.trackers \in Seq(Trackers)
    BY DEF SwarmOK
  <2>2. IsFiniteSet(ToSet(swarm.trackers))
    <3>1. swarm.trackers \in [1 .. Len(swarm.trackers) -> ToSet(swarm.trackers)]
      BY <2>1 DEF ToSet
    <3>2. swarm.trackers \in Surjection(1 .. Len(swarm.trackers), ToSet(swarm.trackers))
      BY <2>1, <3>1 DEF Surjection, ToSet
    <3>3. IsFiniteSet(1 .. Len(swarm.trackers))
      BY <2>1, FS_Interval
    <3> QED
      BY <3>2, <3>3, FS_Surjection
  <2>3. IsFiniteSet(S)
    BY <2>2, FS_Subset
  <2>4. ToSet(swarm.trackers) \subseteq Trackers
    BY <2>1 DEF ToSet
  <2> QED
    BY <2>3, <2>4, FS_CardinalityType
<1>3. trackers \in [1 .. n -> S] /\ \A i, k \in 1 .. n : i # k => trackers[i] # trackers[k]
  BY <1>1 DEF SetToSeqs
<1> HIDE DEF n, S
<1>4. trackers \in Seq(Trackers) /\ Len(trackers) = n /\ DOMAIN trackers = 1 .. n /\ IsInjective(trackers)
  <2>1. trackers \in [1 .. n -> Trackers]
    BY <1>2, <1>3
  <2> QED
    BY <1>2, <1>3, <2>1 DEF IsInjective
<1>5. /\ DOMAIN swarm' = DOMAIN swarm /\ swarm'.trackers = trackers /\ swarm'.have = swarm.have
      /\ swarm'.running = swarm.running /\ swarm'.answer = swarm.answer /\ swarm'.seeds = swarm.seeds
  BY <1>1 DEF SwarmOK
<1>6. /\ DOMAIN details' = DOMAIN details /\ details'.open = details.open
      /\ details'.rows = [i \in 1 .. n |-> TrackerItem(trackers[i])]
      /\ details'.current = 0 /\ details'.percent = details.percent
      /\ details'.seeds = details.seeds /\ details'.seed = details.seed
  BY <1>1, <1>4 DEF ResetTrackers, ViewOK
<1>7. SwarmOK' /\ ViewOK' /\ SeedsOK' /\ NoFileExceeds' /\ ItemOK'
  BY <1>1, <1>4, <1>5, <1>6, DataKept DEF SwarmOK, ViewOK, SeedsOK
<1>8. RowsOK'
  <2>1. \A i \in 1 .. n : TrackerItem(trackers[i]) \in RowSet /\ TrackerItem(trackers[i]).trk = trackers[i]
    BY <1>4 DEF TrackerItem, RowSet, Answered
  <2>2. details'.rows \in [1 .. n -> RowSet]
    BY <1>6, <2>1
  <2>3. details'.rows \in Seq(RowSet) /\ Len(details'.rows) = n
    BY <1>2, <2>2
  <2> QED
    BY <1>2, <1>4, <1>5, <1>6, <2>1, <2>3 DEF RowsOK
<1> QED
  BY <1>7, <1>8

\* TickTracker, TrackerAnswers: what the rows show comes with the next update.
LEMMA SwarmStepOK ==
    ASSUME DetailsInv,
           \/ \E i \in DOMAIN details.rows : TickTracker(i)
           \/ \E trk \in ToSet(swarm.trackers) : TrackerAnswers(trk)
    PROVE  DetailsInv'
<1> USE DEF DetailsInv
<1>1. UNCHANGED <<details, item, slipped, lost>>
  BY DEF TickTracker, TrackerAnswers
<1>2. /\ DOMAIN swarm' = DOMAIN swarm /\ swarm'.have = swarm.have /\ swarm'.running = swarm.running
      /\ swarm'.trackers = swarm.trackers /\ swarm'.seeds = swarm.seeds
      /\ swarm'.answer \in [Trackers -> Answered]
  <2>1. CASE \E i \in DOMAIN details.rows : TickTracker(i)
    BY <2>1 DEF TickTracker, SwarmOK
  <2>2. CASE \E trk \in ToSet(swarm.trackers) : TrackerAnswers(trk)
    <3>1. PICK trk : swarm' = [swarm EXCEPT !.answer[trk] = "peers"]
      BY <2>2 DEF TrackerAnswers
    <3>2. swarm'.answer = [swarm.answer EXCEPT ![trk] = "peers"]
      BY <3>1 DEF SwarmOK
    <3> QED
      BY <3>1, <3>2 DEF SwarmOK, Answered
  <2> QED
    BY <2>1, <2>2
<1> QED
  BY <1>1, <1>2, DataKept DEF SwarmOK, ViewOK, RowsOK, SeedsOK

\* AddWebSeed, RemoveWebSeed: the rows are as many as the web seeds then.
LEMMA AddWebSeedOK ==
    ASSUME DetailsInv, NEW seed \in NewSeeds, AddWebSeed(seed)
    PROVE  DetailsInv'
<1> USE DEF DetailsInv
<1>1. /\ swarm' = [swarm EXCEPT !.seeds = Append(@, seed)]
      /\ details' = ResetSeeds(details, Len(swarm.seeds) + 1)
      /\ UNCHANGED <<item, scan, slipped, lost>>
  BY DEF AddWebSeed
<1>2. /\ DOMAIN swarm' = DOMAIN swarm /\ swarm'.have = swarm.have /\ swarm'.running = swarm.running
      /\ swarm'.trackers = swarm.trackers /\ swarm'.answer = swarm.answer
      /\ swarm'.seeds = Append(swarm.seeds, seed)
  BY <1>1 DEF SwarmOK
<1>3. /\ DOMAIN details' = DOMAIN details /\ details'.open = details.open
      /\ details'.rows = details.rows /\ details'.current = details.current
      /\ details'.percent = details.percent
      /\ details'.seeds = Len(swarm.seeds) + 1 /\ details'.seed = 0
  BY <1>1 DEF ResetSeeds, ViewOK
<1>4. swarm'.seeds \in Seq(Seeds) /\ Len(swarm'.seeds) = Len(swarm.seeds) + 1 /\ Len(swarm.seeds) \in Nat
  BY <1>2 DEF SwarmOK, Seeds
<1>5. NoFileExceeds' /\ ItemOK'
  BY <1>1, <1>2, <1>3, DataKept
<1>6. SwarmOK' /\ ViewOK'
  BY <1>1, <1>2, <1>3, <1>4 DEF SwarmOK, ViewOK
<1>7. RowsOK' /\ SeedsOK'
  BY <1>1, <1>2, <1>3, <1>4 DEF RowsOK, SeedsOK
<1> QED
  BY <1>5, <1>6, <1>7

LEMMA RemoveWebSeedOK ==
    ASSUME DetailsInv, RemoveWebSeed
    PROVE  DetailsInv'
<1> USE DEF DetailsInv
<1> DEFINE left == IF UserCreated(details.seed) THEN RemoveAt(swarm.seeds, details.seed) ELSE swarm.seeds
<1>1. /\ details.open /\ details.seed # 0
      /\ swarm' = [swarm EXCEPT !.seeds = left]
      /\ details' = ResetSeeds(details, Len(left))
      /\ UNCHANGED <<item, scan, slipped, lost>>
  BY DEF RemoveWebSeed, OnTab
<1>2. left \in Seq(Seeds)
  <2>1. swarm.seeds \in Seq(Seeds) /\ details.seed \in 1 .. Len(swarm.seeds)
    BY <1>1 DEF SwarmOK, SeedsOK
  <2> QED
    BY <2>1, RemoveAtPlaces
<1> HIDE DEF left
<1>3. /\ DOMAIN swarm' = DOMAIN swarm /\ swarm'.have = swarm.have /\ swarm'.running = swarm.running
      /\ swarm'.trackers = swarm.trackers /\ swarm'.answer = swarm.answer
      /\ swarm'.seeds = left
  BY <1>1 DEF SwarmOK
<1>4. /\ DOMAIN details' = DOMAIN details /\ details'.open = details.open
      /\ details'.rows = details.rows /\ details'.current = details.current
      /\ details'.percent = details.percent
      /\ details'.seeds = Len(left) /\ details'.seed = 0
  BY <1>1 DEF ResetSeeds, ViewOK
<1>5. Len(left) \in Nat
  BY <1>2
<1>6. NoFileExceeds' /\ ItemOK'
  BY <1>1, <1>3, <1>4, DataKept
<1>7. SwarmOK' /\ ViewOK'
  BY <1>1, <1>2, <1>3, <1>4 DEF SwarmOK, ViewOK
<1>8. RowsOK' /\ SeedsOK'
  BY <1>1, <1>3, <1>4, <1>5 DEF RowsOK, SeedsOK
<1> QED
  BY <1>6, <1>7, <1>8

\* StartOrStop, OpenTorrentSettings, OpenScan, CloseScan: the item follows what is known of
\* the torrent.
LEMMA ItemStepOK ==
    ASSUME DetailsInv, StartOrStop \/ OpenTorrentSettings \/ OpenScan \/ CloseScan
    PROVE  DetailsInv'
<1> USE DEF DetailsInv
<1>1. UNCHANGED <<details, slipped, lost>>
  BY DEF StartOrStop, OpenTorrentSettings, OpenScan, CloseScan
<1>2. /\ DOMAIN swarm' = DOMAIN swarm /\ swarm'.have = swarm.have
      /\ swarm'.trackers = swarm.trackers /\ swarm'.seeds = swarm.seeds
      /\ swarm'.answer = swarm.answer
  BY DEF StartOrStop, OpenTorrentSettings, OpenScan, CloseScan, SwarmOK
<1>3. ItemOK'
  <2>1. CASE StartOrStop
    BY <2>1, <1>1, <1>2 DEF StartOrStop, FilesStatus, ItemStatus, ItemOK, Complete
  <2>2. CASE OpenTorrentSettings
    BY <2>2, <1>1, <1>2 DEF OpenTorrentSettings, ItemStatus, ItemOK, Complete
  <2>3. CASE OpenScan \/ CloseScan
    BY <2>3, <1>1 DEF OpenScan, CloseScan, ItemOK, Complete
  <2> QED
    BY <2>1, <2>2, <2>3
<1>4. NoFileExceeds'
  BY <1>1, <1>2 DEF NoFileExceeds
<1> QED
  BY <1>1, <1>2, <1>3, <1>4 DEF SwarmOK, ViewOK, RowsOK, SeedsOK

\* UpdateTorrent: a row keeps its tracker.
LEMMA UpdateTorrentOK ==
    ASSUME DetailsInv, UpdateTorrent
    PROVE  DetailsInv'
<1> USE DEF DetailsInv
<1>1. /\ swarm.running /\ UNCHANGED <<swarm, slipped, lost>>
      /\ details' = IF details.open /\ details.tab = "trackers"
                    THEN [details EXCEPT !.rows = [i \in DOMAIN @ |-> ItemUpdated(@[i])]] ELSE details
      /\ item' \in {item, FilesStatus(swarm)}
  BY DEF UpdateTorrent
<1>2. SwarmOK' /\ ItemOK'
  BY <1>1 DEF SwarmOK, FilesStatus, ItemStatus, ItemOK, Complete
<1>3. /\ DOMAIN details' = DOMAIN details /\ details'.open = details.open
      /\ details'.current = details.current /\ details'.percent = details.percent
      /\ details'.seeds = details.seeds /\ details'.seed = details.seed
      /\ \/ details'.rows = details.rows
         \/ details'.rows = [i \in DOMAIN details.rows |-> ItemUpdated(details.rows[i])]
  BY <1>1 DEF ViewOK
<1>4. ViewOK' /\ SeedsOK' /\ NoFileExceeds'
  BY <1>1, <1>3 DEF ViewOK, SeedsOK, NoFileExceeds
<1>5. RowsOK'
  <2> SUFFICES ASSUME details.open, ~slipped PROVE RowsOK'
    BY <1>1, <1>3 DEF RowsOK
  <2>1. PICK n \in Nat : n = Len(details.rows) /\ DOMAIN details.rows = 1 .. n
    BY DEF RowsOK
  <2>2. details.rows \in Seq(RowSet) /\ \A i \in 1 .. n : details.rows[i] \in RowSet
    BY <2>1 DEF RowsOK
  <2>3. \A r \in RowSet : ItemUpdated(r) \in RowSet /\ ItemUpdated(r).trk = r.trk
    BY DEF ItemUpdated, RowSet, SwarmOK
  <2>4. CASE details'.rows = [i \in 1 .. n |-> ItemUpdated(details.rows[i])]
    <3>1. details'.rows \in [1 .. n -> RowSet]
      BY <2>2, <2>3, <2>4
    <3>2. details'.rows \in Seq(RowSet) /\ Len(details'.rows) = n
      BY <2>1, <3>1
    <3> QED
      BY <1>1, <1>3, <2>1, <2>2, <2>3, <2>4, <3>2 DEF RowsOK
  <2>5. CASE details'.rows = details.rows
    BY <1>1, <1>3, <2>5 DEF RowsOK
  <2> QED
    BY <1>3, <2>1, <2>4, <2>5
<1> QED
  BY <1>2, <1>4, <1>5

\* What changes the data notes which files lost some.
LEMMA HaveChangedOK ==
    ASSUME DetailsInv, UNCHANGED <<details, item, slipped>>,
           DOMAIN swarm' = DOMAIN swarm, swarm'.have \subseteq Chunks, swarm'.running = swarm.running,
           swarm'.trackers = swarm.trackers, swarm'.seeds = swarm.seeds, swarm'.answer = swarm.answer,
           lost \subseteq lost',
           \A f \in Files : f \in lost' \/ FileChunks[f] \cap swarm.have \subseteq swarm'.have
    PROVE  DetailsInv'
<1> USE DEF DetailsInv
<1>1. SwarmOK' /\ ViewOK' /\ RowsOK' /\ SeedsOK'
  BY DEF SwarmOK, ViewOK, RowsOK, SeedsOK
<1>2. NoFileExceeds'
  <2> SUFFICES ASSUME details.open, NEW f \in Files, f \notin lost'
               PROVE  /\ details.percent[f] \in Nat
                      /\ details.percent[f] * Cardinality(FileChunks[f])
                         <= 100 * Cardinality(FileChunks[f] \cap swarm'.have)
    BY DEF NoFileExceeds
  <2>1. /\ IsFiniteSet(FileChunks[f] \cap swarm'.have)
        /\ FileChunks[f] \cap swarm.have \subseteq FileChunks[f] \cap swarm'.have
    BY DetailsAssumption, FS_Subset
  <2>2. PICK m, n \in Nat :
          /\ m = Cardinality(FileChunks[f] \cap swarm.have)
          /\ n = Cardinality(FileChunks[f] \cap swarm'.have)
          /\ m <= n
    BY <2>1, FS_Subset, FS_CardinalityType
  <2>3. /\ details.percent[f] \in Nat
        /\ details.percent[f] * Cardinality(FileChunks[f]) <= 100 * m
    BY <2>2 DEF NoFileExceeds
  <2>4. Cardinality(FileChunks[f]) \in Nat
    BY DetailsAssumption, FS_CardinalityType
  <2>5. PICK p \in Int : p = details.percent[f] * Cardinality(FileChunks[f])
    BY <2>3, <2>4
  <2>6. p <= 100 * n
    BY <2>2, <2>3, <2>5
  <2> QED
    BY <2>2, <2>3, <2>5, <2>6
<1>3. ItemOK'
  <2>1. lost' = {} /\ swarm.have = Chunks => swarm'.have = Chunks
    BY DEF Chunks
  <2> QED
    BY <2>1 DEF ItemOK, Complete
<1> QED
  BY <1>1, <1>2, <1>3

\* TickNode, ChangePriority, DeleteFiles, ChunkArrives, ScanEnds.
LEMMA DataStepOK ==
    ASSUME DetailsInv,
           \/ \E node \in TreeNodes : TickNode(node)
           \/ \E nodes \in SUBSET TreeNodes \ {{}} :
                DeleteFiles(nodes) \/ \E p \in Priorities : ChangePriority(nodes, p)
           \/ \E c \in Chunks : ChunkArrives(c)
           \/ \E have \in SUBSET swarm.have : ScanEnds(have)
    PROVE  DetailsInv'
<1>1. SwarmOK
  BY DEF DetailsInv
<1>2. CASE \E prio : SetPriorities(prio)
  <2>1. PICK prio : SetPriorities(prio)
    BY <1>2
  <2>2. PICK have \in SUBSET swarm.have :
          /\ swarm' = [swarm EXCEPT !.prio = prio, !.have = have]
          /\ lost' = lost \cup {f \in Files : FileChunks[f] \cap swarm.have # FileChunks[f] \cap have}
          /\ UNCHANGED <<details, item, slipped>>
    BY <2>1 DEF SetPriorities
  <2>3. /\ DOMAIN swarm' = DOMAIN swarm /\ swarm'.have = have /\ swarm'.running = swarm.running
        /\ swarm'.trackers = swarm.trackers /\ swarm'.seeds = swarm.seeds
        /\ swarm'.answer = swarm.answer
    BY <1>1, <2>2 DEF SwarmOK
  <2>4. /\ lost \subseteq lost' /\ have \subseteq Chunks
        /\ \A f \in Files : f \in lost' \/ FileChunks[f] \cap swarm.have \subseteq have
    BY <1>1, <2>2 DEF SwarmOK
  <2> QED
    BY <2>2, <2>3, <2>4, HaveChangedOK
<1>3. CASE \E have \in SUBSET swarm.have : ScanEnds(have)
  <2>1. PICK have \in SUBSET swarm.have :
          /\ swarm' = [swarm EXCEPT !.have = have]
          /\ lost' = lost \cup {f \in Files : FileChunks[f] \cap swarm.have # FileChunks[f] \cap have}
          /\ UNCHANGED <<details, item, slipped>>
    BY <1>3 DEF ScanEnds
  <2>2. /\ DOMAIN swarm' = DOMAIN swarm /\ swarm'.have = have /\ swarm'.running = swarm.running
        /\ swarm'.trackers = swarm.trackers /\ swarm'.seeds = swarm.seeds
        /\ swarm'.answer = swarm.answer
    BY <1>1, <2>1 DEF SwarmOK
  <2>3. /\ lost \subseteq lost' /\ have \subseteq Chunks
        /\ \A f \in Files : f \in lost' \/ FileChunks[f] \cap swarm.have \subseteq have
    BY <1>1, <2>1 DEF SwarmOK
  <2> QED
    BY <2>1, <2>2, <2>3, HaveChangedOK
<1>4. CASE \E c \in Chunks : ChunkArrives(c)
  <2>1. PICK c \in Chunks :
          swarm' = [swarm EXCEPT !.have = @ \cup {c}] /\ UNCHANGED <<details, item, slipped, lost>>
    BY <1>4 DEF ChunkArrives
  <2>2. /\ DOMAIN swarm' = DOMAIN swarm /\ swarm'.have = swarm.have \cup {c}
        /\ swarm'.running = swarm.running
        /\ swarm'.trackers = swarm.trackers /\ swarm'.seeds = swarm.seeds
        /\ swarm'.answer = swarm.answer
    BY <1>1, <2>1 DEF SwarmOK
  <2>3. /\ swarm'.have \subseteq Chunks
        /\ \A f \in Files : FileChunks[f] \cap swarm.have \subseteq swarm'.have
    BY <1>1, <2>2 DEF SwarmOK
  <2> QED
    BY <2>1, <2>2, <2>3, HaveChangedOK
<1> QED
  BY <1>2, <1>3, <1>4 DEF TickNode, DeleteFiles, ChangePriority, SetData

LEMMA DetailsNextOK == DetailsInv /\ [DetailsNext]_detailVars => DetailsInv'
<1> SUFFICES ASSUME DetailsInv, [DetailsNext]_detailVars PROVE DetailsInv'
  OBVIOUS
<1>1. CASE UNCHANGED detailVars
  BY <1>1 DEF detailVars, DetailsInv, SwarmOK, ViewOK, RowsOK, SeedsOK, NoFileExceeds, ItemOK, Complete
<1> QED
  BY <1>1, ViewStepOK, AddTrackerOK, RemoveTrackerOK, RestoreTrackersOK, SwarmStepOK, AddWebSeedOK,
     RemoveWebSeedOK, ItemStepOK, UpdateTorrentOK, DataStepOK
     DEF DetailsNext

LEMMA DetailsInvFollows == DetailsInv => DetailsFollowTorrent
<1> SUFFICES ASSUME DetailsInv PROVE DetailsFollowTorrent
  OBVIOUS
<1> USE DEF DetailsInv
<1>1. details.open /\ ~slipped => [i \in DOMAIN details.rows |-> details.rows[i].trk] = swarm.trackers
  <2> SUFFICES ASSUME details.open, ~slipped
               PROVE  [i \in DOMAIN details.rows |-> details.rows[i].trk] = swarm.trackers
    OBVIOUS
  <2>1. PICK n \in Nat : n = Len(swarm.trackers)
    BY DEF SwarmOK
  <2>2. DOMAIN details.rows = 1 .. n /\ DOMAIN swarm.trackers = 1 .. n
    BY <2>1 DEF RowsOK, SwarmOK
  <2>3. \A i \in 1 .. n : details.rows[i].trk = swarm.trackers[i]
    BY <2>1 DEF RowsOK
  <2>4. swarm.trackers = [i \in 1 .. n |-> swarm.trackers[i]]
    BY <2>1 DEF SwarmOK
  <2> QED
    BY <2>2, <2>3, <2>4
<1> QED
  BY <1>1 DEF SeedsOK, NoFileExceeds, ItemOK, ViewOK, DetailsFollowTorrent

\* What a window shows of a torrent is what libktorrent has, for any files, trackers and web
\* seeds, whatever is clicked while chunks and answers arrive.
THEOREM DetailsAreRight == DetailsInit /\ [][DetailsNext]_detailVars => []DetailsFollowTorrent
BY DetailsInitOK, DetailsNextOK, DetailsInvFollows, PTL

-----------------------------------------------------------------------------
(* Auto-paste: the inductive invariant.                                    *)

IsList(s) == s \in Seq(Range(s))

\* The page shows, and the settings hold, what the user arranged.
ArrangedOK ==
  /\ DOMAIN editor = {"open", "rows"} /\ DOMAIN intended = {"arranged", "applied", "taken"}
  /\ IsList(editor.rows) /\ intended.arranged = editor.rows
  /\ IsList(pasteSettings) /\ intended.applied = pasteSettings

\* What the watch has not seen was not taken.
TakenOK ==
  /\ DOMAIN watch = {"on", "last"} /\ clipboard \in Texts /\ pasted \in Seq(Texts)
  /\ watch.last # clipboard => ~intended.taken

PasteInv == ArrangedOK /\ TakenOK

-----------------------------------------------------------------------------
(* The arrows of the page.                                                 *)

LEMMA ListOfDomain ==
    ASSUME NEW n \in Nat, NEW s, DOMAIN s = 1 .. n, s = [i \in 1 .. n |-> s[i]]
    PROVE  IsList(s) /\ Len(s) = n
<1>1. s \in [1 .. n -> Range(s)]
  BY DEF Range
<1> QED
  BY <1>1 DEF IsList

\* An item goes where beginMoveRows and QList::move agree on: past its neighbour.
LEMMA MovedByOne ==
    ASSUME NEW s, IsList(s), NEW row \in DOMAIN s
    PROVE  /\ Movable(s, row, row - 1) => Move(s, row, row - 1) = Exchanged(s, row, row - 1)
           /\ Movable(s, row, row + 2) => Move(s, row, row + 2) = Exchanged(s, row, row + 1)
<1>1. PICK n \in Nat : n = Len(s) /\ DOMAIN s = 1 .. n
  BY DEF IsList
<1>2. PICK left : left = RemoveAt(s, row)
  OBVIOUS
<1>3. /\ left \in Seq(Range(s)) /\ Len(left) = n - 1
      /\ \A k \in 1 .. (n - 1) : left[k] = IF k < row THEN s[k] ELSE s[k + 1]
  <2>1. s \in Seq(Range(s)) /\ row \in 1 .. Len(s)
    BY <1>1 DEF IsList
  <2>2. /\ RemoveAt(s, row) \in Seq(Range(s)) /\ Len(RemoveAt(s, row)) = Len(s) - 1
        /\ \A k \in 1 .. (Len(s) - 1) : RemoveAt(s, row)[k] = IF k < row THEN s[k] ELSE s[k + 1]
    BY ONLY <2>1, RemoveAtPlaces
  <2> QED
    BY <1>1, <1>2, <2>2
<1>4. s[row] \in Range(s) /\ row \in 1 .. n
  BY <1>1 DEF Range
<1>5. ASSUME NEW at \in 1 .. n, at \in {row - 1, row + 1},
             NEW before, Move(s, row, before) = InsertAt(left, at, s[row])
      PROVE  Move(s, row, before) = Exchanged(s, row, at)
  <2>1. PICK to : to = InsertAt(left, at, s[row])
    OBVIOUS
  <2>2. /\ to \in Seq(Range(s)) /\ Len(to) = n
        /\ \A k \in 1 .. n : to[k] = IF k < at THEN left[k] ELSE IF k = at THEN s[row] ELSE left[k - 1]
    <3>1. at \in 1 .. (Len(left) + 1) /\ Len(left) + 1 = n
      BY <1>1, <1>3
    <3>2. /\ InsertAt(left, at, s[row]) \in Seq(Range(s))
          /\ Len(InsertAt(left, at, s[row])) = Len(left) + 1
          /\ \A k \in 1 .. (Len(left) + 1) :
               InsertAt(left, at, s[row])[k]
               = IF k < at THEN left[k] ELSE IF k = at THEN s[row] ELSE left[k - 1]
      <4>1. left \in Seq(Range(s)) /\ at \in 1 .. (Len(left) + 1) /\ s[row] \in Range(s)
        BY <1>3, <1>4, <3>1
      <4> QED
        BY ONLY <4>1, InsertAtPlaces
    <3> QED
      BY <2>1, <3>1, <3>2
  <2>3. PICK ex : ex = Exchanged(s, row, at)
    OBVIOUS
  <2>4. /\ DOMAIN ex = 1 .. n /\ ex = [k \in 1 .. n |-> ex[k]]
        /\ \A k \in 1 .. n : ex[k] = IF k = at THEN s[row] ELSE IF k = row THEN s[at] ELSE s[k]
    BY <1>1, <1>4, <2>3 DEF Exchanged, IsList
  <2>5. ASSUME NEW k \in 1 .. n PROVE to[k] = ex[k]
    <3>1. CASE k = at
      BY <2>2, <2>4, <3>1
    <3>2. CASE k < at
      <4>1. k \in 1 .. (n - 1)
        BY <1>1, <3>2
      <4>2. to[k] = IF k < row THEN s[k] ELSE s[k + 1]
        BY <1>3, <2>2, <3>2, <4>1
      <4>3. k < row \/ (k = row /\ at = k + 1)
        BY <1>4, <1>5, <3>2
      <4> QED
        BY <1>4, <2>4, <3>2, <4>2, <4>3
    <3>3. CASE k > at
      <4>1. k - 1 \in 1 .. (n - 1) /\ k - 1 + 1 = k
        BY <1>1, <1>5, <3>3
      <4>2. to[k] = IF k - 1 < row THEN s[k - 1] ELSE s[k]
        BY <1>3, <2>2, <3>3, <4>1
      <4>3. (k = row /\ at = k - 1) \/ k > row
        BY <1>4, <1>5, <3>3
      <4> QED
        BY <1>4, <2>4, <3>3, <4>1, <4>2, <4>3
    <3> QED
      BY <3>1, <3>2, <3>3
  <2>6. to = [k \in 1 .. n |-> to[k]]
    BY <2>2
  <2> QED
    BY <1>5, <2>1, <2>3, <2>4, <2>5, <2>6
<1>6. ASSUME Movable(s, row, row - 1)
      PROVE  Move(s, row, row - 1) = Exchanged(s, row, row - 1)
  <2>1. Move(s, row, row - 1) = InsertAt(left, row - 1, s[row])
    BY <1>2, <1>4 DEF Move
  <2>2. row - 1 \in 1 .. n
    BY <1>1, <1>4, <1>6 DEF Movable
  <2> QED
    BY <1>5, <2>1, <2>2
<1>7. ASSUME Movable(s, row, row + 2)
      PROVE  Move(s, row, row + 2) = Exchanged(s, row, row + 1)
  <2>1. PICK before : before = row + 2 /\ before - 1 = row + 1
    BY <1>4
  <2>2. Move(s, row, before) = InsertAt(left, before - 1, s[row])
    BY <1>2, <2>1 DEF Move
  <2>3. row + 1 \in 1 .. n
    BY <1>1, <1>4, <1>7 DEF Movable
  <2> QED
    BY <1>5, <2>1, <2>2, <2>3
<1> QED
  BY <1>6, <1>7

LEMMA ExchangedList ==
    ASSUME NEW s, IsList(s), NEW i, NEW j
    PROVE  IsList(Exchanged(s, i, j))
<1>1. PICK n \in Nat : DOMAIN s = 1 .. n
  BY DEF IsList
<1>2. PICK ex : ex = Exchanged(s, i, j)
  OBVIOUS
<1>3. DOMAIN ex = 1 .. n /\ ex = [k \in 1 .. n |-> ex[k]]
  BY <1>1, <1>2 DEF Exchanged, IsList
<1> QED
  BY <1>2, <1>3, ListOfDomain

\* What is left of the rows is a list.
LEMMA WithoutList ==
    ASSUME NEW s, IsList(s), NEW selected
    PROVE  IsList(PatternsWithout(s, selected))
<1>1. PICK n \in Nat : DOMAIN s = 1 .. n
  BY DEF IsList
<1>2. IsFiniteSet(1 .. n)
  BY FS_Interval
<1>3. PICK m \in Nat : m = Cardinality(DOMAIN s \ selected)
  BY <1>1, <1>2, FS_Subset, FS_CardinalityType
<1>4. PICK w : w = PatternsWithout(s, selected)
  OBVIOUS
<1>5. DOMAIN w = 1 .. m /\ w = [k \in 1 .. m |-> w[k]]
  BY <1>3, <1>4 DEF PatternsWithout
<1> QED
  BY <1>3, <1>4, <1>5, ListOfDomain

\* What is in a list of any elements is such a list.
LEMMA SeqIsList ==
    ASSUME NEW S, NEW s \in Seq(S)
    PROVE  IsList(s)
<1>1. PICK n \in Nat : DOMAIN s = 1 .. n /\ s = [k \in 1 .. n |-> s[k]]
  OBVIOUS
<1> QED
  BY <1>1, ListOfDomain

-----------------------------------------------------------------------------
(* Auto-paste: the invariant is inductive.                                 *)

LEMMA PasteInitOK == AutoPasteInit => PasteInv
<1> SUFFICES ASSUME AutoPasteInit PROVE PasteInv
  OBVIOUS
<1>1. IsList(DefaultPatterns)
  BY AutoPasteAssumption, SeqIsList
<1> QED
  BY <1>1 DEF AutoPasteInit, PasteInv, ArrangedOK, TakenOK

\* The page's rows are edited as the user means it.
LEMMA PasteEditsOK ==
    ASSUME PasteInv, NEW rows, NEW arranged, PasteEdits(rows, arranged), arranged = rows, IsList(rows)
    PROVE  PasteInv'
BY DEF PasteEdits, PasteInv, ArrangedOK, TakenOK

LEMMA PasteNextOK == PasteInv /\ [AutoPasteNext]_autoPasteVars => PasteInv'
<1> SUFFICES ASSUME PasteInv, [AutoPasteNext]_autoPasteVars PROVE PasteInv'
  OBVIOUS
<1>0. IsList(editor.rows) /\ intended.arranged = editor.rows
  BY DEF PasteInv, ArrangedOK
<1>1. CASE Copies \/ ToggleAutoPaste \/ UNCHANGED autoPasteVars
  BY <1>1 DEF Copies, ToggleAutoPaste, autoPasteVars, PasteInv, ArrangedOK, TakenOK
<1>2. CASE CheckClipboard
  BY <1>2 DEF CheckClipboard, PasteInv, ArrangedOK, TakenOK
<1>3. CASE OpenPreferences \/ CancelPreferences
  BY <1>3 DEF OpenPreferences, CancelPreferences, PasteInv, ArrangedOK, TakenOK
<1>10. CASE ApplyPreferences
  <2>1. PICK closes \in BOOLEAN, emitted \in BOOLEAN :
          /\ pasteSettings' = IF emitted THEN editor.rows ELSE pasteSettings
          /\ editor' = [open |-> ~closes, rows |-> IF closes THEN pasteSettings' ELSE editor.rows]
          /\ intended' = [arranged |-> IF closes /\ ~emitted THEN intended.applied ELSE intended.arranged,
                          applied  |-> IF emitted THEN intended.arranged ELSE intended.applied,
                          taken    |-> intended.taken]
    BY <1>10 DEF ApplyPreferences
  <2>2. /\ UNCHANGED <<clipboard, pasted>> /\ watch'.last = watch.last
        /\ DOMAIN watch' = DOMAIN watch
    BY <1>10 DEF ApplyPreferences, PasteInv, TakenOK
  <2>3. TakenOK'
    BY <2>1, <2>2 DEF PasteInv, TakenOK
  <2>4. CASE emitted
    BY <2>1, <2>3, <2>4 DEF PasteInv, ArrangedOK
  <2>5. CASE ~emitted
    BY <2>1, <2>3, <2>5 DEF PasteInv, ArrangedOK
  <2> QED
    BY <2>4, <2>5
<1>4. CASE ResetDefaults
  <2>1. IsList(DefaultPatterns)
    BY AutoPasteAssumption, SeqIsList
  <2> QED
    BY <1>4, <2>1 DEF ResetDefaults, PasteInv, ArrangedOK, TakenOK
<1>5. CASE AddItem
  <2>1. PICK element : PasteEdits(Append(editor.rows, element), Append(editor.rows, element))
    BY <1>0, <1>5 DEF AddItem
  <2>2. IsList(Append(editor.rows, element))
    <3>1. PICK S : S = Range(editor.rows) \cup {element}
      OBVIOUS
    <3>2. Append(editor.rows, element) \in Seq(S)
      BY <1>0, <3>1 DEF IsList
    <3> QED
      BY <3>2, SeqIsList
  <2> QED
    BY <2>1, <2>2, PasteEditsOK
<1>6. CASE SetItem
  <2>1. PICK i, element : PasteEdits([editor.rows EXCEPT ![i] = element], [editor.rows EXCEPT ![i] = element])
    BY <1>0, <1>6 DEF SetItem
  <2>2. IsList([editor.rows EXCEPT ![i] = element])
    <3>1. PICK rows : rows = [editor.rows EXCEPT ![i] = element]
      OBVIOUS
    <3>2. PICK n \in Nat : DOMAIN rows = 1 .. n /\ rows = [k \in 1 .. n |-> rows[k]]
      BY <1>0, <3>1 DEF IsList
    <3> QED
      BY <3>1, <3>2, ListOfDomain
  <2> QED
    BY <2>1, <2>2, PasteEditsOK
<1>7. CASE RemoveItem
  <2>1. PICK selected :
          PasteEdits(PatternsWithout(editor.rows, selected), PatternsWithout(editor.rows, selected))
    BY <1>0, <1>7 DEF RemoveItem
  <2> QED
    BY <1>0, <2>1, WithoutList, PasteEditsOK
<1>8. CASE IncreasePriority
  <2>1. PICK row \in DOMAIN editor.rows :
          /\ Movable(editor.rows, row, row - 1)
          /\ PasteEdits(Move(editor.rows, row, row - 1), Exchanged(editor.rows, row, row - 1))
    BY <1>0, <1>8 DEF IncreasePriority
  <2> QED
    BY <1>0, <2>1, MovedByOne, ExchangedList, PasteEditsOK
<1>9. CASE DecreasePriority
  <2>1. PICK row \in DOMAIN editor.rows :
          /\ Movable(editor.rows, row, row + 2)
          /\ PasteEdits(Move(editor.rows, row, row + 2), Exchanged(editor.rows, row, row + 1))
    BY <1>0, <1>9 DEF DecreasePriority
  <2> QED
    BY <1>0, <2>1, MovedByOne, ExchangedList, PasteEditsOK
<1> QED
  BY <1>1, <1>2, <1>3, <1>4, <1>5, <1>6, <1>7, <1>8, <1>9, <1>10 DEF AutoPasteNext

LEMMA PasteStepFits ==
    PasteInv /\ [AutoPasteNext]_autoPasteVars
    => (pasted' # pasted => ~intended.taken /\ WantedText(intended.applied, Last(pasted')))
<1> SUFFICES ASSUME PasteInv, [AutoPasteNext]_autoPasteVars, pasted' # pasted
             PROVE  ~intended.taken /\ WantedText(intended.applied, Last(pasted'))
  OBVIOUS
<1>1. CheckClipboard
  BY DEF AutoPasteNext, autoPasteVars, Copies, ToggleAutoPaste, OpenPreferences, AddItem, SetItem,
         RemoveItem, IncreasePriority, DecreasePriority, ApplyPreferences, CancelPreferences,
         ResetDefaults, PasteEdits
<1>2. /\ clipboard # watch.last /\ WantedText(pasteSettings, clipboard)
      /\ pasted' = Append(pasted, clipboard)
  BY <1>1 DEF CheckClipboard
<1>3. Last(pasted') = clipboard
  BY <1>2 DEF Last, PasteInv, TakenOK
<1> QED
  BY <1>2, <1>3 DEF PasteInv, TakenOK, ArrangedOK

\* Only what the first matching pattern of the user's own list includes is taken from the
\* clipboard, and once, for any list and any texts, however the list is rearranged.
THEOREM PastesAreWanted == AutoPasteInit /\ [][AutoPasteNext]_autoPasteVars => PastesAsArranged
<1>1. PasteInv /\ [AutoPasteNext]_autoPasteVars
      => [pasted' # pasted => ~intended.taken /\ WantedText(intended.applied, Last(pasted'))]_autoPasteVars
  BY PasteStepFits
<1> QED
  BY <1>1, PasteInitOK, PasteNextOK, PTL DEF PastesAsArranged

-----------------------------------------------------------------------------
(* Searches: who waits for a listing gets it.                              *)

\* Those that wait, and the jobs, are of directories of downloads.
WaitingOK ==
  /\ \A w \in waiting : w[1] \in DOMAIN listed
  /\ DOMAIN listed = {Directory[t] : t \in Downloads}
  /\ clearing \in Seq(Downloads)

WaitInv == WaitingOK /\ WaitersHaveAJob

LEMMA WaitInitOK == SearchesInit => WaitInv
BY DEF SearchesInit, WaitInv, WaitingOK, WaitersHaveAJob

\* The calls that are innermost last are those that were there, and the first.
LEMMA HeadAndTail ==
    ASSUME NEW s \in Seq(Downloads), s # <<>>
    PROVE  /\ Head(s) \in Downloads /\ Tail(s) \in Seq(Downloads)
           /\ ToSet(s) = {Head(s)} \cup ToSet(Tail(s))
<1>1. Head(s) \in Downloads /\ Tail(s) \in Seq(Downloads)
  OBVIOUS
<1>2. ASSUME NEW x \in ToSet(s) PROVE x \in {Head(s)} \cup ToSet(Tail(s))
  <2>1. PICK i \in 1 .. Len(s) : x = s[i]
    BY <1>2 DEF ToSet
  <2>2. CASE i = 1
    BY <2>1, <2>2
  <2>3. CASE i # 1
    <3>1. i - 1 \in DOMAIN Tail(s) /\ Tail(s)[i - 1] = x
      BY <2>1, <2>3
    <3> QED
      BY <3>1 DEF ToSet
  <2> QED
    BY <2>2, <2>3
<1>3. ASSUME NEW x \in {Head(s)} \cup ToSet(Tail(s)) PROVE x \in ToSet(s)
  <2>1. CASE x = Head(s)
    BY <2>1 DEF ToSet
  <2>2. CASE x \in ToSet(Tail(s))
    <3>1. PICK i \in 1 .. Len(Tail(s)) : x = Tail(s)[i]
      BY <2>2 DEF ToSet
    <3>2. i + 1 \in DOMAIN s /\ s[i + 1] = x
      BY <3>1
    <3> QED
      BY <3>2 DEF ToSet
  <2> QED
    BY <1>3, <2>1, <2>2
<1> QED
  BY <1>1, <1>2, <1>3

LEMMA InFront ==
    ASSUME NEW s \in Seq(Downloads), NEW t \in Downloads
    PROVE  <<t>> \o s \in Seq(Downloads) /\ ToSet(<<t>> \o s) = {t} \cup ToSet(s)
<1>1. PICK one \in Seq(Downloads) : one = <<t>> /\ Len(one) = 1 /\ one[1] = t
  <2>1. <<t>> \in Seq(Downloads) /\ Len(<<t>>) = 1 /\ <<t>>[1] = t
    OBVIOUS
  <2> QED
    BY <2>1, Zenon
<1>2. PICK c \in Seq(Downloads) : c = one \o s
  BY ConcatProperties
<1>3. /\ Len(c) = 1 + Len(s) /\ Len(s) \in Nat
      /\ \A i \in 1 .. 1 + Len(s) : c[i] = IF i <= 1 THEN one[i] ELSE s[i - 1]
  BY <1>1, <1>2, ConcatProperties
<1>4. c # <<>> /\ Head(c) = t
  BY <1>1, <1>2, <1>3
<1>5. Tail(c) = s
  BY <1>1, <1>2, <1>3
<1> QED
  BY <1>1, <1>2, <1>4, <1>5, HeadAndTail

\* The first data of a download whose directory was not asked for, or was.
LEMMA DataComesOK ==
    ASSUME WaitInv, NEW t \in Downloads, DataComes(t)
    PROVE  WaitInv'
<1> USE DEF WaitInv, WaitingOK, WaitersHaveAJob
<1> DEFINE b == Directory[t]
<1>1. listed' = listed
  BY DEF DataComes
<1>2. CASE listed[b] # NotListed
  <2>1. UNCHANGED <<waiting, jobs, clearing>>
    BY <1>2 DEF DataComes
  <2> QED
    BY <1>1, <2>1
<1>3. CASE listed[b] = NotListed
  <2>1. waiting' = waiting \cup {<<b, t>>} /\ b \in DOMAIN listed
    BY <1>3 DEF DataComes
  <2>2. listed[b] # FailedListing
    BY <1>3 DEF NotListed, FailedListing
  <2>3. CASE \E w \in waiting : w[1] = b
    <3>1. UNCHANGED <<jobs, clearing>>
      BY <1>3, <2>3 DEF DataComes
    <3> QED
      BY <1>1, <2>1, <2>2, <2>3, <3>1
  <2>4. CASE jobs' = jobs \cup {NewJob(t)} /\ UNCHANGED clearing
    <3>1. NewJob(t).dir = b
      BY DEF NewJob
    <3> HIDE DEF b
    <3> QED
      BY <1>1, <2>1, <2>4, <3>1
  <2>5. CASE clearing' = <<t>> \o clearing /\ UNCHANGED jobs
    <3>1. clearing' \in Seq(Downloads) /\ ToSet(clearing') = {t} \cup ToSet(clearing)
      BY <2>5, InFront
    <3> QED
      BY <1>1, <2>1, <2>5, <3>1
  <2> QED
    BY <1>3, <2>3, <2>4, <2>5 DEF DataComes
<1> QED
  BY <1>2, <1>3

LEMMA WaitNextOK == WaitInv /\ [SearchesNext]_searchesVars => WaitInv'
<1> SUFFICES ASSUME WaitInv, [SearchesNext]_searchesVars PROVE WaitInv'
  OBVIOUS
<1> USE DEF WaitInv, WaitingOK, WaitersHaveAJob
<1>1. CASE UNCHANGED <<waiting, listed, jobs, clearing>>
  BY <1>1
<1>2. CASE \E t \in Downloads : DataComes(t)
  BY <1>2, DataComesOK
<1>3. CASE OldFileDeleted
  <2>1. /\ jobs' = jobs \cup {NewJob(Head(clearing))} /\ clearing # <<>>
        /\ clearing' = Tail(clearing) /\ UNCHANGED <<waiting, listed>>
    BY <1>3 DEF OldFileDeleted
  <2>2. /\ clearing' \in Seq(Downloads)
        /\ ToSet(clearing) = {Head(clearing)} \cup ToSet(clearing')
    BY <2>1, HeadAndTail
  <2>3. NewJob(Head(clearing)).dir = Directory[Head(clearing)]
    BY DEF NewJob
  <2> QED
    BY <2>1, <2>2, <2>3
<1>4. CASE \E t \in Downloads : DeletesDownload(t)
  BY <1>4 DEF DeletesDownload
<1>5. CASE \E j \in jobs : EntriesCome(j)
  <2>1. PICK j, names :
          /\ j \in jobs /\ jobs' = (jobs \ {j}) \cup {[j EXCEPT !.file = Listing(names)]}
          /\ j.file = NotListed /\ UNCHANGED <<waiting, listed, clearing>>
    BY <1>5 DEF EntriesCome
  <2>2. [j EXCEPT !.file = Listing(names)].dir = j.dir
    OBVIOUS
  <2> QED
    BY <2>1, <2>2
<1>6. CASE \E j \in jobs : ListingArrives(j)
  <2>1. PICK j \in jobs :
          /\ jobs' = jobs \ {j} /\ UNCHANGED clearing
          /\ \/ /\ listed' = [listed EXCEPT ![j.dir] = FailedListing] /\ waiting' = waiting
             \/ \E listing : /\ listed' = [listed EXCEPT ![j.dir] = listing]
                             /\ waiting' = {w \in waiting : w[1] # j.dir}
    BY <1>6 DEF ListingArrives, Failed
  <2>2. DOMAIN listed' = DOMAIN listed /\ \A b \in DOMAIN listed : b # j.dir => listed'[b] = listed[b]
    BY <2>1
  <2>3. \A w \in waiting' : w[1] = j.dir => listed'[w[1]] = FailedListing
    BY <2>1
  <2> QED
    BY <2>1, <2>2, <2>3
<1> QED
  BY <1>1, <1>2, <1>3, <1>4, <1>5, <1>6
     DEF SearchesNext, searchesVars, StartsDownload, PageArrives, DocumentArrives, LoadsPage, AddsRow,
         SetsRow, RemovesRow, SavesPage, ChangesEngines, Edits

\* A download that waits for a directory's listing has a job that will bring it, or the
\* directory has been given up, for any downloads and directories (registerSearch, slotResult).
THEOREM NobodyWaitsInVain == SearchesInit /\ [][SearchesNext]_searchesVars => []WaitersHaveAJob
<1>1. WaitInv => WaitersHaveAJob
  BY DEF WaitInv
<1> QED
  BY <1>1, WaitInitOK, WaitNextOK, PTL
=============================================================================
