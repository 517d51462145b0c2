---------------------------- MODULE TransferList ----------------------------
(***************************************************************************)
(* The list of transfers and the file that outlives the program: KGet with *)
(* GenericObserver (src/core/kget.cpp), Transfer::save and load, and their *)
(* counterparts of TransferGroup.  Scheduler models which transfers run;   *)
(* here one that may run begins and ends at any time.                      *)
(*                                                                         *)
(* The whole of it runs in one thread, and signals are calls.  Operators   *)
(* take the memory of the program, a record `k`, and return it as the      *)
(* function of the same name leaves it.                                    *)
(***************************************************************************)
EXTENDS Integers, SequencesExt, FiniteSetsExt, TLC

CONSTANTS
  Urls,         \* the sources
  FileNames,    \* the names of files at the destination
  FileOf,       \* the file name a source suggests
  GroupNames,   \* the names the user gives to groups
  Lists,        \* the lists in other files
  Starts,       \* the list file and the startup setting at first, [file, startup]
  MaxItems,     \* bound: transfers in the list
  MaxGroups,    \* bound: groups in the list
  MaxEdits,     \* bound: changes the user makes
  MaxCrashes    \* bound: ends of the program that save nothing

Default        == "My Downloads"
Policies       == {"None", "Start", "Stop"}
StartupActions == {"as it was", "start", "stop"}

ASSUME TransferListAssumption ==
  /\ FileOf \in [Urls -> FileNames] /\ Default \notin GroupNames
  /\ \A s \in Starts : s.startup \in StartupActions
  /\ {MaxItems, MaxGroups, MaxEdits, MaxCrashes} \subseteq Nat

VARIABLES
  kget,      \* the memory of the program, and the list file
  up,        \* the program runs
  startup,   \* the setting: what becomes of the transfers when it starts
  edits,     \* changes the user has made
  crashes    \* ends of the program that saved nothing

listVars == <<kget, up, startup, edits, crashes>>

\* A Transfer as it is created.  old: m_startStatus is Finished; posted: a
\* change of its status waits for the timer of the model.
NewTransfer(src, dest) ==
  [src |-> src, dest |-> dest, status |-> "Stopped", policy |-> "None",
   old |-> FALSE, posted |-> FALSE]
NewGroup(name) == [name |-> name, running |-> TRUE, items |-> <<>>]

Positions(k)  == {<<g, i>> \in (1..Len(k.groups)) \X (1..MaxItems) : i <= Len(k.groups[g].items)}
At(k, p)      == k.groups[p[1]].items[p[2]]
HasRunning(k) == \E p \in Positions(k) : At(k, p).status = "Running"
Change(k, p, item) == [k EXCEPT !.groups[p[1]].items[p[2]] = item]

\* The first transfer or group that passes the test, as a set of at most one.
First(S)  == {p \in S : \A q \in S : p[1] < q[1] \/ (p[1] = q[1] /\ p[2] <= q[2])}
FromUrl(k, src)     == First({p \in Positions(k) : At(k, p).src = src})
ToFile(k, dest)     == First({p \in Positions(k) : At(k, p).dest = dest})
FindGroup(k, name)  == {g \in DOMAIN k.groups : k.groups[g].name = name /\
                          \A h \in 1..(g - 1) : k.groups[h].name # name}

----------------------------------------------------------------------------
(* The observers save the list                                             *)

\* Transfer::save and TransferGroup::save.
SavedItem(t) == [src |-> t.src, dest |-> t.dest, policy |-> t.policy, whole |-> t.status = "Finished"]
SavedGroup(g) == [name |-> g.name, running |-> g.running,
                  items |-> [i \in DOMAIN g.items |-> SavedItem(g.items[i])]]
Snapshot(k)  == [g \in DOMAIN k.groups |-> SavedGroup(k.groups[g])]
Save(k)      == [k EXCEPT !.file = Snapshot(k)]

\* A mutant: the timer once set for one time is not looked at again.
RequestSaveIdle(k) ==
  [k EXCEPT !.observers = [o \in DOMAIN @ |-> [@[o] EXCEPT !.save =
      IF HasRunning(k) THEN "again" ELSE @]]]

\* requestSave of every observer: the timer fires again and again while a
\* transfer is running, or once.
RequestSave(k) ==
  [k EXCEPT !.observers = [o \in DOMAIN @ |-> [@[o] EXCEPT !.save =
      IF HasRunning(k) THEN "again" ELSE "once"]]]

\* groupAddedEvent and groupRemovedEvent.
GroupsChanged(k) == IF k.observers = <<>> THEN k ELSE Save(k)

----------------------------------------------------------------------------
(* Transfers enter and leave the list                                      *)

AddTransfers(k, g, items) ==
  IF items = <<>> THEN k ELSE RequestSave([k EXCEPT !.groups[g].items = @ \o items])

Without(items, I) ==
  LET left == SelectSeq([i \in DOMAIN items |-> i], LAMBDA i : i \notin I)
  IN  [n \in DOMAIN left |-> items[left[n]]]

Removed(k, P) ==
  [k EXCEPT !.groups = [g \in DOMAIN @ |->
     [@[g] EXCEPT !.items = Without(@, {p[2] : p \in {q \in P : q[1] = g}})]]]

DelTransfers(k, P) == IF P = {} THEN k ELSE RequestSave(Removed(k, P))

\* TransferHandler::start: with policy None in a running group, and first in it.
StartListed(k, p) ==
  LET t == At(k, p)
  IN  IF k.groups[p[1]].running
      THEN [k EXCEPT !.groups[p[1]].items = <<[t EXCEPT !.policy = "None"]>> \o RemoveAt(@, p[2])]
      ELSE Change(k, p, [t EXCEPT !.policy = "Start"])

StopTransfer(k, p) ==
  Change(k, p, [At(k, p) EXCEPT !.policy = IF k.groups[p[1]].running THEN "Stop" ELSE "None"])

GroupFor(k, name) == IF FindGroup(k, name) = {} THEN 1 ELSE CHOOSE g \in FindGroup(k, name) : TRUE

\* createTransfers of one that the user adds.
CreateTransfer(k, src, dest, name, start) ==
  LET g == GroupFor(k, name)
      n == AddTransfers(k, g, <<NewTransfer(src, dest)>>)
  IN  IF start THEN StartListed(n, <<g, Len(n.groups[g].items)>>) ELSE n

\* isValidSource: the user may have the transfer of the same source deleted.
IsValidSource(k, src, again) ==
  CASE FromUrl(k, src) = {} -> [kget |-> k, valid |-> TRUE]
    [] FromUrl(k, src) # {} /\ again  -> [kget |-> DelTransfers(k, FromUrl(k, src)), valid |-> TRUE]
    [] FromUrl(k, src) # {} /\ ~again -> [kget |-> k, valid |-> FALSE]

\* getValidDestUrl.  `reply`: the name the user gives in the dialog, or "cancel".
\* What the dialog returns is not looked up again.
ValidDest(k, dest, reply) ==
  LET done == {p \in ToFile(k, dest) : At(k, p).status = "Finished"}
  IN  CASE reply = "cancel" -> [kget |-> k, dest |-> reply]
        [] reply # "cancel" /\ done # {} -> [kget |-> DelTransfers(k, done), dest |-> dest]
        [] reply # "cancel" /\ done = {} -> [kget |-> k, dest |-> reply]

\* addTransfer(QUrl, ...).
AddOne(k, src, dest, name, start, again, reply) ==
  LET source == IsValidSource(k, src, again)
      target == ValidDest(source.kget, dest, reply)
  IN  CASE ~source.valid -> source.kget
        [] source.valid /\ target.dest = "cancel" -> target.kget
        [] source.valid /\ target.dest # "cancel" -> CreateTransfer(target.kget, src, target.dest, name, start)

\* addTransfer(QList<QUrl>, ...) of two: each is asked about before any is
\* created.  If one is left the first of the list is added, and asked about again.
AddTwo(k, src, other, name, start, answers) ==
  LET one  == IsValidSource(k, src, answers.first)
      two  == IsValidSource(one.kget, other, answers.second)
      dest1 == ValidDest(two.kget, FileOf[src], answers.reply1)
      dest2 == ValidDest(dest1.kget, FileOf[other], answers.reply2)
      given == SelectSeq(<<[src |-> src, dest |-> dest1.dest], [src |-> other, dest |-> dest2.dest]>>,
                         LAMBDA t : t.dest # "cancel")
      create(l, t) == CreateTransfer(l, t.src, t.dest, name, start)
  IN  CASE ~one.valid /\ ~two.valid -> two.kget
        [] one.valid # two.valid -> AddOne(two.kget, src, FileOf[src], name, start, answers.anew, answers.reply1)
        [] one.valid /\ two.valid -> FoldLeft(create, dest2.kget, given)

\* redownloadTransfer.
Redownload(k, p, again, reply) ==
  LET t == At(k, p)
  IN  AddOne(DelTransfers(k, {p}), t.src, t.dest, k.groups[p[1]].name, TRUE, again, reply)

\* moveTransfer to another group, where it is the first.
MoveTransfer(k, p, g) ==
  RequestSave([k EXCEPT !.groups[p[1]].items = RemoveAt(@, p[2]),
                        !.groups[g].items = <<At(k, p)>> \o @])

----------------------------------------------------------------------------
(* Groups                                                                  *)

AddGroup(k, name) ==
  IF FindGroup(k, name) # {} THEN k
  ELSE GroupsChanged([k EXCEPT !.groups = Append(@, NewGroup(name))])

DelGroup(k, g) ==
  GroupsChanged([DelTransfers(k, {p \in Positions(k) : p[1] = g}) EXCEPT !.groups = RemoveAt(@, g)])

\* JobQueue::setStatus.
SetGroupStatus(k, g, running) ==
  LET reset == IF running THEN "Running" ELSE "Stopped"
      item(t) == IF t.status = reset THEN [t EXCEPT !.policy = "None"] ELSE t
  IN  [k EXCEPT !.groups[g].running = running,
                !.groups[g].items = [i \in DOMAIN @ |-> item(@[i])]]

----------------------------------------------------------------------------
(* The list is read                                                        *)

\* Transfer::load.
LoadedItem(s, action) ==
  [NewTransfer(s.src, s.dest) EXCEPT
     !.status = IF s.whole THEN "Finished" ELSE "Stopped", !.old = s.whole,
     !.policy = CASE action = "start" -> "Start" [] action = "stop" -> "Stop" [] OTHER -> s.policy]

\* TransferGroup::load; the transfers go to the first group of the name.
LoadGroup(k, g, saved, action) ==
  LET named == SetGroupStatus([k EXCEPT !.groups[g].name = saved.name], g, saved.running)
  IN  AddTransfers(named, GroupFor(named, saved.name),
                   [i \in DOMAIN saved.items |-> LoadedItem(saved.items[i], action)])

\* A mutant: the transfers are put in place before the group has its name.
IntegrateEarly(k, saved, action) ==
  IF FindGroup(k, saved.name) # {} THEN LoadGroup(k, GroupFor(k, saved.name), saved, action)
  ELSE LET n == GroupsChanged([k EXCEPT !.groups = Append(@, NewGroup(""))])
           l == AddTransfers(n, GroupFor(n, saved.name),
                             [i \in DOMAIN saved.items |-> LoadedItem(saved.items[i], action)])
       IN  [l EXCEPT !.groups[Len(l.groups)].name = saved.name]

\* A group that is not there yet is announced before it has its name and content.
Integrate(k, saved, action) ==
  IF FindGroup(k, saved.name) # {} THEN LoadGroup(k, GroupFor(k, saved.name), saved, action)
  ELSE LET n == GroupsChanged([k EXCEPT !.groups = Append(@, NewGroup(""))])
       IN  LoadGroup(n, Len(n.groups), saved, action)

\* load: of an empty file it returns early, and nobody observes the list.
LoadList(k, saved, action) ==
  LET read(l, g) == Integrate(l, g, action)
      n == FoldLeft(read, k, saved)
      d == IF n.groups = <<>> THEN AddGroup(n, Default) ELSE n
  IN  IF saved = <<>> THEN d
      ELSE [d EXCEPT !.observers = Append(@, [save |-> "off", closing |-> FALSE])]

\* `watched` is history, for the properties: the list is observed from the start.
Started(file) ==
  [groups |-> <<>>, observers |-> <<>>, file |-> file, watched |-> FALSE]

----------------------------------------------------------------------------
(* What happens                                                            *)

\* The observers see the changes of status since the last time; when all is
\* finished, by this run of the program, they prepare to close it.
AllTransfersFinished(k) ==
  /\ \A p \in Positions(k) : At(k, p).status = "Finished"
  /\ \E p \in Positions(k) : ~At(k, p).old

ChangesDelivered ==
  LET seen == [kget EXCEPT !.groups = [g \in DOMAIN @ |-> [@[g] EXCEPT !.items =
                 [i \in DOMAIN @ |-> [@[i] EXCEPT !.posted = FALSE]]]]]
      done == AllTransfersFinished(seen)
  IN  /\ up /\ \E p \in Positions(kget) : At(kget, p).posted
      /\ kget' = [RequestSave(seen) EXCEPT !.observers =
                    [o \in DOMAIN @ |-> [@[o] EXCEPT !.closing = @ \/ done]]]
      /\ UNCHANGED <<up, startup, edits, crashes>>

SaveTimeout(o) ==
  /\ up /\ o \in DOMAIN kget.observers /\ kget.observers[o].save # "off"
  /\ kget' = [Save(kget) EXCEPT !.observers[o].save = IF @ = "once" THEN "off" ELSE @]
  /\ UNCHANGED <<up, startup, edits, crashes>>

\* MainWindow::slotQuit asks while something runs; the main window saves when
\* it is deleted.
MainWindowClosed(k, confirmed) ==
  IF HasRunning(k) /\ ~confirmed THEN kget' = k /\ UNCHANGED up
  ELSE kget' = Started(Save(k).file) /\ up' = FALSE

FinishActionTimeout(o) ==
  /\ up /\ o \in DOMAIN kget.observers /\ kget.observers[o].closing
  /\ \E confirmed \in BOOLEAN : MainWindowClosed([kget EXCEPT !.observers[o].closing = FALSE], confirmed)
  /\ UNCHANGED <<startup, edits, crashes>>

AbortFinishAction(o) ==
  /\ up /\ o \in DOMAIN kget.observers /\ kget.observers[o].closing
  /\ kget' = [kget EXCEPT !.observers[o].closing = FALSE]
  /\ UNCHANGED <<up, startup, edits, crashes>>

Quit ==
  /\ up /\ \E confirmed \in BOOLEAN : MainWindowClosed(kget, confirmed)
  /\ UNCHANGED <<startup, edits, crashes>>

ProgramCrash ==
  /\ up /\ crashes < MaxCrashes
  /\ kget' = Started(kget.file) /\ up' = FALSE /\ crashes' = crashes + 1
  /\ UNCHANGED <<startup, edits>>

StartProgram ==
  /\ ~up /\ up' = TRUE /\ kget' = [LoadList(kget, kget.file, startup) EXCEPT !.watched = kget.file # <<>>]
  /\ UNCHANGED <<startup, edits, crashes>>

\* The scheduler and the plug-in: the transfer reports its new status.
MayRun(k, p) ==
  At(k, p).policy = "Start" \/ (At(k, p).policy = "None" /\ k.groups[p[1]].running)

Reports ==
  /\ up /\ \E p \in Positions(kget), s \in {"Running", "Finished", "Stopped"} :
       /\ \/ s = "Running"  /\ At(kget, p).status = "Stopped" /\ MayRun(kget, p)
          \/ s = "Finished" /\ At(kget, p).status = "Running"
          \/ s = "Stopped"  /\ At(kget, p).status = "Running" /\ ~MayRun(kget, p)
       /\ kget' = Change(kget, p, [At(kget, p) EXCEPT !.status = s, !.posted = TRUE])
  /\ UNCHANGED <<up, startup, edits, crashes>>

\* The commands of the user.
RenameReplies == FileNames \cup {"cancel"}

UserAdds ==
  \E src \in Urls, g \in DOMAIN kget.groups, start, again \in BOOLEAN, reply \in RenameReplies :
    /\ Cardinality(Positions(kget)) < MaxItems
    /\ kget' = AddOne(kget, src, FileOf[src], kget.groups[g].name, start, again, reply)

UserAddsTwo ==
  \E src, other \in Urls,
     answers \in [first : BOOLEAN, second : BOOLEAN, anew : BOOLEAN, reply1 : RenameReplies, reply2 : RenameReplies] :
    /\ Cardinality(Positions(kget)) + 1 < MaxItems
    /\ kget' = AddTwo(kget, src, other, kget.groups[1].name, FALSE, answers)

UserOnTransfer ==
  \E p \in Positions(kget) :
    \/ kget' = DelTransfers(kget, {p})
    \/ \E again \in BOOLEAN, reply \in RenameReplies : kget' = Redownload(kget, p, again, reply)
    \/ \E g \in DOMAIN kget.groups \ {p[1]} : kget' = MoveTransfer(kget, p, g)
    \/ kget' = StartListed(kget, p)
    \/ kget' = StopTransfer(kget, p)

DeleteFinished ==
  kget' = DelTransfers(kget, {p \in Positions(kget) : At(kget, p).status = "Finished"})

UserOnGroup ==
  \/ \E n \in GroupNames : Len(kget.groups) < MaxGroups /\ kget' = AddGroup(kget, n)
  \/ \E g \in DOMAIN kget.groups :
       \/ Len(kget.groups) > 1 /\ kget' = DelGroup(kget, g)
       \/ \E n \in GroupNames : kget' = [kget EXCEPT !.groups[g].name = n]
       \/ \E running \in BOOLEAN : kget' = SetGroupStatus(kget, g, running)

UserEdits ==
  /\ up /\ edits < MaxEdits /\ edits' = edits + 1
  /\ UserAdds \/ UserAddsTwo \/ UserOnTransfer \/ DeleteFinished \/ UserOnGroup
  /\ kget' # kget
  /\ UNCHANGED <<up, startup, crashes>>

\* A list is read from a file of the user's choice.
Import ==
  /\ up /\ edits < MaxEdits /\ Len(kget.observers) < 2
  /\ \E saved \in Lists :
       /\ Cardinality(Positions(kget)) + FoldLeft(LAMBDA n, g : n + Len(g.items), 0, saved) <= MaxItems
       /\ Len(kget.groups) + Len(saved) <= MaxGroups
       /\ kget' = LoadList(kget, saved, startup)
  /\ edits' = edits + 1
  /\ UNCHANGED <<up, startup, crashes>>

----------------------------------------------------------------------------
ListInit ==
  /\ \E s \in Starts : startup = s.startup /\ kget = Started(s.file)
  /\ up = FALSE /\ edits = 0 /\ crashes = 0

ListNext ==
  \/ StartProgram \/ Quit \/ ProgramCrash \/ Reports \/ ChangesDelivered \/ UserEdits \/ Import
  \/ \E o \in 1..2 : SaveTimeout(o) \/ FinishActionTimeout(o) \/ AbortFinishAction(o)

\* The event loop delivers the changes and the timers fire.
ListFairness ==
  /\ WF_listVars(ChangesDelivered)
  /\ \A o \in 1..2 : WF_listVars(SaveTimeout(o))

----------------------------------------------------------------------------
(* Properties                                                              *)

Content(items) == {[src |-> t.src, dest |-> t.dest, whole |-> t.whole] : t \in Range(items)}
Listing(saved) == UNION {Content(saved[g].items) : g \in DOMAIN saved}

\* Whoever observes the list gets every change of it to the file: transfers
\* that come, go, are moved or finish are in the file before long, while
\* others begin and end (GenericObserver).  In a program that is started with an
\* empty file nobody does, and the list is saved only when the program closes.
ListIsSaved ==
  (up /\ kget.watched) ~> (~up \/ Listing(kget.file) = Listing(Snapshot(kget)))

\* What the file holds comes back, each transfer in a group of the same name,
\* finished if it was, with the policy the setting asks for (KGet::load): with
\* two groups of one name, and after a crash at any time as well.
InGroups(saved) ==
  UNION {{<<saved[g].name, [t EXCEPT !.policy = IF startup = "as it was" THEN @ ELSE "set"]>> :
            t \in Range(saved[g].items)} : g \in DOMAIN saved}

RestoresTheList == [][StartProgram => InGroups(Snapshot(kget)') = InGroups(kget.file)]_listVars

=============================================================================
