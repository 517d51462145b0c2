------------------------------- MODULE Adding -------------------------------
(***************************************************************************)
(* How URLs become transfers: NewTransferDialogHandler and                 *)
(* NewTransferDialog (src/ui/newtransferdialog.cpp), UrlChecker,           *)
(* MostLocalUrlJob and FileDeleter (src/core).                             *)
(*                                                                         *)
(* There is one thread, but a modal question runs the event loop until it  *)
(* is answered, and so does mostLocalUrl: jobs end, timers fire and D-Bus  *)
(* calls come in while a handler is in the middle.  `stack` holds what is  *)
(* to be done when the question on top is answered; a loop below another   *)
(* one returns after it.  Operators take the memory of the program, a      *)
(* record `a`, and return it as the function of the same name leaves it.   *)
(***************************************************************************)
EXTENDS Integers, SequencesExt, FiniteSetsExt, TLC

CONSTANTS
  SourceOrder,     \* the sources, sorted
  Malformed,       \* those that are no URL
  Slow,            \* those a KIO job finds the most local URL of
  Local,           \* that URL
  NameOf,          \* the file name in a source
  Folders,         \* the folders that exist and can be written to
  Matching,        \* the sources a group has a pattern for
  GroupFolder,     \* the default folder of that group
  Typed,           \* destinations the user may enter
  AddingSetups,    \* [settings: overwrite, rename, ask, suggest; list: transfers; disk: files]
  Requests,        \* calls of showNewTransferDialog, [urls, last: what follows them]
  MaxRequests,     \* bound: such calls
  MaxInputs,       \* bound: changes of the user in the dialog
  MaxOthers        \* bound: changes from elsewhere

Sources       == Range(SourceOrder)
Download      == "Downloads"
File(dir, name, copy) == [dir |-> dir, name |-> name, copy |-> copy]

ASSUME AddingAssumption ==
  /\ Malformed \subseteq Slow /\ Slow \cup Matching \subseteq Sources
  /\ Download \in Folders /\ NameOf \in [Sources -> STRING] /\ Local \in [Sources -> Sources]
  /\ \A u \in Sources \ Slow : Local[u] = u
  /\ \A r \in Requests : r.last \in {"nothing", "path", "file path", "name"} /\
       (r.last = "name" => Len(r.urls) = 1)
  /\ {MaxRequests, MaxInputs, MaxOthers} \subseteq Nat

VARIABLES
  adding,    \* the memory of the program and the files on the disk
  asked,     \* calls so far
  inputs,    \* changes in the dialog so far
  others     \* changes from elsewhere so far

addingVars == <<adding, asked, inputs, others>>

NoDialog(dir) ==
  [visible |-> FALSE, multiple |-> FALSE, sources |-> {}, url |-> "", items |-> {}, checked |-> {},
   marked |-> {}, group |-> FALSE, dest |-> File(dir, "", 0), ok |-> FALSE, timer |-> FALSE,
   destination |-> File(dir, "", 0), existing |-> 0, overwrite |-> FALSE, above |-> 0, stale |-> FALSE]

Push(a, frame) == [a EXCEPT !.stack = Append(@, frame)]
Pop(a)         == [a EXCEPT !.stack = Front(@)]
Crashed(a)       == [a EXCEPT !.crashed = TRUE]

\* History: the program is done with these sources.
Settle(a, S) == [a EXCEPT !.open = @ \ S]

----------------------------------------------------------------------------
(* UrlChecker and FileDeleter                                              *)

There(a)             == {i \in DOMAIN a.list : a.list[i].there}
FirstOf(I)           == IF I = {} THEN 0 ELSE Min(I)
ExistingSource(a, u) == FirstOf({i \in There(a) : a.list[i].src = u})
ExistingDestination(a, f) == FirstOf({i \in There(a) : a.list[i].dest = f})

WouldOverwrite(a, f) == f \in a.disk \ a.deleting
DeleteFile(a, f)     == [a EXCEPT !.deleting = @ \cup {f}]

\* destUrl: a folder gets the name of the source.
DestUrl(dest, u) == IF dest.name = "" THEN [dest EXCEPT !.name = NameOf[u]] ELSE dest

\* KGet::delTransfers; the file of an unfinished transfer goes too.  A handler
\* that is no longer there is used after it was freed.
DelAdded(a, I) ==
  LET files == {a.list[i].dest : i \in {j \in I : ~a.list[j].finished}}
  IN  IF I \subseteq There(a)
      THEN [a EXCEPT !.list = [i \in DOMAIN @ |-> [@[i] EXCEPT !.there = @ /\ i \notin I]],
                     !.deleting = @ \cup (files \cap a.disk)]
      ELSE Crashed(a)

AddedTransfer(u, dest) == [src |-> u, dest |-> dest, finished |-> FALSE, there |-> TRUE]

CreateAdded(a, data) ==
  Settle([a EXCEPT !.list = @ \o [n \in DOMAIN data |-> AddedTransfer(data[n].src, data[n].dest)]],
         {d.src : d \in Range(data)})

----------------------------------------------------------------------------
(* The dialog                                                              *)

\* setDestination, and a name for a single source (setDefaultDestination).
DefaultDestination(a, d) ==
  LET dir == IF d.group /\ GroupFolder # "" THEN GroupFolder ELSE a.home
  IN  File(dir, IF ~d.multiple /\ d.url # "" THEN NameOf[d.url] ELSE "", 0)

\* A mutant: what was found out before still counts.
InputTimerLeavingOk(d) == [d EXCEPT !.timer = TRUE]

\* inputTimer: what was entered is to be looked at before it can be accepted.
InputTimer(d) == [d EXCEPT !.ok = FALSE, !.timer = TRUE]

\* A mutant: what the dialog shows is dropped.
AlsoShownDropped(a, list) == list

\* The sources, with those of the dialog if it is in use.
AlsoShown(a, list) == IF a.dialog.visible THEN list \cup a.dialog.sources ELSE list

Open(a) == Len(SelectSeq(a.stack, LAMBDA f : f.kind # "check"))

\* showDialog.  setSource resets the name that was suggested.
ShowDialog(a, list) ==
  LET sources == AlsoShown(a, list)
      several == Cardinality(sources) > 1
      first   == IF sources = {} THEN "" ELSE SelectSeq(SourceOrder, LAMBDA u : u \in sources)[1]
      shown   == [NoDialog(a.home) EXCEPT
                    !.visible = TRUE, !.sources = sources, !.multiple = several,
                    !.url = IF several THEN "" ELSE first,
                    !.items = IF several THEN sources ELSE {}, !.checked = IF several THEN sources ELSE {},
                    !.group = first \in Matching \/ a.lastGroup,
                    !.above = IF a.dialog.visible THEN a.dialog.above ELSE Open(a)]
  IN  [a EXCEPT !.dialog = InputTimer([shown EXCEPT !.dest = DefaultDestination(a, shown)])]

FolderValid(dest)      == dest.name = "" /\ dest.dir \in Folders
DestinationValid(dest) == dest.name # "" /\ dest.dir \in Folders

\* The end of checkInput, with what it read at its beginning, `l`; m_multiple is
\* read anew.  Marking an item starts the timer.
InputChecked(a, l) ==
  LET d      == a.dialog
      source == IF l.url = "" THEN "" ELSE Local[l.url]
      folder == FolderValid(l.dest)
      file   == ~folder /\ ~l.multiple /\ DestinationValid(l.dest)
      marks  == {u \in d.items : WouldOverwrite(a, DestUrl(l.dest, u))}
      target == DestUrl(l.dest, source)
      stale  == l # [url |-> d.url, dest |-> d.dest, multiple |-> d.multiple]
      twin   == ExistingSource(a, source)
      checked ==
        CASE d.multiple /\ folder /\ d.checked # {} ->
               [d EXCEPT !.ok = TRUE, !.marked = marks, !.timer = @ \/ marks # d.marked]
          [] ~d.multiple /\ source # "" /\ (folder \/ file) ->
               [d EXCEPT !.ok = TRUE, !.destination = target, !.overwrite = WouldOverwrite(a, target),
                         !.existing = IF twin # 0 THEN twin ELSE ExistingDestination(a, target)]
          [] OTHER -> [d EXCEPT !.ok = FALSE]
  IN  [a EXCEPT !.dialog = [checked EXCEPT !.stale = stale]]

\* checkInput, up to mostLocalUrl, which may run the event loop.
CheckInput(a) ==
  LET d == a.dialog
      l == [url |-> d.url, dest |-> d.dest, multiple |-> d.multiple]
      b == [a EXCEPT !.dialog = [d EXCEPT !.timer = FALSE,
                                   !.destination = IF FolderValid(d.dest) THEN d.dest ELSE @]]
  IN  IF ~d.multiple /\ d.url \in Slow THEN Push([b EXCEPT !.dialog.stale = TRUE], [kind |-> "check", read |-> l])
      ELSE InputChecked(b, l)

\* dialogAccepted.
DialogAccepted(a) ==
  LET d     == a.dialog
      order == SelectSeq(SourceOrder, LAMBDA u : u \in d.checked)
      data  == IF d.multiple THEN [n \in DOMAIN order |-> [src |-> order[n], dest |-> DestUrl(d.destination, order[n])]]
               ELSE <<[src |-> d.url, dest |-> d.destination]>>
      gone  == IF d.multiple THEN {DestUrl(d.destination, u) : u \in d.marked \cap d.checked}
               ELSE IF d.overwrite THEN {d.destination} ELSE {}
      b     == IF d.existing = 0 THEN a ELSE DelAdded(a, {d.existing})
  IN  CreateAdded([b EXCEPT !.deleting = @ \cup gone, !.home = d.destination.dir, !.lastGroup = d.group], data)

\* The dialog is closed and cleared; what it showed is settled.
DialogClosed(a, b) ==
  [Settle(b, {a.dialog.url} \cup a.dialog.items) EXCEPT !.dialog = NoDialog(b.home)]

----------------------------------------------------------------------------
(* The URLs of a request find their place                                  *)

\* The settings apply to what is at the head: unfinished transfers come first.
NeedsNoQuestion(a, f) ==
  a.setup.overwrite \/ (a.setup.rename /\ \A e \in Range(f.queue) : e.finished)

\* The second half of handleUrls: the URLs without a place go to the dialog.
\* The entry is erased through an iterator that may have gone; a call whose jobs
\* ended at once counts the number of the request up only now.
FinishUrls(a, f) ==
  LET known   == f.id \in DOMAIN a.requests /\ a.requests[f.id].node = f.node
      created == CreateAdded(a, f.data)
      erased  == [created EXCEPT !.requests = [i \in DOMAIN @ \ {f.id} |-> @[i]], !.numJobs[f.id] = 0,
                                 !.next = IF f.sync THEN @ + 1 ELSE @]
  IN  CASE ~known -> Crashed(created)
        [] known /\ f.left = {} -> erased
        [] known /\ f.left # {} -> ShowDialog(erased, f.left)

\* autoDestUrl, by the names on the disk.
AutoDest(a, dest) ==
  [dest EXCEPT !.copy = CHOOSE c \in 0..Cardinality(a.disk) :
     /\ [dest EXCEPT !.copy = c] \notin a.disk
     /\ \A b \in 0..(c - 1) : [dest EXCEPT !.copy = b] \in a.disk]

\* checkExistingFile for one URL, while none waits for an answer.
CheckExistingFile(s, e) ==
  LET exists == WouldOverwrite(s.a, e.dest)
      taken(dest) == [s EXCEPT !.f.data = Append(@, [src |-> e.src, dest |-> dest])]
      declined    == [s EXCEPT !.a = Settle(@, {e.src})]
  IN  CASE s.f.asking -> [s EXCEPT !.f.queue = Append(@, e)]
        [] ~s.f.asking /\ s.f.policy = "cancel" -> declined
        [] ~s.f.asking /\ s.f.policy # "cancel" /\ ~exists -> taken(e.dest)
        [] ~s.f.asking /\ s.f.policy = "skip" /\ exists -> declined
        [] ~s.f.asking /\ s.f.policy = "overwrite" /\ exists -> [taken(e.dest) EXCEPT !.a = DeleteFile(@, e.dest)]
        [] ~s.f.asking /\ s.f.policy = "rename" /\ exists -> taken(AutoDest(s.a, e.dest))
        [] ~s.f.asking /\ s.f.policy = "ask" /\ exists -> [s EXCEPT !.f.asking = TRUE, !.f.queue = <<e>>]

PlaceUrls(a, f) ==
  LET s == FoldLeft(CheckExistingFile, [a |-> a, f |-> [f EXCEPT !.queue = <<>>, !.asking = FALSE]], f.queue)
  IN  IF s.f.asking THEN Push(s.a, s.f) ELSE FinishUrls(s.a, s.f)

\* Where handleUrls puts a URL, one with a name first; "" leaves it to the dialog.
GroupPlace == IF GroupFolder \in Folders THEN GroupFolder ELSE ""

NamedPlace(setup, u) ==
  CASE u \in Matching /\ ~(setup.suggest /\ setup.ask) -> GroupPlace
    [] u \notin Matching /\ ~setup.ask -> Download
    [] OTHER -> ""

UnnamedPlace(setup, u) ==
  CASE u \in Matching /\ ~setup.suggest /\ GroupPlace # "" -> GroupPlace
    [] (u \notin Matching \/ setup.suggest \/ GroupPlace = "") /\ ~setup.ask -> Download
    [] OTHER -> ""

\* The sources that remain get their places, by group first.
ExistingAsked(a, f) ==
  LET b        == DelAdded(a, f.del)
      named(u) == f.name /\ f.urls = {u} /\ NamedPlace(a.setup, u) # ""
      place(u) == IF named(u) THEN NamedPlace(a.setup, u) ELSE UnnamedPlace(a.setup, u)
      order    == SelectSeq(SourceOrder, LAMBDA u : u \in f.urls /\ u \in Matching)
                  \o SelectSeq(SourceOrder, LAMBDA u : u \in f.urls /\ u \notin Matching)
      placed   == SelectSeq(order, LAMBDA u : place(u) # "")
      entry(u) == [src |-> u, dest |-> File(place(u), IF named(u) THEN "suggested" ELSE NameOf[u], 0)]
  IN  IF b.crashed THEN b
      ELSE PlaceUrls(b, [f EXCEPT !.kind = "files", !.queue = [n \in DOMAIN placed |-> entry(placed[n])],
                                  !.left = f.urls \ Range(placed)])

Take(f, E) == [f EXCEPT !.urls = @ \cup {e.src : e \in E}, !.del = @ \cup {e.id : e \in E},
                        !.queue = SelectSeq(@, LAMBDA e : e \notin E)]

\* hasExistingTransferMessages: on to the next question, if there is one.
AskExisting(a, f) ==
  LET g == IF NeedsNoQuestion(a, f) THEN Take(f, Range(f.queue)) ELSE f
  IN  IF g.queue = <<>> THEN ExistingAsked(a, g) ELSE Push(a, g)

\* handleUrls: transfers of the same sources are asked about first.
HandleUrls(a, id, sync) ==
  LET r    == a.requests[id]
      urls == r.urls \ Malformed
      old(u) == ExistingSource(a, u)
      entry(u) == [src |-> u, id |-> old(u), finished |-> a.list[old(u)].finished]
      order(done) == SelectSeq(SourceOrder, LAMBDA u : u \in urls /\ old(u) # 0 /\ a.list[old(u)].finished = done)
      entries(done) == [n \in DOMAIN order(done) |-> entry(order(done)[n])]
  IN  AskExisting(Settle(a, Malformed),
        [kind |-> "existing", id |-> id, node |-> r.node, sync |-> sync, name |-> r.name,
         queue |-> entries(FALSE) \o entries(TRUE), urls |-> {u \in urls : old(u) = 0}, del |-> {},
         data |-> <<>>, left |-> {}, asking |-> FALSE,
         policy |-> IF a.setup.overwrite THEN "overwrite" ELSE IF a.setup.rename THEN "rename" ELSE "ask"])

----------------------------------------------------------------------------
(* A request                                                               *)

NewEntry(a) == [urls |-> {}, name |-> FALSE, node |-> a.nodes]

\* m_urls[id] makes an entry where there is none.
AddUrls(a, id, S) ==
  LET b == IF id \in DOMAIN a.requests THEN a
           ELSE [a EXCEPT !.requests = @ @@ (id :> NewEntry(a)), !.nodes = @ + 1]
  IN  [b EXCEPT !.requests[id].urls = @ \cup S]

\* The loop over the URLs, with the number of the request as it is by then: if
\* none needs a job the last one has them handled within the loop.
StartJobs(a, S) ==
  LET id   == a.next
      slow == S \cap Slow
      b    == AddUrls(a, id, S \ slow)
      c    == [b EXCEPT !.numJobs[id] = Cardinality(slow), !.serial = @ + 1,
                        !.jobs = @ \cup {[id |-> id, src |-> u, serial |-> a.serial] : u \in slow}]
  IN  IF slow = {} THEN HandleUrls(c, id, TRUE) ELSE [c EXCEPT !.next = @ + 1]

\* The name is written through an iterator that may have gone.
DirectoryChecked(a, f) ==
  LET id == CHOOSE i \in DOMAIN a.requests : a.requests[i].node = f.node
      there == \E i \in DOMAIN a.requests : a.requests[i].node = f.node
  IN  CASE ~f.name -> StartJobs(a, f.urls)
        [] f.name /\ there  -> StartJobs([a EXCEPT !.requests[id].name = TRUE], f.urls)
        [] f.name /\ ~there -> Crashed(a)

\* showNewTransferDialog.  A path that follows the URLs is passed to
\* isValidDestDirectory as the text of a URL, which is no directory: an error is
\* shown and the folder is left empty.  A call in the middle of one that has not
\* counted its number up yet replaces what is entered under it.
ShowNewTransferDialog(a, r) ==
  LET S    == Range(r.urls)
      id   == a.next
      node == IF id \in DOMAIN a.requests THEN a.requests[id].node ELSE a.nodes
      b    == [a EXCEPT !.open = @ \cup {Local[u] : u \in S}, !.collided = @ \/ id \in DOMAIN a.requests,
                        !.requests = (id :> [urls |-> {}, name |-> FALSE, node |-> node]) @@ @,
                        !.nodes = IF id \in DOMAIN a.requests THEN @ ELSE @ + 1]
      frame == [kind |-> "box", urls |-> S, node |-> node,
                name |-> r.last \in {"file path", "name"} /\ Len(r.urls) = 1]
  IN  CASE S = {} -> ShowDialog(a, {})
        [] S # {} /\ r.last \in {"path", "file path"} -> Push(b, frame)
        [] S # {} /\ r.last \notin {"path", "file path"} -> DirectoryChecked(b, frame)

\* slotMostLocalUrlResult.
SlotMostLocalUrlResult(a, j) ==
  LET b == [AddUrls(a, j.id, {Local[j.src]}) EXCEPT !.numJobs[j.id] = @ - 1, !.jobs = @ \ {j}]
  IN  IF b.numJobs[j.id] <= 0 THEN HandleUrls(b, j.id, FALSE) ELSE b

----------------------------------------------------------------------------
(* What happens                                                            *)

Calls(a) == /\ ~adding.crashed /\ adding' = a /\ UNCHANGED <<asked, inputs, others>>

Asks ==
  /\ ~adding.crashed /\ asked < MaxRequests /\ asked' = asked + 1
  /\ \E r \in Requests : adding' = ShowNewTransferDialog(adding, r)
  /\ UNCHANGED <<inputs, others>>

JobEnds == \E j \in adding.jobs : Calls(SlotMostLocalUrlResult(adding, j))

\* The topmost of the modal windows has the user's input.
DialogHasInput == adding.dialog.visible /\ adding.dialog.above >= Open(adding)
Question(kind) == adding.stack # <<>> /\ Last(adding.stack).kind = kind /\ ~DialogHasInput

ErrorShown == Question("box") /\ Calls(DirectoryChecked(Pop(adding), Last(adding.stack)))

\* ExistingTransferDialog.
ExistingAnswered ==
  /\ Question("existing")
  /\ LET f == Last(adding.stack)
         a == Pop(adding)
         e == Head(f.queue)
         alike == {x \in Range(f.queue) : x.finished = e.finished}
         Without(S) == [f EXCEPT !.queue = SelectSeq(@, LAMBDA x : x \notin S)]
         sources(S) == {x.src : x \in S}
     IN  \/ Calls(AskExisting(a, Take(f, {e})))
         \/ Calls(AskExisting(a, Take(f, alike)))
         \/ Calls(AskExisting(Settle(a, {e.src}), Without({e})))
         \/ Calls(AskExisting(Settle(a, sources(alike)), Without(alike)))
         \/ Calls(ExistingAsked(Settle(a, sources(Range(f.queue))), Without(Range(f.queue))))

\* KIO::RenameDialog.
FileAnswered ==
  /\ Question("files")
  /\ LET f == Last(adding.stack)
         a == Pop(adding)
         e == Head(f.queue)
         taken(g, dest) == [g EXCEPT !.data = Append(@, [src |-> e.src, dest |-> dest]), !.queue = Tail(@)]
         declined       == [f EXCEPT !.queue = Tail(@)]
     IN  \/ \E p \in {"ask", "overwrite"} :
              Calls(PlaceUrls(DeleteFile(a, e.dest), taken([f EXCEPT !.policy = p], e.dest)))
         \/ \E dest \in Typed : dest.name # "" /\ Calls(PlaceUrls(a, [f EXCEPT !.queue[1].dest = dest]))
         \/ Calls(PlaceUrls(a, taken([f EXCEPT !.policy = "rename"], AutoDest(a, e.dest))))
         \/ \E p \in {"ask", "skip", "cancel"} :
              Calls(PlaceUrls(Settle(a, {e.src}), [declined EXCEPT !.policy = p]))

\* m_timer of the dialog; one check may begin while another waits for its job.
TimerFires ==
  /\ adding.dialog.timer /\ Len(adding.stack) - Open(adding) < 2
  /\ Calls(CheckInput(adding))

LocalUrlFound ==
  /\ adding.stack # <<>> /\ Last(adding.stack).kind = "check"
  /\ Calls(InputChecked(Pop(adding), Last(adding.stack).read))

\* The user changes what the dialog holds.
Enters(d) ==
  /\ ~adding.crashed /\ DialogHasInput /\ inputs < MaxInputs /\ inputs' = inputs + 1
  /\ adding' = [Settle(adding, {adding.dialog.url} \ {d.url}) EXCEPT !.dialog = InputTimer(d)]
  /\ UNCHANGED <<asked, others>>

UserEnters ==
  LET d == adding.dialog
      Redirected(e) == [e EXCEPT !.dest = DefaultDestination(adding, e)]
  IN  \/ \E u \in Sources \ (Malformed \cup {d.url}) : ~d.multiple /\ Enters(Redirected([d EXCEPT !.url = u]))
      \/ \E dest \in Typed \ {d.dest} : (d.multiple => dest.name = "") /\ Enters([d EXCEPT !.dest = dest])
      \/ Enters(Redirected([d EXCEPT !.group = ~@]))
      \/ \E u \in d.items : Enters([d EXCEPT !.checked = SymDiff(@, {u})])

Accept == DialogHasInput /\ adding.dialog.ok /\ Calls(DialogClosed(adding, DialogAccepted(adding)))
Reject == DialogHasInput /\ Calls(DialogClosed(adding, adding))

\* Other windows, D-Bus, the transfers themselves and the job that deletes files.
Elsewhere ==
  /\ ~adding.crashed /\ others < MaxOthers /\ others' = others + 1 /\ UNCHANGED <<asked, inputs>>
  /\ \/ \E u \in Sources \ Malformed : adding' = [adding EXCEPT !.list =
          Append(@, AddedTransfer(u, File(adding.home, NameOf[u], 0)))]
     \/ \E i \in There(adding) : adding' = DelAdded(adding, {i})
     \/ \E i \in There(adding) :
          /\ ~adding.list[i].finished /\ adding.list[i].dest \notin adding.deleting
          /\ adding' = [adding EXCEPT !.list[i].finished = TRUE, !.disk = @ \cup {adding.list[i].dest}]

FileDeleted ==
  \E f \in adding.deleting : Calls([adding EXCEPT !.deleting = @ \ {f}, !.disk = @ \ {f}])

----------------------------------------------------------------------------
FirstMemory(s) ==
  [list |-> s.list, disk |-> s.disk, deleting |-> {}, home |-> Download, lastGroup |-> FALSE,
   requests |-> <<>>, numJobs |-> [i \in 0..(2 * MaxRequests) |-> 0], next |-> 0, nodes |-> 0,
   serial |-> 0, jobs |-> {}, stack |-> <<>>, dialog |-> NoDialog(Download), setup |-> s.settings,
   open |-> {}, collided |-> FALSE, crashed |-> FALSE]

AddingInit ==
  /\ \E s \in AddingSetups : adding = FirstMemory(s)
  /\ asked = 0 /\ inputs = 0 /\ others = 0

AddingNext ==
  \/ Asks \/ JobEnds \/ ErrorShown \/ ExistingAnswered \/ FileAnswered
  \/ TimerFires \/ LocalUrlFound \/ UserEnters \/ Accept \/ Reject
  \/ Elsewhere \/ FileDeleted

----------------------------------------------------------------------------
(* Properties                                                              *)

Displayed(d) ==
  IF d.multiple THEN {<<u, DestUrl(d.dest, u)>> : u \in d.checked}
  ELSE {<<d.url, DestUrl(d.dest, Local[d.url])>>}

\* What the user accepts is what the dialog shows (NewTransferDialog, its timer
\* and dialogAccepted): the transfers that come have the sources and
\* destinations shown then, and only transfers and files that these replace go.
\* Left out is what a check lets through that waits for its job, or that ends
\* after the changes it never saw (`stale`).
AcceptedAsShown ==
  [][(Accept /\ ~adding.dialog.stale /\ ~adding.crashed') =>
     LET shown == Displayed(adding.dialog)
         files == {s[2] : s \in shown}
         twins == {s[1] : s \in shown} \cup {Local[s[1]] : s \in shown}
         came  == {<<adding.list'[i].src, adding.list'[i].dest>> : i \in DOMAIN adding.list' \ DOMAIN adding.list}
         went  == There(adding) \ There(adding')
     IN  /\ came = shown
         /\ \A i \in went : adding.list[i].src \in twins \/ adding.list[i].dest \in files
         /\ adding.deleting' \ adding.deleting \subseteq files \cup {adding.list[i].dest : i \in went}]_addingVars

\* No source is lost (NewTransferDialogHandler): when no job and no question is
\* left, each has become a transfer, was turned down, or is in the dialog, however
\* many requests came while others waited for an answer.  Two of them that run
\* under one number are left out, see the README.
SourcesAreHandled ==
  (~adding.crashed /\ ~adding.collided /\ adding.jobs = {} /\ Open(adding) = 0) =>
    adding.open \subseteq (IF adding.dialog.visible THEN {adding.dialog.url} \cup adding.dialog.items ELSE {})
=============================================================================
