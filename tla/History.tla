-------------------------------- MODULE History --------------------------------
(***************************************************************************)
(* The transfer history: the store in which KGet records the transfers that *)
(* are deleted, and the dialog that shows, deletes and clears them through  *)
(* a store of its own on the same file.  XmlStore has each operation done   *)
(* by a new thread that reads the whole file and writes it anew;            *)
(* SQLiteStore does them at once.                                          *)
(***************************************************************************)
EXTENDS Integers, FiniteSetsExt, SequencesExt

CONSTANTS
  Deletions,    \* what delTransfers may be given: sequences of [source, dest, size]
  Hosts,        \* the host of each source
  RangeTypes,   \* the ranges the user may choose: of "Host", "Size" or "Date"
  Histories,    \* the rows that the file may have at the start
  Ages,         \* expiry ages the user may set, in days; -1: none
  MaxDeletions, \* bound: calls of delTransfers
  MaxHistoryClicks,   \* bound: what the user does in the dialog
  MaxDays       \* bound: days that pass

ASSUME HistoryAssumption == {MaxDeletions, MaxHistoryClicks, MaxDays} \subseteq Nat /\ Ages \subseteq Int

VARIABLES
  backend,  \* Settings::historyBackend
  store,    \* the file: whether it is there and can be read, and its rows
  threads,  \* threads of the XML stores that run, in the order of their start
  posted,   \* their signals to the main thread, oldest first
  window,   \* the dialog, its view, and the items of its store
  kept,   \* m_items of KGet's store
  clock,    \* the day, and the expiry age that is set
  running,  \* whether KGet runs
  historyClicks,     \* what is bounded
  record    \* history: what should be in the file and in the view

historyVars == <<backend, store, threads, posted, window, kept, clock, running, historyClicks, record>>

\* Sizes are in MiB, and TransferHistoryItem keeps them as an int of bytes.
IntSize(n) == IF n % 4096 < 2048 THEN n % 4096 ELSE (n % 4096) - 4096

HistoryRow(t) == [source |-> t.source, dest |-> t.dest, size |-> IntSize(t.size), time |-> clock.now]
Expired(r, age) == age # -1 /\ clock.now - r.time > age
Unexpired(rows, age) == SelectSeq(rows, LAMBDA r : ~Expired(r, age))

NoStore == [there |-> FALSE, whole |-> TRUE, rows |-> <<>>]
Torn    == [there |-> TRUE, whole |-> FALSE, rows |-> <<>>]
Holding(rows) == [there |-> TRUE, whole |-> TRUE, rows |-> rows]

----------------------------------------------------------------------------
(* The threads of XmlStore                                                 *)

Thread(by, kind, what) == [by |-> by, kind |-> kind, what |-> what, at |-> "start", read |-> NoStore]
Writers(ts) == SelectSeq(ts, LAMBDA t : t.kind # "load")

\* A mutant: what was in the file before is not read.
AppendAlone(read, row) == Holding(<<row>>)

\* The document that SaveThread writes: nothing is added to one without a root.
AppendRow(read, row) == IF read.whole THEN Holding(Append(read.rows, row)) ELSE Torn

\* DeleteThread's loop: the list of elements is a live one, so that the row after
\* one that is removed is passed over, and an empty row is read at the end.
NoRow == [source |-> "", dest |-> "", size |-> 0, time |-> 0]
DeleteRows(rows, source) ==
  LET step(a, i) == CASE i > Len(a.rows)              -> [a EXCEPT !.kept = Append(@, NoRow)]
                      [] i <= Len(a.rows) /\ a.rows[i].source = source
                                                      -> [a EXCEPT !.rows = RemoveAt(@, i)]
                      [] OTHER                        -> [a EXCEPT !.kept = Append(@, a.rows[i])]
  IN  FoldLeft(step, [rows |-> rows, kept |-> <<>>], [i \in 1 .. Len(rows) |-> i])

Post(ps, t, kind, rows) == Append(ps, [by |-> t.by, kind |-> kind, rows |-> rows])

\* LoadThread::run, whose signals for the rows are delivered together.
LoadsFile(i) ==
  LET t == threads[i]
      rows == IF store.there /\ store.whole THEN Unexpired(store.rows, clock.age) ELSE <<>>
  IN  /\ t.kind = "load"
      /\ threads' = RemoveAt(threads, i)
      /\ posted' = Post(posted, t, "loaded", rows)
      /\ UNCHANGED store

\* SaveThread::run and DeleteThread::run read the file, which must exist for the
\* latter, open it, which empties it, and write it.
ReadsFile(i) ==
  LET t == threads[i]
      gives == t.kind = "delete" /\ ~(store.there /\ store.whole)
  IN  /\ t.kind # "load" /\ t.at = "start"
      /\ threads' = IF gives THEN RemoveAt(threads, i)
                    ELSE [threads EXCEPT ![i].at = "read", ![i].read = store]
      /\ posted' = IF gives THEN Post(posted, t, "deleted", <<>>) ELSE posted
      /\ UNCHANGED store

EmptiesFile(i) ==
  /\ threads[i].at = "read" /\ threads' = [threads EXCEPT ![i].at = "emptied"]
  /\ store' = Torn /\ UNCHANGED posted

WritesFile(i) ==
  LET t == threads[i]
      d == DeleteRows(t.read.rows, t.what.source)
  IN  /\ t.at = "emptied" /\ threads' = RemoveAt(threads, i)
      /\ IF t.kind = "save"
         THEN store' = AppendRow(t.read, [t.what EXCEPT !.time = clock.now]) /\ UNCHANGED posted
         ELSE store' = Holding(d.rows) /\ posted' = Post(posted, t, "deleted", d.kept)

ThreadRuns ==
  /\ \E i \in DOMAIN threads : LoadsFile(i) \/ ReadsFile(i) \/ EmptiesFile(i) \/ WritesFile(i)
  /\ UNCHANGED <<backend, window, kept, clock, running, historyClicks, record>>

----------------------------------------------------------------------------
(* SQLiteStore, whose table has one row for a source and a destination.     *)

Insert(rows, row) ==
  IF \E k \in DOMAIN rows : rows[k].source = row.source /\ rows[k].dest = row.dest THEN rows ELSE Append(rows, row)
WithoutSource(rows, source) == SelectSeq(rows, LAMBDA r : r.source # source)

----------------------------------------------------------------------------
(* The view: RangeTreeWidget in the list mode, else categories.             *)

SizeRanges == <<<<0, 1>>, <<1, 10>>, <<10, 100>>, <<100, 1024>>, <<1024, 10240>>>>

\* Range::check, and getRange: the first range that holds the value, else the last one.
Holds(range, size) == range[1] <= size /\ size <= range[2]
RangeOf(size)      == Min({k \in DOMAIN SizeRanges : Holds(SizeRanges[k], size)} \cup {Len(SizeRanges)})

\* The number of days is no int, so that no range of dates holds it.
DateRanges == <<"Today", "Last week", "Last month", "A long time ago">>
Group(w, r) ==
  CASE w.type = "Host" -> Hosts[r.source]
    [] w.type = "Size" /\ w.list -> RangeOf(r.size)
    [] w.type = "Size" /\ ~w.list -> Cardinality({limit \in {10, 50, 100} : r.size >= limit}) + 1
    [] w.type = "Date" /\ w.list -> Last(DateRanges)
    [] OTHER -> DateRanges[Cardinality({limit \in {0, 7, 30} : clock.now - r.time > limit}) + 1]

Shown(w, rows) == [w EXCEPT !.view = @ \o [k \in DOMAIN rows |-> [row |-> rows[k], group |-> Group(w, rows[k])]]]

----------------------------------------------------------------------------
(* KGet                                                                    *)

Does(what, max) == running /\ historyClicks[what] < max /\ historyClicks' = [historyClicks EXCEPT ![what] = @ + 1]

\* What the file should have: the rows that were saved, without those of the sources
\* that were deleted.  A source that is saved twice is not followed any more, since the
\* code keeps the one or the other of its rows, nor one that is saved as the day ends.
Recorded(rec, rows) ==
  [rec EXCEPT !.rows = @ \o rows,
              !.twice = @ \cup {r.source : r \in {x \in Range(rows) :
                            \E y \in Range(rec.rows) : y.source = x.source \/
                            Cardinality({k \in DOMAIN rows : rows[k].source = x.source}) > 1}}]

\* Two threads that write, or one that is not let finish; and a load under way while
\* what it should find changes.
Raced(rec, ts)  == [rec EXCEPT !.raced = @ \/ Len(Writers(ts)) > 1]
Overtaken(rec) == [rec EXCEPT !.overlap = @ \/ threads # <<>>]

\* delTransfers: saveItems, which starts a thread for each transfer.
DelTransfers ==
  /\ Does("deletions", MaxDeletions)
  /\ \E ts \in Deletions :
       LET rows   == [k \in DOMAIN ts |-> HistoryRow(ts[k])]
           begun  == threads \o [k \in DOMAIN rows |-> Thread("kget", "save", rows[k])]
       IN  IF backend = "Xml"
           THEN /\ threads' = begun /\ record' = Overtaken(Raced(Recorded(record, rows), begun))
                /\ UNCHANGED <<store, kept>>
           ELSE /\ store' = Holding(FoldLeft(Insert, store.rows, rows)) /\ kept' = kept \o rows
                /\ record' = Recorded(record, rows) /\ UNCHANGED threads
  /\ UNCHANGED <<backend, posted, window, clock, running>>

\* deleteExpiredItems of a SQLite store: the list changes under the loop, so that
\* the items after one that is deleted may be missed.
ExpiredSources(items, age) ==
  LET old == {r \in Range(items) : Expired(r, age)}
  IN  IF old = {} THEN {{}}
      ELSE {{r.source : r \in s} : s \in {x \in SUBSET old : items[Min({k \in DOMAIN items : items[k] \in old})] \in x}}
KeptRows(rows, sources) == SelectSeq(rows, LAMBDA r : r.source \notin sources)

\* settingsChanged of KGet's store; the XML store has no items there.
HistorySettingsChanged ==
  /\ running /\ \E age \in Ages \ {clock.age} :
       /\ clock' = [clock EXCEPT !.age = age]
       /\ \E gone \in ExpiredSources(kept, age) :
            /\ store' = IF gone = {} THEN store ELSE Holding(KeptRows(store.rows, gone))
            /\ kept' = KeptRows(kept, gone) /\ record' = Overtaken([record EXCEPT !.rows = KeptRows(@, gone)])
  /\ UNCHANGED <<backend, threads, posted, window, running, historyClicks>>

DayPasses ==
  /\ running /\ clock.now < MaxDays /\ clock' = [clock EXCEPT !.now = @ + 1]
  /\ record' = Overtaken([record EXCEPT !.twice = @ \cup {t.what.source : t \in Range(SelectSeq(threads, LAMBDA x : x.kind = "save"))}])
  /\ UNCHANGED <<backend, store, threads, posted, window, kept, running, historyClicks>>

\* ~KGet deletes its store: threads are terminated, wherever they are.
Quit ==
  /\ running /\ running' = FALSE
  /\ threads' = <<>> /\ posted' = <<>> /\ window' = [window EXCEPT !.open = FALSE]
  /\ record' = [record EXCEPT !.raced = @ \/ Writers(threads) # <<>>]
  /\ UNCHANGED <<backend, store, kept, clock, historyClicks>>

----------------------------------------------------------------------------
(* The dialog                                                              *)

\* What is shown should be what is recorded when load() is called, unless something
\* else is under way that has to do with the file or the view.
Expected(rec, ts, ps) ==
  [rec EXCEPT !.shown = Unexpired(rec.rows, clock.age), !.overlap = ts # <<>> \/ ps # <<>> \/ rec.raced \/ rec.twice # {}]

Cleared(w) == [w EXCEPT !.view = <<>>, !.items = <<>>]

\* slotLoadRangeType: clears the view and loads.  s is the state of all it changes.
State(w) == [threads |-> threads, posted |-> posted, store |-> store, window |-> w, record |-> record]
Reload(s) ==
  LET w == Cleared(s.window)
      rows == Unexpired(s.store.rows, w.age)
      rec  == Expected(s.record, s.threads, s.posted)
  IN  IF backend = "Xml"
      THEN [s EXCEPT !.threads = Append(@, Thread("dialog", "load", NoRow)), !.window = w, !.record = rec]
      ELSE [s EXCEPT !.window = [Shown(w, rows) EXCEPT !.items = rows],
                     !.record = [rec EXCEPT !.shown = Unexpired(rec.rows, w.age)]]

Becomes(s) ==
  /\ threads' = s.threads /\ posted' = s.posted /\ store' = s.store /\ window' = s.window /\ record' = s.record
  /\ UNCHANGED <<backend, kept, clock, running>>

OpensHistory ==
  /\ ~window.open /\ Does("inputs", MaxHistoryClicks)
  /\ Becomes(Reload(State([open |-> TRUE, list |-> FALSE, type |-> "Date", view |-> <<>>,
                           items |-> <<>>, age |-> clock.age])))

\* slotLoadRangeType, slotSetListMode and slotSetIconMode by the user.
ChangesView ==
  /\ window.open /\ Does("inputs", MaxHistoryClicks)
  /\ \/ \E type \in RangeTypes : Becomes(Reload(State([window EXCEPT !.type = type])))
     \/ \E list \in BOOLEAN : Becomes(Reload(State([window EXCEPT !.list = list])))

\* deleteItem of the dialog's store, and what should then be recorded.
DeleteItem(s, source) ==
  LET rec == [s.record EXCEPT !.rows = WithoutSource(@, source)]
      begun == Append(s.threads, Thread("dialog", "delete", [NoRow EXCEPT !.source = source]))
  IN  IF backend = "Xml" THEN [s EXCEPT !.threads = begun, !.record = Raced(rec, begun)]
      ELSE [s EXCEPT !.store = Holding(WithoutSource(@.rows, source)), !.record = rec]

\* slotDeleteTransfer, which the list mode has load twice.
DeletesItem ==
  /\ window.open /\ window.view # <<>> /\ Does("inputs", MaxHistoryClicks)
  /\ \E v \in Range(window.view) :
       LET s == Reload(DeleteItem(State(window), v.row.source))
       IN  Becomes(IF window.list THEN Reload(s) ELSE s)

\* slotClear.
Clears ==
  /\ window.open /\ Does("inputs", MaxHistoryClicks)
  /\ LET s == State(window)
     IN  Becomes(Reload([s EXCEPT !.store = NoStore,
                                  !.record.rows = <<>>, !.record.raced = @ \/ Writers(threads) # <<>>]))

\* elementLoaded and slotDeleteElement, which takes the items of the newest thread:
\* if that still runs, whatever it has.
TakesSignal ==
  /\ running /\ posted # <<>> /\ posted' = Tail(posted)
  /\ LET p == Head(posted)
         under == {k \in DOMAIN threads : threads[k].kind = "delete" /\ threads[k].by = "dialog"}
     IN  IF p.kind = "loaded"
         THEN window' = [Shown(window, p.rows) EXCEPT !.items = @ \o p.rows]
         ELSE window' = [window EXCEPT !.items = IF under = {} THEN p.rows ELSE <<>>]
  /\ UNCHANGED <<backend, store, threads, kept, clock, running, historyClicks, record>>

\* The dialog is closed.  Its store is deleted with its threads, and expired items
\* are deleted by new ones: a thread that has not ended may end KGet.
Closes ==
  LET mine(x) == x.by = "dialog"
      others  == SelectSeq(threads, LAMBDA t : ~mine(t))
      cut     == SelectSeq(threads, mine)
      old     == {r \in Range(window.items) : Expired(r, window.age)}
  IN  /\ window.open /\ running
      /\ window' = [window EXCEPT !.open = FALSE, !.view = <<>>, !.items = <<>>]
      /\ posted' = SelectSeq(posted, LAMBDA p : ~mine(p))
      /\ IF backend = "Xml"
         THEN /\ running' \in IF cut # <<>> \/ old # {} THEN BOOLEAN ELSE {TRUE}
              /\ threads' = IF running' THEN others ELSE <<>>
              /\ record' = [record EXCEPT !.raced = @ \/ Writers(IF running' THEN cut ELSE threads) # <<>>]
              /\ UNCHANGED store
         ELSE /\ \E gone \in ExpiredSources(window.items, window.age) :
                   /\ store' = IF gone = {} THEN store ELSE Holding(KeptRows(store.rows, gone))
                   /\ record' = [record EXCEPT !.rows = KeptRows(@, gone)]
              /\ UNCHANGED <<threads, running>>
      /\ UNCHANGED <<backend, kept, clock, historyClicks>>

----------------------------------------------------------------------------
HistoryInit ==
  /\ backend \in {"Xml", "SQLite"} /\ threads = <<>> /\ posted = <<>> /\ kept = <<>> /\ running = TRUE
  /\ clock \in [now : {0}, age : Ages]
  /\ window = [open |-> FALSE, list |-> FALSE, type |-> "Date", view |-> <<>>, items |-> <<>>, age |-> -1]
  /\ historyClicks = [deletions |-> 0, inputs |-> 0]
  /\ \E rows \in Histories :
       /\ store = IF rows = <<>> THEN NoStore ELSE Holding(rows)
       /\ record = [rows |-> rows, twice |-> {}, raced |-> FALSE, shown |-> <<>>, overlap |-> FALSE]

\* What follows threads that write at a time, or are cut short, is not explored.
HistoryNext ==
  /\ ~record.raced
  /\ \/ ThreadRuns \/ DelTransfers \/ HistorySettingsChanged \/ DayPasses \/ Quit
     \/ OpensHistory \/ ChangesView \/ DeletesItem \/ Clears \/ TakesSignal \/ Closes

----------------------------------------------------------------------------
(* Properties                                                              *)

Followed(rows) == SelectSeq(rows, LAMBDA r : r.source \notin record.twice)
Names(rows)    == [k \in DOMAIN rows |-> <<rows[k].source, rows[k].dest, rows[k].size>>]

\* Once nobody writes, the file has a row for each transfer that was deleted, in
\* that order, but for those the user deleted: whatever was shown, loaded, expired
\* or closed in between, and whichever store did it.  Not if two threads wrote at a
\* time, or one was cut short, which the code lets happen.
HistoryIsKept ==
  ~record.raced /\ Writers(threads) = <<>> => Names(Followed(store.rows)) = Names(Followed(record.rows))

\* The dialog shows what is recorded, each once, and where it belongs, after it was
\* opened or told to show it in another way.  Not while anything else is under way,
\* as when an item is deleted, which is shown again before it has gone.
HistoryIsShown ==
  window.open /\ ~record.overlap /\ threads = <<>> /\ posted = <<>> =>
    /\ Names([k \in DOMAIN window.view |-> window.view[k].row]) = Names(record.shown)
    /\ window.type = "Size" => \A v \in Range(window.view) : v.row.size >= 0 =>
         IF window.list THEN v.row.size \in SizeRanges[v.group][1] .. SizeRanges[v.group][2]
         ELSE v.row.size \in (<<0, 10, 50, 100>>[v.group]) .. (<<9, 49, 99, 10240>>[v.group])

\* The history is kept, and shown as it is kept.
HistoryFits == HistoryIsKept /\ HistoryIsShown
=============================================================================
