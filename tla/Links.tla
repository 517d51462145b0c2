--------------------------------- MODULE Links ---------------------------------
(***************************************************************************)
(* The links that are offered for download: a thread finds those of a file, *)
(* KGetLinkView shows them with boxes, behind KGetSortFilterProxyModel, and *)
(* gives the ticked ones to the dialog for new transfers; or they are        *)
(* dropped onto the window or onto the drop target, which is shown and       *)
(* hidden by animations.                                                    *)
(***************************************************************************)
EXTENDS Naturals, FiniteSets, FiniteSetsExt, SequencesExt

CONSTANTS
  LinkTexts,  \* what the regular expression finds
  About,      \* each link's file name ("" for none), type of file ("" unknown) and
              \* whether it makes a URL with a host
  LinkFiles,      \* what may be imported: whether it is local, and the links it holds
  Filters,    \* what the user may type as a filter; "" is nothing
  Matching,   \* the texts each filter matches, under each syntax
  MaxClicks,  \* bound: what the user does in the views and with the target
  MaxImports  \* bound: imports from one view

ASSUME LinksAssumption ==
  /\ About \in [LinkTexts -> [name : STRING, mime : STRING, url : BOOLEAN]]
  /\ \A f \in LinkFiles : f.links \in Seq(LinkTexts)
  /\ "" \in Filters /\ {MaxClicks, MaxImports} \subseteq Nat

VARIABLES
  importer, \* the view's LinkImporter: its file, the links found, how far it is
  finishes, \* signals finished() on their way to the view
  view,     \* the dialog: rows, filters as set and as applied, buttons; the calls of
            \* slotStartImport that wait for a copy
  offered,  \* the URLs given to NewTransferDialogHandler, <<>> when none were
  target,   \* the drop target: shown, its animation, and showDropTarget
  aborted,  \* a running thread was destroyed, or what is destroyed was used
  done      \* what is bounded

linksVars == <<importer, finishes, view, offered, target, aborted, done>>

----------------------------------------------------------------------------
(* LinkImporter                                                            *)

NoImporter == [at |-> "none", file |-> [local |-> TRUE, links |-> <<>>], next |-> 1, found |-> <<>>]

\* A mutant: a link is listed as often as it is found.
ListedTwice(found, link) == IF About[link].url THEN Append(found, link) ELSE found

\* addTransfer
Listed(found, link) ==
  IF About[link].url /\ ~Contains(found, link) THEN Append(found, link) ELSE found

\* checkClipboard and slotReadFile
LinksOf(links) == FoldLeft(Listed, <<>>, links)

\* A file that is not local was copied to a path that slotReadFile cannot open,
\* as it is taken for a URL without a scheme: nothing is read.
ReadsLink ==
  /\ importer.at = "running"
  /\ IF importer.file.local /\ importer.next <= Len(importer.file.links)
     THEN importer' = [importer EXCEPT !.next = @ + 1,
                                       !.found = Listed(@, importer.file.links[importer.next])]
          /\ UNCHANGED finishes
     ELSE importer' = [importer EXCEPT !.at = "done"] /\ finishes' = finishes + 1
  /\ UNCHANGED <<view, offered, target, aborted, done>>

----------------------------------------------------------------------------
(* KGetSortFilterProxyModel                                                *)

\* the text of the column that is filtered: the file's name or the URL
ColumnText(v, link) == IF v.column = "name" THEN About[link].name ELSE link

\* An empty filter matches, and "does not contain" is only asked of another.
AcceptsText(v, text) ==
  \/ v.applied.text = ""
  \/ (v.mode = "contain") <=> text \in Matching[v.applied.syntax][v.applied.text]

\* A type of file that is not known is never shown.
AcceptsRow(v, link) ==
  LET text == ColumnText(v, link)
      mime == About[link].mime
  IN  /\ mime # ""
      /\ IF v.type # "all" THEN text # "" /\ mime = v.type
         ELSE v.webContent \/ (text # "" /\ mime # "web")
      /\ AcceptsText(v, text)

----------------------------------------------------------------------------
(* KGetLinkView                                                            *)

Visible(v) == {i \in DOMAIN v.rows : AcceptsRow(v, v.rows[i].link)}
Checked(v) == {i \in DOMAIN v.rows : v.rows[i].checked}

\* selectionChanged: what the buttons are enabled for.
Buttons(v) ==
  LET shown == Checked(v) \cap Visible(v)
  IN  [v EXCEPT !.buttons = [all      |-> v.rows # <<>> /\ shown # Visible(v),
                             none     |-> shown # {},
                             download |-> Checked(v) # {}]]

\* showLinks: a new model whose rows are all ticked, behind the filters there are.
ShowsLinks(v, links) ==
  Buttons([v EXCEPT !.model = TRUE, !.rows = [i \in DOMAIN links |-> [link |-> links[i], checked |-> TRUE]]])

FreshView ==
  [open |-> TRUE, model |-> FALSE, rows |-> <<>>, type |-> "all", mode |-> "contain", column |-> "name",
   webContent |-> FALSE, syntax |-> "wildcard", text |-> "",
   applied |-> [syntax |-> "wildcard", text |-> ""],
   buttons |-> [all |-> FALSE, none |-> FALSE, download |-> TRUE], copying |-> 0,
   asked |-> [given |-> FALSE, local |-> TRUE, links |-> <<>>]]

Asked(given, f) == [given |-> given, local |-> f.local, links |-> f.links]

\* The constructor shows the links of the clipboard, importLinks of DBusKGetWrapper
\* those it is given.
OpensView ==
  /\ ~view.open /\ done.imports < MaxImports /\ done' = [done EXCEPT !.imports = @ + 1]
  /\ \E f \in {g \in LinkFiles : g.local}, given \in BOOLEAN :
       LET found == LinksOf(f.links)
       IN  /\ view' = IF f.links = <<>> /\ ~given THEN FreshView
                      ELSE ShowsLinks([FreshView EXCEPT !.asked = Asked(given, f)],
                                      IF given THEN f.links ELSE found)
           /\ importer' = IF given THEN NoImporter ELSE [NoImporter EXCEPT !.at = "done", !.found = found]
  /\ finishes' = 0
  /\ UNCHANGED <<offered, target, aborted>>

\* The view's importer goes with it, and with the next import: a QThread that is
\* destroyed while it runs ends the program.  A copy that is waited for returns into
\* the view.
Destroys(closes) == aborted' = (importer.at = "running" \/ (closes /\ view.copying > 0))

Click == view.open /\ done.clicks < MaxClicks /\ done' = [done EXCEPT !.clicks = @ + 1]

ClosesView(urls) ==
  /\ view' = [view EXCEPT !.open = FALSE]
  /\ offered' = urls
  /\ importer' = NoImporter /\ finishes' = 0 /\ Destroys(TRUE)
  /\ UNCHANGED target

\* slotStartImport.  What is not local is copied first, and the events go on meanwhile.
StartsImport ==
  /\ view.open /\ done.imports < MaxImports /\ done' = [done EXCEPT !.imports = @ + 1]
  /\ \E f \in LinkFiles :
       /\ importer' = [NoImporter EXCEPT !.at = IF f.local THEN "running" ELSE "copying", !.file = f]
       /\ view' = [view EXCEPT !.asked = Asked(FALSE, f), !.copying = @ + IF f.local THEN 0 ELSE 1]
  /\ Destroys(FALSE)
  /\ UNCHANGED <<finishes, offered, target>>

\* The innermost copyRemoteFile returns, and the importer there is by now is started,
\* once more if it was done; one that runs is left to run.  An importer that another
\* import deleted says that its copy failed.
CopyReturns ==
  /\ view.open /\ view.copying > 0
  /\ view' = [view EXCEPT !.copying = @ - 1]
  /\ importer' = IF importer.at = "running" THEN importer
                 ELSE [importer EXCEPT !.at = "running", !.next = 1]
  /\ aborted' \in IF importer.at = "copying" THEN {FALSE} ELSE BOOLEAN
  /\ UNCHANGED <<finishes, offered, target, done>>

\* slotImportFinished reads the links of the importer there is now.
ImportFinished ==
  /\ view.open /\ finishes > 0 /\ finishes' = finishes - 1
  /\ view' = ShowsLinks(view, importer.found)
  /\ UNCHANGED <<importer, offered, target, aborted, done>>

Changes(v) == view' = v /\ UNCHANGED <<importer, finishes, offered, target, aborted>>

\* slotMimeTypeChanged and setTextFilter go on to updateSelectionButtons; the mode,
\* the column and "show web content" leave the buttons as they are.  The syntax is
\* looked at when the text is changed next.
ChangesFilter ==
  /\ Click
  /\ \/ \E t \in {"all", "video", "image", "audio", "archive"} \ {view.type} :
          Changes(Buttons([view EXCEPT !.type = t]))
     \/ \E t \in Filters \ {view.text} :
          Changes(Buttons([view EXCEPT !.text = t,
                                       !.applied = [syntax |-> view.syntax, text |-> t]]))
     \/ \E m \in {"contain", "not contain"} \ {view.mode} : Changes([view EXCEPT !.mode = m])
     \/ \E c \in {"name", "url"} \ {view.column} : Changes([view EXCEPT !.column = c])
     \/ Changes([view EXCEPT !.webContent = ~@])
     \/ \E s \in {"wildcard", "regexp"} \ {view.syntax} : Changes([view EXCEPT !.syntax = s])

\* Each box that changes calls selectionChanged.
Ticks(rows, how(_)) ==
  Buttons([view EXCEPT !.rows = [i \in DOMAIN view.rows |->
             IF i \in rows THEN [view.rows[i] EXCEPT !.checked = how(@)] ELSE view.rows[i]]])

ChecksRows ==
  /\ Click
  /\ \/ view.buttons.all /\ Changes(Ticks(Visible(view), LAMBDA c : TRUE))
     \/ view.buttons.none /\ Changes(Ticks(Visible(view), LAMBDA c : FALSE))
     \/ view.buttons.none /\ Changes(Ticks(Visible(view), LAMBDA c : ~c))
     \/ \E i \in Visible(view) : Changes(Ticks({i}, LAMBDA c : ~c))

\* slotStartLeech takes every row that is ticked, whether it is shown or not.
StartsLeech ==
  /\ Click /\ view.buttons.download
  /\ LET rows == SelectSeq(view.rows, LAMBDA r : r.checked)
     IN  ClosesView(IF view.model THEN [i \in DOMAIN rows |-> rows[i].link] ELSE offered)

RejectsView == Click /\ ClosesView(offered)

----------------------------------------------------------------------------
(* What is dropped, and the drop target                                    *)

\* MainWindow::dropEvent and DropTarget::dropEvent: one URL that is a list of
\* transfers may be loaded instead, and the drop target takes one URL from the text
\* that came with it.
Drops ==
  /\ done.clicks < MaxClicks /\ done' = [done EXCEPT !.clicks = @ + 1]
  /\ \E f \in LinkFiles, on \in {"window", "target"} :
       /\ on = "target" => target.shown
       /\ offered' = f.links
       /\ target' = IF on = "target" /\ target.animate
                    THEN [target EXCEPT !.timer = "sync"] ELSE target
  /\ UNCHANGED <<importer, finishes, view, aborted>>

\* setDropTargetVisible: nothing is done, and the setting stays, when it is already
\* so; a target that is on its way out is still shown.
SetDropTargetVisible(t, shown, internal) ==
  target' = IF shown = t.shown THEN t
            ELSE [t EXCEPT !.set = IF internal THEN shown ELSE @,
                           !.timer = CASE ~t.animate -> @ [] shown -> "show" [] OTHER -> "hide",
                           !.shown = shown \/ t.animate]

\* The window's action, D-Bus, the preferences, and the closing of the target itself.
ShowsTarget ==
  /\ done.clicks < MaxClicks /\ done' = [done EXCEPT !.clicks = @ + 1]
  /\ \/ SetDropTargetVisible(target, ~target.shown, TRUE)
     \/ SetDropTargetVisible(target, ~target.set, TRUE)
     \/ \E b \in BOOLEAN : SetDropTargetVisible([target EXCEPT !.set = b], b, FALSE)
     \/ target.shown /\ target' = [target EXCEPT !.shown = FALSE]
  /\ UNCHANGED <<importer, finishes, view, offered, aborted>>

\* A press of a button stops the animation where it is; the middle one pastes.
PressesTarget ==
  /\ target.shown /\ done.clicks < MaxClicks /\ done' = [done EXCEPT !.clicks = @ + 1]
  /\ target' = [target EXCEPT !.timer = "none"]
  /\ UNCHANGED <<importer, finishes, view, offered, aborted>>

\* The last step of slotAnimateShow, slotAnimateHide and slotAnimateSync.
AnimationEnds ==
  /\ target.timer # "none"
  /\ target' = [target EXCEPT !.timer = "none", !.shown = @ /\ target.timer # "hide"]
  /\ UNCHANGED <<importer, finishes, view, offered, aborted, done>>

----------------------------------------------------------------------------

LinksInit ==
  /\ importer = NoImporter /\ finishes = 0 /\ offered = <<>> /\ aborted = FALSE
  /\ view = [FreshView EXCEPT !.open = FALSE]
  /\ \E animate, shown \in BOOLEAN :
       target = [shown |-> shown, timer |-> "none", set |-> shown, animate |-> animate]
  /\ done = [clicks |-> 0, imports |-> 0]

LinksNext ==
  /\ ~aborted
  /\ \/ ReadsLink \/ OpensView \/ StartsImport \/ CopyReturns \/ ImportFinished \/ ChangesFilter
     \/ ChecksRows \/ StartsLeech \/ RejectsView
     \/ Drops \/ ShowsTarget \/ PressesTarget \/ AnimationEnds

----------------------------------------------------------------------------

\* The view shows the links of the file that was imported last, each that makes a URL
\* once and in the order in which they are first found, when no import is under way:
\* what an earlier import finished late was overwritten.  Links that were handed over
\* are shown as they are.  slotStartImport, LinkImporter and slotImportFinished.
ImportIsShown ==
  LET asked == view.asked.links
      shown == [i \in DOMAIN view.rows |-> view.rows[i].link]
      First(l) == Min({i \in DOMAIN asked : asked[i] = l})
  IN  view.open /\ view.model /\ importer.at \notin {"copying", "running"} /\ finishes = 0 =>
        IF view.asked.given THEN shown = asked
        ELSE view.asked.local =>
          /\ ToSet(shown) = {l \in ToSet(asked) : About[l].url}
          /\ \A i, j \in DOMAIN shown : i < j => First(shown[i]) < First(shown[j])

================================================================================
