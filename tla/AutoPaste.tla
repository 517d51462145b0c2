------------------------------- MODULE AutoPaste -------------------------------
(***************************************************************************)
(* Downloads taken from the clipboard: the main window looks at the         *)
(* clipboard once a second and adds a URL when the first of the patterns in *)
(* the settings that matches it says so.  The patterns are edited, and put  *)
(* into order, on a page of the preferences, whose table is AutoPasteModel. *)
(***************************************************************************)
EXTENDS Naturals, FiniteSets, FiniteSetsExt, SequencesExt

CONSTANTS
  Texts,        \* what the clipboard may hold; "" is nothing
  Usable,       \* those that are URLs with a scheme, a host and a path, not local ones
  Patterns,     \* a pattern with its syntax
  MatchesOf,     \* the texts that each pattern matches as a whole
  DefaultPatterns, \* the list of the settings' defaults
  MaxPatterns,  \* bound: rows of the table
  MaxActs       \* bound: what the user does

ASSUME AutoPasteAssumption ==
  /\ "" \in Texts /\ Usable \subseteq Texts \ {""}
  /\ MatchesOf \in [Patterns -> SUBSET Texts]
  /\ DefaultPatterns \in Seq([include : BOOLEAN, pattern : Patterns])
  /\ {MaxPatterns, MaxActs} \subseteq Nat

VARIABLES
  clipboard, \* what the clipboard holds
  watch,     \* clipboardTimer and lastClipboard
  pasteSettings,  \* autoPasteTypes, autoPastePatterns and autoPastePatternSyntaxes
  editor,    \* the page: AutoPasteModel's rows, the current one and those selected
  pasted,    \* the URLs given to KGet::addTransfer
  intended,  \* history: the list as the user arranged it, as it was applied and written, and whether
             \* what the clipboard holds was there at the start or pasted
  acts       \* what is bounded

autoPasteVars == <<clipboard, watch, pasteSettings, editor, pasted, intended, acts>>

PatternItem == [include : BOOLEAN, pattern : Patterns]

Acts == acts < MaxActs /\ acts' = acts + 1

----------------------------------------------------------------------------
(* The main window                                                         *)

Copies ==
  /\ Acts
  /\ \E t \in Texts \ {clipboard} : clipboard' = t
  /\ intended' = [intended EXCEPT !.taken = FALSE]
  /\ UNCHANGED <<watch, pasteSettings, editor, pasted>>

ToggleAutoPaste ==
  /\ Acts
  /\ watch' = [watch EXCEPT !.on = ~@]
  /\ UNCHANGED <<clipboard, pasteSettings, editor, pasted, intended>>

\* The first pattern that matches decides.
WantedText(list, t) ==
  LET hits == {i \in DOMAIN list : t \in MatchesOf[list[i].pattern]}
  IN  hits # {} /\ list[Min(hits)].include

CheckClipboard ==
  /\ watch.on /\ clipboard # watch.last
  /\ watch' = [watch EXCEPT !.last = clipboard]
  /\ LET add == clipboard \in Usable /\ WantedText(pasteSettings, clipboard)
     IN  /\ pasted' = IF add THEN Append(pasted, clipboard) ELSE pasted
         /\ intended' = IF add THEN [intended EXCEPT !.taken = TRUE] ELSE intended
  /\ UNCHANGED <<clipboard, pasteSettings, editor, acts>>

----------------------------------------------------------------------------
(* The page of the preferences.  The dialog is deleted when it is closed,   *)
(* and a new one loads the settings; one is open at a time here, though the *)
(* main window would open more.                                             *)

\* A mutant: the row that beginMoveRows wants is not the one of QList::move.
MoveUnadjusted(rows, from, before) ==
  InsertAt(RemoveAt(rows, from), Min({before, Len(rows)}), rows[from])

\* moveItem: beginMoveRows takes the row before which the item goes.
Move(rows, from, before) ==
  InsertAt(RemoveAt(rows, from), IF from + 2 = before THEN before - 1 ELSE before, rows[from])

\* beginMoveRows refuses a row to which nothing can be moved.
Movable(rows, from, before) ==
  from \in DOMAIN rows /\ before \in 1 .. Len(rows) + 1 /\ before \notin {from, from + 1}

PasteEdits(rows, arranged) ==
  /\ editor' = [editor EXCEPT !.rows = rows]
  /\ intended' = [intended EXCEPT !.arranged = arranged]
  /\ UNCHANGED <<clipboard, watch, pasteSettings, pasted>>

OpenPreferences ==
  /\ Acts /\ ~editor.open
  /\ editor' = [editor EXCEPT !.open = TRUE]
  /\ UNCHANGED <<clipboard, watch, pasteSettings, pasted, intended>>

AddItem ==
  /\ Acts /\ editor.open /\ Len(editor.rows) < MaxPatterns
  /\ \E item \in PatternItem : PasteEdits(Append(editor.rows, item), Append(intended.arranged, item))

\* The delegate's editors: a pattern's text, its syntax, its type.
SetItem ==
  /\ Acts /\ editor.open
  /\ \E i \in DOMAIN editor.rows, item \in PatternItem :
       /\ item # editor.rows[i]
       /\ item.include = editor.rows[i].include \/ item.pattern = editor.rows[i].pattern
       /\ PasteEdits([editor.rows EXCEPT ![i] = item], [intended.arranged EXCEPT ![i] = item])

\* The rows that are selected are removed one by one.
PatternsWithout(rows, selected) ==
  LET left     == DOMAIN rows \ selected
      Place(i) == Cardinality({j \in left : j <= i})
  IN  [k \in 1 .. Cardinality(left) |-> rows[CHOOSE i \in left : Place(i) = k]]

RemoveItem ==
  /\ Acts /\ editor.open
  /\ \E selected \in SUBSET (DOMAIN editor.rows) \ {{}} :
       PasteEdits(PatternsWithout(editor.rows, selected), PatternsWithout(intended.arranged, selected))

Exchanged(list, i, j) == [list EXCEPT ![i] = list[j], ![j] = list[i]]

IncreasePriority ==
  /\ Acts /\ editor.open
  /\ \E row \in DOMAIN editor.rows :
       /\ Movable(editor.rows, row, row - 1)
       /\ PasteEdits(Move(editor.rows, row, row - 1), Exchanged(intended.arranged, row, row - 1))

DecreasePriority ==
  /\ Acts /\ editor.open
  /\ \E row \in DOMAIN editor.rows :
       /\ Movable(editor.rows, row, row + 2)
       /\ PasteEdits(Move(editor.rows, row, row + 2), Exchanged(intended.arranged, row, row + 1))

\* OK and Apply: the dialog emits settingsChanged when a value of one of its own
\* widgets differs, as the box of this page, and the patterns are none.  Only then are
\* the settings' three lists written from the rows, and does slotNewConfig start or stop
\* the timer as the box says.  What was not written stays on the page until it closes.
ApplyPreferences ==
  /\ Acts /\ editor.open
  /\ \E closes, on, emitted \in BOOLEAN :
       /\ on # watch.on => emitted
       /\ watch' = [watch EXCEPT !.on = on]
       /\ pasteSettings' = IF emitted THEN editor.rows ELSE pasteSettings
       /\ editor' = [open |-> ~closes, rows |-> IF closes THEN pasteSettings' ELSE editor.rows]
       /\ intended' = [arranged |-> IF closes /\ ~emitted THEN intended.applied ELSE intended.arranged,
                       applied  |-> IF emitted THEN intended.arranged ELSE intended.applied,
                       taken    |-> intended.taken]
  /\ UNCHANGED <<clipboard, pasted>>

CancelPreferences ==
  /\ Acts /\ editor.open
  /\ editor' = [open |-> FALSE, rows |-> pasteSettings]
  /\ intended' = [intended EXCEPT !.arranged = intended.applied]
  /\ UNCHANGED <<clipboard, watch, pasteSettings, pasted>>

\* The button "Defaults" changes the settings at once: "Cancel" does not bring
\* the user's list back.
ResetDefaults ==
  /\ Acts /\ editor.open
  /\ pasteSettings' = DefaultPatterns
  /\ editor' = [editor EXCEPT !.rows = DefaultPatterns]
  /\ intended' = [intended EXCEPT !.arranged = DefaultPatterns, !.applied = DefaultPatterns]
  /\ UNCHANGED <<clipboard, watch, pasted>>

----------------------------------------------------------------------------

AutoPasteInit ==
  /\ clipboard \in Texts /\ pasted = <<>> /\ acts = 0
  /\ watch \in [on : BOOLEAN, last : {clipboard}]
  /\ pasteSettings = DefaultPatterns
  /\ editor = [open |-> FALSE, rows |-> DefaultPatterns]
  /\ intended = [arranged |-> DefaultPatterns, applied |-> DefaultPatterns, taken |-> TRUE]

AutoPasteNext ==
  \/ Copies \/ ToggleAutoPaste \/ CheckClipboard
  \/ OpenPreferences \/ AddItem \/ SetItem \/ RemoveItem
  \/ IncreasePriority \/ DecreasePriority
  \/ ApplyPreferences \/ CancelPreferences \/ ResetDefaults

----------------------------------------------------------------------------

\* A URL is taken from the clipboard only when the first pattern that matches it
\* includes it, in the list as the user last applied it: each arrow moved an item
\* by one place, whatever moveItem makes of the rows it is given, and what was
\* edited and cancelled does not count, nor what was applied together with no other
\* change, which the dialog may not write.  What stays on the clipboard is taken
\* once, however often the watch is switched off and on and the list changed.
\* slotCheckClipboard, AutoPasteModel and IntegrationPreferences.
PastesAsArranged ==
  [][ pasted' # pasted => ~intended.taken /\ WantedText(intended.applied, Last(pasted')) ]_autoPasteVars

================================================================================
