------------------------------ MODULE GroupOrder ------------------------------
(***************************************************************************)
(* The order of the transfers in their groups: the job queues, which say    *)
(* what is started first, and the rows of TransferTreeModel that show them, *)
(* as the user moves what is selected (MainWindow's priority commands),     *)
(* drags it, starts it, and as transfers come and go.                       *)
(***************************************************************************)
EXTENDS Naturals, Sequences, FiniteSets, Functions, SequencesExt

CONSTANTS
  Groups,        \* the groups, a sequence: in the order of the addresses of their items
  NoTransfer,    \* a null pointer
  StartOrders,   \* how the transfers may stand at first: a function of the groups each
  NewTransfers,  \* those that may be added
  MaxMoves       \* bound: commands

VARIABLES
  order,     \* [queue, rows]: m_jobs of every group and the rows the model has for it
  selection, \* KGet::m_selectionModel: the transfers whose rows are selected
  drag,      \* the transfers dragged, in the order of mimeData; <<>> for no drag
  command    \* the last command: [name, selected, moves], moves bounded

orderVars == <<order, selection, drag, command>>

GroupSet == Range(Groups)
RowOf(s, t) == CHOOSE i \in DOMAIN s : s[i] = t
ListedTransfers(s) == UNION {Range(s.queue[g]) : g \in GroupSet}
GroupOf(s, t) == CHOOSE g \in GroupSet : t \in Range(s.queue[g])

----------------------------------------------------------------------------
(* JobQueue and TransferTreeModel                                          *)

Without(s, t) == SelectSeq(s, LAMBDA u : u # t)

After(s, t, after) ==
  IF after = NoTransfer THEN <<t>> \o s ELSE InsertAt(s, RowOf(s, after) + 1, t)

\* TransferGroup::move and JobQueue::move: nothing may be put behind itself.
MoveInQueue(q, t, after) == IF t = after THEN q ELSE After(Without(q, t), t, after)

\* A mutant: the row goes where the transfer it was put behind used to be.
MoveRowBehind(s, t, dest, after) ==
  LET old == GroupOf(s, t)
      queue == IF dest = old THEN [s.queue EXCEPT ![dest] = MoveInQueue(@, t, after)]
               ELSE [s.queue EXCEPT ![old] = Without(@, t), ![dest] = After(@, t, after)]
      row == RowOf(s.queue[old], t)
      item == s.rows[old][row]
      taken == [s.rows EXCEPT ![old] = RemoveAt(@, row)]
      behind == IF after = NoTransfer THEN 1 ELSE RowOf(s.queue[dest], after) + 1
  IN  [queue |-> queue,
       rows |-> [taken EXCEPT ![dest] = InsertAt(@, IF behind > Len(@) + 1 THEN Len(@) + 1 ELSE behind, item)]]

\* moveTransfer: the row is the place in the queue, before and after.
MoveTransfer(s, t, dest, after) ==
  LET old == GroupOf(s, t)
      queue == IF dest = old THEN [s.queue EXCEPT ![dest] = MoveInQueue(@, t, after)]
               ELSE [s.queue EXCEPT ![old] = Without(@, t), ![dest] = After(@, t, after)]
      row == RowOf(s.queue[old], t)
      item == s.rows[old][row]
      taken == [s.rows EXCEPT ![old] = RemoveAt(@, row)]
  IN  IF after # NoTransfer /\ GroupOf(s, after) # dest THEN s
      ELSE [queue |-> queue, rows |-> [taken EXCEPT ![dest] = InsertAt(@, RowOf(queue[dest], t), item)]]

----------------------------------------------------------------------------
(* The commands                                                            *)

\* Indexes are compared by their row first: those of different groups mix.
ByRow(s, selected) ==
  LET longest == Max({Len(s.rows[g]) : g \in GroupSet})
      row(i) == SelectSeq(Groups, LAMBDA g : i <= Len(s.rows[g]) /\ s.rows[g][i] \in selected)
  IN  FlattenSeq([i \in 1..longest |-> [k \in DOMAIN row(i) |-> s.rows[row(i)[k]][i]]])

\* slotPriorityTop: `after` starts anew where the group changes.
Top(s, ts) ==
  FoldLeft(LAMBDA a, t :
             LET g == GroupOf(a.s, t)
             IN  [s |-> MoveTransfer(a.s, t, g, IF a.group = g THEN a.after ELSE NoTransfer),
                  group |-> g, after |-> t],
           [s |-> s, group |-> NoTransfer, after |-> NoTransfer], ts).s

\* slotPriorityBottom
Bottom(s, ts) ==
  FoldLeft(LAMBDA a, t :
             LET g == GroupOf(a.s, t)
             IN  [s |-> MoveTransfer(a.s, t, g, IF a.group = g THEN a.after ELSE Last(a.s.queue[g])),
                  group |-> g, after |-> t],
           [s |-> s, group |-> NoTransfer, after |-> NoTransfer], ts).s

\* One transfer of slotPriorityUp: the list is read again where the group changes, the
\* place of the last one (`new`, 0 for none) is not.
UpOne(a, t) ==
  LET g == GroupOf(a.s, t)
      list == IF a.group = g THEN a.list ELSE a.s.queue[g]
      i == RowOf(list, t)
      kept == [a EXCEPT !.group = g, !.list = list, !.new = i]
  IN  IF i = 1 \/ i - 1 = a.new THEN kept
      ELSE [s |-> MoveTransfer(a.s, t, g, IF i = 2 THEN NoTransfer ELSE list[i - 2]),
            group |-> g, list |-> InsertAt(RemoveAt(list, i), i - 1, t), new |-> i - 1]

\* A mutant: who is at the top is not remembered.
UpForgets(s, ts) ==
  FoldLeft(LAMBDA a, t : [UpOne(a, t) EXCEPT !.new = IF RowOf(a.s.queue[GroupOf(a.s, t)], t) = 1 THEN 0 ELSE @],
           [s |-> s, group |-> NoTransfer, list |-> <<>>, new |-> 0], ts).s

Up(s, ts) == FoldLeft(UpOne, [s |-> s, group |-> NoTransfer, list |-> <<>>, new |-> 0], ts).s

\* slotPriorityDown goes from the last to the first.
DownOne(t, a) ==
  LET g == GroupOf(a.s, t)
      list == IF a.group = g THEN a.list ELSE a.s.queue[g]
      i == RowOf(list, t)
      kept == [a EXCEPT !.group = g, !.list = list, !.new = i]
  IN  IF i = Len(list) \/ i + 1 = a.new THEN kept
      ELSE [s |-> MoveTransfer(a.s, t, g, list[i + 1]),
            group |-> g, list |-> InsertAt(RemoveAt(list, i), i + 1, t), new |-> i + 1]

Down(s, ts) == FoldRight(DownOne, ts, [s |-> s, group |-> NoTransfer, list |-> <<>>, new |-> 0]).s

Commanded(name) ==
  /\ command.moves < MaxMoves
  /\ command' = [name |-> name, selected |-> selection, moves |-> command.moves + 1]

\* moveTransfer clears the selection.
Priority(name, s) ==
  /\ drag = <<>> /\ selection # {} /\ Commanded(name)
  /\ order' = s /\ selection' = {}
  /\ UNCHANGED drag

Select ==
  /\ drag = <<>>
  /\ selection' \in SUBSET ListedTransfers(order)
  /\ command' = [command EXCEPT !.name = "select", !.selected = {}]
  /\ UNCHANGED <<order, drag>>

\* TransferHandler::start in a group that runs moves the transfer to the front of it.
StartTransfer ==
  \E t \in ListedTransfers(order) :
    /\ Commanded("start")
    /\ order' = MoveTransfer(order, t, GroupOf(order, t), NoTransfer)
    /\ selection' = {} /\ UNCHANGED drag

AddTransfer ==
  \E t \in NewTransfers \ ListedTransfers(order), g \in GroupSet :
    /\ Commanded("add")
    /\ order' = [queue |-> [order.queue EXCEPT ![g] = Append(@, t)], rows |-> [order.rows EXCEPT ![g] = Append(@, t)]]
    /\ UNCHANGED <<selection, drag>>

\* delTransfers of one that is there, also while it is dragged (by D-Bus); the pointer that
\* is dragged becomes null.
RemoveTransfer ==
  \E t \in ListedTransfers(order) :
    LET g == GroupOf(order, t)
    IN  /\ Commanded("remove")
        /\ order' = [queue |-> [order.queue EXCEPT ![g] = Without(@, t)],
                     rows |-> [order.rows EXCEPT ![g] = Without(@, t)]]
        /\ selection' = selection \ {t}
        /\ drag' = [i \in DOMAIN drag |-> IF drag[i] = t THEN NoTransfer ELSE drag[i]]

\* mimeData: the selected, the last row first.
Drag ==
  /\ drag = <<>> /\ selection # {}
  /\ drag' = Reverse(ByRow(order, selection))
  /\ UNCHANGED <<order, selection, command>>

\* dropMimeData: before row `row` of the group (1 for the first), or onto it (0). The
\* transfer to put them behind is looked up until there is one.
Dropped(s, ts, g, row) ==
  FoldLeft(LAMBDA a, t :
             LET q == a.s.queue[g]
                 after == IF a.after = NoTransfer /\ row > 1 /\ row - 1 <= Len(q) THEN q[row - 1] ELSE a.after
             IN  [s |-> IF t = NoTransfer THEN a.s ELSE MoveTransfer(a.s, t, g, after), after |-> after],
           [s |-> s, after |-> NoTransfer], ts).s

\* The view would then remove the rows that are still selected: there are none, for every
\* transfer that is moved clears the selection, and what is gone is not selected.
Drop ==
  \E g \in GroupSet : \E row \in 0..(Len(order.rows[g]) + 1) :
    /\ drag # <<>> /\ Commanded("drop")
    /\ order' = Dropped(order, drag, g, row)
    /\ selection' = {} /\ drag' = <<>>

CancelDrag == drag # <<>> /\ drag' = <<>> /\ UNCHANGED <<order, selection, command>>

OrderInit ==
  /\ \E o \in StartOrders : order = [queue |-> o, rows |-> o]
  /\ selection = {} /\ drag = <<>>
  /\ command = [name |-> "select", selected |-> {}, moves |-> 0]

OrderNext ==
  \/ Select \/ StartTransfer \/ AddTransfer \/ RemoveTransfer
  \/ Priority("top", Top(order, ByRow(order, selection)))
  \/ Priority("bottom", Bottom(order, ByRow(order, selection)))
  \/ Priority("up", Up(order, ByRow(order, selection)))
  \/ Priority("down", Down(order, ByRow(order, selection)))
  \/ Drag \/ Drop \/ CancelDrag

----------------------------------------------------------------------------
(* What must hold                                                          *)

\* The rows show the transfers in the order of the queue, whatever was moved: moveTransfer,
\* the drop and the timer's notifications all take a place in one for a row of the other.
RowsMatchQueue == order.rows = order.queue

Picked(q) == SelectSeq(q, LAMBDA t : t \in command'.selected)
Others(q) == SelectSeq(q, LAMBDA t : t \notin command'.selected)

\* Where the command should put t, which stands at place i of q: Up and Down move by one, past
\* one that is not selected.
MovesTo(name, q, i) ==
  CASE name = "up" /\ (\E k \in 1..(i - 1) : q[k] \notin command'.selected) -> i - 1
    [] name = "down" /\ (\E k \in (i + 1)..Len(q) : q[k] \notin command'.selected) -> i + 1
    [] OTHER -> i

\* A priority command on transfers of one group moves them as its name says and as a whole:
\* to the top, to the bottom, or each by one place, while they, and the others, keep their
\* order among each other. Not so when several groups have selected transfers: their rows
\* mix (ByRow), and "if only Transfers at the top are select do not change their order"
\* (mainwindow.cpp:874) fails.
PriorityMovesSelection ==
  [][\A g \in GroupSet :
       LET q == order.queue[g]
           new == order'.queue[g]
           name == command'.name
       IN  command'.moves # command.moves /\ command'.selected \subseteq Range(q) =>
             /\ name = "top" => new = Picked(q) \o Others(q)
             /\ name = "bottom" => new = Others(q) \o Picked(q)
             /\ name \in {"up", "down"} =>
                  /\ Others(new) = Others(q)
                  /\ \A i \in DOMAIN q : q[i] \in command'.selected => new[MovesTo(name, q, i)] = q[i]]_orderVars
================================================================================
