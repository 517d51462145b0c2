------------------------------ MODULE SpeedLimits ------------------------------
(***************************************************************************)
(* Speed limits: TransferGroupScheduler shares the global limit among the   *)
(* groups, a TransferGroup its own among the transfers that run, and what   *)
(* one does not need goes to the others.  Each level has a limit the user   *)
(* set (visible) and the one in force (limit); 0 is none.  Download and     *)
(* upload limits are two copies of the same code: this is one of them.      *)
(***************************************************************************)
EXTENDS Integers, Sequences, FiniteSets, Functions, FiniteSetsExt, SequencesExt

CONSTANTS
  Transfers, LimitGroups,
  Order,         \* all transfers, in the order of their groups' queues
  Capable,       \* those with Cap_SpeedLimit
  Speeds,        \* what downloadSpeed may be
  Limits,        \* what may be entered, 0 for none
  StartGroups,   \* of the transfers at first
  StartLimits,   \* the limits groups and transfers may be loaded with
  MaxLimitEvents \* bound: what happens

ASSUME LimitsAssumption ==
  /\ Range(Order) = Transfers /\ Capable \subseteq Transfers
  /\ Speeds \subseteq Nat /\ Limits \subseteq Nat /\ StartLimits \subseteq Limits

VARIABLES
  scheduler, \* [on, limit]: Settings::speedLimit and m_downloadLimit
  group,     \* of every group [visible, limit]
  transfer,  \* of every transfer [visible, limit, group, running, speed, ratio]; ratio: none,
             \* below or met, of what was uploaded
  recalculated, \* history: the last step shared the global limit anew
  limitEvents

limitVars == <<scheduler, group, transfer, recalculated, limitEvents>>

----------------------------------------------------------------------------
(* The limits                                                              *)

\* setDownloadLimit of a group or a transfer, before what follows from it.
Visibly(x, v) == [x EXCEPT !.visible = v, !.limit = IF v < @ \/ @ = 0 THEN v ELSE @]

RunningJobs(ts, g) == SelectSeq(Order, LAMBDA t : ts[t].group = g /\ ts[t].running)

SupportsSpeedLimits(ts, g) ==
  RunningJobs(ts, g) # <<>> /\ Range(RunningJobs(ts, g)) \subseteq Capable

\* A mutant: those that wait are counted as well.
ShareOfAll(limit, n) == limit \div (n + 1)

Share(limit, n) == limit \div n

\* What one of n members gets of a limit: [kind, limit, pool], the last what it leaves to
\* the others. That of a kept member is not set; those in need get more.
Member(limit, n, x, speed) ==
  LET share == Share(limit, n)
      fixed(l, p) == [kind |-> "set", limit |-> l, pool |-> p]
      kept(p) == [kind |-> "kept", limit |-> x.limit, pool |-> p]
  IN  CASE limit = 0 /\ x.visible # 0 -> kept(0)
        [] limit = 0 /\ x.visible = 0 -> fixed(0, 0)
        [] limit # 0 /\ x.visible # 0 /\ x.visible < share -> kept(share - x.visible)
        [] limit # 0 /\ (x.visible = 0 \/ x.visible >= share) /\ speed + 10 < share ->
             fixed(speed + 10, share - speed + 10)
        [] OTHER -> [kind |-> "needs", limit |-> share, pool |-> 0]

\* The limit of each after the second loop.
Given(limit, n, m) ==
  LET pool == FoldLeft(LAMBDA a, i : a + m[i].pool, 0, SetToSeq(DOMAIN m))
      needy == {i \in DOMAIN m : m[i].kind = "needs"}
  IN  [i \in DOMAIN m |-> IF i \in needy THEN Share(limit, n) + pool \div Cardinality(needy) ELSE m[i].limit]

\* TransferGroup::calculateDownloadLimit
CalculateGroup(gs, ts, g) ==
  LET jobs == RunningJobs(ts, g)
      members == [t \in Range(jobs) |-> Member(gs[g].limit, Len(jobs), ts[t], ts[t].speed)]
      given == Given(gs[g].limit, Len(jobs), members)
  IN  IF ~SupportsSpeedLimits(ts, g) THEN ts
      ELSE [t \in Transfers |-> IF t \in DOMAIN given THEN [ts[t] EXCEPT !.limit = given[t]] ELSE ts[t]]

GroupSpeed(ts, g) == FoldLeft(LAMBDA a, t : a + ts[t].speed, 0, RunningJobs(ts, g))

\* TransferGroupScheduler::calculateDownloadLimit: a group without transfers leaves its share.
CalculateGlobal(s, gs, ts) ==
  LET n == Cardinality(LimitGroups)
      empty(g) == ~ \E t \in Transfers : ts[t].group = g
      member(g) == CASE ~s.on -> [kind |-> "set", limit |-> gs[g].visible, pool |-> 0]
                     [] s.on /\ empty(g) -> [kind |-> "kept", limit |-> gs[g].limit, pool |-> Share(s.limit, n)]
                     [] OTHER -> Member(s.limit, n, gs[g], GroupSpeed(ts, g))
      members == [g \in LimitGroups |-> member(g)]
      given == Given(s.limit, n, members)
      groups == [g \in LimitGroups |-> [gs[g] EXCEPT !.limit = given[g]]]
  IN  [groups |-> groups,
       transfers |-> FoldLeft(LAMBDA a, g : CalculateGroup(groups, a, g), ts,
                                SetToSeq({g \in LimitGroups : members[g].kind # "kept"}))]

----------------------------------------------------------------------------
(* What happens                                                            *)

LimitEvent == limitEvents < MaxLimitEvents /\ limitEvents' = limitEvents + 1

\* calculateGlobalSpeedLimits
Recalculate(s, gs, ts) ==
  /\ group' = CalculateGlobal(s, gs, ts).groups
  /\ transfer' = CalculateGlobal(s, gs, ts).transfers
  /\ recalculated' = TRUE

\* MainWindow::slotNewConfig
NewConfig ==
  \E on \in BOOLEAN, v \in Limits \ {0} :
    /\ LimitEvent
    /\ scheduler' = [on |-> on, limit |-> IF on THEN v ELSE 0]
    /\ Recalculate(scheduler', group, transfer)

\* GroupSettingsDialog::save
SetGroupLimit ==
  \E g \in LimitGroups, v \in Limits :
    /\ LimitEvent
    /\ group' = [group EXCEPT ![g] = Visibly(@, v)]
    /\ transfer' = CalculateGroup(group', transfer, g)
    /\ recalculated' = FALSE /\ UNCHANGED scheduler

\* checkShareRatio: what was uploaded tells whether the transfer is slowed down or let go.
CheckShareRatio(x) ==
  CASE x.ratio = "none" -> x
    [] x.ratio = "below" -> [x EXCEPT !.limit = 0]
    [] x.ratio = "met" -> [x EXCEPT !.limit = 1]

\* TransferSettingsDialog::save
SetTransferLimit ==
  \E t \in Capable, v \in Limits, r \in {"none", "below", "met"} :
    /\ LimitEvent
    /\ transfer' = [transfer EXCEPT ![t] = CheckShareRatio([Visibly(@, v) EXCEPT !.ratio = r])]
    /\ recalculated' = FALSE /\ UNCHANGED <<scheduler, group>>

\* A transfer is started or stopped: nothing is shared anew.
StatusChanges ==
  \E t \in Transfers, speed \in Speeds :
    /\ LimitEvent
    /\ transfer' = [transfer EXCEPT ![t].running = ~@, ![t].speed = IF transfer[t].running THEN 0 ELSE speed]
    /\ recalculated' = FALSE /\ UNCHANGED <<scheduler, group>>

\* timerEvent after the percentage of a transfer changed: GenericObserver checks its share
\* ratio, and its group's change, told of in the same event, has all limits calculated.
PercentChanges ==
  \E t \in Transfers, speed \in Speeds, met \in BOOLEAN :
    LET x == [transfer[t] EXCEPT !.speed = speed,
                !.ratio = IF @ = "none" THEN @ ELSE IF met THEN "met" ELSE "below"]
    IN  /\ transfer[t].running /\ LimitEvent
        /\ Recalculate(scheduler, group, [transfer EXCEPT ![t] = CheckShareRatio(x)])
        /\ UNCHANGED scheduler

\* A group is started or stopped; the timer tells of it later.
GroupStatusChanges ==
  /\ LimitEvent /\ Recalculate(scheduler, group, transfer) /\ UNCHANGED scheduler

\* moveTransfer to another group: remove, insert and transferMovedEvent
MoveToGroup ==
  \E t \in Transfers, g \in LimitGroups :
    LET moved == [transfer EXCEPT ![t].group = g]
    IN  /\ transfer[t].group # g /\ LimitEvent
        /\ Recalculate(scheduler, group, CalculateGroup(group, CalculateGroup(group, moved, transfer[t].group), g))
        /\ UNCHANGED scheduler

\* What load() leaves: the groups' limits are not yet in force, the transfers' are.
LimitsInit ==
  /\ scheduler = [on |-> FALSE, limit |-> 0]
  /\ group \in [LimitGroups -> {[visible |-> v, limit |-> 0] : v \in StartLimits}]
  /\ \E v \in [Transfers -> StartLimits], r \in SUBSET Transfers, speed \in Speeds :
       transfer = [t \in Transfers |-> [visible |-> v[t], limit |-> v[t], group |-> StartGroups[t], running |-> t \in r,
                                        speed |-> IF t \in r THEN speed ELSE 0, ratio |-> "none"]]
  /\ recalculated = FALSE /\ limitEvents = 0

LimitsNext ==
  \/ NewConfig \/ SetGroupLimit \/ SetTransferLimit \/ StatusChanges \/ PercentChanges
  \/ GroupStatusChanges \/ MoveToGroup

----------------------------------------------------------------------------
(* What must hold                                                          *)

\* Whenever the limits are calculated they reach every transfer that runs in a group all of
\* whose running transfers can be limited and that sets no limit of its own, nor its group:
\* with a global limit it is limited, however small its share and whatever was in force
\* before (unless the share rounds to nothing, which would mean no limit), and without one
\* it is not.
LimitsFollowSettings ==
  recalculated => \A t \in Transfers :
    LET g == transfer[t].group
        n == Cardinality(LimitGroups) * Cardinality(Transfers)
    IN  /\ transfer[t].running /\ SupportsSpeedLimits(transfer, g)
        /\ transfer[t].visible = 0 /\ group[g].visible = 0
        => /\ ~scheduler.on => transfer[t].limit = 0
           /\ scheduler.on /\ scheduler.limit >= n => transfer[t].limit # 0
================================================================================
