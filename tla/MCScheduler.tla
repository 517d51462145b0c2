----------------------------- MODULE MCScheduler -----------------------------
(***************************************************************************)
(* Instances of Scheduler for TLC.                                         *)
(***************************************************************************)
EXTENDS Scheduler

CONSTANTS j1, j2, j3, q1, q2

\* two or three transfers in one group; a transfer in one of two groups
TwoJobsRestored   == (q1 :> <<j1, j2>>) @@ [q \in Queues |-> <<>>]
ThreeJobsRestored == (q1 :> <<j1, j2, j3>>) @@ [q \in Queues |-> <<>>]
OneJobRestored    == (q1 :> <<j1>>) @@ [q \in Queues |-> <<>>]

\* what the user does to transfers and groups, and how copy jobs end
Commands == {"start", "stop", "startSelected", "stopSelected", "groupStart", "groupStop",
             "startAll", "stopAll", "offlineModeOn", "offlineModeOff", "network", "settings",
             "move", "delete", "addGroup", "delGroup", "result", "error"}

\* what makes a job fail and recover
Failures == {"timer", "speed", "error"}

\* what changes the lists of transfers and groups; and a job that leaves its slot
\* (an ftp one comes back to it with the data that follows its stat job)
ListOperations == {"add", "delete", "move", "moveToGroup", "addGroup",
                   "result", "statResult", "data"}

\* a group may be deleted after transfers were moved out of it
AllListOperations == ListOperations \cup {"delGroup"}

\* what the plug-ins do
PluginOperations ==
    {"start", "stop", "groupStop", "network", "speed", "data", "result", "error",
     "newDestination", "newDestResult", "repair", "brokenUrl", "connectionsErrors",
     "mmsResult"}

\* an ftp transfer is started, stopped and ends
FtpOperations == {"start", "stop", "result", "error", "statResult"}
=============================================================================
