----------------------------- MODULE MCSegments -----------------------------
EXTENDS SegmentedDownload

\* A mirror that works, and one that does not quite.
Setup(kind, first, case) ==
  [server |-> [m \in Mirrors |-> IF m = "m1" THEN kind ELSE "good"],
   first |-> first, case |-> case]

MCSetups ==
  {Setup("noresume", "m1", "plain"), Setup("noresume", "m2", "known"),
   Setup("corrupt", "m1", "known"), Setup("corrupt", "m2", "old file"),
   Setup("wrongsize", "m1", "known"), Setup("nosize", "m1", "ftp")}

\* One more mirror, another mirror, fewer connections.  "if you want the
\* download to work at least one entry should be set to true".
MCMirrorChoices ==
  {[m \in Mirrors |-> <<TRUE, 1>>],
   [m \in Mirrors |-> IF m = "m1" THEN <<TRUE, 2>> ELSE <<FALSE, 1>>],
   [m \in {"m2"} |-> <<TRUE, 2>>]}
=============================================================================
