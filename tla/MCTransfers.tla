----------------------------- MODULE MCTransfers -----------------------------
(***************************************************************************)
(* TLC: how transfers come into the list, and what the plug-ins do with    *)
(* them.  The modules share nothing but what they take from their          *)
(* surroundings, so a behaviour is one of one part, chosen at the start,    *)
(* while the others stay in a state in which nothing is bound to happen.    *)
(***************************************************************************)
EXTENDS Metalink, TransferList, Torrent, MmsDownload, Adding

VARIABLE part
transferVars == <<part, metalinkVars, listVars, torrentVars, mmsVars, addingVars>>

----------------------------------------------------------------------------
(* Metalink: two files, of which one may be there already                  *)

MCFiles == <<"f", "g">>
Described(k, d, l) == [kind |-> k, doc |-> d, local |-> l]
MCMetalinks == {Described("xml", "valid", FALSE), Described("xml", "dynamic", TRUE),
                Described("xml", "invalid", FALSE),
                Described("http", "valid", FALSE), Described("http", "no urls", FALSE)}
MCExisting == {{}, {"f"}}

----------------------------------------------------------------------------
(* TransferList: two sources of one name, three lists to start with        *)

MCFileOf == ("u" :> "a") @@ ("v" :> "a")
InFile(src, dest, policy, whole) == [src |-> src, dest |-> dest, policy |-> policy, whole |-> whole]
GroupInFile(name, running, items) == [name |-> name, running |-> running, items |-> items]
MCLists == {<<GroupInFile(n, FALSE, <<InFile("u", "b", "Stop", FALSE)>>)>> : n \in {"G", Default}}
MCStarts ==
  {[file |-> <<>>, startup |-> "as it was"],
   [file |-> <<GroupInFile(Default, TRUE, <<InFile("u", "a", "None", FALSE)>>)>>, startup |-> "start"],
   [file |-> <<GroupInFile(Default, FALSE, <<InFile("u", "a", "None", TRUE)>>),
               GroupInFile("G", TRUE, <<InFile("v", "b", "Start", FALSE)>>)>>, startup |-> "as it was"]}

----------------------------------------------------------------------------
(* Torrent: every kind of .torrent                                          *)

MCTorrents == {[local |-> l, doc |-> d] : l \in BOOLEAN, d \in {"good", "bad"}}
              \cup {[local |-> TRUE, doc |-> "missing"]}

----------------------------------------------------------------------------
(* Adding: two sources that share a name, one of which is known to be       *)
(* elsewhere, and one that is none; with each of the settings               *)

MCSources == <<"u", "v", "w", "x">>
MCLocal == ("w" :> "v") @@ [s \in {"u", "v", "x"} |-> s]
MCNames == ("u" :> "a") @@ [s \in {"v", "w", "x"} |-> "b"]
MCTyped == {File("Downloads", "a", 0), File("G", "", 0)}
AddSettings(o, r, k, s) == [overwrite |-> o, rename |-> r, ask |-> k, suggest |-> s]
OldTransfer(u, n, done) == [src |-> u, dest |-> File("Downloads", n, 0), finished |-> done, there |-> TRUE]
Setup(s, list, disk) == [settings |-> s, list |-> list, disk |-> disk]
MCAddingSetups ==
  { Setup(AddSettings(FALSE, FALSE, TRUE, FALSE), <<>>, {File("Downloads", "a", 0)}),
    Setup(AddSettings(FALSE, FALSE, FALSE, FALSE), <<OldTransfer("v", "b", FALSE)>>, {File("Downloads", "a", 0), File("G", "b", 0)}),
    Setup(AddSettings(FALSE, TRUE, FALSE, TRUE), <<OldTransfer("u", "a", TRUE)>>, {File("Downloads", "a", 0)}),
    Setup(AddSettings(TRUE, FALSE, TRUE, TRUE), <<OldTransfer("v", "b", FALSE)>>, {File("Downloads", "b", 0)}) }
Req(urls, last) == [urls |-> urls, last |-> last]
MCRequests == { Req(<<"u", "v">>, "nothing"), Req(<<"w">>, "name"), Req(<<"x">>, "file path") }

----------------------------------------------------------------------------
\* The states of the parts that are not looked at.
StillMetalink == metalink = Created(Described("xml", "invalid", FALSE), {}) /\ allowed = FALSE
                 /\ troubles = 0 /\ orders = 0 /\ spoilt = {}
StillList     == startup = "as it was" /\ kget = Started(<<>>) /\ up = FALSE /\ edits = 0 /\ crashes = 0
StillTorrent  == torrent = NewTorrent(TRUE, "good", "stopped", FALSE) /\ mishaps = 0 /\ commands = 0 /\ astray = {}
StillMms      == mms = NewMms(FALSE, FALSE) /\ download = NoDownload /\ posted = <<>> /\ missed = {} /\ mmsMishaps = 0
StillAdding   == adding = FirstMemory(Setup(AddSettings(TRUE, FALSE, TRUE, TRUE), <<>>, {}))
                 /\ asked = 0 /\ inputs = 0 /\ others = 0

Part(p, init, still) == IF part = p THEN init ELSE still

Init ==
  /\ part \in {"metalink", "list", "torrent", "mms", "adding"}
  /\ Part("metalink", MetalinkInitially, StillMetalink)
  /\ Part("list", ListInit, StillList)
  /\ Part("torrent", TorrentInit, StillTorrent)
  /\ Part("mms", MmsInit, StillMms)
  /\ Part("adding", AddingInit, StillAdding)

Next ==
  \/ part = "metalink" /\ MetalinkNext /\ UNCHANGED <<part, listVars, torrentVars, mmsVars, addingVars>>
  \/ part = "list" /\ ListNext /\ UNCHANGED <<part, metalinkVars, torrentVars, mmsVars, addingVars>>
  \/ part = "torrent" /\ TorrentNext /\ UNCHANGED <<part, metalinkVars, listVars, mmsVars, addingVars>>
  \/ part = "mms" /\ MmsNext /\ UNCHANGED <<part, metalinkVars, listVars, torrentVars, addingVars>>
  \/ part = "adding" /\ AddingNext /\ UNCHANGED <<part, metalinkVars, listVars, torrentVars, mmsVars>>

Spec == Init /\ [][Next]_transferVars
        /\ MetalinkFairness /\ ListFairness /\ TorrentFairness /\ MmsFairness
=============================================================================
