----------------------------- MODULE MCDialogs ------------------------------
(***************************************************************************)
(* TLC: what users see and arrange around the downloads.  The parts share  *)
(* nothing, so a behaviour is one of one part, chosen at the start, while  *)
(* the others stay as they are created.                                    *)
(***************************************************************************)
EXTENDS TransferFiles, History, AutoPaste, Links, Searches, Mirrors, GroupOrder, JobTracker, SpeedLimits,
        TorrentDetails

VARIABLE part
dialogVars == <<part, filesVars, historyVars, autoPasteVars, linksVars, searchesVars, mirrorsVars, orderVars,
                trackerVars, limitVars, detailVars>>

\* The files of a metalink, one of which is there when the download begins.
FA == <<"d", "e", "a">>
FB == <<"d", "e", "b">>
MCFileOrder   == <<FA, FB>>
MCFileSizes   == (FA :> 1) @@ (FB :> 2)
MCDirectories == <<"dl", "new">>
StillFileSetup == [do |-> {FB}, known |-> {FA, FB}, there |-> {}]
MCFileSetups  == {[do |-> {FA, FB}, known |-> {FB}, there |-> {FA, FB}], StillFileSetup}

\* The history: rows of two hosts and three sizes.
MCDeleted(s, d, n) == [source |-> s, dest |-> d, size |-> n]
MCRow(s, d, n)     == [source |-> s, dest |-> d, size |-> n, time |-> 0]
MCDeletions == {<<MCDeleted("s1", "d1", 10)>>, <<MCDeleted("s2", "d2", 0), MCDeleted("s1", "d1", 10)>>}
MCHistories == {<<>>, <<MCRow("s3", "d3", 1024), MCRow("s4", "d4", 50), MCRow("s5", "d5", 7)>>}
MCAges      == {-1, 0}
MCHosts     == [s \in {"s1", "s2", "s3", "s4", "s5", ""} |-> IF s = "s3" THEN "h1" ELSE "h2"]

\* The clipboard: pattern "q" matches a part of what "p" does.
MCMatchesOf == ("p" :> {"u", "v"}) @@ ("q" :> {"u"})
MCDefaultPatterns == <<[include |-> FALSE, pattern |-> "q"], [include |-> TRUE, pattern |-> "p"]>>

\* Links: a film, a page, one without a name and one that is no URL.
About1(n, m, u) == [name |-> n, mime |-> m, url |-> u]
MCAbout == ("v.avi" :> About1("v", "video", TRUE)) @@ ("h.html" :> About1("h", "web", TRUE))
           @@ ("w" :> About1("", "", TRUE)) @@ ("bad" :> About1("bad", "video", FALSE))
MCLinkFiles == {[local |-> TRUE, links |-> <<"v.avi", "bad", "h.html", "v.avi">>], [local |-> TRUE, links |-> <<>>],
                [local |-> TRUE, links |-> <<"w", "v.avi">>], [local |-> FALSE, links |-> <<"v.avi">>]}
MCMatching == [s \in {"wildcard", "regexp"} |->
                [f \in {"", "v"} |-> IF s = "wildcard" THEN {"v", "v.avi"} ELSE {"v"}]]

\* Searches: checksums beside a file, for a whole directory, and by another ending.
MCSearchRow(c, m, t) == [change |-> c, mode |-> m, type |-> t]
MCRowChanges == {MCSearchRow(".md5", "append", "md5"), MCSearchRow("SUMS", "file", "sha1"),
                 MCSearchRow("-CHECKSUM", "ending", "")}
MCSearchRows == {<<MCSearchRow(".md5", "append", "md5"), MCSearchRow("SUMS", "file", "sha1"),
                   MCSearchRow("-CHECKSUM", "ending", "")>>}
MCDirectory == [t \in {"a", "b"} |-> "dir"]
MCListings  == {{}, {<<"dir", "SUMS">>, <<"b", ".md5">>}, {<<"a", ".md5">>, <<"a", "-CHECKSUM">>}}
MCLine(f, d) == [file |-> f, digest |-> d]
MCDocuments == (<<"dir", "SUMS">> :> [lines |-> <<MCLine(TRUE, "sha1"), MCLine(FALSE, "sha1")>>, names |-> {"sha1"}])
  @@ (<<"a", ".md5">> :> [lines |-> <<MCLine(FALSE, "md5")>>, names |-> {}])
  @@ (<<"a", "-CHECKSUM">> :> [lines |-> <<MCLine(TRUE, "sha1"), MCLine(TRUE, "md5")>>, names |-> {"sha1", "md5"}])
MCDigestLength == ("md5" :> 32) @@ ("sha1" :> 40)
MCPages == {{[url |-> "m/a", file |-> "a"], [url |-> "m/", file |-> ""]}}

StillMirrors   == [sources |-> ("u" :> 2), unused |-> <<>>, max |-> 1]
MCStartMirrors == {StillMirrors, [sources |-> ("u" :> 2) @@ ("v" :> 1), unused |-> <<[url |-> "w", n |-> 2]>>, max |-> 2]}

MCGroups      == <<"g", "h">>
StillOrder    == ("g" :> <<"a", "b", "c", "d">>) @@ ("h" :> <<>>)
MCStartOrders == {("g" :> <<"a", "b">>) @@ ("h" :> <<"c", "d">>), StillOrder}

MCOrder       == <<"a", "b", "c">>
MCStartGroups == ("a" :> "g") @@ ("b" :> "g") @@ ("c" :> "h")

\* A torrent of two files that share a chunk, one of them in a directory.
MCTorrentFiles  == {<<"d", "a">>, <<"b">>}
MCFileChunks    == (<<"d", "a">> :> {1, 2}) @@ (<<"b">> :> {2, 3})
MCFirstTrackers == <<"t", "u">>
MCFirstSeeds    == <<"s">>

\* Each part as it begins, in one way if it is not looked at.
Begins ==
  /\ FilesInit   /\ (part # "files" => files.fac[FA].doDownload = FALSE /\ dialogs = {})
  /\ HistoryInit /\ (part # "history" => backend = "Xml" /\ clock.age = -1 /\ store = NoStore)
  /\ AutoPasteInit /\ (part # "paste" => clipboard = "" /\ ~watch.on)
  /\ LinksInit    /\ (part # "links" => ~target.animate /\ ~target.shown)
  /\ SearchesInit /\ (part # "searches" => ~config.engine)
  /\ MirrorsInit  /\ (part # "mirrors" => factory = StillMirrors)
  /\ OrderInit    /\ (part # "order" => order.queue = StillOrder)
  /\ TrackerInit  /\ (part # "tracker" => ~showAs.integration /\ ~showAs.global)
  /\ LimitsInit   /\ (part # "limits" => \A t \in Transfers : ~transfer[t].running /\ transfer[t].speed = 0)
  /\ DetailsInit  /\ (part # "details" => swarm.multi)

Init ==
  /\ part \in {"files", "history", "paste", "links", "searches", "mirrors", "order", "tracker", "limits", "details"}
  /\ Begins

Rest ==
  /\ UNCHANGED part
  /\ part # "files" => UNCHANGED filesVars
  /\ part # "history" => UNCHANGED historyVars
  /\ part # "paste" => UNCHANGED autoPasteVars
  /\ part # "links" => UNCHANGED linksVars
  /\ part # "searches" => UNCHANGED searchesVars
  /\ part # "mirrors" => UNCHANGED mirrorsVars
  /\ part # "order" => UNCHANGED orderVars
  /\ part # "tracker" => UNCHANGED trackerVars
  /\ part # "limits" => UNCHANGED limitVars
  /\ part # "details" => UNCHANGED detailVars

Next ==
  \/ part = "files" /\ FilesNext /\ Rest
  \/ part = "history" /\ HistoryNext /\ Rest
  \/ part = "paste" /\ AutoPasteNext /\ Rest
  \/ part = "links" /\ LinksNext /\ Rest
  \/ part = "searches" /\ SearchesNext /\ Rest
  \/ part = "mirrors" /\ MirrorsNext /\ Rest
  \/ part = "order" /\ OrderNext /\ Rest
  \/ part = "tracker" /\ TrackerNext /\ Rest
  \/ part = "limits" /\ LimitsNext /\ Rest
  \/ part = "details" /\ DetailsNext /\ Rest

Spec == Init /\ [][Next]_dialogVars
=============================================================================
