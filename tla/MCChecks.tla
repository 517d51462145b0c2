------------------------------ MODULE MCChecks ------------------------------
(***************************************************************************)
(* TLC: a Verifier, the signatures and their keys, or the assistant that   *)
(* creates metalinks.  They share nothing, so a behaviour is one of one     *)
(* part, chosen at the start, while the others stay as they are created.   *)
(***************************************************************************)
EXTENDS Verification, Keys, MetalinkCreator

VARIABLE part
checkVars == <<part, verifierVars, keyVars, creatorVars>>

MCVerifierSetups ==
  [file : {Right, [Right EXCEPT ![FileSize] = FALSE]}, types : {<<"md4", "md5", "sha1">>, <<"md5", "md4">>},
   strength : {"Strong"}, length : {2}]
  \cup [file : {Right}, types : {<<>>, <<"md5">>}, strength : Strengths, length : {0, 2}]

MCServers == <<"s1", "s2">>
MadeWith(k, f) == [key |-> k, fits |-> f]
Answering(a1, a2) == [s1 |-> [k1 |-> a1, k2 |-> "key"], s2 |-> [k1 |-> a2, k2 |-> "key"]]
MCKeySetups ==
  [data : {[s \in Sigs |-> MadeWith("k1", TRUE)]},
   answer : {Answering("nothing", "key"), Answering("nothing", "nothing"), Answering("broken key", "key")}]
  \cup [data : {[a |-> MadeWith("k1", FALSE), b |-> MadeWith("k2", TRUE)]},
        answer : {Answering("nothing", "other key"), Answering("nothing", "key")}]

\* The assistant: names "e" and "e2" are read as "d", so that two may be one.
MCDecoded  == ("a" :> "a") @@ ("b" :> "b") @@ ("e" :> "d") @@ ("d" :> "d") @@ ("" :> "")
MCBadNames == {""}
Whole(s)   == Link(s, TRUE, FALSE)
Text(t)    == [NoData EXCEPT !.text["version"] = t, !.languages = <<"de", "en">>]

MCTree == [EmptyFile EXCEPT !.name = "b", !.size = 2, !.data = Text("1"),
  !.urls = <<Url(Whole("x"), 1, "de"), Url(Whole("y"), 3, ""), Url(Link("", FALSE, FALSE), 0, "")>>,
  !.metaurls = <<Metaurl(Link("t", TRUE, TRUE), 2, "torrent"), Metaurl(Whole("m"), 0, "other")>>,
  !.hashes = ("sha1" :> "h"), !.signatures = ("pgp" :> "s"),
  !.pieces = <<[type |-> "sha1", length |-> 1, hashes |-> <<"h1", "h2">>]>>]
MCDated(negative, offset) == [k \in DateKinds |-> [dt |-> "then", offset |-> offset, negative |-> negative]]
MCMetalink == [EmptyMetalink EXCEPT !.dynamic = TRUE, !.date = MCDated(TRUE, "01:00"), !.files = <<MCTree>>]
MCDocuments == {NoDocument, SaveDocument(MCMetalink, "meta4"),
                SaveDocument([MCMetalink EXCEPT !.files[1].urls = <<>>, !.origin = "o"], "metalink")}

MCDateEntered(on, offset) ==
  [on |-> on, dt |-> "then", offsetOn |-> offset # "", offset |-> offset, negative |-> FALSE]
MCGeneralEdits == {[origin |-> "o", dynamic |-> TRUE, date |-> [k \in DateKinds |-> MCDateEntered(TRUE, "")]],
                   [origin |-> "", dynamic |-> TRUE, date |-> [k \in DateKinds |-> MCDateEntered(k = "updated", "02:00")]]}
MCFileInputs == {[name |-> "a", size |-> 1, data |-> NoData, urls |-> <<Url(Whole("x"), 4, "")>>],
                 [name |-> "e", size |-> 2, data |-> [Text("") EXCEPT !.oses = <<"os1", "os2">>], urls |-> <<>>]}
Dropped(n) == [name |-> n, size |-> 1, readable |-> TRUE]
MCDrops == {<<[dir |-> FALSE, files |-> <<Dropped("a")>>], [dir |-> TRUE, files |-> <<Dropped("d")>>]>>,
            <<[dir |-> FALSE, files |-> <<Dropped("b")>>]>>}
MCDragInputs == {[types |-> {"sha1"}, partial |-> TRUE, urls |-> <<Url(Whole("x"), 0, "")>>, data |-> NoData]}

\* The one state of a part that is not looked at.
StillVerifier == [file |-> Right, types |-> <<>>, strength |-> "Weak", length |-> 0]
StillKeys     == [data |-> [s \in Sigs |-> MadeWith("k1", TRUE)], answer |-> Answering("nothing", "key")]

StillCreator  == CreatorInit /\ creator = NewCreator(NoDocument)
StillVerifies == VerifierInit /\ file = StillVerifier.file /\ table = <<>> /\ strength = "Weak" /\ pieceLength = 0
StillKeyring  == KeysInit /\ data = StillKeys.data /\ answer = StillKeys.answer

Init ==
  \/ part = "verifier" /\ VerifierInit /\ StillKeyring /\ StillCreator
  \/ part = "keys" /\ KeysInit /\ StillVerifies /\ StillCreator
  \/ part = "creator" /\ CreatorInit /\ StillVerifies /\ StillKeyring

Next ==
  \/ part = "verifier" /\ VerifierNext /\ UNCHANGED <<part, keyVars, creatorVars>>
  \/ part = "keys" /\ KeysNext /\ UNCHANGED <<part, verifierVars, creatorVars>>
  \/ part = "creator" /\ CreatorNext /\ UNCHANGED <<part, verifierVars, keyVars>>

Spec == Init /\ [][Next]_checkVars /\ VerifierFairness /\ KeysFairness /\ CreatorFairness
=============================================================================
