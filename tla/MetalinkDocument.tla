-------------------------- MODULE MetalinkDocument --------------------------
(***************************************************************************)
(* The metalinks of ui/metalinkcreator/metalinker.cpp and the two forms in *)
(* which they are written to a file and read back: version 4.0 (Metalink,  *)
(* Files, File, CommonData, Resources, Url, Metaurl, Verification, Pieces,  *)
(* DateConstruct) and version 3.0 (Metalink_v3).                           *)
(*                                                                         *)
(* A document is the tree of its elements.  An element that is missing and *)
(* one with an empty text read the same, so both are "".                   *)
(***************************************************************************)
EXTENDS Integers, SequencesExt, FiniteSetsExt, TLC

CONSTANTS
  MaxUrlPriority,  \* the largest priority of a URL; 0 is none
  MaxPreference,   \* the largest preference of version 3.0; 0 is none
  Decoded,         \* what a name in a document stands for (percent encoding)
  BadNames         \* names that would leave the directory, or are empty

ASSUME DocumentAssumption ==
  /\ MaxPreference \in Nat \ {0} /\ MaxUrlPriority \in Nat /\ MaxPreference < MaxUrlPriority
  /\ \A n \in DOMAIN Decoded : Decoded[n] \in DOMAIN Decoded

\* A link may be broken, i.e. have no host or scheme, and may name a .torrent.
Link(site, ok, torrent) == [site |-> site, ok |-> ok, torrent |-> torrent]
Url(link, priority, location) == [link |-> link, priority |-> priority, location |-> location]
Metaurl(link, priority, type) == [link |-> link, priority |-> priority, type |-> type]

NoDate     == [dt |-> "", offset |-> "", negative |-> FALSE]
DateKinds  == {"published", "updated"}
TextFields == {"identity", "version", "description", "logo", "copyright", "publisher"}
NoData     == [text |-> [t \in TextFields |-> ""], oses |-> <<>>, languages |-> <<>>]
NoHashes   == [t \in {} |-> ""]

EmptyFile ==
  [name |-> "", size |-> 0, data |-> NoData, urls |-> <<>>, metaurls |-> <<>>,
   hashes |-> NoHashes, pieces |-> <<>>, signatures |-> NoHashes]
EmptyMetalink ==
  [dynamic |-> FALSE, origin |-> "", date |-> [k \in DateKinds |-> NoDate], files |-> <<>>]

\* DateConstruct::clear leaves the sign of the offset alone.
ClearDate(d) == [d EXCEPT !.dt = "", !.offset = ""]

\* File::clear; the signatures stay (Verification::clear).
ClearFile(f) == [EmptyFile EXCEPT !.signatures = f.signatures]

----------------------------------------------------------------------------
(* What is valid                                                           *)

ResourcesValid(f) == f.urls # <<>> \/ f.metaurls # <<>>
FileValid(f)      == f.name \notin BadNames /\ ResourcesValid(f)
DistinctNames(m)  == IsInjective([i \in DOMAIN m.files |-> m.files[i].name])
MetalinkValid(m)  == m.files # <<>> /\ (\A i \in DOMAIN m.files : FileValid(m.files[i])) /\ DistinctNames(m)

----------------------------------------------------------------------------
(* Hash types: "sha-1" in a document is "sha1" here                         *)

AdaptSaved(t)  == IF t = "sha1" THEN "sha-1" ELSE t
AdaptLoaded(t) == IF t = "sha-1" THEN "sha1" ELSE t
PgpSaved(t)    == IF t = "pgp" THEN "application/pgp-signature" ELSE t
PgpLoaded(t)   == IF t = "application/pgp-signature" THEN "pgp" ELSE t

Retyped(h, T(_)) == [t \in {T(u) : u \in DOMAIN h} |-> h[CHOOSE u \in DOMAIN h : T(u) = t]]
RetypedPieces(ps, T(_)) == [i \in DOMAIN ps |-> [ps[i] EXCEPT !.type = T(@)]]

----------------------------------------------------------------------------
(* Dates: the text of 4.0 ends in Z or an offset, that of 3.0 in an offset  *)

Sign(d) == IF d.negative THEN "-" ELSE "+"
DateToString(d) ==
  IF d.dt = "" THEN NoDate
  ELSE IF d.offset = "" THEN [dt |-> d.dt, sign |-> "Z", offset |-> ""]
  ELSE [dt |-> d.dt, sign |-> Sign(d), offset |-> d.offset]

\* DateConstruct::setData of a text: what the text does not say stays as it was.
SetDate(d, text) ==
  IF text.dt = "" THEN d
  ELSE [dt |-> text.dt,
        offset   |-> IF text.sign = "Z" THEN d.offset ELSE text.offset,
        negative |-> d.negative \/ text.sign = "-"]

DateToString_v3(d) ==
  IF d.dt = "" THEN NoDate
  ELSE IF d.offset = "" THEN [dt |-> d.dt, sign |-> "+", offset |-> "00:00"]
  ELSE [dt |-> d.dt, sign |-> Sign(d), offset |-> d.offset]

ParseDate(text) ==
  IF text.dt = "" THEN NoDate
  ELSE [dt |-> text.dt, offset |-> text.offset, negative |-> text.sign = "-"]

----------------------------------------------------------------------------
(* Version 4.0                                                             *)

Capped(n, max) == IF n > max THEN max ELSE n
LinkText(l)    == IF l.ok THEN l ELSE Link("", FALSE, FALSE)

SaveUrl(u) == [u EXCEPT !.link = LinkText(@)]

\* Of the URLs in a document those are taken that have a host and a scheme.
LoadUrls(us) == [i \in DOMAIN SelectSeq(us, LAMBDA u : u.link.ok) |->
  [SelectSeq(us, LAMBDA u : u.link.ok)[i] EXCEPT !.priority = Capped(@, MaxUrlPriority)]]
LoadMetaurls(us) == LoadUrls(SelectSeq(us, LAMBDA u : u.type # ""))

SaveFile(f) ==
  [f EXCEPT !.urls = [i \in DOMAIN @ |-> SaveUrl(@[i])],
            !.metaurls = [i \in DOMAIN @ |-> SaveUrl(@[i])],
            !.hashes = Retyped(@, AdaptSaved), !.pieces = RetypedPieces(@, AdaptSaved),
            !.signatures = Retyped(@, PgpSaved)]

LoadFile(e) ==
  [e EXCEPT !.name = Decoded[@], !.urls = LoadUrls(@), !.metaurls = LoadMetaurls(@),
            !.hashes = Retyped(@, AdaptLoaded), !.pieces = RetypedPieces(@, AdaptLoaded),
            !.signatures = Retyped(@, PgpLoaded)]

\* The attribute "dynamic" belongs to the origin.  Files that are not valid are left out.
SaveMetalink(m) ==
  [version |-> "4", origin |-> m.origin, dynamic |-> m.origin # "" /\ m.dynamic,
   date |-> [k \in DateKinds |-> DateToString(m.date[k])],
   files |-> LET valid == SelectSeq(m.files, FileValid)
             IN  [i \in DOMAIN valid |-> SaveFile(valid[i])]]

\* Metalink::load clears nothing: the files are appended.
LoadMetalink_v4(m, doc) ==
  [m EXCEPT !.origin = doc.origin, !.dynamic = @ \/ doc.dynamic,
            !.date = [k \in DateKinds |-> SetDate(@[k], doc.date[k])],
            !.files = @ \o [i \in DOMAIN doc.files |-> LoadFile(doc.files[i])]]

----------------------------------------------------------------------------
(* Version 3.0                                                             *)

\* The larger a preference the better; the smaller a priority.
Preference(priority) ==
  IF priority = 0 THEN 0 ELSE IF priority > MaxPreference THEN 1 ELSE MaxPreference - priority + 1
Priority(preference) ==
  IF preference = 0 THEN 0 ELSE MaxPreference - Capped(preference, MaxPreference) + 1

\* One list of URLs: the torrents follow, other metaurls and their names are dropped.
SaveResources(f) ==
  LET torrents == SelectSeq(f.metaurls, LAMBDA u : u.type = "torrent")
  IN  [i \in DOMAIN f.urls |-> Url(LinkText(f.urls[i].link), Preference(f.urls[i].priority), f.urls[i].location)]
      \o [i \in DOMAIN torrents |-> Url(LinkText(torrents[i].link), Preference(torrents[i].priority), "")]

\* What is a torrent is told from the name in the URL, not from its type.
ParseUrls(us) ==
  LET plain == SelectSeq(us, LAMBDA u : u.link.ok /\ ~u.link.torrent)
  IN  [i \in DOMAIN plain |-> [plain[i] EXCEPT !.priority = Priority(@)]]
ParseMetaurls(us) ==
  LET torrents == SelectSeq(us, LAMBDA u : u.link.ok /\ u.link.torrent)
  IN  [i \in DOMAIN torrents |-> Metaurl(torrents[i].link, Priority(torrents[i].priority), "torrent")]

SaveCommonData(d) == IF Len(d.oses) > 1 THEN [d EXCEPT !.oses = <<>>] ELSE d

SaveFile_v3(f) ==
  [name |-> f.name, size |-> f.size, data |-> SaveCommonData(f.data), urls |-> SaveResources(f),
   hashes |-> f.hashes, pieces |-> f.pieces, signatures |-> f.signatures]

SaveMetalink_v3(m) ==
  [version |-> "3", origin |-> m.origin, dynamic |-> m.dynamic,
   date |-> [k \in DateKinds |-> DateToString_v3(m.date[k])],
   data |-> NoData, filesData |-> NoData,
   files |-> [i \in DOMAIN m.files |-> SaveFile_v3(m.files[i])]]

\* inheritCommonData: what the inner element does not say, the outer one says.
Inherit(inner, outer) ==
  [text      |-> [t \in TextFields |-> IF inner.text[t] = "" THEN outer.text[t] ELSE inner.text[t]],
   oses      |-> IF inner.oses = <<>> THEN outer.oses ELSE inner.oses,
   languages |-> IF inner.languages = <<>> THEN outer.languages ELSE inner.languages]

ParseFile(e, outer) ==
  [name |-> Decoded[e.name], size |-> e.size, data |-> Inherit(e.data, outer),
   urls |-> ParseUrls(e.urls), metaurls |-> ParseMetaurls(e.urls),
   hashes |-> Retyped(e.hashes, AdaptLoaded), pieces |-> RetypedPieces(e.pieces, AdaptLoaded),
   signatures |-> e.signatures]

LoadMetalink_v3(doc) ==
  [dynamic |-> doc.dynamic, origin |-> doc.origin,
   date  |-> [k \in DateKinds |-> ParseDate(doc.date[k])],
   files |-> [i \in DOMAIN doc.files |-> ParseFile(doc.files[i], Inherit(doc.filesData, doc.data))]]

----------------------------------------------------------------------------
(* HandleMetalink                                                          *)

NoDocument == [version |-> "none"]

\* A file that cannot be read as a metalink leaves the metalink as it was.
LoadDocument(m, doc) ==
  CASE doc.version = "4" -> LoadMetalink_v4(m, doc)
    [] doc.version = "3" -> LoadMetalink_v3(doc)
    [] OTHER -> m

\* The file is emptied before its name is looked at.
SaveDocument(m, format) ==
  CASE format = "meta4"    -> SaveMetalink(m)
    [] format = "metalink" -> SaveMetalink_v3(m)
    [] OTHER -> NoDocument
=============================================================================
