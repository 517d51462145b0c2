-------------------------------- MODULE Searches --------------------------------
(***************************************************************************)
(* What a running download looks for on its own: checksums, in documents    *)
(* beside its file, and mirrors, through a search engine.  The listing of a *)
(* directory is fetched once for all downloads from it; the settings say by *)
(* which changes of a file's URL a document is reached and which type of    *)
(* checksum it holds, and are edited on two pages of the preferences.       *)
(***************************************************************************)
EXTENDS Naturals, FiniteSets, FiniteSetsExt, SequencesExt

CONSTANTS
  Downloads,    \* transfers of TransferMultiSegKio
  Directory,    \* the directory of each one's URL
  Listable,     \* the directories that are listed, those of ftp and sftp
  Endings,      \* the downloads whose name has an ending to be replaced
  Listings,     \* what a directory may be found to mention: sets of documents
  Documents,    \* the documents: [lines : sequence of [file, digest], names : digests named]
  DigestLength, \* the types of checksum Verifier knows, and their lengths
  RowChanges,      \* rows of the settings: [change, mode, type]; type "" is any
  SearchRows,   \* the rows that may be set at the start
  Pages,        \* what an engine's page may link to: sets of [url, file]; file "" when
                \* the URL ends in a slash
  MaxRows,      \* bound: rows of the page
  MaxPages,     \* bound: what the user does with the pages
  MaxDeleted    \* bound: transfers deleted

ASSUME SearchesAssumption ==
  /\ Directory \in [Downloads -> STRING]
  /\ \A r \in RowChanges : r.mode \in {"append", "file", "ending"}
  /\ {MaxRows, MaxPages, MaxDeleted} \subseteq Nat

VARIABLES
  config,     \* the settings: rows of changes, and whether there is an engine
  page,       \* the rows shown in the preferences
  download,   \* each download: none, there, deleted; and what it has searched for
  waiting,    \* m_searches: pairs of a directory and a download
  listed,     \* m_finished: a directory's listing, NotListed or FailedListing
  jobs,       \* m_jobs: downloads of directories that run, with what is in their file
  clearing,   \* calls of registerSearch whose delete job of an old file still executes
  searches,   \* ChecksumSearch objects, with the documents they still have to fetch
  engines,    \* the objects that wait for an engine's page
  checksums,  \* checksums given to a download's verifier
  mirrors,    \* URLs given to a download as mirrors
  edits       \* what is bounded

searchesVars == <<config, page, download, waiting, listed, jobs, clearing, searches, engines,
                  checksums, mirrors, edits>>

NotListed     == [state |-> "not", names |-> {}]
FailedListing == [state |-> "failed", names |-> {}]
Listing(names) == [state |-> "there", names |-> names]

----------------------------------------------------------------------------
(* ChecksumSearch: the documents of one download, one after the other       *)

NoDocument == <<>>

\* createUrl
CreateUrl(t, row) ==
  CASE row.mode = "append" -> <<t, row.change>>
    [] row.mode = "file"   -> <<Directory[t], row.change>>
    [] row.mode = "ending" -> IF t \in Endings THEN <<t, row.change>> ELSE NoDocument

\* A mutant: the type that is removed is the one at the place in the list of changes.
SourcesByPlace(t, names, rows) ==
  FoldLeftDomain(LAMBDA a, i :
      LET url == CreateUrl(t, rows[i])
      IN  IF url = NoDocument \/ url \in names THEN [a EXCEPT !.urls = Append(@, url)]
          ELSE IF i \in DOMAIN a.types THEN [a EXCEPT !.types = RemoveAt(@, i)] ELSE a,
    [urls |-> <<>>, types |-> [i \in DOMAIN rows |-> rows[i].type]], rows)

\* The loop of gotBaseUrl: the types of what the listing does not mention are
\* removed at the place that the list of URLs has reached.  A URL that could not be
\* made has an empty name, which is found in anything.
Sources(t, names, rows) ==
  FoldLeftDomain(LAMBDA a, i :
      LET url == CreateUrl(t, rows[i])
      IN  IF url = NoDocument \/ url \in names THEN [a EXCEPT !.urls = Append(@, url)]
          ELSE [a EXCEPT !.types = RemoveAt(@, Len(a.urls) + 1)],
    [urls |-> <<>>, types |-> [i \in DOMAIN rows |-> rows[i].type]], rows)

\* gotBaseUrl of the downloads ts, with the settings of now.
NewSearches(ts, listing) ==
  {[of |-> t, urls |-> Sources(t, listing.names, config.rows).urls,
    types |-> Sources(t, listing.names, config.rows).types] :
      t \in IF listing.state = "there" THEN ts ELSE {}}

\* createDownload gives up when there is no URL or no type left.
Kept(ss) == {s \in ss : s.urls # <<>> /\ s.types # <<>>}

\* parseDownload: any word that is as long as the digest is one, or the beginning of a
\* longer one; the lines that name the file come first.
Digests(document, type) ==
  LET long == {i \in DOMAIN document.lines :
                 DigestLength[document.lines[i].digest] >= DigestLength[type]}
      own  == {i \in long : document.lines[i].file}
      hits == IF own # {} THEN own ELSE IF long # {} THEN {Min(long)} ELSE {}
  IN  {[type |-> type, digest |-> document.lines[i].digest] : i \in hits}

\* parseDownloadEmpty: all types that the document names.
Parsed(document, type) ==
  IF type # "" THEN Digests(document, type)
  ELSE UNION {Digests(document, d) : d \in document.names}

\* slotResult: an error, and a document of more than 5 KiB, are like an empty one.
DocumentArrives(s) ==
  LET url  == Head(s.urls)
      rest == [s EXCEPT !.urls = Tail(@), !.types = Tail(@)]
  IN  /\ searches' = (searches \ {s}) \cup Kept({rest})
      /\ \E ok \in IF url \in DOMAIN Documents THEN BOOLEAN ELSE {FALSE} :
           checksums' = IF ok /\ download[s.of].state = "there"
                        THEN checksums \cup {[of |-> s.of, type |-> d.type, digest |-> d.digest, url |-> url] :
                                               d \in Parsed(Documents[url], Head(s.types))}
                        ELSE checksums
      /\ UNCHANGED <<clearing, config, page, download, waiting, listed, jobs, engines, mirrors, edits>>

----------------------------------------------------------------------------
(* ChecksumSearchController                                                *)

Failed(b) == FailedListing

NewJob(t) == [dir |-> Directory[t], by |-> t, file |-> NotListed]

\* The first data of a download: registerSearch.  A file of an earlier session at the
\* place for the listing is deleted first, by a job whose exec() runs the event loop.
DataComes(t) ==
  LET b == Directory[t]
  IN  /\ download[t].state = "there" /\ ~download[t].checked
      /\ download' = [download EXCEPT ![t].checked = TRUE]
      /\ IF listed[b] # NotListed
         THEN /\ searches' = searches \cup Kept(NewSearches({t}, listed[b]))
              /\ UNCHANGED <<waiting, jobs, clearing>>
         ELSE /\ waiting' = waiting \cup {<<b, t>>}
              /\ IF \E w \in waiting : w[1] = b THEN UNCHANGED <<jobs, clearing>>
                 ELSE \/ jobs' = jobs \cup {NewJob(t)} /\ UNCHANGED clearing
                      \/ clearing' = <<t>> \o clearing /\ UNCHANGED jobs
              /\ UNCHANGED searches
      /\ UNCHANGED <<config, page, listed, engines, checksums, mirrors, edits>>

\* The delete job has ended: the innermost call goes on, whoever waits by now.
OldFileDeleted ==
  /\ clearing # <<>>
  /\ jobs' = jobs \cup {NewJob(Head(clearing))} /\ clearing' = Tail(clearing)
  /\ UNCHANGED <<config, page, download, waiting, listed, searches, engines, checksums, mirrors, edits>>

\* slotEntries: each batch of a listing takes the place of those before it.
EntriesCome(j) ==
  /\ j.dir \in Listable /\ j.file = NotListed
  /\ \E names \in Listings : jobs' = (jobs \ {j}) \cup {[j EXCEPT !.file = Listing(names)]}
  /\ UNCHANGED <<clearing, config, page, download, waiting, listed, searches, engines, checksums, mirrors, edits>>

ListingArrives(j) ==
  LET ts == {w[2] : w \in {v \in waiting : v[1] = j.dir}}
  IN  /\ jobs' = jobs \ {j}
      /\ \/ /\ listed' = [listed EXCEPT ![j.dir] = Failed(j.dir)]
            /\ UNCHANGED <<waiting, searches>>
         \/ \E file \in IF j.dir \in Listable THEN {j.file} ELSE {Listing(n) : n \in Listings} :
              /\ listed' = [listed EXCEPT ![j.dir] = IF file = NotListed THEN FailedListing ELSE file]
              /\ waiting' = {w \in waiting : w[1] # j.dir}
              /\ searches' = searches \cup Kept(NewSearches(ts, file))
      /\ UNCHANGED <<clearing, config, page, download, engines, checksums, mirrors, edits>>

----------------------------------------------------------------------------
(* MirrorSearch                                                            *)

\* start() of a download: the page of the first engine, if there is one.
StartsDownload(t) ==
  /\ download[t] = [state |-> "none", checked |-> FALSE]
  /\ download' = [download EXCEPT ![t].state = "there"]
  /\ engines' = IF config.engine THEN engines \cup {t} ELSE engines
  /\ UNCHANGED <<clearing, config, page, waiting, listed, jobs, searches, checksums, mirrors, edits>>

\* slotResult compares the end of each link with the name of m_url, which is not set
\* when the search is for a name: the links that end in a slash are taken.
PageArrives(t) ==
  /\ engines' = engines \ {t}
  /\ \E links \in Pages \cup {{}} :
       mirrors' = IF download[t].state # "there" THEN mirrors
                  ELSE mirrors \cup {[of |-> t, url |-> l.url] : l \in {k \in links : k.file = ""}}
  /\ UNCHANGED <<clearing, config, page, download, waiting, listed, jobs, searches, checksums, edits>>

\* The data sources are children of their transfer; what was searched for its
\* checksums goes on.
DeletesDownload(t) ==
  /\ download[t].state = "there"
  /\ Cardinality({u \in Downloads : download[u].state = "deleted"}) < MaxDeleted
  /\ download' = [download EXCEPT ![t].state = "deleted"]
  /\ waiting' = {w \in waiting : w[2] # t}
  /\ UNCHANGED <<clearing, config, page, listed, jobs, searches, engines, checksums, mirrors, edits>>

----------------------------------------------------------------------------
(* The pages of the preferences                                            *)

Edits(rows) ==
  /\ edits < MaxPages /\ edits' = edits + 1 /\ page' = rows
  /\ UNCHANGED <<clearing, download, waiting, listed, jobs, searches, engines, checksums, mirrors>>

\* load() adds the rows of the settings to those that are shown.
LoadsPage ==
  /\ Len(page) + Len(config.rows) <= MaxRows
  /\ Edits(page \o config.rows) /\ UNCHANGED config

AddsRow  == Len(page) < MaxRows /\ \E r \in RowChanges : Edits(Append(page, r)) /\ UNCHANGED config
SetsRow  == \E i \in DOMAIN page, r \in RowChanges :
              Edits([page EXCEPT ![i] = r]) /\ r # page[i] /\ UNCHANGED config
RemovesRow == \E i \in DOMAIN page : Edits(RemoveAt(page, i)) /\ UNCHANGED config
SavesPage  == Edits(page) /\ config' = [config EXCEPT !.rows = page]

\* The other page: the list of engines, of which the first is used.
ChangesEngines == Edits(page) /\ config' = [config EXCEPT !.engine = ~@]

----------------------------------------------------------------------------

SearchesInit ==
  /\ \E rows \in SearchRows, engine \in BOOLEAN : config = [rows |-> rows, engine |-> engine]
  /\ page = <<>> /\ edits = 0
  /\ download = [t \in Downloads |-> [state |-> "none", checked |-> FALSE]]
  /\ waiting = {} /\ listed = [b \in {Directory[t] : t \in Downloads} |-> NotListed]
  /\ jobs = {} /\ clearing = <<>> /\ searches = {} /\ engines = {} /\ checksums = {} /\ mirrors = {}

SearchesNext ==
  \/ \E t \in Downloads : StartsDownload(t) \/ DataComes(t) \/ DeletesDownload(t)
  \/ OldFileDeleted
  \/ \E t \in engines : PageArrives(t)
  \/ \E j \in jobs : EntriesCome(j) \/ ListingArrives(j)
  \/ \E s \in searches : DocumentArrives(s)
  \/ LoadsPage \/ AddsRow \/ SetsRow \/ RemovesRow \/ SavesPage \/ ChangesEngines

----------------------------------------------------------------------------

\* Each document that is still to be fetched for a download is asked for the type of
\* checksum that the settings name for it: the lists of URLs and of types, which are
\* shortened apart, stay parallel.  The settings may have changed since; a row of
\* that document and that type must be one that can be set.  gotBaseUrl,
\* createDownload.
TypesFitDocuments ==
  \A s \in searches : \A i \in DOMAIN s.urls :
    /\ i \in DOMAIN s.types
    /\ \E r \in RowChanges : CreateUrl(s.of, r) = s.urls[i] /\ r.type = s.types[i]

\* A download that waits for a directory's listing has a job under way that will
\* bring it, or one that is about to be made, unless the directory has been given up;
\* then no other download waits for it in vain.  registerSearch, with the event loop
\* that may run in it, unregisterSearch and slotResult, in any order of starts, results
\* and deletions.
WaitersHaveAJob ==
  \A w \in waiting :
    \/ listed[w[1]] = FailedListing
    \/ \E j \in jobs : j.dir = w[1]
    \/ \E t \in ToSet(clearing) : Directory[t] = w[1]

\* Each search goes on, and asks for what it is to find.
SearchesFit == TypesFitDocuments /\ WaitersHaveAJob

================================================================================
