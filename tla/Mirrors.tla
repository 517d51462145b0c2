-------------------------------- MODULE Mirrors --------------------------------
(***************************************************************************)
(* The mirrors of a file that is downloaded, and the dialog in which the    *)
(* user changes them: MirrorSettings shows those there are when it opens,   *)
(* in a MirrorModel, and hands over those it shows when it is closed, while *)
(* DataSourceFactory goes on to drop, add and rename mirrors.               *)
(***************************************************************************)
EXTENDS Naturals, Sequences, FiniteSets, Functions, SequencesExt

CONSTANTS
  Urls,         \* of mirrors
  Sourceable,   \* those for which a TransferDataSource can be created
  Connections,  \* numbers of connections that may be entered
  Segments,     \* the number in the plug-in's settings, for mirrors that are found
  StartMirrors, \* the factories there may be when it starts: [sources, unused, max]
  MaxMirrorRows,      \* bound: rows of the dialog
  MaxMirrorEvents,    \* bound: what becomes of the mirrors on their own
  MaxMirrorClicks     \* bound: what the user does

ASSUME MirrorsAssumption ==
  /\ Sourceable \subseteq Urls /\ Connections \subseteq Nat /\ Segments \in Nat
  /\ {MaxMirrorRows, MaxMirrorEvents, MaxMirrorClicks} \subseteq Nat

VARIABLES
  factory, \* DataSourceFactory: m_sources with their connections, m_unusedUrls with
           \* m_unusedConnections, and m_maxMirrorsUsed
  source,  \* m_source of the transfer, "" for none
  dialog,  \* MirrorSettings: its rows
  count    \* what is bounded

mirrorsVars == <<factory, source, dialog, count>>

Max1(n) == IF n = 0 THEN 1 ELSE n

----------------------------------------------------------------------------
(* DataSourceFactory                                                       *)

\* mirrors(): what is unused overwrites what is used.
MirrorsOf(f) ==
  LET unused(u) == {i \in DOMAIN f.unused : f.unused[i].url = u}
  IN  [u \in DOMAIN f.sources \cup {f.unused[i].url : i \in DOMAIN f.unused} |->
         IF unused(u) # {} THEN <<FALSE, f.unused[CHOOSE i \in unused(u) : \A j \in unused(u) : j <= i].n>>
         ELSE <<TRUE, f.sources[u]>>]

Unused(f, u, n) == [f EXCEPT !.unused = Append(@, [url |-> u, n |-> n])]

RemoveMirror(f, u) ==
  IF u \notin DOMAIN f.sources THEN f
  ELSE Unused([f EXCEPT !.sources = Restrict(@, DOMAIN @ \ {u})], u, f.sources[u])

\* The first place at which a URL is unused is forgotten when it is used.
Using(f, u, n) ==
  LET places == {i \in DOMAIN f.unused : f.unused[i].url = u}
  IN  IF u \notin Sourceable THEN f
      ELSE [f EXCEPT !.sources = (u :> n) @@ @,
                     !.unused = IF places = {} THEN @
                                ELSE RemoveAt(@, CHOOSE i \in places : \A j \in places : i <= j)]

\* addMirror: more mirrors than allowed are used when the user says so.
AddMirror(f, u, used, n, defined) ==
  LET k == Max1(n)
      full == Cardinality(DOMAIN f.sources) >= f.max
  IN  CASE used /\ u \in DOMAIN f.sources -> [f EXCEPT !.sources[u] = k]
        [] used /\ u \notin DOMAIN f.sources /\ ~full -> Using(f, u, k)
        [] used /\ u \notin DOMAIN f.sources /\ full ->
             IF defined THEN Using([f EXCEPT !.max = Cardinality(DOMAIN f.sources) + 1], u, k)
             ELSE Unused(f, u, k)
        [] ~used -> IF u \in DOMAIN f.sources THEN RemoveMirror(f, u) ELSE Unused(f, u, k)

Readd(f, new, order) ==
  FoldLeft(LAMBDA g, u : AddMirror(g, u, new[u][1], new[u][2], TRUE), f, order)

\* A mutant: what was unused is not forgotten first.
SetMirrorsOnTop(f, new, order) ==
  Readd(FoldLeft(RemoveMirror, f, SetToSeq(DOMAIN f.sources \ DOMAIN new)), new, order)

\* setMirrors, for the order in which the hash is gone through.
SetMirrors(f, new, order) ==
  LET left == FoldLeft(RemoveMirror, f, SetToSeq(DOMAIN f.sources \ DOMAIN new))
  IN  Readd([left EXCEPT !.unused = <<>>], new, order)

\* What happens to the mirrors while the dialog is open: one is broken, a search finds
\* one, one redirects.
MirrorBreaks ==
  \E u \in DOMAIN factory.sources : factory' = RemoveMirror(factory, u)

MirrorIsFound ==
  \E u \in Urls : factory' = AddMirror(factory, u, TRUE, Segments, FALSE)

MirrorRedirects ==
  \E old \in DOMAIN factory.sources, new \in Sourceable \ DOMAIN factory.sources :
    factory' = [factory EXCEPT !.sources = (new :> @[old]) @@ Restrict(@, DOMAIN @ \ {old})]

\* slotDataSourceFactoryChange: the first mirror that is used becomes the source.
FactoryChanges ==
  /\ count.events < MaxMirrorEvents /\ count' = [count EXCEPT !.events = @ + 1]
  /\ \/ (MirrorBreaks \/ MirrorIsFound) /\ UNCHANGED source
     \/ MirrorRedirects /\ source' \in {u \in DOMAIN MirrorsOf(factory') : MirrorsOf(factory')[u][1]} \cup
                                        (IF \E u \in DOMAIN MirrorsOf(factory') : MirrorsOf(factory')[u][1]
                                         THEN {} ELSE {""})
  /\ UNCHANGED dialog

----------------------------------------------------------------------------
(* MirrorModel and the dialog                                              *)

MirrorRow(url, used, n) == [url |-> url, used |-> used, n |-> n]

\* availableMirrors: the last row of a URL counts.
Available(rows) ==
  [u \in {rows[i].url : i \in DOMAIN rows} |->
     LET i == CHOOSE k \in DOMAIN rows : rows[k].url = u /\ \A l \in DOMAIN rows : rows[l].url = u => l <= k
     IN  <<rows[i].used, rows[i].n>>]

MirrorClicks(rows) ==
  /\ dialog.open /\ count.clicks < MaxMirrorClicks /\ count' = [count EXCEPT !.clicks = @ + 1]
  /\ dialog' = [dialog EXCEPT !.rows = rows]
  /\ UNCHANGED <<factory, source>>

\* setMirrors of the model: a row for each mirror.
OpensMirrors ==
  /\ ~dialog.open /\ count.clicks < MaxMirrorClicks /\ count' = [count EXCEPT !.clicks = @ + 1]
  /\ LET mirrors == MirrorsOf(factory)
         urls    == SetToSeq(DOMAIN mirrors)
     IN  dialog' = [open |-> TRUE,
                    rows |-> [i \in DOMAIN urls |-> MirrorRow(urls[i], mirrors[urls[i]][1], mirrors[urls[i]][2])]]
  /\ UNCHANGED <<factory, source>>

\* addMirror of the model: a row that has the URL is removed.
AddsMirror ==
  /\ Len(dialog.rows) < MaxMirrorRows
  /\ \E u \in Urls, n \in Connections :
       LET hits == {i \in DOMAIN dialog.rows : dialog.rows[i].url = u}
           rows == IF hits = {} THEN dialog.rows
                   ELSE RemoveAt(dialog.rows, CHOOSE i \in hits : \A j \in hits : i <= j)
       IN  MirrorClicks(Append(rows, MirrorRow(u, TRUE, n)))

\* setData: a box, a number, or a URL, that another row may have as well.
SetsMirror ==
  \E i \in DOMAIN dialog.rows :
    \/ MirrorClicks([dialog.rows EXCEPT ![i].used = ~@])
    \/ \E n \in Connections \ {dialog.rows[i].n} : MirrorClicks([dialog.rows EXCEPT ![i].n = n])
    \/ \E u \in Urls \ {dialog.rows[i].url} : MirrorClicks([dialog.rows EXCEPT ![i].url = u])

RemovesMirrors ==
  \E rows \in SUBSET (DOMAIN dialog.rows) \ {{}} :
    MirrorClicks(FoldLeftDomain(LAMBDA s, i : IF i \in rows THEN s ELSE Append(s, dialog.rows[i]),
                          <<>>, dialog.rows))

\* save(), however the dialog is closed, and setAvailableMirrors of the transfer.
ClosesMirrors ==
  /\ dialog.open
  /\ LET new  == Available(dialog.rows)
         used == {u \in DOMAIN new : new[u][1]}
     IN  /\ \E order \in SetToSeqs(DOMAIN new) : factory' = SetMirrors(factory, new, order)
         /\ source' \in IF used = {} THEN {""} ELSE used
  /\ dialog' = [dialog EXCEPT !.open = FALSE]
  /\ UNCHANGED count

----------------------------------------------------------------------------

MirrorsInit ==
  /\ factory \in StartMirrors
  /\ source \in DOMAIN factory.sources
  /\ dialog = [open |-> FALSE, rows |-> <<>>]
  /\ count = [events |-> 0, clicks |-> 0]

MirrorsNext ==
  FactoryChanges \/ OpensMirrors \/ AddsMirror \/ SetsMirror \/ RemovesMirrors \/ ClosesMirrors

----------------------------------------------------------------------------

\* When the dialog is closed the download uses those mirrors that are ticked and for
\* which a source can be made, with the connections that are shown, and knows of the
\* others that are shown as unused ones, whatever became of the mirrors while it was
\* open, however many are used at most, and in whichever order they are gone through.
\* MirrorSettings::save, DataSourceFactory::setMirrors, addMirror and removeMirror.
ClosedAsShown ==
  [][ dialog.open /\ ~dialog'.open =>
        LET shown == Available(dialog.rows)
            known == MirrorsOf(factory')
        IN  /\ {u \in DOMAIN known : known[u][1]} = {u \in DOMAIN shown \cap Sourceable : shown[u][1]}
            /\ \A u \in DOMAIN known : known[u][1] => known[u][2] = Max1(shown[u][2])
            /\ {u \in DOMAIN known : ~known[u][1]} = {u \in DOMAIN shown : ~shown[u][1]} ]_mirrorsVars

================================================================================
