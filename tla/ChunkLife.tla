----------------------------- MODULE ChunkLife -----------------------------
(***************************************************************************)
(* What a download in chunks promises, whoever fetches them: a chunk is    *)
(* fetched by somebody, handed over, and then in the file; the download    *)
(* is due once every chunk was handed over, and complete once it is due    *)
(* and everything handed over is in the file.  A chunk is lost when the    *)
(* program believes in it and the file does not hold it: only a failing    *)
(* write or a restart does that.  Chunks may have to be fetched again: a   *)
(* download that is due then need not stop being due.                      *)
(***************************************************************************)
CONSTANT Chunk

VARIABLES
  state,     \* of each chunk
  due,       \* every chunk was handed over
  complete   \* the download says that it is finished

States == {"missing", "fetching", "held", "stored", "lost"}

Init ==
  /\ state \in [Chunk -> {"missing", "fetching"}]
  /\ due = FALSE /\ complete = FALSE

\* Every chunk takes one of the steps or stays as it is.
Each(steps) ==
  \E next \in [Chunk -> States] :
     /\ \A c \in Chunk : next[c] = state[c] \/ <<state[c], next[c]>> \in steps
     /\ state' = next

Unfinished == {"missing", "fetching"}

\* A chunk fetched again may find its content in the file.
Work ==
  /\ ~complete /\ ~complete'
  /\ Each((Unfinished \X Unfinished)
           \cup ({"fetching"} \X {"held", "stored"}) \cup {<<"held", "stored">>})
  /\ due' => due \/ \A c \in Chunk : state'[c] \notin Unfinished

\* The last write of a download that is due.
Complete ==
  /\ ~complete /\ complete' /\ due /\ UNCHANGED due
  /\ Each({<<"held", "stored">>})
  /\ \A c \in Chunk : state'[c] # "held"

WriteFails ==
  /\ UNCHANGED <<complete, due>>
  /\ Each({<<"held", "lost">>})

\* A repair, a restart, or a size that comes late.
FetchAgain ==
  /\ complete' => complete
  /\ due' => due
  /\ Each(States \X Unfinished)

Restart ==
  /\ ~complete' /\ ~due'
  /\ Each((States \X Unfinished) \cup {<<"held", "stored">>, <<"held", "lost">>})

Next == Work \/ Complete \/ WriteFails \/ FetchAgain \/ Restart

Spec == Init /\ [][Next]_<<state, due, complete>>
=============================================================================
