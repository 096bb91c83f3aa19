----------------------------- MODULE OrderedFeed -----------------------------
(***************************************************************************)
(* What a fetch manager promises the watches (fetchmgr/fetch_manager.go,    *)
(* basefm): each reader is given the rows above its cursor, in the order of *)
(* their revisions, and an empty answer only if there was none when it      *)
(* asked.  How the answers are found, cached and shared is left open;       *)
(* TailCache implements this.                                               *)
(***************************************************************************)
EXTENDS Naturals

CONSTANTS Readers, Ids, MaxRev

VARIABLES rows,   \* rows[id]: the revision of the committed row, 0 if none
          used,   \* the revisions that have been committed
          late,   \* those committed after a higher one
          open,   \* open[f]: f's Fetcher is open
          cursor, \* cursor[f]: the revision f has got to
          view,   \* view[f][id]: the revision of id that f was given, or 0
          due     \* due[f]: a row lay above the cursor when f asked

readers == <<open, cursor, view, due>>
vars == <<rows, used, late, readers>>

Init == /\ rows = [id \in Ids |-> 0] /\ used = {} /\ late = {}
        /\ open = [f \in Readers |-> FALSE] /\ due = [f \in Readers |-> FALSE]
        /\ cursor = [f \in Readers |-> 0] /\ view = [f \in Readers |-> [id \in Ids |-> 0]]

\* A row is committed with a revision that may be lower than others' (see late).
Commit(id, rev) ==
  /\ rev \notin used /\ rev > rows[id]
  /\ rows' = [rows EXCEPT ![id] = rev] /\ used' = used \cup {rev}
  /\ late' = late \cup {r \in {rev} : \E q \in used : q > r}
  /\ UNCHANGED readers

Open(f) == /\ ~open[f] /\ open' = [open EXCEPT ![f] = TRUE]
           /\ UNCHANGED <<rows, used, late, cursor, view, due>>

Close(f) == /\ open[f] /\ open' = [open EXCEPT ![f] = FALSE]
            /\ due' = [due EXCEPT ![f] = FALSE]
            /\ UNCHANGED <<rows, used, late, cursor, view>>

\* f asks, or looks again; only an answer or Close makes it forget what was due.
Ask(f) == /\ open[f] /\ \E id \in Ids : rows[id] > cursor[f]
          /\ due' = [due EXCEPT ![f] = TRUE]
          /\ UNCHANGED <<rows, used, late, open, cursor, view>>

\* f is given versions above its cursor, the last of them that of revision `to'.
\* A version may have been replaced since, but a row that has its revision in
\* that range is among them, unless it was committed late.
Answer(f, to) ==
  /\ open[f] /\ to > cursor[f] /\ to \in used
  /\ cursor' = [cursor EXCEPT ![f] = to] /\ due' = [due EXCEPT ![f] = FALSE]
  /\ \E v \in [Ids -> 0 .. MaxRev] :
       /\ view' = [view EXCEPT ![f] = v]
       /\ \A id \in Ids : \/ v[id] = view[f][id]
                          \/ v[id] \in (cursor[f] + 1 .. to) \cap used /\ v[id] <= rows[id]
       /\ \A id \in Ids : rows[id] \in (cursor[f] + 1 .. to) \ late => v[id] = rows[id]
       /\ \E id \in Ids : v[id] = to
  /\ UNCHANGED <<rows, used, late, open>>

Next == \/ \E id \in Ids : \E rev \in 1 .. MaxRev : Commit(id, rev)
        \/ \E f \in Readers : \/ Open(f) \/ Close(f) \/ Ask(f)
                              \/ \E to \in 1 .. MaxRev : Answer(f, to)

Spec == Init /\ [][Next]_vars
==============================================================================
