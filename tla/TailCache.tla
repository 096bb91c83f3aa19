------------------------------ MODULE TailCache ------------------------------
(***************************************************************************)
(* The fetch managers behind the watches on devices and sites: fetchers    *)
(* that have reached the tail of the table share what one of them fetched. *)
(*   internal/handlers/fetchmgr/basefm  Open, Close and the loop of Fetch  *)
(*   internal/handlers/fetchmgr/memfm   the cache as a ring in the process *)
(*   internal/handlers/fetchmgr/redisfm the cache as a Redis stream, which *)
(*                                      the replicas of the server share   *)
(* The fetchers of this module use one key.  With redisfm each of them is  *)
(* on a replica of its own (fetchers of the same replica also exclude each *)
(* other's Fill); with memfm they are in one process.                      *)
(***************************************************************************)
EXTENDS Naturals, FiniteSets, Sequences

CONSTANTS Fetchers,  \* a client's stream each, with the cursor it resumes from
          Ids,       \* the ids of the rows
          CacheSize, \* 500 in the code
          Limit,     \* rows per query (100 in the code)
          MaxRev,    \* bound: revisions
          MaxFaults  \* bound: failed queries and Redis calls, retried transactions

ASSUME ConstantsAssumption ==
  /\ CacheSize \in Nat \ {0} /\ Limit \in Nat \ {0} /\ {MaxRev, MaxFaults} \subseteq Nat
  /\ Ids # {}

VARIABLES rows,     \* rows[id]: the revision of the committed row, 0 if none
          used,     \* the revisions that have been committed
          late,     \* history: those committed after a higher one
          backend,  \* NEXAPI_FETCH_MGR
          ring, writePos, \* memfm: the cells and the count of items written
          stream,   \* redisfm: the stream
          fetcher,  \* fetcher[f]: the Fetcher and where its Fetch is
          cursor,   \* cursor[f]: the gtRevision of f's watch
          view,     \* view[f][id]: the revision of id the client has, or 0
          due,      \* history, due[f]: a row lay above the cursor when f's Fetch began,
                    \* or began a round of its loop
          faults

dbVars == <<rows, used, late>>
cacheVars == <<ring, writePos, stream>>
replyVars == <<cursor, view, due>>
vars == <<dbVars, backend, cacheVars, fetcher, replyVars, faults>>

Item == [id : Ids, rev : Nat]
NoFetcher == [at |-> "closed", tail |-> FALSE, readPos |-> 0, expected |-> 0, batch |-> <<>>]
EmptyRing == [i \in 0 .. CacheSize - 1 |-> [id |-> CHOOSE id \in Ids : TRUE, rev |-> 0]]

\* The members of a finite set of numbers in their order, and the items of s at them.
InOrder(is) ==
  [k \in 1 .. Cardinality(is) |-> CHOOSE i \in is : Cardinality({j \in is : j < i}) = k - 1]
Those(s, is) == LET at == InOrder(is) IN [k \in DOMAIN at |-> s[at[k]]]

\* fetchFn(db, gt): the first rows above gt, in the order of their revisions.
Above(gt) == {rows[id] : id \in {j \in Ids : rows[j] > gt}}
Row(rev) == [id |-> CHOOSE id \in Ids : rows[id] = rev, rev |-> rev]
Least(a, b) == IF a < b THEN a ELSE b
FetchFn(gt) ==
  LET revs == InOrder(Above(gt))
  IN [k \in 1 .. Least(Limit, Cardinality(Above(gt))) |-> Row(revs[k])]

-----------------------------------------------------------------------------
Init ==
  /\ rows = [id \in Ids |-> 0] /\ used = {} /\ late = {}
  /\ backend \in {"memfm", "redis"}
  /\ ring = EmptyRing /\ writePos = 0 /\ stream = <<>>
  /\ fetcher = [f \in Fetchers |-> NoFetcher]
  /\ cursor = [f \in Fetchers |-> 0]
  /\ view = [f \in Fetchers |-> [id \in Ids |-> 0]]
  /\ due = [f \in Fetchers |-> FALSE]
  /\ faults = 0

\* A transaction writes row id and commits.  It drew its revision when it wrote,
\* so another that drew a higher one may have committed before; a revision that
\* is never committed was rolled back or is that of a row under another key.
Commit(id, rev) ==
  /\ rev \notin used /\ rev > rows[id]
  /\ rows' = [rows EXCEPT ![id] = rev]
  /\ used' = used \cup {rev}
  /\ late' = IF \E r \in used : r > rev THEN late \cup {rev} ELSE late
  /\ UNCHANGED <<backend, fetcher, faults, cacheVars, replyVars>>

-----------------------------------------------------------------------------
\* Open, for a watch with the client's cursor: the first Open makes the cache.
Open(f) ==
  /\ fetcher[f].at = "closed"
  /\ fetcher' = [fetcher EXCEPT ![f].at = "db"]
  /\ UNCHANGED <<dbVars, backend, cacheVars, replyVars, faults>>

\* Close: the manager forgets the cache with its last fetcher (the Redis stream
\* stays).
Release(f) ==
  /\ fetcher' = [fetcher EXCEPT ![f] = NoFetcher]
  /\ IF \A g \in Fetchers \ {f} : fetcher[g].at = "closed"
     THEN ring' = EmptyRing /\ writePos' = 0
     ELSE UNCHANGED <<ring, writePos>>
  /\ due' = [due EXCEPT ![f] = FALSE]
  /\ UNCHANGED <<dbVars, backend, stream, cursor, view>>

Close(f) ==
  /\ fetcher[f].at \in {"cache", "db"}
  /\ Release(f)
  /\ UNCHANGED faults

\* A call fails: bounded.
Fault == faults < MaxFaults /\ faults' = faults + 1

\* The revision of id after items, which the client applies in their order.
LastOf(items, id, rev) ==
  LET mine == {i \in 1 .. Len(items) : items[i].id = id}
  IN IF mine = {} THEN rev ELSE items[CHOOSE i \in mine : \A j \in mine : j <= i].rev

\* Fetch returns items, and fr is what it made of the fetcher.  The watch sends
\* them; or its transaction is retried with the same cursor (crdbgorm.ExecuteTx,
\* on CockroachDB).  Either way f's next Fetch begins, from the cache or not.
Reply(f, fr, items) ==
  /\ fetcher' = [fetcher EXCEPT ![f] = [fr EXCEPT !.at = IF fr.tail THEN "cache" ELSE "db",
                                                 !.expected = 0, !.batch = <<>>]]
  /\ \/ /\ cursor' = [cursor EXCEPT ![f] = IF items = <<>> THEN @ ELSE items[Len(items)].rev]
        /\ view' = [view EXCEPT ![f] = [id \in Ids |-> LastOf(items, id, @[id])]]
        /\ due' = [due EXCEPT ![f] = FALSE]
        /\ UNCHANGED faults
     \/ Fault /\ UNCHANGED replyVars

Goto(f, label) == fetcher' = [fetcher EXCEPT ![f].at = label] /\ UNCHANGED replyVars

-----------------------------------------------------------------------------
\* The scan of what is unread, u, by a fetcher with cursor gt: it skips what it is
\* past, takes the next revision, and leaves the tail cache at a gap.  Mark is
\* where it has got to before u[i].
Mark(gt, u, i) ==
  LET revs == {gt} \cup {u[j].rev : j \in 1 .. i - 1}
  IN CHOOSE r \in revs : \A q \in revs : q <= r

NoGap(gt, u, i) == FALSE
Gap(gt, u, i) == u[i].rev > Mark(gt, u, i) + 1

Fresh(gt, u, i) == u[i].rev > Mark(gt, u, i)

\* What f reads: the cells between its position and the writer's (cells the
\* writer has lapped are read again), or the stream above the cursor.
Unread(f) ==
  IF backend = "memfm"
  THEN [k \in 1 .. writePos - fetcher[f].readPos |-> ring[(fetcher[f].readPos + k - 1) % CacheSize]]
  ELSE Those(stream, {i \in 1 .. Len(stream) : stream[i].rev > cursor[f]})

\* cache.Fetch, under the cache's read lock.
CacheFetch(f) ==
  LET u == Unread(f)
      gaps == {i \in 1 .. Len(u) : Gap(cursor[f], u, i)}
      stop == IF gaps = {} THEN Len(u) + 1 ELSE CHOOSE i \in gaps : \A j \in gaps : i <= j
      taken == {i \in 1 .. stop - 1 : Fresh(cursor[f], u, i)}
      items == Those(u, taken)
      fr == [fetcher[f] EXCEPT !.tail = gaps = {}, !.expected = writePos,
               !.readPos = IF backend = "redis" THEN @ ELSE @ + (IF gaps = {} THEN Len(u) ELSE stop)]
  IN
  /\ fetcher[f].at = "cache"
  /\ IF items # <<>> THEN Reply(f, fr, items)
     ELSE /\ fetcher' = [fetcher EXCEPT ![f] = [fr EXCEPT !.at = IF fr.tail THEN "fill" ELSE "db"]]
          /\ due' = [due EXCEPT ![f] = @ \/ Above(cursor[f]) # {}]
          /\ UNCHANGED <<cursor, view, faults>>
  /\ UNCHANGED <<dbVars, backend, cacheVars>>

\* XREAD fails: on to the database.
XReadFails(f) ==
  /\ backend = "redis" /\ fetcher[f].at = "cache" /\ Fault
  /\ fetcher' = [fetcher EXCEPT ![f].tail = FALSE, ![f].at = "db"]
  /\ UNCHANGED <<dbVars, backend, cacheVars, replyVars>>

\* memfm's Fill, under the cache's lock: only if nobody wrote since f's Fetch.  A
\* batch is cached up to the size of the ring.
FirstOf(batch) == SubSeq(batch, 1, Least(CacheSize, Len(batch)))

\* (A variant answers "nothing" when another fetcher has filled the ring.)
MemFillEmpty(f) ==
  LET batch == IF fetcher[f].expected = writePos THEN FetchFn(cursor[f]) ELSE <<>>
      new == FirstOf(batch)
  IN
  /\ backend = "memfm" /\ fetcher[f].at = "fill"
  /\ ring' = [i \in DOMAIN ring |->
                LET mine == {k \in 1 .. Len(new) : (writePos + k - 1) % CacheSize = i}
                IN IF mine = {} THEN ring[i] ELSE new[CHOOSE k \in mine : TRUE]]
  /\ writePos' = writePos + Len(new)
  /\ Reply(f, fetcher[f], batch)
  /\ UNCHANGED <<dbVars, backend, stream>>

MemFill(f) ==
  LET batch == FetchFn(cursor[f])
      new == FirstOf(batch)
  IN
  /\ backend = "memfm" /\ fetcher[f].at = "fill"
  /\ IF fetcher[f].expected # writePos
     THEN Goto(f, "cache") /\ UNCHANGED <<ring, writePos, faults>>
     ELSE /\ ring' = [i \in DOMAIN ring |->
                LET mine == {k \in 1 .. Len(new) : (writePos + k - 1) % CacheSize = i}
                IN IF mine = {} THEN ring[i] ELSE new[CHOOSE k \in mine : TRUE]]
          /\ writePos' = writePos + Len(new)
          /\ Reply(f, fetcher[f], batch)
  /\ UNCHANGED <<dbVars, backend, stream>>

\* redisfm's Fill.  XRANGE: does the stream hold an item above the cursor (in a
\* variant: at or above it)?
XRangeInclusive(f) == \E i \in 1 .. Len(stream) : stream[i].rev >= cursor[f]
XRange(f) == \E i \in 1 .. Len(stream) : stream[i].rev >= cursor[f] + 1

RedisCheck(f) ==
  /\ backend = "redis" /\ fetcher[f].at = "fill"
  /\ \/ Goto(f, IF XRange(f) THEN "cache" ELSE "query") /\ UNCHANGED faults
     \/ Goto(f, "cache") /\ Fault
  /\ UNCHANGED <<dbVars, backend, cacheVars>>

RedisQuery(f) ==
  /\ fetcher[f].at = "query"
  /\ fetcher' = [fetcher EXCEPT ![f].at = "add", ![f].batch = FetchFn(cursor[f])]
  /\ UNCHANGED <<dbVars, backend, cacheVars, replyVars, faults>>

\* The XADDs run as one MULTI: one whose ID is not above the stream's top fails,
\* the others go ahead, and the error sends the fetcher back to the stream.  A
\* call that times out may have run.  (A variant lets Redis choose the IDs.)
XAddAutoId(s, batch) ==
  LET grown == s \o FirstOf(batch)
  IN SubSeq(grown, 1 + (IF Len(grown) > CacheSize THEN Len(grown) - CacheSize ELSE 0), Len(grown))

XAdd(s, batch) ==
  LET top == IF s = <<>> THEN 0 ELSE s[Len(s)].rev
      new == FirstOf(batch)
      grown == s \o Those(new, {i \in 1 .. Len(new) : new[i].rev > top})
  IN SubSeq(grown, 1 + (IF Len(grown) > CacheSize THEN Len(grown) - CacheSize ELSE 0), Len(grown))

XAddRefused(s, batch) ==
  \E i \in 1 .. Len(FirstOf(batch)) : s # <<>> /\ batch[i].rev <= s[Len(s)].rev

RedisAdd(f) ==
  LET batch == fetcher[f].batch IN
  /\ fetcher[f].at = "add"
  /\ \/ /\ stream' = XAdd(stream, batch)
        /\ IF XAddRefused(stream, batch)
           THEN fetcher' = [fetcher EXCEPT ![f].at = "cache", ![f].batch = <<>>]
                /\ UNCHANGED <<replyVars, faults>>
           ELSE Reply(f, fetcher[f], batch)
     \/ /\ Fault
        /\ stream' \in {stream, XAdd(stream, batch)}
        /\ fetcher' = [fetcher EXCEPT ![f].at = "cache", ![f].batch = <<>>]
        /\ UNCHANGED replyVars
  /\ UNCHANGED <<dbVars, backend, ring, writePos>>

\* A fetcher that is not at the tail queries; an empty result puts it there.
DbFetch(f) ==
  LET batch == FetchFn(cursor[f]) IN
  /\ fetcher[f].at = "db"
  /\ Reply(f, [fetcher[f] EXCEPT !.tail = @ \/ batch = <<>>], batch)
  /\ UNCHANGED <<dbVars, backend, cacheVars>>

\* The query fails: the watch ends and closes its fetcher.
QueryFails(f) ==
  /\ fetcher[f].at \in {"db", "query"} \/ (backend = "memfm" /\ fetcher[f].at = "fill")
  /\ Fault
  /\ Release(f)

-----------------------------------------------------------------------------
Fetch(f) ==
  \/ CacheFetch(f) \/ XReadFails(f) \/ MemFill(f) \/ RedisCheck(f) \/ RedisQuery(f)
  \/ RedisAdd(f) \/ DbFetch(f) \/ QueryFails(f)

Next ==
  \/ \E id \in Ids : \E rev \in 1 .. MaxRev : Commit(id, rev)
  \/ \E f \in Fetchers : Open(f) \/ Close(f) \/ Fetch(f)

Spec == Init /\ [][Next]_vars

\* A watch keeps fetching (when it is notified of a row), and a Fetch keeps going:
\* WF_vars(Fetch(f)), written out for TLC.  Fetch(f) is enabled while f is open,
\* and nothing else moves an open f but Close.
FairSpec ==
  Spec /\ \A f \in Fetchers : \/ []<>(fetcher[f].at = "closed")
                              \/ []<><<TRUE>>_<<fetcher[f], cursor[f]>>

-----------------------------------------------------------------------------
(* Properties.                                                             *)

\* Every variable has its type; the stream is in the order of its revisions and
\* within its size, and no fetcher is ahead of the ring's writer.
TypeOK ==
  /\ rows \in [Ids -> 0 .. MaxRev] /\ used \subseteq 1 .. MaxRev /\ late \subseteq used
  /\ backend \in {"memfm", "redis"}
  /\ ring \in [0 .. CacheSize - 1 -> Item] /\ writePos \in Nat
  /\ \A i \in 1 .. Len(stream) : stream[i] \in Item
  /\ Len(stream) <= CacheSize
  /\ \A i \in 1 .. Len(stream) - 1 : stream[i].rev < stream[i + 1].rev
  /\ \A f \in Fetchers :
       /\ fetcher[f].at \in {"closed", "cache", "fill", "query", "add", "db"}
       /\ fetcher[f].tail \in BOOLEAN
       /\ fetcher[f].readPos <= writePos /\ fetcher[f].expected <= writePos
  /\ cursor \in [Fetchers -> 0 .. MaxRev] /\ view \in [Fetchers -> [Ids -> 0 .. MaxRev]]
  /\ due \in [Fetchers -> BOOLEAN] /\ faults \in 0 .. MaxFaults

\* The cache never hides a row: whatever others put in it, in whatever order, and
\* however often it lapped f, f has been given every row at or below its cursor,
\* unless the row was committed after a higher revision.
NothingSkipped ==
  \A f \in Fetchers : \A id \in Ids :
    rows[id] <= cursor[f] /\ rows[id] \notin late => view[f][id] = rows[id]

\* The managers are a feed in the order of revisions: whatever others cached, no
\* version goes back, none in between is left out, and an empty answer, on which
\* the watch parks, is never given when a row already lay above the cursor as the
\* Fetch began (basefm: "empty fetch means we have hit the tail").
Feed == INSTANCE OrderedFeed WITH Readers <- Fetchers,
                                  open <- [f \in Fetchers |-> fetcher[f].at # "closed"]
ImplementsFeed == Feed!Spec

\* A fetcher that stays open catches up with the table: the loop that goes back to
\* the cache after a Fill another fetcher won finds what that one added, or gives
\* up the cache; it never goes round for ever.
CatchesUp ==
  \A f \in Fetchers :
    fetcher[f].at # "closed" /\ Above(cursor[f]) # {} ~>
      fetcher[f].at = "closed" \/ Above(cursor[f]) = {}
==============================================================================
