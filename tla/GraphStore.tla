----------------------------- MODULE GraphStore -----------------------------
(***************************************************************************)
(* The keyvalue Store (src/go/storage/keyvalue/keyvalue.go) serving        *)
(* concurrent callers over a sorted key-value DB.                          *)
(*                                                                         *)
(* Each client is a goroutine making calls Read, Scan, Write, Count and    *)
(* Shard.  A call is one action up to its first suspension point (opening  *)
(* an iterator or a writer), then one action per Iterator.Next or          *)
(* Writer.Write, the deferred Close included in the step that returns.     *)
(* constructShards runs under shardMu and reads only the snapshot it takes *)
(* first, so no other call can observe its steps: it is part of the Count  *)
(* or Shard action, with the table of ShardPlanner.                        *)
(*                                                                         *)
(* The DB is modelled as goleveldb-like: an iterator reads the view of the *)
(* moment it was opened; a Writer buffers its puts and commits them on     *)
(* Close.  With BackendFails, any backend call may return an error.        *)
(***************************************************************************)
EXTENDS ShardWalk, TLC

CONSTANTS
  Clients,        \* goroutines calling the Store
  Requests,       \* the requests a call may carry
  MaxCalls,       \* calls made by each client
  BackendFails,   \* whether the DB's calls may return errors
  InitDB          \* the DB's contents when the Store is created

VARIABLES
  db,             \* committed DB contents: key -> value
  snaps,          \* snapshots taken: sequence of [data, open]
  shardTables,    \* Store.shardTables: num -> table
  shardSnapshots, \* Store.shardSnapshots: num -> index in snaps
  pc,             \* client -> "idle" | "stream" | "scan" | "write"
  req,            \* client -> request of the current call
  iter,           \* client -> pairs <<key, val, decoded>> its iterator has yet to return
  view,           \* client -> the DB contents its iterator reads
  batch,          \* client -> puts buffered in its Writer
  next,           \* client -> index of the next update of its Write
  out,            \* client -> entries passed to the callback so far
  openIters,      \* client -> iterators opened by its calls and not closed
  last,           \* client -> outcome of its last completed call
  calls,          \* client -> number of calls made
  closed          \* Store.Close has closed the DB

vars == <<db, snaps, shardTables, shardSnapshots, pc, req, iter, view, batch,
          next, out, openIters, last, calls, closed>>

NoRequest == [op |-> "none"]

NoResult == [req |-> NoRequest, err |-> "none", out |-> <<>>, view |-> <<>>,
             halted |-> FALSE, count |-> 0]

\* The errors a backend call may return
BackendErrors == IF BackendFails THEN {"BackendIO"} ELSE {}

\* The answers an EntryFunc callback may give: nil, io.EOF, another error
ConsumerAnswers == {"continue", "halt", "fail"}

-----------------------------------------------------------------------------
(* Backend                                                                 *)

\* An iterator over the pairs of data whose keys are in S, in key order.
\* Each pair carries Entry(key, val), the pure decoding the loop applies
\* to it when Next returns it.
IterOver(data, S) ==
  LET ks == SortedKeys(S)
  IN [n \in 1..Len(ks) |-> <<ks[n], data[ks[n]], Entry(ks[n], data[ks[n]])>>]

ScanPrefix(data, prefix) == IterOver(data, {k \in DOMAIN data : HasPrefix(k, prefix)})
ScanRange(data, r) == IterOver(data, {k \in DOMAIN data : InRange(k, r)})

\* Writer.Close: the buffered puts, applied in order, become visible.
Commit(data, puts) ==
  LET written == {puts[n][1] : n \in 1..Len(puts)}
      lastPut(k) == puts[SelectLastInSeq(puts, LAMBDA p : p[1] = k)][2]
  IN [k \in DOMAIN data \cup written |->
        IF k \in written THEN lastPut(k) ELSE data[k]]

\* Every key the DB can hold: its initial keys and the keys of the updates
\* of the write requests
KeyUniverse ==
  DOMAIN InitDB \cup
    UNION {{EncodeKey(r.source, u.factName, u.edgeKind, u.target).val :
              u \in {r.update[i] : i \in DOMAIN r.update}} :
           r \in {q \in Requests : q.op = "write"}}

\* Entry(k, v) decodes the key alone and carries v as the fact value, so a
\* key's decoding is computed once.
KeyEntry == [k \in KeyUniverse |-> Entry(k, <<>>)]

\* The entries stored in data, keys that do not decode left out
Entries(data) ==
  {[KeyEntry[k].val EXCEPT !.factValue = data[k]] :
     k \in {k \in DOMAIN data : ~Failed(KeyEntry[k])}}

-----------------------------------------------------------------------------
(* Call bookkeeping                                                        *)

Begin(c, r) ==
  /\ pc[c] = "idle"
  /\ ~closed
  /\ calls[c] < MaxCalls
  /\ calls' = [calls EXCEPT ![c] = @ + 1]
  /\ req' = [req EXCEPT ![c] = r]

\* The call of c returns err after delivering o from the view v.
Finish(c, r, err, o, v, h, cnt) ==
  /\ pc' = [pc EXCEPT ![c] = "idle"]
  /\ last' = [last EXCEPT ![c] = [req |-> r, err |-> err, out |-> o, view |-> v,
                                  halted |-> h, count |-> cnt]]
  /\ out' = [out EXCEPT ![c] = <<>>]
  /\ iter' = [iter EXCEPT ![c] = <<>>]

\* Opening an iterator on data for the call of c, continuing at label l.
Open(c, it, data, l) ==
  /\ pc' = [pc EXCEPT ![c] = l]
  /\ iter' = [iter EXCEPT ![c] = it]
  /\ view' = [view EXCEPT ![c] = data]
  /\ openIters' = [openIters EXCEPT ![c] = @ + 1]

\* Closing an iterator twice (explicitly and again by a defer)
CloseIterTwice(c) == openIters' = [openIters EXCEPT ![c] = @ - 2]

CloseIter(c) == openIters' = [openIters EXCEPT ![c] = @ - 1]

-----------------------------------------------------------------------------
(* Read, Scan and streamEntries                                            *)

\* Store.Read: build the key prefix, open a prefix scan, stream it.
Read(c, r) ==
  LET kp == KeyPrefix(r.source, r.edgeKind)
  IN /\ r.op = "read"
     /\ Begin(c, r)
     /\ \/ /\ Failed(kp)
           /\ Finish(c, r, kp.err, <<>>, db, FALSE, 0)
           /\ UNCHANGED <<view, openIters>>
        \/ /\ ~Failed(kp)
           /\ \E e \in BackendErrors :
                 Finish(c, r, e, <<>>, db, FALSE, 0) /\ UNCHANGED <<view, openIters>>
        \/ /\ ~Failed(kp)
           /\ Open(c, ScanPrefix(db, kp.val), db, "stream")
           /\ UNCHANGED <<last, out>>
     /\ UNCHANGED <<db, snaps, shardTables, shardSnapshots, batch, next>>

\* One pass of streamEntries' loop for c: Next, decode, call the callback.
\* Every return closes the iterator (defer iter.Close()).
StreamNext(c) ==
  LET r == req[c]
      e == Head(iter[c])[3]
      Done(err, o, h) == Finish(c, r, err, o, view[c], h, 0) /\ CloseIter(c)
  IN /\ pc[c] = "stream"
     /\ \/ iter[c] = <<>> /\ Done("none", out[c], FALSE)
        \/ \E err \in BackendErrors : Done(err, out[c], FALSE)
        \/ /\ iter[c] # <<>>
           /\ Failed(e)
           /\ Done(e.err, out[c], FALSE)
        \/ /\ iter[c] # <<>>
           /\ ~Failed(e)
           /\ \E a \in ConsumerAnswers :
                 \/ /\ a = "continue"
                    /\ iter' = [iter EXCEPT ![c] = Tail(@)]
                    /\ out' = [out EXCEPT ![c] = Append(@, e.val)]
                    /\ UNCHANGED <<pc, last, openIters>>
                 \/ a = "halt" /\ Done("none", Append(out[c], e.val), TRUE)
                 \/ a = "fail" /\ Done("ConsumerError", Append(out[c], e.val), FALSE)
     /\ UNCHANGED <<db, snaps, shardTables, shardSnapshots, req, view, batch,
                    next, calls>>

\* graphstore.EntryMatchesScan (not under src/; modelled from the spec,
\* section 4.7): each constraint the request carries must hold.
EntryMatchesScan(r, e) ==
  /\ r.source = NilVName \/ e.source = r.source
  /\ r.target = NilVName \/ e.target = r.target
  /\ r.edgeKind \in {<<>>, AnyEdgeKind} \/ e.edgeKind = r.edgeKind
  /\ HasPrefix(e.factName, r.factPrefix)

\* Store.Scan: a large-read prefix scan of the whole entry key space.
Scan(c, r) ==
  /\ r.op = "scan"
  /\ Begin(c, r)
  /\ \/ /\ \E e \in BackendErrors : Finish(c, r, e, <<>>, db, FALSE, 0)
        /\ UNCHANGED <<view, openIters>>
     \/ /\ Open(c, ScanPrefix(db, EntryKeyPrefix), db, "scan")
        /\ UNCHANGED <<last, out>>
  /\ UNCHANGED <<db, snaps, shardTables, shardSnapshots, batch, next>>

\* A skipped entry that is not consumed: the loop meets it again.
SkipEntryStay(c) == UNCHANGED iter

\* continue: the loop's next iter.Next() moves past the skipped entry.
SkipEntry(c) == iter' = [iter EXCEPT ![c] = Tail(@)]

\* One pass of Scan's loop: entries the request does not match are skipped.
ScanNext(c) ==
  LET r == req[c]
      e == Head(iter[c])[3]
      Done(err, o, h) == Finish(c, r, err, o, view[c], h, 0) /\ CloseIter(c)
  IN /\ pc[c] = "scan"
     /\ \/ iter[c] = <<>> /\ Done("none", out[c], FALSE)
        \/ \E err \in BackendErrors : Done(err, out[c], FALSE)
        \/ /\ iter[c] # <<>>
           /\ Failed(e)
           /\ Done(e.err, out[c], FALSE)
        \/ /\ iter[c] # <<>>
           /\ ~Failed(e)
           /\ ~EntryMatchesScan(r, e.val)
           /\ SkipEntry(c)
           /\ UNCHANGED <<pc, last, out, openIters>>
        \/ /\ iter[c] # <<>>
           /\ ~Failed(e)
           /\ EntryMatchesScan(r, e.val)
           /\ \E a \in ConsumerAnswers :
                 \/ /\ a = "continue"
                    /\ iter' = [iter EXCEPT ![c] = Tail(@)]
                    /\ out' = [out EXCEPT ![c] = Append(@, e.val)]
                    /\ UNCHANGED <<pc, last, openIters>>
                 \/ a = "halt" /\ Done("none", Append(out[c], e.val), TRUE)
                 \/ a = "fail" /\ Done("ConsumerError", Append(out[c], e.val), FALSE)
     /\ UNCHANGED <<db, snaps, shardTables, shardSnapshots, req, view, batch,
                    next, calls>>

-----------------------------------------------------------------------------
(* Write                                                                   *)

\* Store.Write: obtain a Writer; the updates are written by WriteNext.
Write(c, r) ==
  /\ r.op = "write"
  /\ Begin(c, r)
  /\ \/ /\ \E e \in BackendErrors : Finish(c, r, e, <<>>, db, FALSE, 0)
        /\ UNCHANGED <<batch, next>>
     \/ /\ pc' = [pc EXCEPT ![c] = "write"]
        /\ batch' = [batch EXCEPT ![c] = <<>>]
        /\ next' = [next EXCEPT ![c] = 1]
        /\ UNCHANGED <<last, out, iter>>
  /\ UNCHANGED <<db, snaps, shardTables, shardSnapshots, view, openIters>>

\* The deferred wr.Close() with its error dropped
WriteReturnCloseErrorDropped(c, err) ==
  /\ \/ /\ db' = Commit(db, batch[c])
        /\ Finish(c, req[c], err, <<>>, db, FALSE, 0)
     \/ /\ BackendFails
        /\ UNCHANGED db
        /\ Finish(c, req[c], err, <<>>, db, FALSE, 0)
  /\ UNCHANGED <<batch, next>>

\* Write returning err: the deferred wr.Close() commits the puts buffered
\* so far, or fails and commits none; its error is reported only when no
\* earlier error is (lines 174-179).
WriteReturn(c, err) ==
  /\ \/ /\ db' = Commit(db, batch[c])
        /\ Finish(c, req[c], err, <<>>, db, FALSE, 0)
     \/ /\ BackendFails
        /\ UNCHANGED db
        /\ Finish(c, req[c], IF err = "none" THEN "WriterCloseFailed" ELSE err,
                  <<>>, db, FALSE, 0)
  /\ UNCHANGED <<batch, next>>

\* One iteration of Write's loop, or its return.
WriteNext(c) ==
  LET r == req[c]
      u == r.update[next[c]]
      key == EncodeKey(r.source, u.factName, u.edgeKind, u.target)
      Return(err) == WriteReturn(c, err)
  IN /\ pc[c] = "write"
     /\ \/ next[c] > Len(r.update) /\ Return("none")
        \/ /\ next[c] <= Len(r.update)
           /\ u.factName = <<>>
           /\ Return("MissingFactName")
        \/ /\ next[c] <= Len(r.update)
           /\ u.factName # <<>>
           /\ Failed(key)
           /\ Return(key.err)
        \/ /\ next[c] <= Len(r.update)
           /\ u.factName # <<>>
           /\ ~Failed(key)
           /\ \/ \E e \in BackendErrors : Return(e)
              \/ /\ batch' = [batch EXCEPT ![c] = Append(@, <<key.val, u.factValue>>)]
                 /\ next' = [next EXCEPT ![c] = @ + 1]
                 /\ UNCHANGED <<db, pc, last, out, iter>>
     /\ UNCHANGED <<snaps, shardTables, shardSnapshots, req, view, openIters, calls>>

-----------------------------------------------------------------------------
(* Count, Shard and constructShards                                        *)

ValidShardRequest(r) == r.shards >= 1 /\ r.index >= 0 /\ r.index < r.shards

\* The ways constructShards(num) can end.  A cached table is returned as
\* is.  Otherwise a snapshot is taken and num iterators are opened on it
\* and never closed; an error from ScanPrefix for the iterator m+1 or from
\* a Next of the walk closes the snapshot and returns with the m
\* iterators opened so far (leak).
PlanOutcomes(num) ==
  IF num \in DOMAIN shardTables
  THEN {[err |-> "none", cached |-> TRUE, leak |-> 0]}
  ELSE {[err |-> "none", cached |-> FALSE, leak |-> num]}
       \cup {[err |-> e, cached |-> FALSE, leak |-> m] : e \in BackendErrors, m \in 0..num}

\* constructShards publishing its table even when the walk failed.
ConstructShardsPublishOnError(c, num, o, extra) ==
  /\ IF o.cached
     THEN UNCHANGED <<snaps, shardTables, shardSnapshots>>
     ELSE /\ snaps' = Append(snaps, [data |-> db, open |-> o.err = "none"])
          /\ shardTables' = (num :> ShardTable(SortedKeys(DOMAIN db), num)) @@ shardTables
          /\ shardSnapshots' = (num :> Len(snaps) + 1) @@ shardSnapshots
  /\ openIters' = [openIters EXCEPT ![c] = @ + o.leak + extra]

\* The state change of constructShards(num) called by c ending as o; the
\* caller then holds extra more iterators.
ConstructShards(c, num, o, extra) ==
  /\ IF o.cached
     THEN UNCHANGED <<snaps, shardTables, shardSnapshots>>
     ELSE /\ snaps' = Append(snaps, [data |-> db, open |-> o.err = "none"])
          /\ IF o.err = "none"
             THEN /\ shardTables' = (num :> ShardTable(SortedKeys(DOMAIN db), num))
                                     @@ shardTables
                  /\ shardSnapshots' = (num :> Len(snaps) + 1) @@ shardSnapshots
             ELSE UNCHANGED <<shardTables, shardSnapshots>>
  /\ openIters' = [openIters EXCEPT ![c] = @ + o.leak + extra]

\* Store.Count: validate, construct (or reuse) the table, return a count.
Count(c, r) ==
  /\ r.op = "count"
  /\ Begin(c, r)
  /\ \/ /\ ~ValidShardRequest(r)
        /\ Finish(c, r, "InvalidShardParameters", <<>>, db, FALSE, 0)
        /\ UNCHANGED <<snaps, shardTables, shardSnapshots, openIters>>
     \/ /\ ValidShardRequest(r)
        /\ \E o \in PlanOutcomes(r.shards) :
              /\ ConstructShards(c, r.shards, o, 0)
              /\ Finish(c, r, o.err, <<>>, db, FALSE,
                        IF o.err = "none" THEN shardTables'[r.shards][r.index].count ELSE 0)
  /\ UNCHANGED <<db, view, batch, next>>

\* The DB contents a Shard iterator reads: ScanRange is given the table's
\* snapshot as an option (lines 258-261).
ShardData(num) == snaps'[shardSnapshots'[num]].data

\* Store.Shard: validate, construct (or reuse) the table, and unless the
\* shard's count is 0, stream its range from the table's snapshot.
Shard(c, r) ==
  LET tbl == shardTables'[r.shards]
      data == ShardData(r.shards)
  IN /\ r.op = "shard"
     /\ Begin(c, r)
     /\ \/ /\ ~ValidShardRequest(r)
           /\ Finish(c, r, "InvalidShardParameters", <<>>, db, FALSE, 0)
           /\ UNCHANGED <<snaps, shardTables, shardSnapshots, openIters, view>>
        \/ /\ ValidShardRequest(r)
           /\ \E o \in PlanOutcomes(r.shards) :
                 \/ /\ o.err # "none"
                    /\ ConstructShards(c, r.shards, o, 0)
                    /\ Finish(c, r, o.err, <<>>, db, FALSE, 0)
                    /\ UNCHANGED view
                 \/ /\ o.err = "none"
                    /\ ConstructShards(c, r.shards, o, 0)
                    /\ tbl[r.index].count = 0
                    /\ Finish(c, r, "none", <<>>, data, FALSE, 0)
                    /\ UNCHANGED view
                 \/ /\ o.err = "none"
                    /\ ConstructShards(c, r.shards, o, 0)
                    /\ tbl[r.index].count # 0
                    /\ \E e \in BackendErrors :
                          Finish(c, r, e, <<>>, data, FALSE, 0) /\ UNCHANGED view
                 \/ /\ o.err = "none"
                    /\ ConstructShards(c, r.shards, o, 1)
                    /\ tbl[r.index].count # 0
                    /\ pc' = [pc EXCEPT ![c] = "stream"]
                    /\ iter' = [iter EXCEPT ![c] = ScanRange(data, tbl[r.index])]
                    /\ view' = [view EXCEPT ![c] = data]
                    /\ UNCHANGED <<last, out>>
     /\ UNCHANGED <<db, batch, next>>

-----------------------------------------------------------------------------
(* Specification                                                           *)

Init ==
  /\ db = InitDB
  /\ snaps = <<>>
  /\ shardTables = <<>>
  /\ shardSnapshots = <<>>
  /\ pc = [c \in Clients |-> "idle"]
  /\ req = [c \in Clients |-> NoRequest]
  /\ iter = [c \in Clients |-> <<>>]
  /\ view = [c \in Clients |-> <<>>]
  /\ batch = [c \in Clients |-> <<>>]
  /\ next = [c \in Clients |-> 1]
  /\ out = [c \in Clients |-> <<>>]
  /\ openIters = [c \in Clients |-> 0]
  /\ last = [c \in Clients |-> NoResult]
  /\ calls = [c \in Clients |-> 0]
  /\ closed = FALSE

\* Store.Close: db.Close() once the callers are done with the store; the
\* cached shard snapshots are left as they are.  The DB's methods may not
\* be called after it is closed, so no call begins afterwards.
Close ==
  /\ ~closed
  /\ \A c \in Clients : pc[c] = "idle"
  /\ closed' = TRUE
  /\ UNCHANGED <<db, snaps, shardTables, shardSnapshots, pc, req, iter, view,
                 batch, next, out, openIters, last, calls>>

\* Every client has made its calls and they have returned, or the store
\* is closed.
Terminated ==
  /\ \A c \in Clients : pc[c] = "idle" /\ (calls[c] = MaxCalls \/ closed)
  /\ UNCHANGED vars

\* A step of some client's call
ClientStep ==
  /\ \/ \E c \in Clients, r \in Requests :
           Read(c, r) \/ Scan(c, r) \/ Write(c, r) \/ Count(c, r) \/ Shard(c, r)
     \/ \E c \in Clients : StreamNext(c) \/ ScanNext(c) \/ WriteNext(c)
  /\ UNCHANGED closed

Next == ClientStep \/ Close \/ Terminated

Spec == Init /\ [][Next]_vars

-----------------------------------------------------------------------------
(* Properties                                                              *)

TypeOK ==
  /\ DOMAIN db \subseteq Seq(0..255)
  /\ pc \in [Clients -> {"idle", "stream", "scan", "write"}]
  /\ calls \in [Clients -> 0..MaxCalls]
  /\ openIters \in [Clients -> Nat]
  /\ DOMAIN shardTables = DOMAIN shardSnapshots
  /\ \A n \in DOMAIN shardSnapshots : shardSnapshots[n] \in 1..Len(snaps)

\* The order of section 3 of the spec: by source, edge kind, fact name,
\* target, each compared field by field as a string, a nil target first.
RECURSIVE FieldsLess(_, _)
FieldsLess(a, b) ==
  CASE b = <<>>               -> FALSE
    [] a = <<>>               -> TRUE
    [] Head(a) # Head(b)      -> BytesLess(Head(a), Head(b))
    [] OTHER                  -> FieldsLess(Tail(a), Tail(b))

CanonicalFields(e) ==
  VNameFields(e.source) \o <<e.edgeKind, e.factName>>
    \o (IF e.target = NilVName THEN <<>> ELSE VNameFields(e.target))

CanonicalLess(e1, e2) == FieldsLess(CanonicalFields(e1), CanonicalFields(e2))

\* Read (Property 4 of the spec): a Read that ran to io.EOF delivered each
\* entry of its source and edge kind ("*": any) exactly once, and no other
\* entry.  KeyPrefix must end the source with the separator for this:
\* the encoding of one source can be a prefix of another's.
ReadReturnsMatching ==
  \A c \in Clients :
    LET l == last[c] IN
    (l.req.op = "read" /\ l.err = "none" /\ ~l.halted) =>
      /\ Range(l.out) =
           {e \in Entries(l.view) :
              e.source = l.req.source
              /\ (l.req.edgeKind = AnyEdgeKind \/ e.edgeKind = l.req.edgeKind)}
      /\ Len(l.out) = Cardinality(Range(l.out))

\* Read delivers entries in the canonical order of the spec (section 3).
ReadInCanonicalOrder ==
  \A c \in Clients :
    LET l == last[c] IN
    (l.req.op = "read" /\ l.err = "none") =>
      \A m, n \in 1..Len(l.out) : m < n => ~CanonicalLess(l.out[n], l.out[m])

\* A table in the cache always pins an open snapshot: a constructShards
\* that fails closes its snapshot and publishes nothing, so no later Shard
\* reads through a closed snapshot.
CachedSnapshotsOpen ==
  \A n \in DOMAIN shardSnapshots : snaps[shardSnapshots[n]].open

\* Section 5 of the spec: the snapshot pinned by the shard planner is
\* released on store close, so once Store.Close has returned no snapshot
\* of the store is open.
SnapshotsReleasedOnClose ==
  closed => \A i \in 1..Len(snaps) : ~snaps[i].open

\* Section 5 of the spec: every iterator a call opens is closed on every
\* exit path, so a client between calls holds none.
IteratorsReleased ==
  \A c \in Clients : pc[c] = "idle" => openIters[c] = 0


-----------------------------------------------------------------------------
(* Refinement                                                              *)

\* The DB seen as the abstract store: the entries its keys decode to
\* and, for each client, its last call if that was a Write, with its error
\* reduced to whether there was one
WriteAck(l) ==
  IF l.req.op = "write"
  THEN [req |-> l.req, err |-> IF l.err = "none" THEN "none" ELSE "failed"]
  ELSE [req |-> NoRequest, err |-> "none"]

AbstractStore == INSTANCE EntryStore
                   WITH entries <- Entries(db), InitEntries <- Entries(InitDB),
                        acked <- [c \in Clients |-> WriteAck(last[c])]

\* Spec sections 3, 4.4 and 9: the Store implements EntryStore.  Decoded,
\* the DB changes only when the deferred wr.Close() of a Write commits, and
\* then by a prefix of that request's updates in batch order, all of them
\* if the Write returns nil; Read, Scan, Count, Shard and Close leave it
\* alone.  Keys that collide or do not decode back to the written entry, or
\* a Write committing an update it rejected, break it.
ImplementsEntryStore == AbstractStore!Spec

=============================================================================
