---------------------------- MODULE ShardWalk ------------------------------
(***************************************************************************)
(* The shard-boundary walker of Store.constructShards                      *)
(* (src/go/storage/keyvalue/keyvalue.go, lines 278-356) and the shard      *)
(* reader's view of its table (Store.Shard and Store.Count, lines          *)
(* 228-266).                                                               *)
(*                                                                         *)
(* The walker reads the snapshot through num iterators.  keys is the       *)
(* snapshot's entry keys in ascending byte order; an iterator is its       *)
(* position p, the number of keys it has returned, and Next returns        *)
(* keys[p+1] or io.EOF when p = Len(keys).  Every Next that returns a key  *)
(* executes tbl[i].count++ and tbl[i].End = k (lines 316-317, 328-329), so *)
(* while the loop runs tbl[i].count = p and tbl[i].End = keys[p]; the      *)
(* walker's state is the vector of positions.  Shard indices are 0..num-1  *)
(* as in the code.  The nil []byte of an End never assigned is <<>>.       *)
(***************************************************************************)
EXTENDS Integers, FiniteSets, KeyCodec

NilKey == <<>>

\* The keys of a finite set in the ascending byte order in which a DB
\* Iterator returns them (DB and Iterator, lines 60-79, 109-118).
SortedKeys(S) ==
  [n \in 1..Cardinality(S) |->
     CHOOSE k \in S : Cardinality({x \in S : BytesLess(x, k)}) = n - 1]

\* One (i+1)-group step of iterator i from position p (lines 308-333): read
\* a key k, then read keys until one lacks sourceKindPrefix(k).  The result
\* is the new position, or 0 when some Next returned io.EOF (break loop).
GroupStep(keys, p) ==
  IF p = Len(keys) THEN 0
  ELSE LET prefix == sourceKindPrefix(keys[p + 1])
           r == SelectInSubSeq(keys, p + 2, Len(keys),
                               LAMBDA k : ~HasPrefix(k, prefix))
       IN r

\* The loop of lines 302-336: iterators take their steps round robin, each
\* i taking i+1 group steps per round, until one reaches io.EOF; that
\* iterator has then read every key.  Returns the final positions.
RECURSIVE Walk(_, _, _, _, _)
Walk(keys, num, pos, i, j) ==
  LET q == GroupStep(keys, pos[i])
  IN IF q = 0 THEN [pos EXCEPT ![i] = Len(keys)]
     ELSE LET pos2 == [pos EXCEPT ![i] = q]
          IN IF j < i THEN Walk(keys, num, pos2, i, j + 1)
             ELSE IF i < num - 1 THEN Walk(keys, num, pos2, i + 1, 0)
             ELSE Walk(keys, num, pos2, 0, 0)

\* constructShards' table (lines 301-352): walk, then fix up the border
\* shards, chain the starts and turn the running counts into shard sizes.
ShardTable(keys, num) ==
  LET pos == Walk(keys, num, [i \in 0..num - 1 |-> 0], 0, 0)
      end(i) == IF i = num - 1 THEN EntryKeyPrefixEndRange
                ELSE IF pos[i] = 0 THEN NilKey ELSE keys[pos[i]]
      \* the counts after lines 341-342
      cnt(i) == pos[i] - (IF i = 0 THEN 1 ELSE 0) + (IF i = num - 1 THEN 1 ELSE 0)
  IN [i \in 0..num - 1 |->
        [start |-> IF i = 0 THEN EntryKeyPrefix ELSE end(i - 1),
         end   |-> end(i),
         count |-> IF i = 0 THEN cnt(0) ELSE cnt(i) - cnt(i - 1)]]

\* The backend's Range: Start included, End excluded; a nil bound is open.
InRange(k, r) ==
  /\ r.start = NilKey \/ ~BytesLess(k, r.start)
  /\ r.end = NilKey \/ BytesLess(k, r.end)

\* The keys Store.Shard(num, i) streams: none when the count is 0 (line
\* 254), otherwise every key of the snapshot in the shard's range.
ShardKeys(keys, tbl, i) ==
  IF tbl[i].count = 0 THEN {}
  ELSE {keys[n] : n \in {m \in 1..Len(keys) : InRange(keys[m], tbl[i])}}

=============================================================================
