---------------------------- MODULE ShardPlanner ----------------------------
(***************************************************************************)
(* A Count or Shard call on a Store whose shard cache holds no table for   *)
(* num (src/go/storage/keyvalue/keyvalue.go, lines 228-356): the snapshot  *)
(* is any set of entry keys, constructShards plans the table once, and the *)
(* properties compare the table with what the spec promises of it         *)
(* (section 4.5, Properties 5-7) over every snapshot of the bound.         *)
(***************************************************************************)
EXTENDS ShardWalk

CONSTANTS
  EntryKeys,   \* the keys a snapshot may hold
  MaxShards    \* the largest shard count requested

VARIABLES
  keys,        \* the snapshot's keys in iteration order
  num,         \* the requested number of shards
  tbl          \* the table constructShards built, <<>> before it ran

vars == <<keys, num, tbl>>

Init ==
  /\ \E S \in SUBSET EntryKeys : keys = SortedKeys(S)
  /\ num \in 1..MaxShards
  /\ tbl = <<>>

\* constructShards(num): take the snapshot, walk it, fix up and publish.
Plan ==
  /\ tbl = <<>>
  /\ tbl' = ShardTable(keys, num)
  /\ UNCHANGED <<keys, num>>

\* The table is published; later calls reuse it.
Planned == tbl # <<>>

Done == Planned /\ UNCHANGED vars

Spec == Init /\ [][Plan \/ Done]_vars

-----------------------------------------------------------------------------
TypeOK ==
  /\ num \in 1..MaxShards
  /\ Planned => DOMAIN tbl = 0..num - 1

Shards == 0..num - 1

\* The entries of the snapshot that Shard(num, i) streams
Streamed(i) == ShardKeys(keys, tbl, i)

\* Property 7 of the spec: the counts of the shards add up to the number of
\* entries in the snapshot (the spec's scenario 4: 5 entries, 2 shards).
CountConservation ==
  Planned => SumFunction([i \in Shards |-> tbl[i].count]) = Len(keys)

\* Property 5 of the spec, as the Shard calls see it: every entry of the
\* snapshot is streamed by some shard.
ShardsCoverSnapshot ==
  Planned => \A n \in 1..Len(keys) : \E i \in Shards : keys[n] \in Streamed(i)

\* Property 6 of the spec: the entries of one (source, edge kind) group are
\* all streamed by a single shard.
GroupIntegrity ==
  Planned =>
    \A i, i2 \in Shards : i # i2 =>
      \A k \in Streamed(i), k2 \in Streamed(i2) :
        sourceKindPrefix(k) # sourceKindPrefix(k2)

=============================================================================
