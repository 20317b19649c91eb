----------------------------- MODULE EntryStore -----------------------------
(***************************************************************************)
(* What a graph store promises about its contents (spec sections 3, 4.4    *)
(* and the open question of section 9): it holds entries, at most one per  *)
(* (source, edge kind, fact name, target), and they change only by Write.  *)
(* A Write stores, in one step and in batch order, a prefix of its         *)
(* updates, each of which has a fact name; which prefix is durable after   *)
(* an error is left to the backend, but a Write that reports success has  *)
(* stored them all (section 3: durability is observed once the writer is  *)
(* closed successfully).  Reads, scans, counts and shard reads do not      *)
(* change the contents.                                                    *)
(***************************************************************************)
EXTENDS Sequences, SequencesExt

CONSTANTS
  Clients,        \* the callers of the store
  Requests,       \* the requests a call may carry
  InitEntries     \* the entries stored when the store is created

VARIABLES
  entries,        \* set of [source, edgeKind, factName, target, factValue]
  acked           \* client -> [req, err] of its last call, if that was a Write

vars == <<entries, acked>>

\* The last call of a client was not a Write
NoAck == [req |-> [op |-> "none"], err |-> "none"]

\* The entry an update of a write request stores
EntryOf(r, u) ==
  [source |-> r.source, edgeKind |-> u.edgeKind, factName |-> u.factName,
   target |-> u.target, factValue |-> u.factValue]

SameKey(e, f) ==
  e.source = f.source /\ e.edgeKind = f.edgeKind /\ e.factName = f.factName
  /\ e.target = f.target

\* Storing e replaces the entry with the same key
Put(es, e) == {f \in es : ~SameKey(e, f)} \cup {e}

Init ==
  /\ entries = InitEntries
  /\ acked = [c \in Clients |-> NoAck]

\* A Write of r by c returns err after the first k updates became durable
\* together; it succeeds only if they are all of its updates.
StoreWrite(c, r, k, err) ==
  /\ r.op = "write"
  /\ \A i \in 1..k : r.update[i].factName # <<>>
  /\ err = "none" => k = Len(r.update)
  /\ entries' = FoldLeft(Put, entries, [i \in 1..k |-> EntryOf(r, r.update[i])])
  /\ acked' = [acked EXCEPT ![c] = [req |-> r, err |-> err]]

\* Any other call of c returns, leaving the contents alone.
OtherCall(c) ==
  /\ acked' = [acked EXCEPT ![c] = NoAck]
  /\ UNCHANGED entries

Next ==
  \E c \in Clients :
    \/ \E r \in Requests, err \in {"none", "failed"} :
         \E k \in 0..Len(r.update) : StoreWrite(c, r, k, err)
    \/ OtherCall(c)

Spec == Init /\ [][Next]_vars

=============================================================================
