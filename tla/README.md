# TLA+ models of the keyvalue GraphStore and its clients

These modules model the core of this repository, the keyvalue `Store` in
`src/go/storage/keyvalue/keyvalue.go`. The `Store` keeps graph entries
`(source, edge kind, fact name, target) -> value` in a sorted key-value DB. It
serves `Read`, `Scan` and `Write`, and it serves `Count` and `Shard` through a
cached shard planner. The file-tree service builds its in-memory directory
tree by scanning a GraphStore, and the vnameutil rules rewrite paths into
VNames. TLC checks the modules with small constants.

## The system and its parts

| Part | Source | Module | Status |
|------|--------|--------|--------|
| C1 identifier codec `encodeVName`/`decodeVName` | keyvalue.go 485-521 | `KeyCodec` | modelled |
| C2 entry key codec `EncodeKey`, `KeyPrefix`, `Entry`, `sourceKindPrefix` | keyvalue.go 358-361, 383-483 | `KeyCodec` | modelled |
| C3 backend `DB`, `Iterator`, `Writer`, `Snapshot` | keyvalue.go 60-128 (interfaces) | `GraphStore` (backend section) | partly |
| C4 entry store `Read`, `Scan`, `Write`, `streamEntries`, `Close` | keyvalue.go 130-225 | `GraphStore`, refining `EntryStore` | modelled |
| C5 shard planner `constructShards`, `Count` | keyvalue.go 227-240, 268-356 | `ShardWalk`, `ShardPlanner`, `GraphStore` | modelled |
| C6 shard reader `Shard` | keyvalue.go 242-266 | `ShardWalk`, `GraphStore` | modelled |
| C7 scan filter `graphstore.EntryMatchesScan` | not under src/ (spec section 4.7) | `GraphStore` | modelled (from the spec, `EntryMatchesScan` being outside src/) |
| file-tree `Map` (NewMap, Populate, AddFile, ensureDir, Directory, CorpusRoots) | services/filetree/filetree.go 64-173 | `FileTree`, `FileTreeIndex` | modelled |
| file-tree webClient, HTTP handlers | services/filetree/filetree.go 175-244 | `FileTreeService` | partly (no gRPC client, no protobuf responses) |
| serving file-tree `Table` (Directory, CorpusRoots, DirKey) | serving/filetree/filetree.go 17-88 | `FileTreeService` | modelled |
| web helpers `Call`, `ReadJSONBody`, `WriteResponse` | services/web/web.go 43-92 | `FileTreeService` | partly |
| VName rewrite rules (ParseRules, Rule/Rules.Apply, ApplyDefault) | storage/vnameutil/rewrite.go | `VNameRewrite` | modelled (regexp subset) |
| flag helpers, generated protos | flagutil.go, filetree.pb.go | none | CLI printing and exit; generated code |

How the parts interact:

- Every call of the store builds or parses keys with C1 and C2. Entries appear
  in the byte order of their keys.
- Read and Scan open a backend iterator and stream it to a callback. The
  callback can continue, stop with `io.EOF`, or fail.
- Write opens a backend Writer. It buffers one put per update and commits the
  buffer in a deferred `Close`, even when an update fails.
- Count and Shard call `constructShards(num)` under `shardMu`:
  - If a table for `num` is cached, it is returned with its snapshot.
  - Otherwise the call takes a snapshot and opens `num` iterators on it. The
    iterators walk the snapshot in staggered steps of (source, edge kind)
    groups until one of them reaches `io.EOF`. The call then fixes up the
    border shards and caches the table and snapshot.
- Shard streams the range of its shard from the cached snapshot. It streams
  nothing if the shard's count is 0.
- `Store.Close` closes the DB and nothing else.
- `Map.Populate` is a client of the store: it runs one `Scan` with fact
  prefix `/kythe/node/kind` and its callback calls `AddFile` for each entry
  whose fact is exactly the kind fact with value `file`. `AddFile` creates the
  file's directory with `ensureDir`, which creates every missing ancestor up
  to `/` and lists each directory in its parent.
- Once Populate has returned nil, the tree is served. `RegisterHTTPHandlers`
  registers `/dir` and `/corpusRoots` with a Service: the `Map` itself, or a
  serving `Table` over a lookup table written from it. That table holds a
  `FileDirectory` under `DirKey(corpus, root, path)` = `dirs:` + corpus + `\n`
  + root + `\n` + path, and the `CorpusRoots` under `dirs:corpusRoots`. A
  remote caller uses the `webClient`, whose `web.Call` posts the request as
  JSON and decodes the JSON answer into a reply it allocated.
- The vnameutil rules are independent of the store: `ParseRules` decodes a
  JSON rule list, anchoring each pattern and rewriting `@n@` template markers
  to `${n}`, and `ApplyDefault` returns the VName of the first matching rule.

## Modules

- **`KeyCodec`** holds the codecs as operators.
  - A Go string is a sequence of byte values, and a `*spb.VName` is a record
    of five byte strings or the model value `NilVName`.
  - A function that can fail returns `[err, val]`. Its checks come in the
    order of the code's early returns, so `EncodeKey` rejects a missing source
    before it looks at separators.
- **`ShardWalk`** holds the walker of `constructShards` as pure operators.
  - An iterator is represented by its position: the number of keys its `Next`
    calls have returned. Each returned key does `count++; End = k`, so the
    walker's counts and ends are exactly the positions.
  - `GroupStep` is one (source, edge kind) group step of lines 308-333: the
    first `Next` and the inner loop. It includes the key that leaves the group,
    which the loop consumes.
  - `Walk` is the round robin of lines 302-336. The iterator that hits
    `io.EOF` has returned every key.
  - `ShardTable` is the fix-up and differencing of lines 338-351.
  - `ShardKeys` is the set of keys that `Shard` streams: nothing when the
    count is 0 (line 254), otherwise the keys of the range.
- **`ShardPlanner`** models one Count or Shard call on a store with an empty
  cache, planned over any snapshot drawn from a set of keys. Its properties
  are spec Properties 5-7 stated over the table.
- **`GraphStore`** models the whole `Store` with a set of concurrent clients
  (goroutines):
  - A call is one action up to its first suspension point, where an iterator
    or a Writer is opened. After that, each `Next` or each loop iteration is
    one action (`StreamNext`, `ScanNext`, `WriteNext`). The step that returns
    includes the deferred `Close`.
  - `constructShards` is one action inside `Count`/`Shard`. It holds
    `shardMu` and reads only its own snapshot, so no other goroutine can
    observe its intermediate steps.
  - `PlanOutcomes` enumerates its endings: the cached table; success, which
    leaks `num` iterators; or a backend error after `m` iterators were opened,
    which closes the snapshot and publishes nothing.
  - The backend is the one the code is written against, goleveldb-like: an
    iterator sees the DB as of its opening (`view`); a Writer's puts become
    visible at `Close`; with `BackendFails`, any backend call may return an
    error.
  - `openIters` counts iterators that were opened and not closed. `snaps`
    records every snapshot taken and whether it is still open.
  - `Close` is enabled once every client is idle; no call starts after it
    (the code leaves a call after `Close` to the backend's error).
  - `IterOver` decodes every entry when the iterator is opened. This is the
    same `Entry` result the loop computes; it keeps TLC's evaluation of the
    fairness condition cheap.
- **`EntryStore`** is the abstract store of spec sections 3, 4.4 and 9. It
  is written from the spec, not the code.
  - Its state is the set of stored entries, and for each client the result
    of its last call if that call was a Write.
  - `StoreWrite` stores, in one step, a prefix of a request's updates, each
    with a fact name. A Write that returns no error stores all of them.
  - Every other call only resets its client's acknowledgement.
  - `GraphStore` instantiates it as `AbstractStore`. The refinement mapping
    decodes the DB's keys (`Entries(db)`) and reduces each client's last
    result to the Write and whether it failed.
  - `KeyEntry` decodes each key that the DB can hold once, at the constant
    level. Otherwise TLC's evaluation of the primed mapping recomputes every
    decoding.
- **`FileTree`** holds `Map` as operators. `M` is a function corpus -> root
  -> path -> reply, and a reply is a record of two ticket sequences.
  - Paths are byte strings. `filepath.Join("/", p)`, `Clean` and `Dir` are
    modelled by what they do: split at `/`, drop empty and `.` names, and
    let `..` remove the name before it.
  - `ensureDir` is RECURSIVE, in the code's order: create the directory,
    ensure the parent, then add the directory's URI to the parent.
  - Tickets come from `kytheuri`, which is not under `src/`. They are
    modelled as an injective tuple.
  - `Browse` is the set of directories that a client reaches from `/` by
    following `Directory` replies.
- **`FileTreeIndex`** composes `GraphStore` and `FileTree`. One client,
  `Populator`, runs `Populate`, and the other clients write and read.
  - `PopulateStart` is the `Scan` call.
  - `PopulateNext` is a `ScanNext` step of that Scan.
  - The tree is updated with the callback's `AddFile` calls, in order, at the
    step where the Scan returns. Nothing reads the `Map` while it is
    populated, so where the additions happen inside the Scan is not
    observable.
- **`FileTreeService`** composes `FileTreeIndex` with the HTTP transport.
  Its variables are `net`, the exchange in flight; `handled`, what the
  handler's Service call returned for it; and `web`, the webClient call.
  - `WebCall` is `webClient.Directory`/`CorpusRoots` posting a request,
    enabled once Populate has returned nil.
  - `ServeRequest` is the handler. A `ReadJSONBody` error answers 400. An
    error of the Service call answers 500. Otherwise `WriteResponse`
    encodes the reply, and a nil reply is encoded as `null`.
  - `ConnectionFails` is `http.Post` or the body read failing, before the
    handler ran or after it answered. A `WriteResponse` error, which the
    handler only logs, reaches the client this way.
  - `ReceiveResponse` is the rest of `web.Call`: a status other than 200 is
    an error; otherwise the body is unmarshalled, and `null` leaves the
    allocated reply as it is.
  - `TableDirectory` and `TableCorpusRoots` are the `Table` methods. A table
    lookup may fail when `BackendFails`.
- **`VNameRewrite`** holds the rewrite rules.
  - Patterns are a subset of RE2: alternatives of literal bytes and `.`,
    each alternative optionally led by `^` and ended by `$`.
  - Matching is leftmost-first, as Go's `regexp` does it: the earliest
    start, then the first alternative that matches there. The only group is
    group 0, the whole match.
  - `Expand` is `regexp.ExpandString`:
    - `$$` is `$`.
    - `$name` and `${name}` insert a group.
    - A malformed `$` is copied.
  - The spec parses a rule list (`Init`) and applies `ApplyDefault` to
    inputs (`Apply`).
- **`MCGraphStore`**, **`MCShardPlanner`**, **`MCFileTreeService`** and
  **`MCVNameRewrite`** give the constants for TLC.

## Runs

| Run | Config | Expect | What it shows |
|-----|--------|--------|---------------|
| store | `MCGraphStore.cfg` | pass | Two clients interleave 2 calls each from 9 requests: writes to two sources whose encodings are prefixes of each other, a partially failing batch, reads, a scan, counts (one invalid) and a shard read. `ReadReturnsMatching`: a Read that runs to EOF returns exactly its source's and kind's entries, once each. `ImplementsEntryStore == AbstractStore!Spec`: the decoded DB changes only by a committed prefix of one Write's updates, in batch order, all of them when the Write returns nil. 122,303 states. |
| store_failures | `MCGraphStoreFail.cfg` | pass | Every backend call may fail, and the DB holds a foreign key `entry:x`. The GraphStore type invariant is checked in `store` only. `CachedSnapshotsOpen`: a failed `constructShards` never leaves a cached table over a closed snapshot. `ImplementsEntryStore` with failures: a Write whose Writer, put or deferred Close fails leaves a prefix of its batch, in order, and never reports success without all of it. 205,383 states. |
| iterators_released | `MCGraphStore_IteratorsReleased.cfg` | violation | A single Count leaves its two walker iterators open (spec section 5). |
| canonical_order | `MCGraphStore_ReadInCanonicalOrder.cfg` | violation | An edge with a tab in its kind is read before the source's node fact, against spec section 3. |
| snapshots_released_on_close | `MCGraphStore_SnapshotsReleasedOnClose.cfg` | violation | After a Count and `Store.Close`, the snapshot cached by the shard planner is still open, against spec section 5. |
| filetree_service | `MCFileTreeService.cfg` | pass | A writer commits file and non-file node facts (one under a `K`-prefixed fact name, one with path `d/../g`) while `Populate` scans, and backend calls may fail. The tree is then served from a `Table` whose lookups may fail, over connections that may break. `ServiceTypeOK`: the Map, the exchange and the webClient's result have their types, and the webClient always returns a non-nil reply. `PopulateIndexesItsView`: after Populate returns, the tree lists exactly the file nodes of its Scan's view, or a subset if the Scan failed. `TreeBrowsableAfterPopulate`: every directory is reachable from its root's `/`, and so is every listed file of the view. `TableServesTree`: the Table answers the requests as the Map does, including requests whose corpus holds `\n` or whose corpus is shifted into the root. `RemoteSuccessIsServed`: a webClient call without error carries the handler's successful answer to that same request; a broken connection and a 400 or 500 both reach the caller as errors. `PopulateReturns`: a started Populate returns, under weak fairness of the Populator. 15,383 states. |
| transport_nil_reply | `MCFileTreeService_Transport.cfg` | violation | Served from the `Map`, `/dir` for a missing directory answers `null`. The webClient returns an empty reply and no error where the Map returns nil. Spec section 6 requires a transport to preserve the operation semantics (`RemoteCallPreservesReply`). |
| rewrite_templates | `MCVNameRewrite.cfg` | pass | One or two rules with the patterns `a.`, `.b` and `^b$`, every corpus template of up to 4 bytes over `$ @ 0 a { }`, and the inputs `ab`, `b`, `ba`. `RewriteAsDocumented`: the first rule whose pattern matches the whole input applies, with `@0@` replaced by the input and every other byte, `$` included, kept. 74,640 states. |
| rewrite_alternation | `MCVNameRewrite_Alternation.cfg` | violation | The pattern `a|.b` becomes `^a|.b$`, and `^` binds only `a`. Applied to `ab`, the rule matches `a`, and `@0@1` expands to `a1` instead of `ab1`. |
| planner_count_conservation | `MCShardPlanner_CountConservation.cfg` | violation | The shard counts do not add up to the entry count (Property 7). They add up to the last iterator's position plus one: for an empty snapshot and 2 shards the counts are -1 and 2. |
| planner_coverage | `MCShardPlanner_ShardsCoverSnapshot.cfg` | violation | A shard with count 0 but a non-empty range loses entries (Property 5). |
| planner_group_integrity | `MCShardPlanner_GroupIntegrity.cfg` | violation | A group is split between two shards (Property 6): with 3 shards and one group of two keys, the first iterator reaches EOF on the group's second key, so shard 1 starts inside the group. The second iterator never ran, so the last shard starts at nil and streams the whole group again. |

Each property of a passing run has a mutant in `PROJECT.json`, and each mutant
is a plausible bug that TLC finds:

- a double `Close` of an iterator;
- `KeyPrefix` without the separator after the source;
- a table published after a failed walk;
- the Populate callback accepting any fact with value `file`;
- `ensureDir` creating only one missing ancestor;
- a Scan `continue` that does not advance the iterator;
- `Write` dropping the error of its deferred `wr.Close()`;
- `DirKey` joining its fields without the `\n` separator;
- the webClient dropping `web.Call`'s error;
- the webClient returning a nil reply when `web.Call` fails (idiomatic Go, but not this code);
- `fixTemplate` without the `$` to `$$` escape;
- `toRule` dropping the Signature template;
- `encodeVName` leaving out the language field, so that two sources collide
  and no key decodes.

### Bounds

- Store runs:
  - 2 clients and 2 calls each. That is enough for a Write to commit while
    another client's Read, Scan or Shard iterates, and for two Writes to
    commit in either order.
  - The sources `A` and `A` with language `x` encode to `A\0\0\0\0` and
    `A\0\0\0\0x`: one is a prefix of the other, which is what a missing
    separator would expose.
- Planner runs:
  - Three sources, each with two node facts (a group of two) and one edge.
  - Every subset of these 9 keys is tried, with 1 to 4 shards.
  - This includes the spec's scenario shape and groups that straddle the
    stagger.

- File-tree runs:
  - A writer with 2 calls from 4 node writes covers four cases:
    - a file;
    - a file under a `..` path;
    - a `file` value under a longer fact name;
    - a directory kind.
  - One file is stored before the run starts.
  - Populate makes its one call, so its Scan can interleave with either
    write.
  - Five webClient requests: `/d/e`, which exists once a file under it is
    indexed; `/x`, which does not; corpus `""` with root `c`, whose key
    collides with `/` of corpus `c` if the separators are dropped; corpus
    `c\n`; and the corpus roots. One call is in flight at a time, so each
    answer can only belong to its own request. That is what the webClient
    does: it waits for its answer.
- Rewrite runs:
  - Templates of up to 4 bytes include every way a `$` can meet a marker
    (`$@0@`, `${0}`, `$$`, `@00@`).
  - Inputs of 1 and 2 bytes are enough for two rules to match the same input
    and for an alternative to match a proper prefix.

### Fairness

The store runs check only safety. The Store has no background work. Every
call runs on its caller's goroutine and ends when the backend and the callback
return, and the code bounds neither. The store runs end in `Terminated` once
every client has made its calls or the store is closed, so deadlock checking
stays on.

`filetree_service` checks `PopulateReturns` under `PopulatorFairness`, weak
fairness of the Populator's Scan steps other than backend errors:

- The goroutine running `Populate` is scheduled by the Go runtime.
- The only waits of its loop are the iterator's `Next` and the callback,
  which returns at once.
- Backend errors are left out of the fair action. Fairness of the whole
  `ScanNext` would oblige the backend to fail whenever the loop makes no
  other progress, and the run would then say nothing about a loop that stops
  advancing.

No fairness is assumed for the HTTP exchange. `web.Call` uses `http.Post`
with no timeout, and the webClient ignores its context, so a caller of a
server that never answers waits forever (a hazard in `PROJECT.json`).

## Not modelled, and the plan

Not modelled:

- The JSON decoding of rule files. The model starts from the decoded
  records.
- Regular expressions beyond the subset above. The anchoring finding needs
  only alternation.
- `Populate`'s logging and its `total` counter, which only appears in a log
  line.
- `Options` accessors: they are pure getters.
- The gRPC client `grpcClient`: it forwards each call to the generated stub
  and has no logic of its own.
- `WriteProtoResponse`, `Arg` and `ArgOrNil`: the protobuf answer for the
  `proto` query parameter, which the webClient never sets.
- `RegisterQuitHandler` (`os.Exit`) and the flag helpers, which print usage
  text and exit.
- The generated protocol buffers. Their messages are the records of
  `FileTree` and `FileTreeService`.
- The writer of the serving table, which is not in this repository. The
  model writes the table in the format the package comment documents.

What the model does not settle:

- Cancellation. Every `Store` method and the webClient take a
  `context.Context` and none of them reads it. `web.Call` posts with
  `http.Post`, which has no timeout. Spec section 5 says a carried
  cancellation is honored at the next suspension point. So a cancelled Scan
  runs to its end, and a caller of a server that never answers waits
  forever. Both are listed as hazards; no run checks them, since the models
  have no context to cancel.
- Whether a shard table should see later writes. `constructShards` caches
  each table with its snapshot, and `Count` and `Shard` reuse them for the
  life of the store. Spec section 3 says a table is never mutated after
  publication, and Property 8 says two plans for the same number of shards
  return the same table. The TODO at the top of `Store.Write`
  (keyvalue.go:168) says the opposite: shardTables should be fixed to include
  new entries. The code does what the spec says, and a property either way
  would take one side of an open question, so the project checks neither. The
  hazard is listed at keyvalue.go:168.
- The race on the shard cache. `shardMu` is held for the whole of
  `constructShards`, so the model plans and publishes in one step, and no
  interleaving inside the lock exists to check.
- Calls after `Store.Close`. The model's `Close` waits until every client is
  idle. The code does not wait: a call still running, or made later, uses a
  closed DB. What a closed backend then returns is up to the backend, which is
  not in this repository.
