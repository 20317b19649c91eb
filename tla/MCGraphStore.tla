---------------------------- MODULE MCGraphStore ----------------------------
(***************************************************************************)
(* GraphStore instantiated for TLC: two clients, two sources whose         *)
(* encodings are prefixes of one another, and requests exercising every    *)
(* operation.                                                              *)
(***************************************************************************)
EXTENDS GraphStore

\* A VName with the given signature and language, other fields empty
VN(sig, lang) == [signature |-> sig, corpus |-> <<>>, root |-> <<>>,
                  path |-> <<>>, language |-> lang]
VA  == VN(<<65>>, <<>>)          \* "A" \0 \0 \0 \0
VAx == VN(<<65>>, <<120>>)       \* "A" \0 \0 \0 \0 "x"

FactK == <<75>>
FactL == <<76>>
KindR == <<82>>
KindTab == <<9>>                 \* an edge kind holding a tab, below '\n'

Upd(f, k, t) == [factName |-> f, edgeKind |-> k, target |-> t, factValue |-> "v"]

Req(op) == [op |-> op, source |-> NilVName, edgeKind |-> <<>>, target |-> NilVName,
            factPrefix |-> <<>>, update |-> <<>>, shards |-> 0, index |-> 0]
WriteReq(s, us) == [Req("write") EXCEPT !.source = s, !.update = us]
ReadReq(s, k) == [Req("read") EXCEPT !.source = s, !.edgeKind = k]
ScanReq(p) == [Req("scan") EXCEPT !.factPrefix = p]
ShardReq(op, n, i) == [Req(op) EXCEPT !.shards = n, !.index = i]

\* Writes of a node fact to each source, and a batch whose second update
\* lacks a fact name (the first is committed by the deferred Close).
MainRequests ==
  { WriteReq(VA, <<Upd(FactK, <<>>, NilVName)>>),
    WriteReq(VAx, <<Upd(FactK, <<>>, NilVName)>>),
    WriteReq(VA, <<Upd(FactL, KindR, VAx), Upd(<<>>, <<>>, NilVName)>>),
    ReadReq(VA, AnyEdgeKind),
    ReadReq(VA, <<>>),
    ScanReq(FactK),
    ShardReq("count", 2, 0),
    ShardReq("count", 2, 2),
    ShardReq("shard", 2, 1) }

\* Writes for the ordering question: a node fact and an edge whose kind
\* holds a byte below the key separator.
TabRequests ==
  { WriteReq(VA, <<Upd(FactK, <<>>, NilVName)>>),
    WriteReq(VA, <<Upd(FactL, KindTab, VA)>>),
    ReadReq(VA, AnyEdgeKind) }

\* A backend with failing calls, a foreign key "entry:x" in the entry key
\* space, requests reaching every early return, and a batch that can only
\* fail in the backend.
FailRequests ==
  { WriteReq(VA, <<Upd(FactL, KindR, VAx), Upd(<<>>, <<>>, NilVName)>>),
    WriteReq(VAx, <<Upd(FactK, <<>>, NilVName)>>),
    ReadReq(NilVName, AnyEdgeKind),
    ScanReq(FactK),
    ShardReq("count", 2, 2),
    ShardReq("shard", 2, 2),
    ShardReq("shard", 1, 0) }

EmptyDB == <<>>
ForeignDB == (EntryKeyPrefix \o <<120>>) :> "v"

=============================================================================
