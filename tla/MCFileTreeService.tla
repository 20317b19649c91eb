-------------------------- MODULE MCFileTreeService --------------------------
(***************************************************************************)
(* FileTreeService for TLC: a file node already stored three directories   *)
(* deep, and a writer adding a file whose path holds "..", a fact that     *)
(* only shares the node-kind prefix, and a node of another kind, while     *)
(* the Populator scans; then webClient calls for directories the tree      *)
(* holds, one it lacks, two whose fields hold the DirKey separator or      *)
(* shift a corpus into the root, and the corpus roots.                     *)
(***************************************************************************)
EXTENDS FileTreeService

KindFact == <<75>>                \* "K": the node-kind fact
KindFactExt == <<75, 75>>         \* "KK": shares the prefix
Corpus == <<99>>                  \* "c"

File(path) == [signature |-> <<>>, corpus |-> Corpus, root |-> <<>>,
               path |-> path, language |-> <<>>]
F0 == File(<<100, 47, 101, 47, 102>>)       \* "d/e/f"
F1 == File(<<100, 47, 46, 46, 47, 103>>)    \* "d/../g"
F2 == File(<<100, 47, 101, 47, 104>>)       \* "d/e/h"

NodeWrite(f, fact, kind) ==
  [op |-> "write", source |-> f, edgeKind |-> <<>>, target |-> NilVName,
   factPrefix |-> <<>>, shards |-> 0, index |-> 0,
   update |-> <<[factName |-> fact, edgeKind |-> <<>>, target |-> NilVName,
                 factValue |-> kind]>>]

WriterRequests ==
  { NodeWrite(F1, KindFact, "file"),
    NodeWrite(F2, KindFactExt, "file"),
    NodeWrite(F2, KindFact, "dir"),
    NodeWrite(F1, <<76>>, "file") }

StoredFile == EncodeKey(F0, KindFact, <<>>, NilVName).val :> "file"

DirRequest(corpus, root, path) ==
  [method |-> "dir", corpus |-> corpus, root |-> root, path |-> path]

ServiceRequests ==
  { DirRequest(Corpus, <<>>, <<47, 100, 47, 101>>),   \* "/d/e"
    DirRequest(Corpus, <<>>, <<47, 120>>),            \* "/x": missing
    DirRequest(<<>>, Corpus, <<47>>),                 \* corpus "", root "c"
    DirRequest(<<99, 10>>, <<>>, <<47>>),             \* corpus "c\n"
    [method |-> "corpusRoots"] }

=============================================================================
