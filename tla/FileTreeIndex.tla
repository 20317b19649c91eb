---------------------------- MODULE FileTreeIndex ----------------------------
(***************************************************************************)
(* filetree.Map.Populate over the keyvalue Store                           *)
(* (src/go/services/filetree/filetree.go, lines 75-100): one client,       *)
(* Populator, scans the store for node-kind facts into a new Map while the *)
(* other clients keep calling the store.                                   *)
(*                                                                         *)
(* The Scan is GraphStore's, step by step.  Populate's callback only       *)
(* changes the Map, which no other goroutine reads while Populate runs, so *)
(* the AddFile calls of the callback are applied, in callback order, in    *)
(* the step in which the Scan returns.  The callback always returns nil.   *)
(***************************************************************************)
EXTENDS GraphStore, FileTree

CONSTANTS
  Populator,      \* the client that runs Populate
  NodeKindFact,   \* schema.NodeKindFact
  FileKind        \* schema.FileKind

VARIABLE tree     \* the filetree.Map that Populate fills

\* &spb.ScanRequest{FactPrefix: schema.NodeKindFact}
PopulateRequest == [op |-> "scan", source |-> NilVName, edgeKind |-> <<>>,
                    target |-> NilVName, factPrefix |-> NodeKindFact,
                    update |-> <<>>, shards |-> 0, index |-> 0]

\* The callback checking only the fact prefix the Scan already matched
AddFileEntryAnyKindFact(m, e) ==
  IF e.factValue = FileKind THEN AddFileTo(m, e.source) ELSE m

\* Populate's callback: a file node is added to the Map.
AddFileEntry(m, e) ==
  IF e.factName = NodeKindFact /\ e.factValue = FileKind
  THEN AddFileTo(m, e.source) ELSE m

\* Populate: the Scan starts on a new Map (NewMap).
PopulateStart ==
  /\ calls[Populator] = 0
  /\ Scan(Populator, PopulateRequest)
  /\ UNCHANGED <<tree, closed>>

\* One step of Populate's Scan; when the Scan returns, the entries it
\* passed to the callback have been added to the Map.
PopulateNext ==
  /\ ScanNext(Populator)
  /\ UNCHANGED closed
  /\ ~last'[Populator].halted
  /\ last'[Populator].err # "ConsumerError"
  /\ tree' = IF pc'[Populator] = "idle"
             THEN FoldLeft(AddFileEntry, tree, last'[Populator].out)
             ELSE tree

IndexInit == Init /\ tree = <<>>

IndexNext ==
  \/ PopulateStart
  \/ PopulateNext
  \/ /\ \E c \in Clients \ {Populator}, r \in Requests :
           Read(c, r) \/ Scan(c, r) \/ Write(c, r) \/ Count(c, r) \/ Shard(c, r)
     /\ UNCHANGED <<tree, closed>>
  \/ /\ \E c \in Clients \ {Populator} : StreamNext(c) \/ ScanNext(c) \/ WriteNext(c)
     /\ UNCHANGED <<tree, closed>>
  \/ /\ \A c \in Clients : pc[c] = "idle"
     /\ calls[Populator] = 1
     /\ \A c \in Clients \ {Populator} : calls[c] = MaxCalls
     /\ UNCHANGED <<vars, tree>>

IndexSpec == IndexInit /\ [][IndexNext]_<<vars, tree>>

\* The Populator's goroutine, while its Scan runs, is scheduled: weak
\* fairness of its Scan's steps other than a backend error (the goroutine
\* runs, but nothing obliges the DB to fail).  Every PopulateNext step is
\* one of them; the Map, which only the last one changes, is left out of
\* the subscript.
PopulatorFairness ==
  WF_vars(ScanNext(Populator) /\ UNCHANGED closed
            /\ last'[Populator].err \notin BackendErrors)

IndexFairSpec == IndexSpec /\ PopulatorFairness

-----------------------------------------------------------------------------
\* A Populate that has begun returns: its Scan moves past every entry,
\* skipped ones included, until io.EOF or an error.
PopulateReturns == pc[Populator] = "scan" ~> pc[Populator] = "idle"

\* The outcome of the Populate call, once it has returned
Populated == last[Populator].req = PopulateRequest

\* The tickets of the file nodes stored in a DB view
FileNodeTickets(data) ==
  {FileTicket(e.source) : e \in {e \in Entries(data) :
                                   e.factName = NodeKindFact /\ e.factValue = FileKind}}

\* The tickets the Map lists as files
ListedFiles(m) ==
  UNION {UNION {UNION {Range(m[c][r][p].file) : p \in DOMAIN m[c][r]} : r \in DOMAIN m[c]}
         : c \in DOMAIN m}

\* Populate indexes exactly the file nodes of the view its Scan iterator
\* reads: all of them when it returns nil, a subset when the Scan fails
\* midway (the Map keeps what was added), never a file written after the
\* Scan began or a fact that only shares the node-kind prefix.
PopulateIndexesItsView ==
  Populated =>
    /\ ListedFiles(tree) \subseteq FileNodeTickets(last[Populator].view)
    /\ last[Populator].err = "none" =>
         ListedFiles(tree) = FileNodeTickets(last[Populator].view)

\* Every file the Map lists, and every directory it holds, is reached by a
\* client browsing from "/" of its corpus and root (ensureDir creates and
\* links every missing ancestor of a file's directory).
TreeBrowsableAfterPopulate ==
  /\ TreeBrowsable(tree)
  /\ \A e \in Entries(last[Populator].view) :
       FileTicket(e.source) \in ListedFiles(tree) => Browsable(tree, e.source)

=============================================================================
