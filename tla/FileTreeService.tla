--------------------------- MODULE FileTreeService ---------------------------
(***************************************************************************)
(* The filetree Service served over HTTP, composed with Populate.          *)
(*                                                                         *)
(* Once Populate has returned nil, the tree is served: the /dir and        *)
(* /corpusRoots handlers (src/go/services/filetree/filetree.go 203-244)    *)
(* call a Service, either the populated Map or a serving Table            *)
(* (src/go/serving/filetree/filetree.go) over a lookup table written from *)
(* that Map in the documented format, and a caller uses the webClient     *)
(* (filetree.go 175-190, src/go/services/web/web.go 45-92).  One call is  *)
(* in flight at a time.  The connection may break before the handler      *)
(* reads the request or after it has answered; the handler may fail to    *)
(* read the body; a table lookup may fail when BackendFails.              *)
(*                                                                         *)
(* A reply is kept as [found |-> FALSE] for a nil pointer and             *)
(* [found |-> TRUE, reply |-> r] otherwise.  JSON encoding and decoding   *)
(* of the reply messages keep their strings (VName fields are UTF-8), so  *)
(* a JSON body is the reply itself, or null for a nil pointer.            *)
(***************************************************************************)
EXTENDS FileTreeIndex

CONSTANTS
  Backend,       \* the Service the handlers are registered with: "map" or "table"
  WebRequests    \* requests a webClient caller may make

VARIABLES
  net,      \* the HTTP exchange in flight
  handled,  \* what the handler's Service call returned for that exchange
  web       \* the webClient call: its request, and its result once returned

webVars == <<net, handled, web>>

NoMsg == [type |-> "none"]
NotHandled == [req |-> [method |-> "none"]]

-----------------------------------------------------------------------------
(* The serving Table (serving/filetree/filetree.go)                        *)

Nl == 10
DirTablePrefix == <<100, 105, 114, 115, 58>>              \* "dirs:"

\* CorpusRootsKey: "dirs:corpusRoots"
CorpusRootsKey == DirTablePrefix \o <<99, 111, 114, 112, 117, 115, 82, 111, 111, 116, 115>>

\* DirKey joining corpus, root and path with no separator
DirKeyNoSep(corpus, root, path) == DirTablePrefix \o corpus \o root \o path

\* DirKey: "dirs:" + corpus + "\n" + root + "\n" + path
DirKey(corpus, root, path) == DirTablePrefix \o corpus \o <<Nl>> \o root \o <<Nl>> \o path

\* The table of the documented format written from a Map: a FileDirectory
\* under the DirKey of each directory, and the CorpusRoots.
TableOf(m) ==
  LET dirs == UNION {UNION {{<<c, r, p>> : p \in DOMAIN m[c][r]} : r \in DOMAIN m[c]}
                     : c \in DOMAIN m}
      key(d) == DirKey(d[1], d[2], d[3])
      entry(d) == [subdirectory |-> m[d[1]][d[2]][d[3]].subdirectory,
                   fileTicket   |-> m[d[1]][d[2]][d[3]].file]
  IN [k \in {key(d) : d \in dirs} \cup {CorpusRootsKey} |->
        IF k = CorpusRootsKey
        THEN {[corpus |-> c, root |-> DOMAIN m[c]] : c \in DOMAIN m}
        ELSE entry(CHOOSE d \in dirs : key(d) = k)]

\* Table.Directory: a missing key is a nil reply, any other lookup error
\* an error.
TableDirectory(t, rq, lookupErr) ==
  LET k == DirKey(rq.corpus, rq.root, rq.path)
  IN CASE lookupErr            -> [err |-> TRUE]
       [] k \notin DOMAIN t    -> [err |-> FALSE, out |-> [found |-> FALSE]]
       [] OTHER                -> [err |-> FALSE, out |-> [found |-> TRUE,
                                     reply |-> [subdirectory |-> t[k].subdirectory,
                                                file |-> t[k].fileTicket]]]

\* Table.CorpusRoots: a missing key, or any lookup error, is an error.
TableCorpusRoots(t, lookupErr) ==
  IF lookupErr \/ CorpusRootsKey \notin DOMAIN t THEN [err |-> TRUE]
  ELSE [err |-> FALSE,
        out |-> [found |-> TRUE,
                 reply |-> UNION {{<<e.corpus, r>> : r \in e.root} : e \in t[CorpusRootsKey]}]]

\* Map.Directory and Map.CorpusRoots, which never fail
MapCall(rq) ==
  [err |-> FALSE,
   out |-> IF rq.method = "dir" THEN Directory(tree, rq.corpus, rq.root, rq.path)
           ELSE [found |-> TRUE, reply |-> CorpusRoots(tree)]]

TableCall(rq, lookupErr) ==
  IF rq.method = "dir" THEN TableDirectory(TableOf(tree), rq, lookupErr)
  ELSE TableCorpusRoots(TableOf(tree), lookupErr)

\* ft.Directory or ft.CorpusRoots of the Service the handlers were given
ServiceCall(rq, lookupErr) ==
  IF Backend = "map" THEN MapCall(rq) ELSE TableCall(rq, lookupErr)

LookupFaults == IF BackendFails THEN BOOLEAN ELSE {FALSE}

-----------------------------------------------------------------------------
(* HTTP                                                                    *)

\* The zero reply message a webClient call allocates
ZeroReply(rq) == IF rq.method = "dir" THEN EmptyReply ELSE {}

\* WriteResponse as JSON: a nil reply pointer is encoded as null.
WriteResponse(res) ==
  IF res.found THEN [isNull |-> FALSE, value |-> res.reply] ELSE [isNull |-> TRUE]

\* json.Unmarshal into the reply: null leaves it as allocated.
Unmarshal(body, rq) == IF body.isNull THEN ZeroReply(rq) ELSE body.value

\* The process serves the tree once Populate has returned nil.
Serving == pc[Populator] = "idle" /\ Populated /\ last[Populator].err = "none"

\* webClient.Directory / CorpusRoots: web.Call posts the JSON request.
WebCall ==
  /\ Serving
  /\ net = NoMsg
  /\ \E rq \in WebRequests :
       /\ net' = [type |-> "request", req |-> rq]
       /\ web' = [state |-> "waiting", req |-> rq]
  /\ handled' = NotHandled

\* The /dir or /corpusRoots handler: ReadJSONBody failing is a 400, an
\* error of the Service call a 500, and otherwise WriteResponse answers.
ServeRequest ==
  /\ net.type = "request"
  /\ \/ /\ net' = [type |-> "response", status |-> 400]
        /\ UNCHANGED handled
     \/ \E lookupErr \in LookupFaults :
          LET res == ServiceCall(net.req, lookupErr)
          IN /\ handled' = [req |-> net.req, res |-> res]
             /\ net' = IF res.err THEN [type |-> "response", status |-> 500]
                       ELSE [type |-> "response", status |-> 200,
                             body |-> WriteResponse(res.out)]
  /\ UNCHANGED web

\* webClient dropping web.Call's error
WebClientIgnoresError(callErr, reply) ==
  [state |-> "returned", req |-> web.req, err |-> FALSE,
   out |-> [found |-> TRUE, reply |-> reply]]

\* webClient returning a nil reply when web.Call fails
WebClientNilOnError(callErr, reply) ==
  [state |-> "returned", req |-> web.req, err |-> callErr,
   out |-> IF callErr THEN [found |-> FALSE] ELSE [found |-> TRUE, reply |-> reply]]

\* webClient returning &reply and web.Call's error, if any
WebClientReturn(callErr, reply) ==
  [state |-> "returned", req |-> web.req, err |-> callErr,
   out |-> [found |-> TRUE, reply |-> reply]]

\* http.Post or reading the response body fails: the connection broke
\* before the handler read the request or after it answered.  web.Call
\* returns that error before touching the reply.
ConnectionFails ==
  /\ net # NoMsg
  /\ net' = NoMsg
  /\ web' = WebClientReturn(TRUE, ZeroReply(web.req))
  /\ UNCHANGED handled

\* web.Call reads the response: a status other than 200 is an error, and
\* otherwise the body is unmarshalled into the reply.
ReceiveResponse ==
  /\ net.type = "response"
  /\ net' = NoMsg
  /\ web' = WebClientReturn(net.status # 200,
                            IF net.status = 200 THEN Unmarshal(net.body, web.req)
                            ELSE ZeroReply(web.req))
  /\ UNCHANGED handled

WebNext == WebCall \/ ServeRequest \/ ConnectionFails \/ ReceiveResponse

ServiceInit ==
  /\ IndexInit
  /\ net = NoMsg
  /\ handled = NotHandled
  /\ web = [state |-> "idle"]

ServiceNext ==
  \/ IndexNext /\ UNCHANGED webVars
  \/ WebNext /\ UNCHANGED <<vars, tree>>

ServiceSpec == ServiceInit /\ [][ServiceNext]_<<vars, tree, webVars>>

\* The Populator's Scan is scheduled, as in IndexFairSpec.
ServiceFairSpec == ServiceSpec /\ PopulatorFairness

-----------------------------------------------------------------------------
Bytes == Seq(0..255)
Tickets == {"kythe"} \X Bytes \X Bytes \X Bytes \X Bytes \X Bytes
DirectoryReplies == [subdirectory : Seq(Tickets), file : Seq(Tickets)]

\* The reply message of a request: a DirectoryReply, or the corpus and root
\* pairs of a CorpusRootsReply
ReplyValues(rq) ==
  IF rq.method = "dir" THEN DirectoryReplies ELSE SUBSET (Bytes \X Bytes)

\* What a Service call for rq returns: a reply message, or a nil pointer
Replies(rq) == [found : {FALSE}] \cup [found : {TRUE}, reply : ReplyValues(rq)]

\* The type of the filetree Map and of the HTTP exchange.  A webClient call
\* always returns &reply, a non-nil pointer, whether web.Call failed or not.
ServiceTypeOK ==
  /\ \A c \in DOMAIN tree : \A r \in DOMAIN tree[c] : \A p \in DOMAIN tree[c][r] :
       tree[c][r][p] \in DirectoryReplies
  /\ \/ web = [state |-> "idle"]
     \/ web \in [state : {"waiting"}, req : WebRequests]
     \/ /\ DOMAIN web = {"state", "req", "err", "out"}
        /\ web.state = "returned" /\ web.req \in WebRequests /\ web.err \in BOOLEAN
        /\ web.out \in [found : {TRUE}, reply : ReplyValues(web.req)]
  /\ \/ net = NoMsg
     \/ net \in [type : {"request"}, req : WebRequests]
     \/ net \in [type : {"response"}, status : {400, 500}]
     \/ /\ DOMAIN net = {"type", "status", "body"}
        /\ net.type = "response" /\ net.status = 200
        /\ \/ net.body = [isNull |-> TRUE]
           \/ net.body \in [isNull : {FALSE}, value : ReplyValues(web.req)]
  /\ \/ handled = NotHandled
     \/ /\ DOMAIN handled = {"req", "res"}
        /\ handled.req \in WebRequests
        /\ \/ handled.res = [err |-> TRUE]
           \/ handled.res \in [err : {FALSE}, out : Replies(handled.req)]

\* A serving Table over the table written from the populated Map answers
\* every request as the Map does: DirKey never gives two directories, or a
\* requested corpus, root and path and another directory, one key, and the
\* FileDirectory and CorpusRoots records convert to the same replies.
TableServesTree ==
  Serving => \A rq \in WebRequests : TableCall(rq, FALSE) = MapCall(rq)

\* A webClient call that returns no error carries the answer of the
\* handler's Service call for that very request: the request reached the
\* handler, the Service did not fail, and a reply it returned arrives whole
\* (not one of an earlier call, not the zero reply of a failed exchange).
RemoteSuccessIsServed ==
  web.state = "returned" /\ ~web.err =>
    /\ handled.req = web.req
    /\ ~handled.res.err
    /\ handled.res.out.found => web.out = handled.res.out

\* Spec section 6: an HTTP transport preserves the operation semantics, so
\* a webClient call that returns no error returns what the Service
\* returned, the nil reply for a directory the tree lacks included.
RemoteCallPreservesReply ==
  web.state = "returned" /\ ~web.err =>
    handled.req = web.req /\ web.out = handled.res.out

=============================================================================
