------------------------------ MODULE FileTree ------------------------------
(***************************************************************************)
(* The in-memory file tree filetree.Map                                    *)
(* (src/go/services/filetree/filetree.go, lines 64-173).                   *)
(*                                                                         *)
(* M is corpus -> root -> directory path -> DirectoryReply, as in the      *)
(* code; a DirectoryReply is a record of two sequences of URI tickets.     *)
(* Corpora, roots and paths are byte strings.  Paths are converted by      *)
(* filepath.Join, Clean and Dir as those functions do on rooted Unix       *)
(* paths: split at '/', drop empty and "." elements, let ".." remove the   *)
(* element before it (or nothing at the root).                             *)
(***************************************************************************)
EXTENDS Naturals, Sequences, SequencesExt, FiniteSets

Slash == 47
DotName == <<46>>
DotDotName == <<46, 46>>

\* "/": the path of a root directory
RootDir == <<Slash>>

\* filepath.Clean of a rooted path, as its sequence of names
CleanNames(s) ==
  LET step(names, elem) ==
        CASE elem \in {<<>>, DotName} -> names
          [] elem = DotDotName        -> IF names = <<>> THEN names ELSE Front(names)
          [] OTHER                    -> Append(names, elem)
      \* strings.Split(s, "/"): one part more than s has slashes
      split == LET RECURSIVE parts(_)
                   parts(t) == LET i == SelectInSeq(t, LAMBDA b : b = Slash)
                               IN IF i = 0 THEN <<t>>
                                  ELSE <<SubSeq(t, 1, i - 1)>> \o parts(SubSeq(t, i + 1, Len(t)))
               IN parts(s)
  IN FoldLeft(step, <<>>, split)

\* The rooted path string of a sequence of names
PathString(names) ==
  IF names = <<>> THEN RootDir
  ELSE FoldLeft(LAMBDA acc, n : acc \o <<Slash>> \o n, <<>>, names)

\* filepath.Join("/", p)
JoinRoot(p) == PathString(CleanNames(RootDir \o p))

\* filepath.Dir of a rooted path: Clean of everything up to the last '/'
DirOf(p) == PathString(CleanNames(SubSeq(p, 1, SelectLastInSeq(p, LAMBDA b : b = Slash))))

\* kytheuri.URI{...}.String() and kytheuri.ToString(v) (kytheuri is not
\* under src/): an injective encoding of corpus, root, path, signature
\* and language.
URI(corpus, root, path, sig, lang) == <<"kythe", corpus, root, path, sig, lang>>
FileTicket(v) == URI(v.corpus, v.root, v.path, v.signature, v.language)
DirTicket(corpus, root, path) == URI(corpus, root, path, <<>>, <<>>)
TicketPath(t) == t[4]

\* &ftpb.DirectoryReply{}
EmptyReply == [subdirectory |-> <<>>, file |-> <<>>]

\* addToSet: append str unless strs already holds it
addToSet(strs, str) == IF Contains(strs, str) THEN strs ELSE Append(strs, str)

\* ensureCorpusRoot: create the corpus and root maps that are missing
ensureCorpusRoot(m, corpus, root) ==
  LET m1 == IF corpus \in DOMAIN m THEN m ELSE (corpus :> <<>>) @@ m
  IN IF root \in DOMAIN m1[corpus] THEN m1
     ELSE [m1 EXCEPT ![corpus] = (root :> <<>>) @@ @]

\* ensureDir creating a missing parent directly instead of by recursion
ensureDirOneLevel(m, corpus, root, path) ==
  LET m0 == ensureCorpusRoot(m, corpus, root)
      m1 == [m0 EXCEPT ![corpus][root] = (path :> EmptyReply) @@ @]
      parent == DirOf(path)
      m2 == IF parent \in DOMAIN m1[corpus][root] THEN m1
            ELSE [m1 EXCEPT ![corpus][root] = (parent :> EmptyReply) @@ @]
  IN IF path \in DOMAIN m0[corpus][root] THEN m0
     ELSE IF path = RootDir THEN m1
     ELSE [m2 EXCEPT ![corpus][root][parent].subdirectory =
                       addToSet(@, DirTicket(corpus, root, path))]

\* ensureDir: a missing directory is created, then its parent is ensured
\* and lists the directory's URI.
RECURSIVE ensureDir(_, _, _, _)
ensureDir(m, corpus, root, path) ==
  LET m0 == ensureCorpusRoot(m, corpus, root)
      m1 == [m0 EXCEPT ![corpus][root] = (path :> EmptyReply) @@ @]
      parent == DirOf(path)
  IN IF path \in DOMAIN m0[corpus][root] THEN m0
     ELSE IF path = RootDir THEN m1
     ELSE LET m2 == ensureDir(m1, corpus, root, parent)
          IN [m2 EXCEPT ![corpus][root][parent].subdirectory =
                          addToSet(@, DirTicket(corpus, root, path))]

\* Map.AddFile: the file's ticket is added to the directory of its path.
AddFileTo(m, file) ==
  LET dir == DirOf(JoinRoot(file.path))
      m1 == ensureDir(m, file.corpus, file.root, dir)
  IN [m1 EXCEPT ![file.corpus][file.root][dir].file = addToSet(@, FileTicket(file))]

\* Map.Directory: the reply stored for the exact path string, if any
Directory(m, corpus, root, path) ==
  IF corpus \in DOMAIN m /\ root \in DOMAIN m[corpus] /\ path \in DOMAIN m[corpus][root]
  THEN [found |-> TRUE, reply |-> m[corpus][root][path]]
  ELSE [found |-> FALSE]

\* Map.CorpusRoots: every corpus with each of its roots
CorpusRoots(m) == UNION {{<<c, r>> : r \in DOMAIN m[c]} : c \in DOMAIN m}

-----------------------------------------------------------------------------
(* Browsing: what a client reaches from a root by following the            *)
(* subdirectory URIs of Directory replies.                                 *)

Children(m, corpus, root, path) ==
  LET d == Directory(m, corpus, root, path)
  IN IF d.found THEN {TicketPath(d.reply.subdirectory[i]) : i \in DOMAIN d.reply.subdirectory}
     ELSE {}

RECURSIVE Browse(_, _, _, _)
Browse(m, corpus, root, S) ==
  LET S2 == S \cup UNION {Children(m, corpus, root, p) : p \in S}
  IN IF S2 = S THEN S ELSE Browse(m, corpus, root, S2)

Reachable(m, corpus, root) == Browse(m, corpus, root, {RootDir})

\* The tree is browsable: for every corpus and root CorpusRoots reports,
\* its "/" exists and every directory of it is reached from "/".
TreeBrowsable(m) ==
  \A cr \in CorpusRoots(m) :
    LET c == cr[1]
        r == cr[2]
    IN /\ Directory(m, c, r, RootDir).found
       /\ DOMAIN m[c][r] \subseteq Reachable(m, c, r)

\* file is listed by a directory reached from the root of its corpus/root
Browsable(m, file) ==
  \E p \in Reachable(m, file.corpus, file.root) :
    LET d == Directory(m, file.corpus, file.root, p)
    IN d.found /\ Contains(d.reply.file, FileTicket(file))

=============================================================================
