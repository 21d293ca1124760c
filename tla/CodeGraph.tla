------------------------------ MODULE CodeGraph ------------------------------
(***************************************************************************)
(* The code plane of the knowledge graph: repositories on disk, the tables *)
(* the code ingest owns (documents, entities, relationships) and the       *)
(* processes that write them: `dkg code-ingest`, `dkg update`, a commit    *)
(* hook, a watch worker, `dkg forget`.                                     *)
(*                                                                         *)
(* One ingest is not one transaction.  It reads the stored hashes, hashes  *)
(* the working tree, reads the changed files again to parse them, reads    *)
(* back what it believes about the unchanged ones (two SELECTs), and only  *)
(* then opens the write transaction.  Every one of those reads is an       *)
(* action of its own, so that two writers interleave exactly where the     *)
(* code lets them.  SQLite makes the transaction itself atomic; a crash    *)
(* before its COMMIT leaves no trace.                                      *)
(*                                                                         *)
(* Abstractions.  A file's content is an element of Contents; Defines and  *)
(* Refs give the symbols it declares and the names it mentions (a call in  *)
(* a code file, a configuration key it reads).  All references of a file   *)
(* leave its module node.  Chunks are a function of the document row that  *)
(* owns them (same transaction, cascading key) and are not a variable.     *)
(* The deletion of a file selects its symbols by `canonical LIKE           *)
(* 'path::%'', where an underscore of the path stands for any character    *)
(* and case does not count: Alike gives the paths the pattern of a path    *)
(* takes for it.                                                           *)
(***************************************************************************)
EXTENDS FiniteSets

CONSTANTS
  Writers,      \* processes that open the database and write the code plane
  Repos,        \* repositories ingested into the one database
  Versioned,    \* those under git or svn; the others are walked
  Paths,        \* repository-relative paths
  ConfigPaths,  \* the paths that are configuration files
  Contents,     \* what a file may contain
  Unparsable,   \* contents the parser raises on
  Lossy,        \* contents that decoding changes (CRLF, invalid UTF-8)
  Names,        \* symbol names and configuration keys
  Defines,      \* names declared by a content
  Refs,         \* names mentioned by a content
  Operations,   \* what the writers do: a subset of the four below
  Alike,        \* the paths p's pattern matches: a_b.py is taken for a-b.py, A_B.py
  Absent,       \* no (tracked, not ignored) file at this path
  Module        \* the name of a file's own node

ASSUME CodeGraphAssumption ==
  /\ Repos # {}
  /\ Versioned \subseteq Repos
  /\ ConfigPaths \subseteq Paths
  /\ Unparsable \subseteq Contents
  /\ Lossy \subseteq Contents
  /\ Defines \in [Contents -> SUBSET Names]
  /\ Refs \in [Contents -> SUBSET Names]
  /\ Operations \subseteq {"incremental", "full", "forget", "crash"}
  /\ Alike \in [Paths -> SUBSET Paths]
  /\ \A p \in Paths : p \in Alike[p]
  /\ Absent \notin Contents
  /\ Module \notin Names

VARIABLES
  tree,   \* tree[r][p]: the content of path p in repository r, or Absent
  docs,   \* the code rows of table documents
  ents,   \* the code rows of table entities
  rels,   \* the code rows of table relationships
  pc,     \* where each writer is
  loc,    \* the locals of an ingest
  plan    \* the locals of a forget

vars == <<tree, docs, ents, rels, pc, loc, plan>>
store == <<docs, ents, rels>>

-----------------------------------------------------------------------------
(* Rows *)

Predicates == {"defines", "calls", "configures"}
Keys == Paths \X (Names \cup {Module})   \* a qualified name: path, or path::name
Trees == [Paths -> Contents \cup {Absent}]

\* A documents row.  Its id is a hash of source, path and content, and its
\* metadata holds the content hash and the references found in the file.
Document == [src : Repos, path : Paths, content : Contents]

\* An entities row, keyed by (path, name).  `at' is the content whose parse
\* gave the row its line span: INSERT OR IGNORE keeps an older one.
Entity == [path : Paths, name : Names \cup {Module}, at : Contents]

\* A relationships row, keyed by (from, pred, to).
Relationship ==
  [from : Keys, pred : Predicates, to : Keys, weight : {"certain", "guess"}]

Key(e) == <<e.path, e.name>>
KeysOf(E) == {Key(e) : e \in E}
Id(r) == <<r.from, r.pred, r.to>>
Ids(R) == {Id(r) : r \in R}
PathsOf(S) == {x.path : x \in S}

\* INSERT OR IGNORE of E into table T.
InsertEntities(T, E) == T \cup {e \in E : Key(e) \notin KeysOf(T)}
InsertRelationships(T, R) == T \cup {r \in R : Id(r) \notin Ids(T)}

\* Sets holding one row of D for each path D has: what a dict keyed by path,
\* or a fetchone, keeps of rows that come back in no stated order.
OnePerPath(D) ==
  {S \in SUBSET D :
     \A p \in PathsOf(D) : \E d \in S : {e \in S : e.path = p} = {d}}

-----------------------------------------------------------------------------
(* Parsing and reference resolution *)

\* A ParsedFile, from the parser: its symbols and its references.
ParseSource(p, c) ==
  [path |-> p, refs |-> Refs[c],
   symbols |-> [path : {p}, name : Defines[c] \cup {Module}, at : {c}]]

\* Mutant: the references are not persisted with the document.
Rebuild_NoReferences(d, E) ==
  [path |-> d.path, refs |-> {}, symbols |-> {e \in E : e.path = d.path}]

\* A ParsedFile rebuilt from the graph: references from the document row,
\* symbols from whatever entity rows carry that path.
Rebuild(d, E) ==
  [path |-> d.path, refs |-> Refs[d.content],
   symbols |-> {e \in E : e.path = d.path}]

ParsedFile ==
  [path : Paths, refs : SUBSET Names, symbols : SUBSET Entity]

Symbols(F) == UNION {f.symbols : f \in F}
IsConfig(f) == f.path \in ConfigPaths

\* The name index: definable symbols only, never a configuration key.
Targets(F, n) == {s \in Symbols(F) : s.name = n /\ s.path \notin ConfigPaths}
Confidence(F, n) == IF Cardinality(Targets(F, n)) = 1 THEN "certain" ELSE "guess"

Edge(k, pred, j, w) == [from |-> k, pred |-> pred, to |-> j, weight |-> w]

\* parent defines child: only freshly parsed symbols know their parent.
DefinesEdges(P) ==
  {Edge(<<s.path, Module>>, "defines", Key(s), "certain") :
     s \in {s \in Symbols(P) : s.name # Module}}

\* A reference becomes one edge to every in-repository definition of its name.
CodeFiles(F) == {f \in F : ~IsConfig(f)}
Referenced(F, f) == UNION {Targets(F, n) : n \in f.refs}
CallsFrom(F, f) ==
  {Edge(<<f.path, Module>>, "calls", Key(s), Confidence(F, s.name)) :
     s \in Referenced(F, f)}
CallEdges(F) == UNION {CallsFrom(F, f) : f \in CodeFiles(F)}

\* Configuration key -> code that reads it, for code whose text is at hand.  A
\* rebuilt file has no text, and none is a configuration file: they have no
\* document to rebuild from.
BindingsOf(P, f) ==
  {Edge(Key(s), "configures", <<f.path, Module>>, "certain") :
     s \in {s \in Symbols({h \in P : IsConfig(h)}) : s.name \in f.refs}}
LinkBindings(P) == UNION {BindingsOf(P, f) : f \in CodeFiles(P)}

\* Mutant: calls are resolved among the parsed files only.
ResolveEdges_ParsedOnly(P, I) == DefinesEdges(P) \cup CallEdges(P) \cup LinkBindings(P)

\* The edges one ingest computes, from the files it parsed and those it rebuilt.
ResolveEdges(P, I) == DefinesEdges(P) \cup CallEdges(P \cup I) \cup LinkBindings(P)

\* _entity_id_for, both ways: an edge is written only between entities that exist.
KnownEdges(R, E) == {e \in R : {e.from, e.to} \subseteq KeysOf(E)}

-----------------------------------------------------------------------------
(* What an ingest derives from its locals *)

NoLocals ==
  [repo |-> CHOOSE r \in Repos : TRUE, stored |-> {},
   seen |-> [p \in Paths |-> Absent], changed |-> {}, removed |-> {},
   kept |-> {}, index |-> {}]
NoPlan == [paths |-> {}, ents |-> {}, docs |-> {}, edges |-> {}]

Incremental(l) == l.stored # {}
Tracked(l) == {p \in Paths : l.seen[p] # Absent}

\* Mutant: a file is changed only when it is new.
Changed_OnlyNew(l) == {p \in Tracked(l) : p \notin PathsOf(l.stored)}

\* The stored hash is that of the decoded text, the other that of the bytes.
Changed(l) ==
  {p \in Tracked(l) :
     \/ l.seen[p] \in Lossy
     \/ ~ \E d \in l.stored : d.path = p /\ d.content = l.seen[p]}

\* Mutant: files that left the tree are not looked for.
Removed_Never(l) == {}

Removed(l) == PathsOf(l.stored) \ Tracked(l)
Replaced(l) == IF Incremental(l) THEN l.changed \cup l.removed ELSE {}

\* A file that fails to parse, or is gone by the time it is read, is skipped,
\* though it stays in Replaced.
ParsedPaths(l) == {p \in l.changed : l.seen[p] \notin Unparsable \cup {Absent}}
Parsed(l) == {ParseSource(p, l.seen[p]) : p \in ParsedPaths(l)}

\* `texts': parsed code files; a configuration file gets no document.
NewDocuments(l) ==
  {[src |-> l.repo, path |-> p, content |-> l.seen[p]] :
     p \in ParsedPaths(l) \ ConfigPaths}

\* What the two patterns of a deletion match: the module node is that of the path
\* itself, a symbol that of any path the pattern takes for it.
Matches(P, k) == k[1] \in P \/ (k[2] # Module /\ \E p \in P : k[1] \in Alike[p])

\* Mutants of the deletion: the module node only; the outgoing relationships
\* only; the documents of every path.
WithoutEntities_ModuleOnly(P) == {e \in ents : ~(e.path \in P /\ e.name = Module)}
WithoutRelationships_Outgoing(P) == {r \in rels : ~Matches(P, r.from)}
DocumentsToDelete_EveryPath(P) == OnePerPath(docs)

\* _delete_file_graph, over a set of paths: every entity matched and every
\* relationship that touches one, and one document row of the path itself.
WithoutEntities(P) == {e \in ents : ~Matches(P, Key(e))}
WithoutRelationships(P) == {r \in rels : ~Matches(P, r.from) /\ ~Matches(P, r.to)}
DocumentsToDelete(P) == OnePerPath({d \in docs : d.path \in P})

-----------------------------------------------------------------------------
(* Actions *)

Init ==
  /\ tree \in [Repos -> Trees]
  /\ docs = {} /\ ents = {} /\ rels = {}
  /\ pc = [w \in Writers |-> "idle"]
  /\ loc = [w \in Writers |-> NoLocals]
  /\ plan = [w \in Writers |-> NoPlan]

Goto(w, from, to) == pc[w] = from /\ pc' = [pc EXCEPT ![w] = to]

\* The developer edits, adds, removes or ignores a file.
Edit(r, p) ==
  /\ \E c \in (Contents \cup {Absent}) \ {tree[r][p]} :
       tree' = [tree EXCEPT ![r][p] = c]
  /\ UNCHANGED <<docs, ents, rels, pc, loc, plan>>

\* ingest_repo begins: _stored_hashes, or nothing for a full or walked ingest.
ReadHashes(w, r) ==
  /\ Goto(w, "idle", "detect")
  /\ \E stored \in
         (IF "incremental" \in Operations /\ r \in Versioned
            THEN OnePerPath({d \in docs : d.src = r}) ELSE {})
         \cup (IF "full" \in Operations \/ r \notin Versioned THEN {{}} ELSE {}) :
       loc' = [loc EXCEPT ![w] = [NoLocals EXCEPT !.repo = r, !.stored = stored]]
  /\ UNCHANGED <<tree, docs, ents, rels, plan>>

\* detect_changes: list the tracked files, hash them, compare.
Detect(w) ==
  /\ Goto(w, "detect", "parse")
  /\ LET l == [loc[w] EXCEPT !.seen = tree[loc[w].repo]]
     IN  loc' = [loc EXCEPT ![w] = [l EXCEPT !.changed = Changed(l), !.removed = Removed(l)]]
  /\ UNCHANGED <<tree, docs, ents, rels, plan>>

\* The parse loop reads the changed files a second time.
Parse(w) ==
  /\ Goto(w, "parse", IF Incremental(loc[w]) THEN "documents" ELSE "write")
  /\ LET l == loc[w]
     IN  loc' = [loc EXCEPT ![w].seen =
                   [p \in Paths |-> IF p \in l.changed THEN tree[l.repo][p] ELSE l.seen[p]]]
  /\ UNCHANGED <<tree, docs, ents, rels, plan>>

\* _reconstruct_symbols, first SELECT: the documents of the unchanged files.
ReconstructDocuments(w) ==
  /\ Goto(w, "documents", "entities")
  /\ \E kept \in OnePerPath({d \in docs : d.src = loc[w].repo
                                          /\ d.path \notin Replaced(loc[w])}) :
       loc' = [loc EXCEPT ![w].kept = kept]
  /\ UNCHANGED <<tree, docs, ents, rels, plan>>

\* _reconstruct_symbols, second SELECT: every entity row carrying their paths.
ReconstructEntities(w) ==
  /\ Goto(w, "entities", "write")
  /\ loc' = [loc EXCEPT ![w].index = {Rebuild(d, ents) : d \in loc[w].kept}]
  /\ UNCHANGED <<tree, docs, ents, rels, plan>>

\* write_code_graph: the one transaction of an ingest.
WriteCodeGraph(w) ==
  /\ Goto(w, "write", "idle")
  /\ LET l == loc[w]
         R == Replaced(l)
         E == InsertEntities(WithoutEntities(R), Symbols(Parsed(l) \cup l.index))
     IN  /\ \E D \in DocumentsToDelete(R) : docs' = (docs \ D) \cup NewDocuments(l)
         /\ ents' = E
         /\ rels' = InsertRelationships(
                      WithoutRelationships(R),
                      KnownEdges(ResolveEdges(Parsed(l), l.index), E))
  /\ loc' = [loc EXCEPT ![w] = NoLocals]
  /\ UNCHANGED <<tree, plan>>

\* forget_paths up to its transaction: expand the request, select what would go.
\* (Its totals add the edges up path by path: one between two paths counts twice.)
ForgetPreview(w, P) ==
  /\ "forget" \in Operations
  /\ Goto(w, "idle", "forget")
  /\ LET R == P \cap PathsOf(ents)
     IN  /\ R # {}
         /\ plan' = [plan EXCEPT ![w] =
              [paths |-> R,
               ents  |-> {e \in ents : Matches(R, Key(e))},
               docs  |-> {d \in docs : d.path \in R},
               edges |-> {r \in rels : Matches(R, r.from) \/ Matches(R, r.to)}]]
  /\ UNCHANGED <<tree, docs, ents, rels, loc>>

\* forget_paths, the transaction.
ForgetApply(w) ==
  /\ Goto(w, "forget", "idle")
  /\ LET R == plan[w].paths
     IN  /\ \E D \in DocumentsToDelete(R) : docs' = docs \ D
         /\ ents' = WithoutEntities(R)
         /\ rels' = WithoutRelationships(R)
  /\ plan' = [plan EXCEPT ![w] = NoPlan]
  /\ UNCHANGED <<tree, loc>>

\* The process dies, or the call raises: nothing was written yet.
Crash(w) ==
  /\ "crash" \in Operations
  /\ pc[w] # "idle"
  /\ pc' = [pc EXCEPT ![w] = "idle"]
  /\ loc' = [loc EXCEPT ![w] = NoLocals]
  /\ plan' = [plan EXCEPT ![w] = NoPlan]
  /\ UNCHANGED <<tree, docs, ents, rels>>

Ingest(w) ==
  \/ \E r \in Repos : ReadHashes(w, r)
  \/ Detect(w)
  \/ Parse(w)
  \/ ReconstructDocuments(w)
  \/ ReconstructEntities(w)
  \/ WriteCodeGraph(w)

Forget(w) == (\E P \in SUBSET Paths : ForgetPreview(w, P)) \/ ForgetApply(w)

Next ==
  \/ \E r \in Repos, p \in Paths : Edit(r, p)
  \/ \E w \in Writers : Ingest(w) \/ Forget(w) \/ Crash(w)

Spec == Init /\ [][Next]_vars

\* A watch worker polls for as long as it lives, and an ingest or a forget that
\* has begun runs to its end: that is all the scheduling the code provides.
FairSpec == Spec /\ \A w \in Writers : WF_vars(Ingest(w)) /\ WF_vars(ForgetApply(w))

\* Any number of ingests, but the developer touches the tree only while none is
\* under way, and nobody forgets a path.
QuietNext ==
  \/ \E r \in Repos, p \in Paths : Edit(r, p) /\ \A w \in Writers : pc[w] = "idle"
  \/ \E w \in Writers : Ingest(w) \/ Crash(w)
QuietSpec == Init /\ [][QuietNext]_vars

-----------------------------------------------------------------------------
(* Properties *)

Locals ==
  [repo : Repos, stored : SUBSET Document, seen : Trees, changed : SUBSET Paths,
   removed : SUBSET Paths, kept : SUBSET Document, index : SUBSET ParsedFile]
Plans ==
  [paths : SUBSET Paths, ents : SUBSET Entity, docs : SUBSET Document,
   edges : SUBSET Relationship]
PcValues == {"idle", "detect", "parse", "documents", "entities", "write", "forget"}

\* Every variable holds rows and locals of its declared shape.
TypeOK ==
  /\ tree \in [Repos -> Trees]
  /\ docs \subseteq Document
  /\ ents \subseteq Entity
  /\ rels \subseteq Relationship
  /\ pc \in [Writers -> PcValues]
  /\ loc \in [Writers -> Locals]
  /\ plan \in [Writers -> Plans]

\* The graph a full parse of the documents D would write, from nothing.
FilesOf(D) == {ParseSource(d.path, d.content) : d \in D}
DocumentsOf(r, t) ==
  {[src |-> r, path |-> p, content |-> t[p]] :
     p \in {p \in Paths \ ConfigPaths : t[p] \notin Unparsable \cup {Absent}}}

\* Both ends of every relationship are rows of entities, whatever the writers
\* interleave: write_code_graph looks both up inside its transaction.
EndpointsExist == \A r \in rels : {r.from, r.to} \subseteq KeysOf(ents)

\* A file is shadowed by another whose pattern takes it too: the deletion of that
\* one's graph takes its symbols along, with the edges that touch them, while its
\* document stays and vouches for them.  What no other deletion reaches is a
\* file's own: the module nodes, and the symbols of the files nothing shadows.
Shadowed == {q \in Paths : \E p \in Paths \ {q} : q \in Alike[p]}
Own(k) == k[2] = Module \/ k[1] \notin Shadowed
OwnEdge(x) == Own(x[1]) /\ Own(x[3])

\* The stored content hash of a file vouches for what the graph says about it:
\* every entity is one of the recorded contents (line spans too), every
\* relationship one that a full parse of them would resolve, and of what is a
\* file's own none is missing.
\* The incremental path relies on it, since a matching hash is all it checks.
\* Of code, that is: a configuration file has no document to vouch for it.
CodeEntities == {e \in ents : e.path \notin ConfigPaths}
CodeRelationships == {r \in rels : {r.from[1], r.to[1]} \cap ConfigPaths = {}}
EntitiesMatchDocuments ==
  /\ CodeEntities \subseteq Symbols(FilesOf(docs))
  /\ \A s \in Symbols(FilesOf(docs)) : Own(Key(s)) => s \in ents
EdgesMatchDocuments ==
  /\ Ids(CodeRelationships) \subseteq Ids(ResolveEdges(FilesOf(docs), {}))
  /\ \A x \in Ids(ResolveEdges(FilesOf(docs), {})) : OwnEdge(x) => x \in Ids(rels)

\* The settings in which the two invariants above are proved: one repository under
\* version control, and nobody asks for a full re-ingest over a graph.  Either one
\* process at a time writes the database, or any number of them under QuietSpec.
OneRepository ==
  /\ \A r, s \in Repos : r = s
  /\ Versioned = Repos
  /\ "full" \notin Operations
Serial == OneRepository /\ \A v, w \in Writers : v = w

\* What makes them inductive.  No path has two documents, and none is of a file
\* that did not parse or of a configuration file.
Sound(D) ==
  /\ \A d, e \in D : d.path = e.path => d = e
  /\ \A d \in D : d.content \notin Unparsable /\ d.path \notin ConfigPaths

\* The hashes an ingest has read are those recorded, unless another one has since
\* recorded the tree that this one looks at.
Reading(w) == pc[w] \notin {"idle", "forget"}
Sight(w) == IF pc[w] = "detect" THEN tree[loc[w].repo] ELSE loc[w].seen
StoredCurrent ==
  \A w \in Writers : Reading(w) =>
    /\ Sound(loc[w].stored)
    /\ loc[w].stored = docs \/ docs = DocumentsOf(loc[w].repo, Sight(w))

\* What it takes over of the files it found unmoved is what it has seen of them:
\* their references, and of their symbols none that is not theirs and every own one.
Unmoved(l) == {d \in DocumentsOf(l.repo, l.seen) : d.path \notin Replaced(l)}
LeftOf(f, d) ==
  /\ f.path = d.path /\ f.refs = Refs[d.content]
  /\ f.symbols \subseteq ParseSource(d.path, d.content).symbols
  /\ \A s \in ParseSource(d.path, d.content).symbols : Own(Key(s)) => s \in f.symbols
Rebuilt(F, D) ==
  /\ \A f \in F : \E d \in D : LeftOf(f, d)
  /\ \A d \in D : \E f \in F : LeftOf(f, d)
LocalsCurrent ==
  \A w \in Writers :
    /\ pc[w] \in {"detect", "parse"} => loc[w].index = {}
    /\ pc[w] \in {"documents", "entities"} => Incremental(loc[w])
    /\ pc[w] = "entities" => loc[w].kept = Unmoved(loc[w])
    /\ pc[w] = "write" =>
         Rebuilt(loc[w].index, IF Incremental(loc[w]) THEN Unmoved(loc[w]) ELSE {})
Detected(l) ==
  \A p \in Paths \ l.changed :
    IF l.seen[p] = Absent
      THEN p \in PathsOf(l.stored) => p \in l.removed
      ELSE p \notin l.removed /\ \E d \in l.stored : d.path = p /\ d.content = l.seen[p]
DetectedCurrent == \A w \in Writers : Reading(w) /\ pc[w] # "detect" => Detected(loc[w])

GraphInv ==
  /\ TypeOK
  /\ EntitiesMatchDocuments
  /\ EdgesMatchDocuments
  /\ Sound(docs)
  /\ StoredCurrent
  /\ LocalsCurrent
  /\ DetectedCurrent
\* Nobody else writes, or nobody edits the tree, while an ingest is under way.
SerialInv == GraphInv /\ \A w \in Writers : Reading(w) => loc[w].stored = docs
QuietInv ==
  /\ GraphInv
  /\ \A w \in Writers : pc[w] # "forget"
  /\ \A w \in Writers : Reading(w) /\ pc[w] # "detect" => loc[w].seen = tree[loc[w].repo]

\* What a forget under way has previewed is still what is there of its paths.
PlanCurrent ==
  \A w \in Writers : pc[w] = "forget" =>
    /\ plan[w].ents = {e \in ents : Matches(plan[w].paths, Key(e))}
    /\ plan[w].docs = {d \in docs : d.path \in plan[w].paths}
    /\ plan[w].edges =
         {r \in rels : Matches(plan[w].paths, r.from) \/ Matches(plan[w].paths, r.to)}
\* A finished ingest has recorded what it read of the working tree (a changed
\* file as it was parsed, any other as it was hashed), no file more and none
\* less.  With the two invariants above: an incremental ingest leaves the graph a
\* full ingest of the same tree would have built, but for symbols of shadowed files.
IngestRecordsTree ==
  [][\A w \in Writers : WriteCodeGraph(w) =>
       {d \in docs' : d.src = loc[w].repo}
         = DocumentsOf(loc[w].repo, loc[w].seen)]_vars

\* README.md:265-275: an incremental ingest replaces the symbols and the edges
\* of the files that moved, and everything else stays as it was: of every file's
\* own symbols and edges that is so, and of every document.
Moved(S, T) == (S \ T) \cup (T \ S)
EverythingElseStays ==
  [][\A w \in Writers : WriteCodeGraph(w) /\ Incremental(loc[w]) =>
       /\ \A e \in Moved(ents, ents') : e.path \in Replaced(loc[w]) \/ ~Own(Key(e))
       /\ \A x \in Moved(Ids(rels), Ids(rels')) :
            {x[1][1], x[3][1]} \cap Replaced(loc[w]) # {} \/ ~OwnEdge(x)
       /\ \A d \in Moved(docs, docs') :
            d.src = loc[w].repo /\ d.path \in Replaced(loc[w])]_vars

\* After an ingest no symbol of code is left of a path the repository does not
\* hold: changes.py:271-272 and forget.py:4-6 promise it.  (Of a configuration
\* file that went the key nodes do stay: nothing stored tells it was there.)
NoStaleSymbols ==
  [][\A w \in Writers : WriteCodeGraph(w) =>
       PathsOf(CodeEntities') \subseteq Tracked(loc[w])]_vars

\* An own edge between two code files whose contents are those already in the graph
\* survives an ingest (README.md:271-275, "Everything else stays as it was").
UnmovedEdgesStay ==
  [][\A w \in Writers : WriteCodeGraph(w) =>
       LET InGraph(p) == \E e \in ents : e.path = p /\ e.at = loc[w].seen[p]
       IN  \A r \in CodeRelationships :
             OwnEdge(Id(r)) /\ InGraph(r.from[1]) /\ InGraph(r.to[1])
               => Id(r) \in Ids(rels')]_vars

\* Any number of ingests of one repository, dying anywhere, of a tree that is edited
\* between them: to a reader each takes effect at once, in its transaction, and
\* leaves the graph of the tree as it is, whatever the graph was before.  Nothing is
\* promised of the symbols of shadowed files.
TheRepository == CHOOSE r \in Repos : TRUE
OwnSymbols == {e \in CodeEntities : Own(Key(e))}
OwnEdges == {x \in Ids(CodeRelationships) : OwnEdge(x)}
Atomic == INSTANCE AtomicGraph
            WITH Paths <- Paths \ ConfigPaths, Declares <- Defines, Mentions <- Refs,
                 Unsure <- Shadowed,
                 tree <- [p \in Paths \ ConfigPaths |-> tree[TheRepository][p]],
                 graph <- [symbols |-> OwnSymbols, edges |-> OwnEdges]
IngestsAtomically == Atomic!Spec

\* forget.py:9-12: the dry run counts the rows the write deletes, by running
\* the same selection; the write's is another function, in another statement.
ForgetRemovesThePreview ==
  [][\A w \in Writers : ForgetApply(w) =>
       /\ ents \ ents' = plan[w].ents
       /\ docs \ docs' = plan[w].docs
       /\ rels \ rels' = plan[w].edges]_vars

\* When the developer stops editing, nobody forgets a path and no writer dies
\* any more, the graph becomes that of the tree, and stays it.
InSync ==
  /\ \A r \in Repos : {d \in docs : d.src = r} = DocumentsOf(r, tree[r])
  /\ EntitiesMatchDocuments
  /\ EdgesMatchDocuments
\* (A crash and a write that changes nothing are the same step.)
LeftAlone ==
  /\ UNCHANGED tree
  /\ \A w \in Writers : ~ForgetApply(w) /\ (Crash(w) => WriteCodeGraph(w))
Converges == <>[][LeftAlone]_vars => <>[]InSync

=============================================================================
