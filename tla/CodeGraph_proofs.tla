-------------------------- MODULE CodeGraph_proofs --------------------------
(***************************************************************************)
(* Theorems about CodeGraph, for every set of writers, repositories, paths *)
(* and contents.                                                           *)
(***************************************************************************)
EXTENDS CodeGraph, TLAPS

-----------------------------------------------------------------------------
(* Types *)

\* What the parser returns is a ParsedFile.
LEMMA ParseSourceType ==
  ASSUME NEW p \in Paths, NEW c \in Contents
  PROVE  ParseSource(p, c) \in ParsedFile
BY CodeGraphAssumption DEF ParseSource, ParsedFile, Entity

\* What is rebuilt from the graph is a ParsedFile.
LEMMA RebuildType ==
  ASSUME NEW d \in Document, NEW E \in SUBSET Entity
  PROVE  Rebuild(d, E) \in ParsedFile
BY CodeGraphAssumption DEF Rebuild, ParsedFile, Document

\* One row per path is a subset of the rows.
LEMMA OnePerPathSubset ==
  ASSUME NEW D, NEW S \in OnePerPath(D)
  PROVE  S \subseteq D
BY DEF OnePerPath

\* What an ingest parses at a changed path is a content.
LEMMA ParsedContent ==
  ASSUME NEW l \in Locals, NEW p \in ParsedPaths(l)
  PROVE  p \in Paths /\ l.seen[p] \in Contents
BY DEF ParsedPaths, Locals, Trees

\* What a parser returns for known paths is a set of parsed files.
LEMMA ParsedType ==
  ASSUME NEW l \in Locals
  PROVE  Parsed(l) \subseteq ParsedFile
BY ParseSourceType, ParsedContent DEF Parsed

\* The documents an ingest inserts are rows of the documents table.
LEMMA NewDocumentsType ==
  ASSUME NEW l \in Locals
  PROVE  NewDocuments(l) \subseteq Document
<1>1. l.repo \in Repos
  BY DEF Locals
<1> QED  BY <1>1, ParsedContent DEF NewDocuments, Document

\* The symbols of parsed files are rows of the entities table.
LEMMA SymbolsType ==
  ASSUME NEW F \in SUBSET ParsedFile
  PROVE  Symbols(F) \subseteq Entity
BY DEF Symbols, ParsedFile

\* A row of the entities table has a qualified name.
LEMMA KeyType ==
  ASSUME NEW e \in Entity
  PROVE  Key(e) \in Keys /\ <<e.path, Module>> \in Keys
BY DEF Key, Keys, Entity

\* The three kinds of edges are rows of the relationships table: defines,
LEMMA DefinesEdgesType ==
  ASSUME NEW P \in SUBSET ParsedFile
  PROVE  DefinesEdges(P) \subseteq Relationship
BY SymbolsType, KeyType DEF DefinesEdges, Relationship, Predicates, Edge

\* calls,
LEMMA CallEdgesType ==
  ASSUME NEW F \in SUBSET ParsedFile
  PROVE  CallEdges(F) \subseteq Relationship
<1>1. ASSUME NEW f \in CodeFiles(F), NEW s \in Referenced(F, f)
      PROVE  Edge(<<f.path, Module>>, "calls", Key(s), Confidence(F, s.name))
               \in Relationship
  <2>1. <<f.path, Module>> \in Keys
    BY DEF CodeFiles, ParsedFile, Keys
  <2>2. s \in Entity
    BY SymbolsType DEF Referenced, Targets
  <2>3. Confidence(F, s.name) \in {"certain", "guess"}
    BY DEF Confidence
  <2> QED  BY <2>1, <2>2, <2>3, KeyType DEF Edge, Relationship, Predicates
<1>2. ASSUME NEW f \in CodeFiles(F)
      PROVE  CallsFrom(F, f) \subseteq Relationship
  BY <1>1 DEF CallsFrom
<1> QED  BY <1>2 DEF CallEdges

\* and configures.
LEMMA LinkBindingsType ==
  ASSUME NEW P \in SUBSET ParsedFile
  PROVE  LinkBindings(P) \subseteq Relationship
<1>1. ASSUME NEW f \in CodeFiles(P)
      PROVE  BindingsOf(P, f) \subseteq Relationship
  <2>1. <<f.path, Module>> \in Keys
    BY DEF CodeFiles, ParsedFile, Keys
  <2>2. Symbols({h \in P : IsConfig(h)}) \subseteq Entity
    BY SymbolsType, {h \in P : IsConfig(h)} \subseteq ParsedFile
  <2>3. ASSUME NEW s \in Symbols({h \in P : IsConfig(h)})
        PROVE  Edge(Key(s), "configures", <<f.path, Module>>, "certain")
                 \in Relationship
    BY <2>1, <2>2, KeyType DEF Edge, Relationship, Predicates
  <2> QED  BY <2>3 DEF BindingsOf
<1> QED  BY <1>1 DEF LinkBindings

\* The edges of an ingest are relationships.
LEMMA ResolveEdgesType ==
  ASSUME NEW P \in SUBSET ParsedFile, NEW I \in SUBSET ParsedFile
  PROVE  ResolveEdges(P, I) \subseteq Relationship
BY DefinesEdgesType, CallEdgesType, LinkBindingsType, P \cup I \subseteq ParsedFile
   DEF ResolveEdges

-----------------------------------------------------------------------------
(* TypeOK is an invariant *)

\* The empty locals are locals.
LEMMA NoLocalsType == NoLocals \in Locals /\ NoPlan \in Plans
<1>1. (CHOOSE r \in Repos : TRUE) \in Repos
  BY CodeGraphAssumption
<1>2. [p \in Paths |-> Absent] \in Trees
  BY DEF Trees
<1> QED  BY <1>1, <1>2 DEF NoLocals, NoPlan, Locals, Plans

\* The type invariant, one action at a time.  It holds initially;
LEMMA TypeInit == Init => TypeOK
<1> SUFFICES ASSUME Init PROVE TypeOK  OBVIOUS
<1> QED  BY NoLocalsType DEF Init, TypeOK, PcValues

\* a program counter moves within its values;
LEMMA TypeGoto ==
  ASSUME TypeOK, NEW w \in Writers, NEW from, NEW to \in PcValues, Goto(w, from, to)
  PROVE  pc' \in [Writers -> PcValues]
BY DEF Goto, TypeOK

\* reading the stored hashes keeps it;
LEMMA TypeReadHashes ==
  ASSUME TypeOK, NEW w \in Writers, NEW r \in Repos, ReadHashes(w, r)
  PROVE  TypeOK'
<1>1. pc' \in [Writers -> PcValues]
  BY TypeGoto, "detect" \in PcValues DEF ReadHashes, PcValues
<1>2. PICK stored \in SUBSET docs :
        loc' = [loc EXCEPT ![w] = [NoLocals EXCEPT !.repo = r, !.stored = stored]]
  BY OnePerPathSubset DEF ReadHashes
<1>3. [NoLocals EXCEPT !.repo = r, !.stored = stored] \in Locals
  BY NoLocalsType, <1>2 DEF Locals, TypeOK
<1> QED  BY <1>1, <1>2, <1>3 DEF TypeOK, ReadHashes

\* so do both reads of the working tree,
LEMMA TypeDetect ==
  ASSUME TypeOK, NEW w \in Writers, Detect(w)
  PROVE  TypeOK'
<1> DEFINE l == [loc[w] EXCEPT !.seen = tree[loc[w].repo]]
           m == [l EXCEPT !.changed = Changed(l), !.removed = Removed(l)]
<1>1. loc[w] \in Locals /\ l \in Locals
  BY DEF TypeOK, Locals
<1>2. Changed(l) \subseteq Paths /\ Removed(l) \subseteq Paths
  BY <1>1 DEF Changed, Removed, Tracked, PathsOf, Locals, Document
<1>3. m \in Locals
  BY <1>1, <1>2 DEF Locals
<1>4. loc' = [loc EXCEPT ![w] = m] /\ loc' \in [Writers -> Locals]
  BY <1>3 DEF Detect, TypeOK
<1>5. pc' \in [Writers -> PcValues]
  BY TypeGoto DEF Detect, PcValues
<1> QED  BY <1>4, <1>5 DEF TypeOK, Detect

\* Reading the changed files again.
LEMMA TypeParse ==
  ASSUME TypeOK, NEW w \in Writers, Parse(w)
  PROVE  TypeOK'
<1> DEFINE l == loc[w]
           t == [p \in Paths |-> IF p \in l.changed THEN tree[l.repo][p] ELSE l.seen[p]]
<1>1. l \in Locals /\ t \in Trees
  BY DEF TypeOK, Locals, Trees
<1>2. [l EXCEPT !.seen = t] \in Locals
  BY <1>1 DEF Locals
<1>3. loc' = [loc EXCEPT ![w].seen = t]
  BY DEF Parse
<1>4. loc' \in [Writers -> Locals]
  BY <1>2, <1>3 DEF TypeOK
<1>5. pc' \in [Writers -> PcValues]
  BY TypeGoto DEF Parse, PcValues
<1> QED  BY <1>4, <1>5 DEF TypeOK, Parse

\* both reads of the graph,
LEMMA TypeReconstruct ==
  ASSUME TypeOK, NEW w \in Writers,
         ReconstructDocuments(w) \/ ReconstructEntities(w)
  PROVE  TypeOK'
<1>1. loc[w] \in Locals
  BY DEF TypeOK
<1>2. CASE ReconstructDocuments(w)
  <2>1. PICK kept \in SUBSET docs : loc' = [loc EXCEPT ![w].kept = kept]
    BY <1>2, OnePerPathSubset DEF ReconstructDocuments
  <2>2. [loc[w] EXCEPT !.kept = kept] \in Locals
    BY <1>1, <2>1 DEF Locals, TypeOK
  <2>3. loc' \in [Writers -> Locals]
    BY <2>1, <2>2 DEF TypeOK
  <2>4. pc' \in [Writers -> PcValues]
    BY <1>2, TypeGoto DEF ReconstructDocuments, PcValues
  <2> QED  BY <1>2, <2>3, <2>4 DEF TypeOK, ReconstructDocuments
<1>3. CASE ReconstructEntities(w)
  <2> DEFINE I == {Rebuild(d, ents) : d \in loc[w].kept}
  <2>1. I \subseteq ParsedFile
    BY <1>1, RebuildType DEF Locals, TypeOK
  <2>2. [loc[w] EXCEPT !.index = I] \in Locals
    BY <1>1, <2>1 DEF Locals
  <2>3. loc' \in [Writers -> Locals]
    BY <1>3, <2>2 DEF TypeOK, ReconstructEntities
  <2>4. pc' \in [Writers -> PcValues]
    BY <1>3, TypeGoto DEF ReconstructEntities, PcValues
  <2> QED  BY <1>3, <2>3, <2>4 DEF TypeOK, ReconstructEntities
<1> QED  BY <1>2, <1>3

\* the write transaction,
LEMMA TypeWrite ==
  ASSUME TypeOK, NEW w \in Writers, WriteCodeGraph(w)
  PROVE  TypeOK'
<1> DEFINE l == loc[w]
           R == Replaced(l)
           E == InsertEntities(WithoutEntities(R), Symbols(Parsed(l) \cup l.index))
<1>1. l \in Locals
  BY DEF TypeOK
<1>2. Parsed(l) \subseteq ParsedFile /\ l.index \subseteq ParsedFile
  BY <1>1, ParsedType DEF Locals
<1>3. docs' \subseteq Document
  BY <1>1, NewDocumentsType DEF WriteCodeGraph, TypeOK
<1>4. ents' \subseteq Entity
  <2>1. Symbols(Parsed(l) \cup l.index) \subseteq Entity
    BY <1>2, SymbolsType, Parsed(l) \cup l.index \subseteq ParsedFile
  <2> QED  BY <2>1 DEF WriteCodeGraph, InsertEntities, WithoutEntities, TypeOK
<1>5. rels' \subseteq Relationship
  BY <1>2, ResolveEdgesType
     DEF WriteCodeGraph, InsertRelationships, WithoutRelationships, KnownEdges, TypeOK
<1>6. pc' \in [Writers -> PcValues]
  BY TypeGoto DEF WriteCodeGraph, PcValues
<1>7. loc' \in [Writers -> Locals]
  BY NoLocalsType DEF WriteCodeGraph, TypeOK
<1> QED  BY <1>3, <1>4, <1>5, <1>6, <1>7 DEF WriteCodeGraph, TypeOK

\* the preview and the transaction of a forget,
LEMMA TypeForget ==
  ASSUME TypeOK, NEW w \in Writers, Forget(w)
  PROVE  TypeOK'
<1>1. ASSUME NEW P \in SUBSET Paths, ForgetPreview(w, P)
      PROVE  TypeOK'
  <2> DEFINE R == P \cap PathsOf(ents)
             new == [paths |-> R,
                     ents  |-> {e \in ents : Matches(R, Key(e))},
                     docs  |-> {d \in docs : d.path \in R},
                     edges |-> {r \in rels : Matches(R, r.from) \/ Matches(R, r.to)}]
  <2>1. new \in Plans
    BY DEF Plans, TypeOK
  <2>2. plan' \in [Writers -> Plans]
    BY <1>1, <2>1 DEF ForgetPreview, TypeOK
  <2>3. pc' \in [Writers -> PcValues]
    BY <1>1, TypeGoto DEF ForgetPreview, PcValues
  <2> QED  BY <1>1, <2>2, <2>3 DEF ForgetPreview, TypeOK
<1>2. CASE ForgetApply(w)
  <2>1. pc' \in [Writers -> PcValues]
    BY <1>2, TypeGoto DEF ForgetApply, PcValues
  <2>2. plan' \in [Writers -> Plans]
    BY <1>2, NoLocalsType DEF ForgetApply, TypeOK
  <2> QED  BY <1>2, <2>1, <2>2
           DEF ForgetApply, TypeOK, WithoutEntities, WithoutRelationships
<1> QED  BY <1>1, <1>2 DEF Forget

\* a crash,
LEMMA TypeCrash ==
  ASSUME TypeOK, NEW w \in Writers, Crash(w)
  PROVE  TypeOK'
BY NoLocalsType DEF Crash, TypeOK, PcValues

\* and an edit of the tree.
LEMMA TypeEdit ==
  ASSUME TypeOK, NEW r \in Repos, NEW p \in Paths, Edit(r, p)
  PROVE  TypeOK'
<1>1. PICK c \in Contents \cup {Absent} : tree' = [tree EXCEPT ![r][p] = c]
  BY DEF Edit
<1>2. tree' \in [Repos -> Trees]
  BY <1>1 DEF TypeOK, Trees
<1> QED  BY <1>2 DEF Edit, TypeOK

\* Together: every step keeps the type invariant.
LEMMA TypeStep == TypeOK /\ [Next]_vars => TypeOK'
<1> SUFFICES ASSUME TypeOK, [Next]_vars PROVE TypeOK'  OBVIOUS
<1>1. CASE UNCHANGED vars
  BY <1>1 DEF vars, TypeOK
<1>2. ASSUME NEW r \in Repos, NEW p \in Paths, Edit(r, p) PROVE TypeOK'
  BY <1>2, TypeEdit
<1>3. ASSUME NEW w \in Writers, Ingest(w) PROVE TypeOK'
  BY <1>3, TypeReadHashes, TypeDetect, TypeParse, TypeReconstruct, TypeWrite DEF Ingest
<1>4. ASSUME NEW w \in Writers, Forget(w) \/ Crash(w) PROVE TypeOK'
  BY <1>4, TypeForget, TypeCrash
<1> QED  BY <1>1, <1>2, <1>3, <1>4 DEF Next

\* Every row and every local keeps its shape, whatever the writers interleave.
THEOREM TypeCorrect == Spec => []TypeOK
BY TypeInit, TypeStep, PTL DEF Spec

-----------------------------------------------------------------------------
(* Both ends of every relationship exist, for any number of writers *)

\* A relationship that outlives the deletion of the paths P still has its ends.
LEMMA SurvivorsKeepEndpoints ==
  ASSUME NEW P, EndpointsExist, NEW r \in WithoutRelationships(P)
  PROVE  {r.from, r.to} \subseteq KeysOf(WithoutEntities(P))
<1>1. ASSUME NEW k \in KeysOf(ents), ~Matches(P, k)
      PROVE  k \in KeysOf(WithoutEntities(P))
  BY <1>1 DEF KeysOf, WithoutEntities
<1> QED  BY <1>1 DEF WithoutRelationships, EndpointsExist

\* No relationship dangles: a half-deleted file never leaves one behind, and
\* one computed from stale reads is dropped by the lookup in the transaction.
THEOREM EndpointsAlwaysExist == Spec => []EndpointsExist
<1>1. Init => EndpointsExist
  BY DEF Init, EndpointsExist
<1>2. EndpointsExist /\ [Next]_vars => EndpointsExist'
  <2> SUFFICES ASSUME EndpointsExist, [Next]_vars PROVE EndpointsExist'  OBVIOUS
  <2>1. CASE UNCHANGED <<ents, rels>>
    BY <2>1 DEF EndpointsExist, KeysOf
  <2>2. ASSUME NEW w \in Writers, WriteCodeGraph(w) PROVE EndpointsExist'
    <3> DEFINE l == loc[w]
               R == Replaced(l)
               E == InsertEntities(WithoutEntities(R), Symbols(Parsed(l) \cup l.index))
    <3>1. ents' = E
      BY <2>2 DEF WriteCodeGraph
    <3>2. \A r \in rels' : \/ r \in WithoutRelationships(R)
                           \/ r \in KnownEdges(ResolveEdges(Parsed(l), l.index), E)
      BY <2>2 DEF WriteCodeGraph, InsertRelationships
    <3>3. KeysOf(WithoutEntities(R)) \subseteq KeysOf(E)
      BY DEF KeysOf, InsertEntities
    <3>4. ASSUME NEW r \in rels' PROVE {r.from, r.to} \subseteq KeysOf(E)
      BY <3>2, <3>3, SurvivorsKeepEndpoints DEF KnownEdges
    <3> QED  BY <3>1, <3>4 DEF EndpointsExist
  <2>3. ASSUME NEW w \in Writers, ForgetApply(w) PROVE EndpointsExist'
    BY <2>3, SurvivorsKeepEndpoints DEF ForgetApply, EndpointsExist
  <2> QED  BY <2>1, <2>2, <2>3
           DEF Next, Ingest, Forget, vars, Edit, ReadHashes, Detect, Parse,
               ReconstructDocuments, ReconstructEntities, ForgetPreview, Crash
<1> QED  BY <1>1, <1>2, PTL DEF Spec

-----------------------------------------------------------------------------
(* The graph is that of its documents: one writer, or a tree left alone *)

\* A set with one row for each path is its own only choice of one row per path.
LEMMA UniqueOnePerPath ==
  ASSUME NEW D, \A d, e \in D : d.path = e.path => d = e
  PROVE  OnePerPath(D) = {D}
<1>1. ASSUME NEW S \in OnePerPath(D) PROVE S = D
  <2>1. S \subseteq D
    BY OnePerPathSubset
  <2>2. ASSUME NEW d \in D PROVE d \in S
    <3>1. d.path \in PathsOf(D)
      BY DEF PathsOf
    <3>2. PICK e \in S : {x \in S : x.path = d.path} = {e}
      BY <3>1 DEF OnePerPath
    <3> QED  BY <2>1, <3>2
  <2> QED  BY <2>1, <2>2
<1>2. D \in OnePerPath(D)
  <2>1. ASSUME NEW p \in PathsOf(D)
        PROVE  \E d \in D : {e \in D : e.path = p} = {d}
    <3>1. PICK d \in D : d.path = p
      BY DEF PathsOf
    <3>2. {e \in D : e.path = p} = {d}
      BY <3>1
    <3> QED  BY <3>2
  <2> QED  BY <2>1 DEF OnePerPath
<1> QED  BY <1>1, <1>2

\* The symbols of a set of parsed documents, one by one.
LEMMA SymbolsOfFiles ==
  ASSUME NEW M, NEW e
  PROVE  e \in Symbols(FilesOf(M)) <=>
           \E d \in M : e \in ParseSource(d.path, d.content).symbols
BY DEF Symbols, FilesOf

\* A name is declared among the parsed documents exactly when a document declares it.
LEMMA DeclaredSymbol ==
  ASSUME NEW p, NEW c, NEW e
  PROVE  e \in ParseSource(p, c).symbols <=>
           \E n \in Defines[c] \cup {Module} : e = [path |-> p, name |-> n, at |-> c]
BY DEF ParseSource

\* What is rebuilt of an unchanged file from a graph that matches its documents is
\* what the deletions have left of what the parser said of it.
LEMMA RebuildIsLeft ==
  ASSUME EntitiesMatchDocuments, Sound(docs), NEW d \in docs
  PROVE  LeftOf(Rebuild(d, ents), d)
<1>1. ASSUME NEW e \in ents, e.path = d.path
      PROVE  e \in ParseSource(d.path, d.content).symbols
  <2>0. e \in CodeEntities
    BY <1>1 DEF Sound, CodeEntities
  <2>1. PICK b \in docs : e \in ParseSource(b.path, b.content).symbols
    BY <2>0, SymbolsOfFiles DEF EntitiesMatchDocuments
  <2>2. e.path = b.path
    BY <2>1 DEF ParseSource
  <2> QED  BY <1>1, <2>1, <2>2 DEF Sound
<1>2. ASSUME NEW e \in ParseSource(d.path, d.content).symbols, Own(Key(e))
      PROVE  e \in ents /\ e.path = d.path
  <2>1. e \in ents
    BY <1>2, SymbolsOfFiles DEF EntitiesMatchDocuments
  <2> QED  BY <2>1 DEF ParseSource
<1> QED  BY <1>1, <1>2 DEF Rebuild, LeftOf

\* The relationships of a set of parsed documents, by their ids.
IsDefine(x, M) ==
  \E d \in M : \E n \in Defines[d.content] :
    x = <<<<d.path, Module>>, "defines", <<d.path, n>>>>
IsCall(x, M) ==
  \E d, e \in M : \E n \in Refs[d.content] \cap Defines[e.content] :
    x = <<<<d.path, Module>>, "calls", <<e.path, n>>>>

\* The defines edges of parsed documents, as a function of the documents alone.
LEMMA DefineIds ==
  ASSUME NEW M \in SUBSET Document, NEW x
  PROVE  x \in Ids(DefinesEdges(FilesOf(M))) <=> IsDefine(x, M)
<1>1. x \in Ids(DefinesEdges(FilesOf(M))) <=>
        \E s \in Symbols(FilesOf(M)) : s.name # Module /\
          x = <<<<s.path, Module>>, "defines", Key(s)>>
  <2> DEFINE r(s) == Edge(<<s.path, Module>>, "defines", Key(s), "certain")
  <2>1. \A s : Id(r(s)) = <<<<s.path, Module>>, "defines", Key(s)>>
    BY DEF Id, Edge
  <2>2. \A q : q \in DefinesEdges(FilesOf(M)) <=>
                \E s \in Symbols(FilesOf(M)) : s.name # Module /\ q = r(s)
    BY DEF DefinesEdges
  <2>3. x \in Ids(DefinesEdges(FilesOf(M))) <=>
          \E q \in DefinesEdges(FilesOf(M)) : x = Id(q)
    BY DEF Ids
  <2> HIDE DEF r
  <2>4. ASSUME x \in Ids(DefinesEdges(FilesOf(M)))
        PROVE  \E s \in Symbols(FilesOf(M)) : s.name # Module /\
                 x = <<<<s.path, Module>>, "defines", Key(s)>>
    <3>1. PICK q \in DefinesEdges(FilesOf(M)) : x = Id(q)
      BY <2>3, <2>4
    <3>2. PICK s \in Symbols(FilesOf(M)) : s.name # Module /\ q = r(s)
      BY <2>2
    <3> QED  BY <2>1, <3>1, <3>2
  <2>5. ASSUME NEW s \in Symbols(FilesOf(M)), s.name # Module,
               x = <<<<s.path, Module>>, "defines", Key(s)>>
        PROVE  x \in Ids(DefinesEdges(FilesOf(M)))
    <3>1. r(s) \in DefinesEdges(FilesOf(M))
      BY <2>2, <2>5
    <3>2. x = Id(r(s))
      BY <2>1, <2>5
    <3> QED  BY <2>3, <3>1, <3>2
  <2> QED  BY <2>4, <2>5
<1>2. ASSUME NEW s \in Symbols(FilesOf(M)), s.name # Module,
             x = <<<<s.path, Module>>, "defines", Key(s)>>
      PROVE  IsDefine(x, M)
  <2>1. PICK d \in M : \E n \in Defines[d.content] \cup {Module} :
               s = [path |-> d.path, name |-> n, at |-> d.content]
    BY SymbolsOfFiles, DeclaredSymbol
  <2> QED  BY <1>2, <2>1 DEF IsDefine, Key
<1>3. ASSUME NEW d \in M, NEW n \in Defines[d.content],
             x = <<<<d.path, Module>>, "defines", <<d.path, n>>>>
      PROVE  \E s \in Symbols(FilesOf(M)) : s.name # Module /\
               x = <<<<s.path, Module>>, "defines", Key(s)>>
  <2> DEFINE s == [path |-> d.path, name |-> n, at |-> d.content]
  <2>1. s \in Symbols(FilesOf(M))
    BY SymbolsOfFiles, DeclaredSymbol
  <2>2. n # Module
    BY CodeGraphAssumption DEF Document
  <2> QED  BY <1>3, <2>1, <2>2 DEF Key
<1> QED  BY <1>1, <1>2, <1>3 DEF IsDefine

\* The documents of code, and the identities between code files.
CodeOf(M) == {d \in M : d.path \notin ConfigPaths}
InCode(x) == x[1][1] \notin ConfigPaths /\ x[3][1] \notin ConfigPaths

\* Who calls whom among files of which less than the parser said may be left: no
\* call but between documents,
LEMMA CallsAreOfDocuments ==
  ASSUME NEW F, NEW M \in SUBSET Document, NEW x \in Ids(CallEdges(F)),
         \A f \in F : \E d \in M :
           /\ f.path = d.path /\ f.refs = Refs[d.content]
           /\ f.symbols \subseteq ParseSource(d.path, d.content).symbols
  PROVE  IsCall(x, CodeOf(M))
<1>1. PICK f \in CodeFiles(F) : \E s \in Referenced(F, f) :
             x = <<<<f.path, Module>>, "calls", Key(s)>>
  <2>1. PICK r \in CallEdges(F) : x = Id(r)
    BY DEF Ids
  <2>2. PICK f \in CodeFiles(F) : r \in CallsFrom(F, f)
    BY <2>1 DEF CallEdges
  <2>3. PICK s \in Referenced(F, f) :
          r = Edge(<<f.path, Module>>, "calls", Key(s), Confidence(F, s.name))
    BY <2>2 DEF CallsFrom
  <2> QED  BY <2>1, <2>3 DEF Id, Edge
<1>2. PICK s \in Referenced(F, f) : x = <<<<f.path, Module>>, "calls", Key(s)>>
  BY <1>1
<1>3. f \in F /\ f.path \notin ConfigPaths
  BY DEF CodeFiles, IsConfig
<1>4. PICK d \in M : f.path = d.path /\ f.refs = Refs[d.content]
  BY <1>3
<1>5. d \in CodeOf(M) /\ Refs[d.content] \subseteq Names
  BY <1>3, <1>4, CodeGraphAssumption DEF CodeOf, Document
<1>6. s \in Symbols(F) /\ s.name \in f.refs /\ s.path \notin ConfigPaths
  BY <1>2 DEF Referenced, Targets
<1>7. PICK g \in F : s \in g.symbols
  BY <1>6 DEF Symbols
<1>8. PICK e \in M : s \in ParseSource(e.path, e.content).symbols
  BY <1>7
<1>9. PICK n \in Defines[e.content] \cup {Module} : s = [path |-> e.path, name |-> n, at |-> e.content]
  BY <1>8, DeclaredSymbol
<1>10. e \in CodeOf(M) /\ n # Module /\ n \in Refs[d.content]
  BY <1>4, <1>5, <1>6, <1>9, CodeGraphAssumption DEF CodeOf
<1> QED  BY <1>2, <1>4, <1>5, <1>9, <1>10 DEF IsCall, Key

\* and every call whose two ends are left.
LEMMA CallFound ==
  ASSUME NEW F, NEW f \in F, NEW s \in Symbols(F), s.name \in f.refs,
         f.path \notin ConfigPaths, s.path \notin ConfigPaths
  PROVE  <<<<f.path, Module>>, "calls", Key(s)>> \in Ids(CallEdges(F))
<1> DEFINE r == Edge(<<f.path, Module>>, "calls", Key(s), Confidence(F, s.name))
<1>1. f \in CodeFiles(F) /\ s \in Referenced(F, f)
  BY DEF CodeFiles, IsConfig, Referenced, Targets
<1>2. r \in CallsFrom(F, f)
  BY <1>1 DEF CallsFrom
<1>3. Id(r) = <<<<f.path, Module>>, "calls", Key(s)>>
  BY DEF Id, Edge
<1> HIDE DEF r
<1>4. r \in CallEdges(F)
  BY <1>1, <1>2 DEF CallEdges
<1> QED  BY <1>3, <1>4 DEF Ids

\* The calls edges of parsed documents, likewise; configuration files have none.
LEMMA CallIds ==
  ASSUME NEW M \in SUBSET Document, NEW x
  PROVE  x \in Ids(CallEdges(FilesOf(M))) <=> IsCall(x, CodeOf(M))
<1> DEFINE F == FilesOf(M)
<1>1. ASSUME x \in Ids(CallEdges(F)) PROVE IsCall(x, CodeOf(M))
  <2>1. \A f \in F : \E d \in M :
           /\ f.path = d.path /\ f.refs = Refs[d.content]
           /\ f.symbols \subseteq ParseSource(d.path, d.content).symbols
    <3>1. \A d : /\ ParseSource(d.path, d.content).path = d.path
                /\ ParseSource(d.path, d.content).refs = Refs[d.content]
      BY DEF ParseSource
    <3> QED  BY <3>1 DEF FilesOf
  <2> QED  BY <1>1, <2>1, CallsAreOfDocuments
<1>2. ASSUME IsCall(x, CodeOf(M)) PROVE x \in Ids(CallEdges(F))
  <2>1. PICK d \in CodeOf(M), e \in CodeOf(M) : \E n \in Refs[d.content] \cap Defines[e.content] :
               x = <<<<d.path, Module>>, "calls", <<e.path, n>>>>
    BY <1>2 DEF IsCall
  <2>2. PICK n \in Refs[d.content] \cap Defines[e.content] :
               x = <<<<d.path, Module>>, "calls", <<e.path, n>>>>
    BY <2>1
  <2> DEFINE f == ParseSource(d.path, d.content)
             s == [path |-> e.path, name |-> n, at |-> e.content]
  <2>3. f \in F /\ f.path = d.path /\ f.refs = Refs[d.content] /\ f.path \notin ConfigPaths
    BY DEF FilesOf, ParseSource, CodeOf
  <2>4. s \in Symbols(F) /\ s.path \notin ConfigPaths /\ s.name \in f.refs /\ Key(s) = <<e.path, n>>
    BY <2>2, <2>3, SymbolsOfFiles, DeclaredSymbol DEF CodeOf, Key
  <2> HIDE DEF f, s
  <2>5. <<<<f.path, Module>>, "calls", Key(s)>> \in Ids(CallEdges(F))
    BY <2>3, <2>4, CallFound
  <2> QED  BY <2>2, <2>3, <2>4, <2>5
<1> QED  BY <1>1, <1>2

\* The calls between files of which every own symbol is left: those of the documents,
\* but for some to symbols that are not their file's own.
LEMMA CallsLeft ==
  ASSUME NEW F, NEW M \in SUBSET Document, Rebuilt(F, M), NEW x
  PROVE  /\ x \in Ids(CallEdges(F)) => IsCall(x, CodeOf(M))
         /\ IsCall(x, CodeOf(M)) /\ OwnEdge(x) => x \in Ids(CallEdges(F))
<1>1. x \in Ids(CallEdges(F)) => IsCall(x, CodeOf(M))
  BY CallsAreOfDocuments DEF Rebuilt, LeftOf
<1>2. ASSUME IsCall(x, CodeOf(M)), OwnEdge(x) PROVE x \in Ids(CallEdges(F))
  <2>1. PICK d \in CodeOf(M), e \in CodeOf(M) : \E n \in Refs[d.content] \cap Defines[e.content] :
               x = <<<<d.path, Module>>, "calls", <<e.path, n>>>>
    BY <1>2 DEF IsCall
  <2>2. PICK n \in Refs[d.content] \cap Defines[e.content] :
               x = <<<<d.path, Module>>, "calls", <<e.path, n>>>>
    BY <2>1
  <2> DEFINE s == [path |-> e.path, name |-> n, at |-> e.content]
  <2>3. PICK f \in F : LeftOf(f, d)
    BY DEF Rebuilt, CodeOf
  <2>4. PICK g \in F : LeftOf(g, e)
    BY DEF Rebuilt, CodeOf
  <2>5. s \in ParseSource(e.path, e.content).symbols /\ Key(s) = <<e.path, n>>
    BY <2>2, DeclaredSymbol DEF Key
  <2>6. s \in g.symbols
    BY <1>2, <2>2, <2>4, <2>5 DEF LeftOf, OwnEdge
  <2>7. s \in Symbols(F) /\ s.path \notin ConfigPaths
    BY <2>6 DEF Symbols, CodeOf
  <2>8. f.path = d.path /\ f.path \notin ConfigPaths /\ s.name \in f.refs
    BY <2>2, <2>3 DEF LeftOf, CodeOf
  <2> HIDE DEF s
  <2>9. <<<<f.path, Module>>, "calls", Key(s)>> \in Ids(CallEdges(F))
    BY <2>7, <2>8, CallFound
  <2> QED  BY <2>2, <2>5, <2>8, <2>9
<1> QED  BY <1>1, <1>2

\* A configures edge leaves a parsed configuration file.
LEMMA BindingIds ==
  ASSUME NEW M, NEW x \in Ids(LinkBindings(FilesOf(M)))
  PROVE  x[1][1] \in ConfigPaths /\ \E d \in M : d.path = x[1][1]
<1>1. PICK r \in LinkBindings(FilesOf(M)) : x = Id(r)
  BY DEF Ids
<1>2. PICK f : r \in BindingsOf(FilesOf(M), f)
  BY <1>1 DEF LinkBindings
<1>3. PICK s \in Symbols({h \in FilesOf(M) : IsConfig(h)}) : r = Edge(Key(s), "configures", <<f.path, Module>>, "certain")
  BY <1>2 DEF BindingsOf
<1>4. PICK h \in FilesOf(M) : IsConfig(h) /\ s \in h.symbols
  BY <1>3 DEF Symbols
<1>5. PICK d \in M : h = ParseSource(d.path, d.content)
  BY <1>4 DEF FilesOf
<1>6. s.path = d.path /\ h.path = d.path
  BY <1>4, <1>5 DEF ParseSource
<1> QED  BY <1>1, <1>3, <1>4, <1>6 DEF Id, Edge, Key, IsConfig

\* The relationships between code files that an ingest computes, from the parsed
\* documents N and what is left of all, M.
LEMMA ResolvedIds ==
  ASSUME NEW N \in SUBSET Document, NEW M \in SUBSET Document, NEW I,
         Rebuilt(FilesOf(N) \cup I, M), NEW x, InCode(x)
  PROVE  /\ x \in Ids(ResolveEdges(FilesOf(N), I)) =>
              IsDefine(x, CodeOf(N)) \/ IsCall(x, CodeOf(M))
         /\ IsDefine(x, CodeOf(N)) \/ (IsCall(x, CodeOf(M)) /\ OwnEdge(x)) =>
              x \in Ids(ResolveEdges(FilesOf(N), I))
<1>1. x \in Ids(ResolveEdges(FilesOf(N), I)) <=>
        x \in Ids(DefinesEdges(FilesOf(N))) \/ x \in Ids(CallEdges(FilesOf(N) \cup I))
        \/ x \in Ids(LinkBindings(FilesOf(N)))
  BY DEF ResolveEdges, Ids
<1>2. x \notin Ids(LinkBindings(FilesOf(N)))
  BY BindingIds DEF InCode
<1>3. IsDefine(x, N) <=> IsDefine(x, CodeOf(N))
  BY DEF IsDefine, CodeOf, InCode
<1> QED  BY <1>1, <1>2, <1>3, DefineIds, CallsLeft

\* So the relationships of a full parse are a function of the documents alone.
LEMMA GraphIds ==
  ASSUME NEW M \in SUBSET Document, CodeOf(M) = M, NEW x
  PROVE  x \in Ids(ResolveEdges(FilesOf(M), {})) <=> IsDefine(x, M) \/ IsCall(x, M)
<1>1. \A f \in FilesOf(M) : ~IsConfig(f)
  BY DEF FilesOf, CodeOf, ParseSource, IsConfig
<1>2. \A y : y \notin Ids(LinkBindings(FilesOf(M)))
  BY <1>1 DEF LinkBindings, BindingsOf, Symbols, Ids
<1>3. x \in Ids(ResolveEdges(FilesOf(M), {})) <=>
        x \in Ids(DefinesEdges(FilesOf(M))) \/ x \in Ids(CallEdges(FilesOf(M)))
  BY <1>2, FilesOf(M) \cup {} = FilesOf(M) DEF ResolveEdges, Ids
<1> QED  BY <1>3, DefineIds, CallIds

\* The identities of the recorded relationships between code files.
LEMMA CodeIds ==
  ASSUME NEW x
  PROVE  x \in Ids(CodeRelationships) <=> x \in Ids(rels) /\ InCode(x)
BY DEF Ids, Id, CodeRelationships, InCode

\* The relationships of code files' documents are between code files.
LEMMA GraphIdsInCode ==
  ASSUME NEW M, CodeOf(M) = M, NEW x, IsDefine(x, M) \/ IsCall(x, M)
  PROVE  InCode(x)
BY DEF IsDefine, IsCall, CodeOf, InCode

\* The recorded relationships of a graph that matches its documents.
LEMMA RecordedIds ==
  ASSUME TypeOK, EdgesMatchDocuments, Sound(docs), NEW x
  PROVE  /\ x \in Ids(rels) /\ InCode(x) => IsDefine(x, docs) \/ IsCall(x, docs)
         /\ (IsDefine(x, docs) \/ IsCall(x, docs)) /\ OwnEdge(x) => x \in Ids(rels)
<1>1. docs \in SUBSET Document /\ CodeOf(docs) = docs
  BY DEF TypeOK, Sound, CodeOf
<1> QED  BY <1>1, CodeIds, GraphIds DEF EdgesMatchDocuments

\* What a deletion of the paths P leaves is the graph of the other documents.
DocumentsOutside(P) == {d \in docs : d.path \notin P}

\* What is a file's own goes with that file's deletion only.
LEMMA OwnUnmatched ==
  ASSUME NEW P \in SUBSET Paths, NEW k, k[1] \in Paths \ P, Own(k)
  PROVE  ~Matches(P, k)
BY DEF Matches, Own, Shadowed

\* Deleting the replaced paths leaves entities of the other documents, every own one.
LEMMA SurvivingEntities ==
  ASSUME EntitiesMatchDocuments, docs \subseteq Document, NEW P \in SUBSET Paths
  PROVE  /\ \A e \in WithoutEntities(P) :
              e.path \notin ConfigPaths => e \in Symbols(FilesOf(DocumentsOutside(P)))
         /\ \A e \in Symbols(FilesOf(DocumentsOutside(P))) : Own(Key(e)) => e \in WithoutEntities(P)
<1>1. ASSUME NEW d, NEW e \in ParseSource(d.path, d.content).symbols
      PROVE  e.path = d.path
  BY DEF ParseSource
<1>2. ASSUME NEW e \in WithoutEntities(P), e.path \notin ConfigPaths
      PROVE  e \in Symbols(FilesOf(DocumentsOutside(P)))
  <2>1. e \in CodeEntities /\ e.path \notin P
    BY <1>2 DEF WithoutEntities, CodeEntities, Matches, Key
  <2>2. PICK d \in docs : e \in ParseSource(d.path, d.content).symbols
    BY <2>1, SymbolsOfFiles DEF EntitiesMatchDocuments
  <2> QED  BY <1>1, <2>1, <2>2, SymbolsOfFiles DEF DocumentsOutside
<1>3. ASSUME NEW e \in Symbols(FilesOf(DocumentsOutside(P))), Own(Key(e)) PROVE e \in WithoutEntities(P)
  <2>1. PICK d \in DocumentsOutside(P) : e \in ParseSource(d.path, d.content).symbols
    BY SymbolsOfFiles
  <2>2. d \in docs /\ e.path = d.path /\ d.path \in Paths \ P
    BY <1>1, <2>1 DEF DocumentsOutside, Document
  <2>3. e \in ents
    BY <1>3, <2>1, <2>2, SymbolsOfFiles DEF EntitiesMatchDocuments
  <2>4. Key(e)[1] \in Paths \ P
    BY <2>2 DEF Key
  <2> QED  BY <1>3, <2>3, <2>4, OwnUnmatched DEF WithoutEntities
<1> QED  BY <1>2, <1>3

\* Which identities survive the deletion of the relationships of the paths P.
LEMMA SurvivingIds ==
  ASSUME TypeOK, EdgesMatchDocuments, Sound(docs), NEW P \in SUBSET Paths, NEW x
  PROVE  /\ x \in Ids(WithoutRelationships(P)) /\ InCode(x) =>
              IsDefine(x, DocumentsOutside(P)) \/ IsCall(x, DocumentsOutside(P))
         /\ (IsDefine(x, DocumentsOutside(P)) \/ IsCall(x, DocumentsOutside(P))) /\ OwnEdge(x) =>
              x \in Ids(WithoutRelationships(P))
<1>1. x \in Ids(WithoutRelationships(P)) <=>
        x \in Ids(rels) /\ ~Matches(P, x[1]) /\ ~Matches(P, x[3])
  BY DEF Ids, Id, WithoutRelationships
<1>2. x \in Ids(rels) /\ InCode(x) => IsDefine(x, docs) \/ IsCall(x, docs)
  BY RecordedIds
<1>3. (IsDefine(x, docs) \/ IsCall(x, docs)) /\ OwnEdge(x) => x \in Ids(rels)
  BY RecordedIds
<1>4. IsDefine(x, docs) /\ x[1][1] \notin P => IsDefine(x, DocumentsOutside(P))
  BY DEF IsDefine, DocumentsOutside
<1>5. IsCall(x, docs) /\ x[1][1] \notin P /\ x[3][1] \notin P => IsCall(x, DocumentsOutside(P))
  BY DEF IsCall, DocumentsOutside
<1>6. ASSUME IsDefine(x, DocumentsOutside(P)) \/ IsCall(x, DocumentsOutside(P))
      PROVE  (IsDefine(x, docs) \/ IsCall(x, docs)) /\ x[1][1] \in Paths \ P /\ x[3][1] \in Paths \ P
  <2>1. \A d \in DocumentsOutside(P) : d \in docs /\ d.path \in Paths \ P
    BY DEF DocumentsOutside, TypeOK, Document
  <2> QED  BY <1>6, <2>1 DEF IsDefine, IsCall
<1>7. \A k : Matches(P, k) \/ k[1] \notin P
  BY DEF Matches
<1> QED  BY <1>1, <1>2, <1>3, <1>4, <1>5, <1>6, <1>7, OwnUnmatched DEF OwnEdge

\* Where no path has two documents a deletion takes every document of its paths.
LEMMA DeletedDocuments ==
  ASSUME Sound(docs), NEW P, NEW D \in DocumentsToDelete(P)
  PROVE  docs \ D = DocumentsOutside(P)
<1>1. \A d, e \in {d \in docs : d.path \in P} : d.path = e.path => d = e
  BY DEF Sound
<1>2. D = {d \in docs : d.path \in P}
  BY <1>1, UniqueOnePerPath DEF DocumentsToDelete
<1> QED  BY <1>2 DEF DocumentsOutside

\* The entities of the recorded documents have the keys their contents declare.
LEMMA DocumentKeys ==
  ASSUME NEW M, NEW d \in M, NEW n \in Defines[d.content] \cup {Module}
  PROVE  <<d.path, n>> \in KeysOf(Symbols(FilesOf(M)))
<1> DEFINE s == [path |-> d.path, name |-> n, at |-> d.content]
<1>1. s \in Symbols(FilesOf(M))
  BY SymbolsOfFiles, DeclaredSymbol
<1>2. Key(s) = <<d.path, n>>
  BY DEF Key
<1> QED  BY <1>1, <1>2 DEF KeysOf

\* An insert adds the identities it is given.
LEMMA InsertedIds ==
  ASSUME NEW T, NEW S
  PROVE  Ids(InsertRelationships(T, S)) = Ids(T) \cup Ids(S)
BY DEF Ids, InsertRelationships

\* The edges written are the computed ones whose two ends exist.
LEMMA KnownIds ==
  ASSUME NEW S, NEW E, NEW x
  PROVE  x \in Ids(KnownEdges(S, E)) <=>
           x \in Ids(S) /\ x[1] \in KeysOf(E) /\ x[3] \in KeysOf(E)
BY DEF Ids, Id, KnownEdges

\* What a tree says of its files is sound, and of the repository it is of.
LEMMA TreeIsSound ==
  ASSUME NEW r, NEW t
  PROVE  Sound(DocumentsOf(r, t)) /\ \A d \in DocumentsOf(r, t) : d.src = r /\ d.content = t[d.path]
BY DEF Sound, DocumentsOf

\* What a finished detection says, in terms of documents: those that were left out
\* are those of the tree, whether they are still the recorded ones or another
\* ingest has meanwhile recorded the tree.
LEMMA UnreplacedIsUnmoved ==
  ASSUME OneRepository, GraphInv, NEW w \in Writers, Reading(w), pc[w] # "detect", Incremental(loc[w])
  PROVE  DocumentsOutside(Replaced(loc[w])) = Unmoved(loc[w])
<1> DEFINE l == loc[w]
<1>1. /\ l \in Locals /\ Detected(l) /\ Sound(l.stored) /\ docs \subseteq Document
      /\ l.stored = docs \/ docs = DocumentsOf(l.repo, l.seen)
      /\ \A d \in docs : d.src = l.repo
  BY DEF GraphInv, TypeOK, DetectedCurrent, StoredCurrent, Sight, OneRepository, Locals, Document
<1>2. CASE docs = DocumentsOf(l.repo, l.seen)
  BY <1>2 DEF DocumentsOutside, Unmoved
<1>3. CASE l.stored = docs
  <2>1. ASSUME NEW d \in docs, d.path \notin Replaced(l) PROVE d \in DocumentsOf(l.repo, l.seen)
    <3>1. d.path \in Paths \ l.changed /\ d.path \notin l.removed /\ d.path \in PathsOf(l.stored)
      BY <1>1, <1>3, <2>1 DEF Replaced, Document, PathsOf
    <3>2. PICK e \in docs : e.path = d.path /\ e.content = l.seen[d.path]
      BY <1>1, <1>3, <3>1 DEF Detected
    <3>3. d.content = l.seen[d.path] /\ d.content \notin Unparsable /\ d.path \notin ConfigPaths
      BY <1>1, <1>3, <3>2 DEF Sound
    <3>4. d = [src |-> l.repo, path |-> d.path, content |-> l.seen[d.path]] /\ d.content # Absent
      BY <1>1, <3>3, CodeGraphAssumption DEF Document
    <3> QED  BY <3>1, <3>3, <3>4 DEF DocumentsOf
  <2>2. ASSUME NEW d \in DocumentsOf(l.repo, l.seen), d.path \notin Replaced(l) PROVE d \in docs
    <3>1. PICK p \in Paths \ ConfigPaths : /\ d = [src |-> l.repo, path |-> p, content |-> l.seen[p]]
                                           /\ l.seen[p] \notin Unparsable \cup {Absent}
      BY DEF DocumentsOf
    <3>2. p \notin l.changed
      BY <2>2, <3>1 DEF Replaced
    <3>3. PICK e \in docs : e.path = p /\ e.content = l.seen[p]
      BY <1>1, <1>3, <3>1, <3>2 DEF Detected
    <3>4. e = [src |-> l.repo, path |-> p, content |-> l.seen[p]]
      BY <1>1, <3>3 DEF Document
    <3> QED  BY <3>1, <3>3, <3>4
  <2> QED  BY <2>1, <2>2 DEF DocumentsOutside, Unmoved
<1> QED  BY <1>1, <1>2, <1>3

\* The files an ingest parsed, as if each had a document; those of code get one.
ParsedDocuments(l) ==
  {[src |-> l.repo, path |-> p, content |-> l.seen[p]] : p \in ParsedPaths(l)}
\* What an ingest parsed, and the documents it inserts, in terms of them.
LEMMA ParsedIsOfDocuments ==
  ASSUME NEW l \in Locals
  PROVE  /\ Parsed(l) = FilesOf(ParsedDocuments(l))
         /\ NewDocuments(l) = CodeOf(ParsedDocuments(l))
         /\ ParsedDocuments(l) \in SUBSET Document
<1> DEFINE doc(p) == [src |-> l.repo, path |-> p, content |-> l.seen[p]]
           A == {doc(p) : p \in ParsedPaths(l)}
<1>1. \A p : doc(p).path = p /\ doc(p).content = l.seen[p]
  OBVIOUS
<1>2. NewDocuments(l) = {doc(p) : p \in ParsedPaths(l) \ ConfigPaths}
  BY DEF NewDocuments
<1>3. \A p \in ParsedPaths(l) : doc(p) \in Document
  BY ParsedContent DEF Document, Locals
<1>4. ParsedDocuments(l) = A
  BY DEF ParsedDocuments
<1> HIDE DEF doc
<1>5. NewDocuments(l) = CodeOf(A)
  BY <1>1, <1>2 DEF CodeOf
<1>6. ASSUME NEW f \in Parsed(l) PROVE f \in FilesOf(A)
  <2>1. PICK p \in ParsedPaths(l) : f = ParseSource(p, l.seen[p])
    BY DEF Parsed
  <2> QED  BY <1>1, <2>1 DEF FilesOf
<1>7. ASSUME NEW f \in FilesOf(A) PROVE f \in Parsed(l)
  <2>1. PICK d \in A : f = ParseSource(d.path, d.content)
    BY DEF FilesOf
  <2> QED  BY <1>1, <2>1 DEF Parsed
<1> QED  BY <1>3, <1>4, <1>5, <1>6, <1>7

\* What is left of files is left of them together, and of parsed files everything is.
LEMMA RebuiltUnion ==
  ASSUME NEW F, NEW G, NEW D, NEW E, Rebuilt(F, D), Rebuilt(G, E)
  PROVE  Rebuilt(F \cup G, D \cup E)
BY DEF Rebuilt

LEMMA ParsedIsRebuilt ==
  ASSUME NEW D
  PROVE  Rebuilt(FilesOf(D), D)
<1>1. \A d : LeftOf(ParseSource(d.path, d.content), d)
  BY DEF LeftOf, ParseSource
<1> QED  BY <1>1 DEF Rebuilt, FilesOf

\* The symbols of such files, one by one.
LEMMA RebuiltSymbols ==
  ASSUME NEW F, NEW D, Rebuilt(F, D)
  PROVE  /\ Symbols(F) \subseteq Symbols(FilesOf(D))
         /\ \A e \in Symbols(FilesOf(D)) : Own(Key(e)) => e \in Symbols(F)
<1>1. ASSUME NEW e \in Symbols(F) PROVE e \in Symbols(FilesOf(D))
  <2>1. PICK f \in F : e \in f.symbols
    BY DEF Symbols
  <2> QED  BY <2>1, SymbolsOfFiles DEF Rebuilt, LeftOf
<1>2. ASSUME NEW e \in Symbols(FilesOf(D)), Own(Key(e)) PROVE e \in Symbols(F)
  <2>1. PICK d \in D : e \in ParseSource(d.path, d.content).symbols
    BY SymbolsOfFiles
  <2>2. PICK f \in F : LeftOf(f, d)
    BY DEF Rebuilt
  <2>3. e \in f.symbols
    BY <1>2, <2>1, <2>2 DEF LeftOf
  <2> QED  BY <2>3 DEF Symbols
<1> QED  BY <1>1, <1>2

\* What an ingest replaces are paths.
LEMMA ReplacedType ==
  ASSUME NEW l \in Locals
  PROVE  Replaced(l) \subseteq Paths
BY DEF Replaced, Locals

\* What an ingest under way is about to write, in terms of documents: with those it
\* leaves they are the documents of the tree it has seen.
LEMMA WriteInTermsOfDocuments ==
  ASSUME OneRepository, GraphInv, NEW w \in Writers, pc[w] = "write"
  PROVE  /\ DocumentsOutside(Replaced(loc[w])) \cup NewDocuments(loc[w])
              = DocumentsOf(loc[w].repo, loc[w].seen)
         /\ Rebuilt(Parsed(loc[w]) \cup loc[w].index,
                    ParsedDocuments(loc[w]) \cup DocumentsOutside(Replaced(loc[w])))
<1> DEFINE l == loc[w]
           K == DocumentsOutside(Replaced(l))
           N == NewDocuments(l)
           D == DocumentsOf(l.repo, l.seen)
           A == ParsedDocuments(l)
<1>1. /\ l \in Locals /\ Detected(l) /\ Reading(w) /\ docs \subseteq Document
      /\ l.stored = docs \/ docs = D
      /\ Rebuilt(l.index, IF Incremental(l) THEN Unmoved(l) ELSE {})
  BY DEF GraphInv, TypeOK, DetectedCurrent, StoredCurrent, Sight, LocalsCurrent, Reading
<1>2. N \subseteq D
  BY <1>1 DEF NewDocuments, DocumentsOf, ParsedPaths, Locals
<1>3. ASSUME NEW d \in D PROVE d \in N \/ (d.path \notin l.changed /\ d.path \notin l.removed /\ Incremental(l))
  <2>1. PICK p \in Paths \ ConfigPaths : /\ d = [src |-> l.repo, path |-> p, content |-> l.seen[p]]
                                         /\ l.seen[p] \notin Unparsable \cup {Absent}
    BY DEF DocumentsOf
  <2>2. CASE p \in l.changed
    BY <2>1, <2>2 DEF NewDocuments, ParsedPaths
  <2>3. CASE p \notin l.changed
    <3>1. p \notin l.removed /\ \E e \in l.stored : e.path = p
      BY <1>1, <2>1, <2>3 DEF Detected
    <3> QED  BY <2>1, <2>3, <3>1 DEF Incremental
  <2> QED  BY <2>2, <2>3
<1>4. Parsed(l) = FilesOf(A) /\ N = CodeOf(A) /\ Rebuilt(Parsed(l), A)
  BY <1>1, ParsedIsOfDocuments, ParsedIsRebuilt
<1>5. CASE Incremental(l)
  <2>1. K = Unmoved(l)
    BY <1>1, <1>5, UnreplacedIsUnmoved
  <2>2. D \subseteq K \cup N
    BY <1>3, <2>1 DEF Unmoved, Replaced
  <2>3. K \subseteq D
    BY <2>1 DEF Unmoved
  <2>4. Rebuilt(l.index, K)
    BY <1>1, <1>5, <2>1
  <2>5. Rebuilt(Parsed(l) \cup l.index, A \cup K)
    <3> HIDE DEF A, K, l
    <3> QED  BY <1>4, <2>4, RebuiltUnion
  <2> QED  BY <1>2, <2>2, <2>3, <2>5
<1>6. CASE ~Incremental(l)
  <2>1. N = D
    BY <1>2, <1>3, <1>6
  <2>2. K = docs /\ (docs = {} \/ docs = N)
    BY <1>1, <1>6, <2>1 DEF DocumentsOutside, Replaced, Incremental
  <2>3. A \cup K = A
    BY <1>4, <2>2 DEF CodeOf
  <2>4. Parsed(l) \cup l.index = Parsed(l)
    BY <1>1, <1>6 DEF Rebuilt
  <2> QED  BY <1>4, <2>1, <2>2, <2>3, <2>4
<1> QED  BY <1>5, <1>6

\* The transaction of an ingest leaves the graph of the tree it has seen, whoever
\* has recorded it before.
LEMMA WriteGraph ==
  ASSUME OneRepository, GraphInv, NEW w \in Writers, WriteCodeGraph(w)
  PROVE  /\ docs' = DocumentsOutside(Replaced(loc[w])) \cup NewDocuments(loc[w])
         /\ docs' = DocumentsOf(loc[w].repo, loc[w].seen)
         /\ EntitiesMatchDocuments'
         /\ EdgesMatchDocuments'
<1> DEFINE l == loc[w]
           R == Replaced(l)
           K == DocumentsOutside(R)
           A == ParsedDocuments(l)
           N == NewDocuments(l)
           M == K \cup N
           F == Parsed(l) \cup l.index
           W == WithoutEntities(R)
           E == InsertEntities(W, Symbols(F))
<1>1. pc[w] = "write" /\ l \in Locals /\ R \in SUBSET Paths /\ docs \subseteq Document
  BY ReplacedType DEF WriteCodeGraph, Goto, GraphInv, TypeOK
<1>2. M = DocumentsOf(l.repo, l.seen) /\ Rebuilt(F, A \cup K)
  BY <1>1, WriteInTermsOfDocuments
<1>3. Parsed(l) = FilesOf(A) /\ N = CodeOf(A) /\ A \in SUBSET Document
  BY <1>1, ParsedIsOfDocuments
<1>4. K \in SUBSET Document /\ CodeOf(K) = K
  BY DEF DocumentsOutside, GraphInv, TypeOK, Sound, CodeOf
<1>5. docs' = M
  BY DeletedDocuments DEF WriteCodeGraph, GraphInv
<1>6. M \in SUBSET Document /\ CodeOf(M) = M /\ CodeOf(A \cup K) = M
  BY <1>3, <1>4 DEF CodeOf
<1>7. ents' = E /\ rels' = InsertRelationships(WithoutRelationships(R),
                                KnownEdges(ResolveEdges(FilesOf(A), l.index), E))
  BY <1>3 DEF WriteCodeGraph
<1>8. /\ \A e \in W : e.path \notin ConfigPaths => e \in Symbols(FilesOf(K))
      /\ \A e \in Symbols(FilesOf(K)) : Own(Key(e)) => e \in W
  BY <1>1, SurvivingEntities DEF GraphInv
<1>9. \A e : e \in Symbols(FilesOf(A \cup K)) /\ e.path \notin ConfigPaths <=> e \in Symbols(FilesOf(M))
  <2>1. \A d, e : e \in ParseSource(d.path, d.content).symbols => e.path = d.path
    BY DEF ParseSource
  <2>2. \A d : d \in A \cup K /\ d.path \notin ConfigPaths <=> d \in M
    BY <1>6 DEF CodeOf
  <2> HIDE DEF A, K, M
  <2> QED  BY <2>1, <2>2, SymbolsOfFiles
<1>10. /\ Symbols(F) \subseteq Symbols(FilesOf(A \cup K))
       /\ \A e \in Symbols(FilesOf(A \cup K)) : Own(Key(e)) => e \in Symbols(F)
  <2> HIDE DEF F, A, K
  <2> QED  BY <1>2, RebuiltSymbols
<1>11. Symbols(FilesOf(K)) \subseteq Symbols(FilesOf(M))
  BY SymbolsOfFiles
<1>12. ASSUME NEW e \in Symbols(FilesOf(M)), NEW b \in Symbols(FilesOf(M)), Key(b) = Key(e) PROVE b = e
  <2>1. PICK d \in M : e \in ParseSource(d.path, d.content).symbols
    BY SymbolsOfFiles
  <2>2. PICK c \in M : b \in ParseSource(c.path, c.content).symbols
    BY SymbolsOfFiles
  <2>3. c = d
    BY <1>2, <1>12, <2>1, <2>2, TreeIsSound DEF Sound, Key, ParseSource
  <2> QED  BY <1>12, <2>1, <2>2, <2>3 DEF Key, ParseSource
<1>13. \A e \in E : e.path \notin ConfigPaths => e \in Symbols(FilesOf(M))
  <2> HIDE DEF W, M, K, A, F
  <2> QED  BY <1>8, <1>9, <1>10, <1>11 DEF InsertEntities
<1>14. ASSUME NEW e \in Symbols(FilesOf(M)), Own(Key(e)) PROVE e \in E
  <2>1. e \in Symbols(F) /\ e.path \notin ConfigPaths
    <3> HIDE DEF M, K, A, F
    <3> QED  BY <1>9, <1>10, <1>14
  <2>2. ASSUME NEW b \in W, Key(b) = Key(e) PROVE b = e
    <3>1. b.path = e.path
      BY <2>2 DEF Key
    <3>2. b \in Symbols(FilesOf(M))
      <4> HIDE DEF M, K, W
      <4> QED  BY <1>8, <1>11, <2>1, <2>2, <3>1
    <3> HIDE DEF M, W
    <3> QED  BY <1>12, <2>2, <3>2
  <2> HIDE DEF W, F, M
  <2> QED  BY <2>1, <2>2 DEF InsertEntities, KeysOf
<1>15. EntitiesMatchDocuments'
  <2>1. CodeEntities' \subseteq Symbols(FilesOf(M))
    <3> HIDE DEF E, M
    <3> QED  BY <1>7, <1>13 DEF CodeEntities
  <2>2. \A e \in Symbols(FilesOf(M)) : Own(Key(e)) => e \in ents'
    <3> HIDE DEF E, M
    <3> QED  BY <1>7, <1>14
  <2>3. Symbols(FilesOf(docs))' = Symbols(FilesOf(M))
    BY <1>5 DEF Symbols, FilesOf
  <2> HIDE DEF M
  <2> QED  BY <2>1, <2>2, <2>3 DEF EntitiesMatchDocuments
<1>16. ASSUME NEW x
       PROVE  x \in Ids(rels') <=>
                \/ x \in Ids(WithoutRelationships(R))
                \/ /\ x \in Ids(ResolveEdges(FilesOf(A), l.index))
                   /\ x[1] \in KeysOf(E) /\ x[3] \in KeysOf(E)
  BY <1>7, InsertedIds, KnownIds
<1>17. A \cup K \in SUBSET Document /\ Rebuilt(FilesOf(A) \cup l.index, A \cup K)
  BY <1>2, <1>3, <1>4
<1>18. ASSUME NEW x, InCode(x)
       PROVE  /\ x \in Ids(ResolveEdges(FilesOf(A), l.index)) => IsDefine(x, N) \/ IsCall(x, M)
              /\ IsDefine(x, N) \/ (IsCall(x, M) /\ OwnEdge(x)) => x \in Ids(ResolveEdges(FilesOf(A), l.index))
  <2>1. /\ x \in Ids(ResolveEdges(FilesOf(A), l.index)) => IsDefine(x, CodeOf(A)) \/ IsCall(x, CodeOf(A \cup K))
        /\ IsDefine(x, CodeOf(A)) \/ (IsCall(x, CodeOf(A \cup K)) /\ OwnEdge(x)) => x \in Ids(ResolveEdges(FilesOf(A), l.index))
    <3> HIDE DEF A, K, l
    <3> QED  BY <1>3, <1>17, <1>18, ResolvedIds
  <2> QED  BY <1>3, <1>6, <2>1
<1>19. /\ \A x : x \in Ids(WithoutRelationships(R)) /\ InCode(x) => IsDefine(x, K) \/ IsCall(x, K)
       /\ \A x : (IsDefine(x, K) \/ IsCall(x, K)) /\ OwnEdge(x) => x \in Ids(WithoutRelationships(R))
  BY <1>1, SurvivingIds DEF GraphInv
<1>20. \A x : /\ IsDefine(x, M) <=> IsDefine(x, K) \/ IsDefine(x, N)
              /\ IsCall(x, K) => IsCall(x, M)
  BY DEF IsDefine, IsCall
<1>21. ASSUME NEW d \in M, NEW n \in Defines[d.content] \cup {Module}, Own(<<d.path, n>>)
       PROVE  <<d.path, n>> \in KeysOf(E)
  <2> DEFINE s == [path |-> d.path, name |-> n, at |-> d.content]
  <2>1. s \in Symbols(FilesOf(M)) /\ Key(s) = <<d.path, n>>
    BY SymbolsOfFiles, DeclaredSymbol DEF Key
  <2> HIDE DEF E, s, M
  <2> QED  BY <1>14, <1>21, <2>1 DEF KeysOf
<1>22. ASSUME NEW x, IsDefine(x, N) \/ IsCall(x, M), OwnEdge(x)
       PROVE  x[1] \in KeysOf(E) /\ x[3] \in KeysOf(E)
  <2>1. IsDefine(x, M) \/ IsCall(x, M)
    BY <1>20, <1>22
  <2> HIDE DEF E, M
  <2>2. CASE IsDefine(x, M)
    BY <1>21, <1>22, <2>2 DEF IsDefine, OwnEdge
  <2>3. CASE IsCall(x, M)
    BY <1>21, <1>22, <2>3 DEF IsCall, OwnEdge
  <2> QED  BY <2>1, <2>2, <2>3
<1>23. ASSUME NEW x, InCode(x)
       PROVE  /\ x \in Ids(rels') => IsDefine(x, M) \/ IsCall(x, M)
              /\ (IsDefine(x, M) \/ IsCall(x, M)) /\ OwnEdge(x) => x \in Ids(rels')
  <2> HIDE DEF E, M, N, K, A, R, l
  <2> QED  BY <1>16, <1>18, <1>19, <1>20, <1>22, <1>23
<1>24. EdgesMatchDocuments'
  <2>1. \A x : x \in Ids(CodeRelationships') <=> x \in Ids(rels') /\ InCode(x)
    BY DEF Ids, Id, CodeRelationships, InCode
  <2>2. \A x : IsDefine(x, M) \/ IsCall(x, M) => InCode(x)
    BY <1>6, GraphIdsInCode
  <2>3. \A x : x \in Ids(ResolveEdges(FilesOf(M), {})) <=> IsDefine(x, M) \/ IsCall(x, M)
    BY <1>6, GraphIds
  <2>4. /\ Ids(CodeRelationships') \subseteq Ids(ResolveEdges(FilesOf(M), {}))
        /\ \A x \in Ids(ResolveEdges(FilesOf(M), {})) : OwnEdge(x) => x \in Ids(rels')
    <3> HIDE DEF M
    <3> QED  BY <1>23, <2>1, <2>2, <2>3
  <2>5. /\ Ids(ResolveEdges(FilesOf(docs), {}))' = Ids(ResolveEdges(FilesOf(M), {}))
        /\ Ids(CodeRelationships)' = Ids(CodeRelationships') /\ Ids(rels)' = Ids(rels')
    BY <1>5 DEF CodeRelationships, Ids, ResolveEdges, FilesOf
  <2> HIDE DEF M
  <2> QED  BY <2>4, <2>5 DEF EdgesMatchDocuments
<1> QED  BY <1>2, <1>5, <1>15, <1>24

\* Forgetting paths leaves the graph of the other documents.
LEMMA ForgetGraph ==
  ASSUME GraphInv, NEW w \in Writers, ForgetApply(w)
  PROVE  /\ docs' = DocumentsOutside(plan[w].paths)
         /\ EntitiesMatchDocuments'
         /\ EdgesMatchDocuments'
<1> DEFINE R == plan[w].paths
           K == DocumentsOutside(R)
<1>1. docs' = K /\ ents' = WithoutEntities(R) /\ rels' = WithoutRelationships(R)
  BY DeletedDocuments DEF ForgetApply, GraphInv
<1>2. R \in SUBSET Paths /\ docs \subseteq Document
  BY DEF GraphInv, TypeOK, Plans
<1>3. EntitiesMatchDocuments'
  <2>1. /\ \A e \in WithoutEntities(R) : e.path \notin ConfigPaths => e \in Symbols(FilesOf(K))
        /\ \A e \in Symbols(FilesOf(K)) : Own(Key(e)) => e \in WithoutEntities(R)
    BY <1>2, SurvivingEntities DEF GraphInv
  <2>2. Symbols(FilesOf(docs))' = Symbols(FilesOf(K)) /\ CodeEntities' = {e \in WithoutEntities(R) : e.path \notin ConfigPaths}
    BY <1>1 DEF Symbols, FilesOf, CodeEntities
  <2> HIDE DEF K, R
  <2> QED  BY <1>1, <2>1, <2>2 DEF EntitiesMatchDocuments
<1>4. EdgesMatchDocuments'
  <2>1. K \in SUBSET Document /\ CodeOf(K) = K
    BY DEF DocumentsOutside, GraphInv, TypeOK, Sound, CodeOf
  <2>2. \A x : x \in Ids(CodeRelationships') <=> x \in Ids(WithoutRelationships(R)) /\ InCode(x)
    BY <1>1 DEF Ids, Id, CodeRelationships, InCode
  <2>3. \A x : /\ x \in Ids(WithoutRelationships(R)) /\ InCode(x) => IsDefine(x, K) \/ IsCall(x, K)
               /\ (IsDefine(x, K) \/ IsCall(x, K)) /\ OwnEdge(x) => x \in Ids(WithoutRelationships(R))
    BY <1>2, SurvivingIds DEF GraphInv
  <2>4. \A x : x \in Ids(ResolveEdges(FilesOf(K), {})) <=> IsDefine(x, K) \/ IsCall(x, K)
    BY <2>1, GraphIds
  <2>5. /\ Ids(ResolveEdges(FilesOf(docs), {}))' = Ids(ResolveEdges(FilesOf(K), {}))
        /\ Ids(CodeRelationships)' = Ids(CodeRelationships') /\ Ids(rels)' = Ids(WithoutRelationships(R))
    BY <1>1 DEF CodeRelationships, Ids, ResolveEdges, FilesOf
  <2> HIDE DEF K, R
  <2> QED  BY <2>2, <2>3, <2>4, <2>5 DEF EdgesMatchDocuments
<1> QED  BY <1>1, <1>3, <1>4

\* The empty graph satisfies the invariant.
LEMMA GraphInit == Init => GraphInv
<1> SUFFICES ASSUME Init PROVE GraphInv  OBVIOUS
<1>1. FilesOf(docs) = {}
  BY DEF Init, FilesOf
<1>2. EntitiesMatchDocuments
  BY <1>1 DEF Init, EntitiesMatchDocuments, CodeEntities, Symbols
<1>3. DefinesEdges({}) = {} /\ CallEdges({}) = {} /\ LinkBindings({}) = {}
  BY DEF DefinesEdges, CallEdges, LinkBindings, CodeFiles, Symbols
<1>4. Ids(ResolveEdges(FilesOf(docs), {})) = {} /\ Ids(CodeRelationships) = {}
  BY <1>1, <1>3 DEF Init, CodeRelationships, ResolveEdges, Ids
<1>5. EdgesMatchDocuments
  BY <1>4 DEF EdgesMatchDocuments
<1> QED  BY <1>2, <1>5, TypeInit
         DEF Init, GraphInv, Sound, StoredCurrent, LocalsCurrent, DetectedCurrent, Reading

\* The steps of an ingest before its transaction.
Reads(w) ==
  \/ \E r \in Repos : ReadHashes(w, r)
  \/ Detect(w)
  \/ Parse(w)
  \/ ReconstructDocuments(w)
  \/ ReconstructEntities(w)

\* What the later steps of an ingest leave alone in its locals.
SameDetection(l, m) ==
  /\ l.repo = m.repo /\ l.stored = m.stored /\ l.seen = m.seen
  /\ l.changed = m.changed /\ l.removed = m.removed

\* Replaced and Unmoved depend on what was read and detected only.
LEMMA UnmovedDepends ==
  ASSUME NEW l, NEW m, SameDetection(l, m)
  PROVE  Replaced(l) = Replaced(m) /\ Unmoved(l) = Unmoved(m)
BY DEF SameDetection, Replaced, Incremental, Unmoved

\* An ingest begins by reading what is recorded.
LEMMA HashesRead ==
  ASSUME OneRepository, GraphInv, NEW w \in Writers, NEW r \in Repos, ReadHashes(w, r)
  PROVE  loc'[w].stored = docs /\ loc'[w].index = {} /\ pc'[w] = "detect"
<1>1. pc \in [Writers -> PcValues] /\ loc \in [Writers -> Locals] /\ docs \subseteq Document
  BY DEF GraphInv, TypeOK
<1>2. {d \in docs : d.src = r} = docs
  BY <1>1 DEF Document, OneRepository
<1>3. OnePerPath({d \in docs : d.src = r}) = {docs}
  BY <1>2, UniqueOnePerPath DEF GraphInv, Sound
<1>4. PICK stored \in {docs} :
        loc' = [loc EXCEPT ![w] = [NoLocals EXCEPT !.repo = r, !.stored = stored]]
  BY <1>3 DEF ReadHashes, OneRepository
<1> QED  BY <1>1, <1>4 DEF ReadHashes, Goto, NoLocals

\* A read of an ingest leaves the others' locals alone.
LEMMA OthersLocals ==
  ASSUME TypeOK, NEW w \in Writers, Reads(w) \/ WriteCodeGraph(w), NEW v \in Writers, v # w
  PROVE  pc'[v] = pc[v] /\ loc'[v] = loc[v]
BY DEF TypeOK, Reads, ReadHashes, Detect, Parse, ReconstructDocuments, ReconstructEntities, WriteCodeGraph, Goto

\* Every read of an ingest keeps the locals current.
LEMMA ReadsKeepLocals ==
  ASSUME OneRepository, GraphInv, NEW w \in Writers, Reads(w)
  PROVE  LocalsCurrent'
<1>1. pc \in [Writers -> PcValues] /\ loc \in [Writers -> Locals] /\ loc[w] \in Locals
  BY DEF GraphInv, TypeOK
<1> SUFFICES
      /\ pc'[w] \in {"detect", "parse"} => loc'[w].index = {}
      /\ pc'[w] \in {"documents", "entities"} => Incremental(loc'[w])
      /\ pc'[w] = "entities" => loc'[w].kept = Unmoved(loc'[w])
      /\ pc'[w] = "write" =>
           Rebuilt(loc'[w].index, IF Incremental(loc'[w]) THEN Unmoved(loc'[w]) ELSE {})
  BY OthersLocals DEF GraphInv, LocalsCurrent
<1>2. CASE \E r \in Repos : ReadHashes(w, r)
  BY <1>2, HashesRead
<1>3. CASE Detect(w)
  BY <1>1, <1>3 DEF Detect, Goto, GraphInv, LocalsCurrent, Locals
<1>4. CASE Parse(w)
  BY <1>1, <1>4 DEF Parse, Goto, GraphInv, LocalsCurrent, Locals, Incremental, Rebuilt
<1>5. CASE ReconstructDocuments(w)
  <2> DEFINE R == Replaced(loc[w])
  <2>1. pc[w] = "documents" /\ Incremental(loc[w])
    BY <1>5 DEF ReconstructDocuments, Goto, GraphInv, LocalsCurrent
  <2>2. {d \in docs : d.src = loc[w].repo /\ d.path \notin R} = DocumentsOutside(R)
    BY <1>1 DEF GraphInv, TypeOK, Document, OneRepository, Locals, DocumentsOutside
  <2>3. OnePerPath(DocumentsOutside(R)) = {DocumentsOutside(R)}
    BY UniqueOnePerPath DEF GraphInv, Sound, DocumentsOutside
  <2>4. DocumentsOutside(R) = Unmoved(loc[w])
    BY <2>1, UnreplacedIsUnmoved DEF Reading
  <2>5. loc' = [loc EXCEPT ![w].kept = Unmoved(loc[w])] /\ pc'[w] = "entities"
    BY <1>1, <1>5, <2>2, <2>3, <2>4 DEF ReconstructDocuments, Goto
  <2>6. loc'[w].kept = Unmoved(loc[w]) /\ SameDetection(loc'[w], loc[w])
    BY <1>1, <2>5 DEF Locals, SameDetection
  <2> QED  BY <2>1, <2>5, <2>6, UnmovedDepends DEF Incremental, SameDetection
<1>6. CASE ReconstructEntities(w)
  <2>1. /\ pc[w] = "entities" /\ pc'[w] = "write"
        /\ loc'[w].index = {Rebuild(d, ents) : d \in loc[w].kept}
        /\ SameDetection(loc'[w], loc[w])
    BY <1>1, <1>6 DEF ReconstructEntities, Goto, Locals, SameDetection
  <2>2. Incremental(loc[w]) /\ loc[w].kept = Unmoved(loc[w])
    BY <2>1 DEF GraphInv, LocalsCurrent
  <2>3. DocumentsOutside(Replaced(loc[w])) = Unmoved(loc[w])
    BY <2>1, <2>2, UnreplacedIsUnmoved DEF Reading
  <2>4. \A d \in Unmoved(loc[w]) : LeftOf(Rebuild(d, ents), d)
    BY <2>3, RebuildIsLeft DEF DocumentsOutside, GraphInv
  <2>5. Rebuilt(loc'[w].index, Unmoved(loc[w]))
    BY <2>1, <2>2, <2>4 DEF Rebuilt
  <2> QED  BY <2>1, <2>2, <2>5, UnmovedDepends DEF Incremental, SameDetection
<1> QED  BY <1>2, <1>3, <1>4, <1>5, <1>6 DEF Reads

\* What detect_changes concluded stays true of the locals: the parse loop only
\* looks again at the files it found changed.
LEMMA DetectedNext ==
  ASSUME GraphInv, NEW w \in Writers, Reads(w)
  PROVE  DetectedCurrent'
<1>2. pc \in [Writers -> PcValues] /\ loc \in [Writers -> Locals] /\ loc[w] \in Locals
  BY DEF GraphInv, TypeOK
<1>3. SUFFICES Reading(w)' /\ pc'[w] # "detect" => Detected(loc'[w])
  BY OthersLocals DEF GraphInv, DetectedCurrent, Detected, Reading
<1>4. CASE \E r \in Repos : ReadHashes(w, r)
  BY <1>2, <1>4 DEF ReadHashes, Goto
<1>5. CASE Detect(w)
  <2> DEFINE l == [loc[w] EXCEPT !.seen = tree[loc[w].repo]]
             m == [l EXCEPT !.changed = Changed(l), !.removed = Removed(l)]
  <2>1. loc'[w] = m
    BY <1>2, <1>5 DEF Detect
  <2>2. m.stored = l.stored /\ m.seen = l.seen /\ m.changed = Changed(l) /\ m.removed = Removed(l)
    BY <1>2 DEF Locals
  <2> HIDE DEF l, m
  <2>3. Detected(m)
    BY <2>2 DEF Detected, Changed, Removed, Tracked
  <2> QED  BY <2>1, <2>3
<1>6. CASE Parse(w)
  <2> DEFINE l == loc[w]
             t == [p \in Paths |-> IF p \in l.changed THEN tree[l.repo][p] ELSE l.seen[p]]
  <2>1. Detected(l)
    BY <1>6 DEF Parse, Goto, GraphInv, DetectedCurrent, Reading
  <2>2. loc'[w] = [l EXCEPT !.seen = t]
    BY <1>2, <1>6 DEF Parse
  <2>3. /\ loc'[w].stored = l.stored /\ loc'[w].changed = l.changed
        /\ loc'[w].removed = l.removed /\ loc'[w].seen = t
    BY <1>2, <2>2 DEF Locals
  <2>4. \A p \in Paths \ l.changed : t[p] = l.seen[p]
    OBVIOUS
  <2> HIDE DEF l, t
  <2> QED  BY <2>1, <2>3, <2>4 DEF Detected
<1>7. CASE ReconstructDocuments(w) \/ ReconstructEntities(w)
  <2>1. Detected(loc[w])
    BY <1>7 DEF ReconstructDocuments, ReconstructEntities, Goto, GraphInv, DetectedCurrent, Reading
  <2>2. SameDetection(loc'[w], loc[w])
    BY <1>2, <1>7 DEF ReconstructDocuments, ReconstructEntities, Locals, SameDetection
  <2> QED  BY <2>1, <2>2 DEF Detected, SameDetection
<1> QED  BY <1>4, <1>5, <1>6, <1>7 DEF Reads

\* A second look at the tree that finds it as it was.
LEMMA ParseSeesTheSame ==
  ASSUME TypeOK, NEW w \in Writers, Parse(w), loc[w].seen = tree[loc[w].repo]
  PROVE  loc'[w].seen = loc[w].seen
<1> DEFINE l == loc[w]
           t == [p \in Paths |-> IF p \in l.changed THEN tree[l.repo][p] ELSE l.seen[p]]
<1>1. l \in Locals /\ loc' = [loc EXCEPT ![w].seen = t]
  BY DEF TypeOK, Parse
<1>2. loc'[w].seen = t
  BY <1>1 DEF TypeOK, Locals
<1>3. t = l.seen
  BY <1>1 DEF Locals, Trees
<1> QED  BY <1>2, <1>3

\* The hashes that were read are those recorded, or the tree's are.
LEMMA ReadsKeepStored ==
  ASSUME OneRepository, GraphInv, NEW w \in Writers, Reads(w),
         Parse(w) => loc[w].stored = docs \/ loc[w].seen = tree[loc[w].repo]
  PROVE  StoredCurrent'
<1>1. pc \in [Writers -> PcValues] /\ loc \in [Writers -> Locals] /\ loc[w] \in Locals /\ UNCHANGED <<docs, tree>>
  BY DEF GraphInv, TypeOK, Reads, ReadHashes, Detect, Parse, ReconstructDocuments, ReconstructEntities
<1>2. SUFFICES Reading(w)' => /\ Sound(loc'[w].stored)
                              /\ loc'[w].stored = docs \/ docs = DocumentsOf(loc'[w].repo, Sight(w)')
  <2>1. ASSUME NEW v \in Writers, v # w, Reading(v)'
        PROVE  /\ Sound(loc'[v].stored)
               /\ loc'[v].stored = docs' \/ docs' = DocumentsOf(loc'[v].repo, Sight(v)')
    BY <1>1, <2>1, OthersLocals DEF GraphInv, StoredCurrent, Reading, Sight
  <2> QED  BY <1>1, <1>2, <2>1 DEF StoredCurrent, Sound, DocumentsOf
<1>3. CASE \E r \in Repos : ReadHashes(w, r)
  BY <1>3, HashesRead DEF GraphInv
<1>4. CASE Detect(w)
  <2>1. /\ pc[w] = "detect" /\ pc'[w] = "parse" /\ loc'[w].stored = loc[w].stored
        /\ loc'[w].repo = loc[w].repo /\ loc'[w].seen = tree[loc[w].repo]
    BY <1>1, <1>4 DEF Detect, Goto, Locals
  <2> QED  BY <2>1 DEF GraphInv, StoredCurrent, Reading, Sight
<1>5. CASE Parse(w)
  <2>1. /\ pc[w] = "parse" /\ pc'[w] \in {"documents", "write"} /\ loc'[w].stored = loc[w].stored
        /\ loc'[w].repo = loc[w].repo
    BY <1>1, <1>5 DEF Parse, Goto, Locals
  <2>2. loc[w].stored = docs \/ loc'[w].seen = loc[w].seen
    BY <1>5, ParseSeesTheSame DEF GraphInv
  <2> QED  BY <2>1, <2>2 DEF GraphInv, StoredCurrent, Reading, Sight
<1>6. CASE ReconstructDocuments(w) \/ ReconstructEntities(w)
  <2>1. pc[w] \in {"documents", "entities"} /\ pc'[w] \in {"entities", "write"}
    BY <1>1, <1>6 DEF ReconstructDocuments, ReconstructEntities, Goto
  <2>2. SameDetection(loc'[w], loc[w])
    <3>1. CASE ReconstructDocuments(w)
      BY <1>1, <3>1 DEF ReconstructDocuments, Locals, SameDetection
    <3>2. CASE ReconstructEntities(w)
      BY <1>1, <3>2 DEF ReconstructEntities, Locals, SameDetection
    <3> QED  BY <1>6, <3>1, <3>2
  <2> QED  BY <2>1, <2>2 DEF GraphInv, StoredCurrent, Reading, Sight, SameDetection
<1> QED  BY <1>3, <1>4, <1>5, <1>6 DEF Reads

\* Every step keeps the invariant, as long as nothing comes between that it does not
\* allow for: an edit under an ingest whose hashes are outdated, or the transaction of
\* another that has seen another tree.
LEMMA GraphStep ==
  ASSUME OneRepository, GraphInv, [Next]_vars,
         \A w \in Writers : Parse(w) => loc[w].stored = docs \/ loc[w].seen = tree[loc[w].repo],
         \A v, w \in Writers : WriteCodeGraph(w) /\ Reading(v) /\ v # w => Sight(v) = loc[w].seen,
         \A r \in Repos, p \in Paths : Edit(r, p) => \A w \in Writers : Reading(w) => loc[w].stored = docs,
         \A v, w \in Writers : ForgetApply(w) => ~Reading(v)
  PROVE  GraphInv'
<1>1. TypeOK'
  BY TypeStep DEF GraphInv
<1>2. ASSUME UNCHANGED <<docs, ents, rels>>, StoredCurrent', LocalsCurrent', DetectedCurrent'
      PROVE  GraphInv'
  BY <1>1, <1>2
     DEF GraphInv, EntitiesMatchDocuments, EdgesMatchDocuments, CodeEntities, CodeRelationships, Sound,
         FilesOf, Symbols, Ids, ResolveEdges
<1>3. CASE UNCHANGED <<docs, ents, rels, pc, loc>> /\ (UNCHANGED tree \/ \A w \in Writers : Reading(w) => loc[w].stored = docs)
  <2>1. LocalsCurrent' /\ DetectedCurrent'
    BY <1>3 DEF GraphInv, LocalsCurrent, DetectedCurrent, Reading
  <2>2. StoredCurrent'
    BY <1>3 DEF GraphInv, StoredCurrent, Reading, Sight, Sound, DocumentsOf
  <2> QED  BY <1>2, <1>3, <2>1, <2>2
<1>4. ASSUME NEW r \in Repos, NEW p \in Paths, Edit(r, p) PROVE GraphInv'
  BY <1>3, <1>4 DEF Edit
<1>5. ASSUME NEW w \in Writers, WriteCodeGraph(w) PROVE GraphInv'
  <2>1. /\ docs' = DocumentsOf(loc[w].repo, loc[w].seen)
        /\ EntitiesMatchDocuments' /\ EdgesMatchDocuments'
    BY <1>5, WriteGraph
  <2>2. Sound(docs')
    BY <2>1, TreeIsSound
  <2>3. pc'[w] = "idle" /\ UNCHANGED tree
    BY <1>5 DEF WriteCodeGraph, Goto, GraphInv, TypeOK
  <2>4. ASSUME NEW v \in Writers, Reading(v)' PROVE v # w /\ Reading(v) /\ pc'[v] = pc[v] /\ loc'[v] = loc[v]
    BY <1>5, <2>3, <2>4, OthersLocals DEF GraphInv, Reading
  <2>5. LocalsCurrent' /\ DetectedCurrent'
    BY <2>4 DEF GraphInv, LocalsCurrent, DetectedCurrent, Reading
  <2>6. ASSUME NEW v \in Writers, Reading(v)'
        PROVE  Sound(loc'[v].stored) /\ docs' = DocumentsOf(loc'[v].repo, Sight(v)')
    <3>1. v # w /\ Reading(v) /\ Sight(v)' = Sight(v) /\ loc'[v] = loc[v]
      BY <2>3, <2>4, <2>6 DEF Sight
    <3>2. loc[v].repo = loc[w].repo
      BY DEF OneRepository, GraphInv, TypeOK, Locals
    <3>3. Sight(v) = loc[w].seen
      BY <1>5, <3>1
    <3> QED  BY <2>1, <3>1, <3>2, <3>3 DEF GraphInv, StoredCurrent
  <2>7. StoredCurrent'
    BY <2>6 DEF StoredCurrent, Sound, DocumentsOf
  <2> QED  BY <1>1, <2>1, <2>2, <2>5, <2>7 DEF GraphInv, Sound
<1>6. ASSUME \A v \in Writers : ~Reading(v)' PROVE StoredCurrent' /\ LocalsCurrent' /\ DetectedCurrent'
  BY <1>6 DEF StoredCurrent, LocalsCurrent, DetectedCurrent, Reading
<1>7. ASSUME NEW w \in Writers, ForgetApply(w) PROVE GraphInv'
  <2>1. \A v \in Writers : ~Reading(v)'
    BY <1>7 DEF ForgetApply, Goto, GraphInv, TypeOK, Reading
  <2>2. Sound(docs')
    BY <1>7, ForgetGraph DEF Sound, DocumentsOutside, GraphInv
  <2> QED  BY <1>1, <1>6, <1>7, <2>1, <2>2, ForgetGraph DEF GraphInv, Sound
<1>8. ASSUME NEW w \in Writers, (\E P \in SUBSET Paths : ForgetPreview(w, P)) \/ Crash(w)
      PROVE  GraphInv'
  <2>1. UNCHANGED <<docs, ents, rels, tree>> /\ pc'[w] \in {"idle", "forget"}
    BY <1>8 DEF ForgetPreview, Crash, Goto, GraphInv, TypeOK
  <2>2. ASSUME NEW v \in Writers, v # w PROVE pc'[v] = pc[v] /\ loc'[v] = loc[v]
    BY <1>8, <2>2 DEF ForgetPreview, Crash, Goto, GraphInv, TypeOK
  <2>3. LocalsCurrent' /\ DetectedCurrent'
    BY <2>1, <2>2 DEF GraphInv, LocalsCurrent, DetectedCurrent, Reading
  <2>4. StoredCurrent'
    BY <2>1, <2>2 DEF GraphInv, StoredCurrent, Reading, Sight, Sound, DocumentsOf
  <2> QED  BY <1>2, <2>1, <2>3, <2>4
<1>9. ASSUME NEW w \in Writers, Reads(w) PROVE GraphInv'
  <2>1. UNCHANGED <<docs, ents, rels>>
    BY <1>9 DEF Reads, ReadHashes, Detect, Parse, ReconstructDocuments, ReconstructEntities
  <2>2. LocalsCurrent' /\ DetectedCurrent' /\ StoredCurrent'
    BY <1>9, ReadsKeepLocals, DetectedNext, ReadsKeepStored
  <2> QED  BY <1>2, <2>1, <2>2
<1> QED  BY <1>3, <1>4, <1>5, <1>7, <1>8, <1>9 DEF Next, Ingest, Reads, Forget, vars

\* With one writer what an ingest has read of the store stays as it was read.
LEMMA SerialInit == Init => SerialInv
BY GraphInit DEF Init, SerialInv, Reading

\* Nobody comes between: the one writer is the one whose step it is.
LEMMA SerialStep == Serial /\ SerialInv /\ [Next]_vars => SerialInv'
<1> SUFFICES ASSUME Serial, SerialInv, [Next]_vars PROVE SerialInv'  OBVIOUS
<1>1. OneRepository /\ GraphInv /\ \A v, w \in Writers : v = w
  BY DEF Serial, SerialInv
<1>2. pc \in [Writers -> PcValues] /\ loc \in [Writers -> Locals]
  BY <1>1 DEF GraphInv, TypeOK
<1>3. /\ \A w \in Writers : Parse(w) => loc[w].stored = docs
      /\ \A r \in Repos, p \in Paths : Edit(r, p) => \A w \in Writers : Reading(w) => loc[w].stored = docs
      /\ \A v, w \in Writers : ForgetApply(w) => ~Reading(v)
  <2>1. \A w \in Writers : (Parse(w) => Reading(w)) /\ (ForgetApply(w) => ~Reading(w))
    BY DEF Parse, Goto, Reading, ForgetApply
  <2> QED  BY <1>1, <2>1 DEF SerialInv
<1>4. GraphInv'
  BY <1>1, <1>3, GraphStep
<1>5. SUFFICES ASSUME NEW w \in Writers, Reading(w)' PROVE loc'[w].stored = docs'
  BY <1>4 DEF SerialInv, Reading
<1>6. CASE UNCHANGED <<docs, pc, loc>>
  BY <1>5, <1>6 DEF SerialInv, Reading
<1>7. CASE \E r \in Repos : ReadHashes(w, r)
  BY <1>1, <1>7, HashesRead DEF ReadHashes
<1>8. CASE Detect(w) \/ Parse(w) \/ ReconstructDocuments(w) \/ ReconstructEntities(w)
  <2>1. Reading(w) /\ docs' = docs
    BY <1>8 DEF Detect, Parse, ReconstructDocuments, ReconstructEntities, Goto, Reading
  <2>2. loc'[w].stored = loc[w].stored
    BY <1>2, <1>8 DEF Detect, Parse, ReconstructDocuments, ReconstructEntities, Locals
  <2> QED  BY <2>1, <2>2 DEF SerialInv
<1>9. CASE WriteCodeGraph(w) \/ Forget(w) \/ Crash(w)
  BY <1>2, <1>5, <1>9 DEF WriteCodeGraph, Forget, ForgetPreview, ForgetApply, Crash, Goto, Reading
<1> QED  BY <1>1, <1>6, <1>7, <1>8, <1>9 DEF Next, Ingest, Edit, vars

\* While nobody edits under an ingest, all of them see the one tree.
LEMMA QuietInit == Init => QuietInv
BY GraphInit DEF Init, QuietInv, Reading

\* What comes between records the tree they all see.
LEMMA QuietStep == OneRepository /\ QuietInv /\ [QuietNext]_vars => QuietInv'
<1> SUFFICES ASSUME OneRepository, QuietInv, [QuietNext]_vars PROVE QuietInv'  OBVIOUS
<1>1. /\ GraphInv /\ pc \in [Writers -> PcValues] /\ loc \in [Writers -> Locals]
      /\ tree \in [Repos -> Trees]
  BY DEF QuietInv, GraphInv, TypeOK
<1>2. \A w \in Writers : ~ForgetApply(w)
  BY DEF QuietInv, ForgetApply, Goto
<1>3. \A w \in Writers : Parse(w) => loc[w].seen = tree[loc[w].repo]
  BY DEF QuietInv, Parse, Goto, Reading
<1>4. ASSUME NEW u \in Writers, NEW v \in Writers, WriteCodeGraph(v), Reading(u)
      PROVE  Sight(u) = loc[v].seen
  <2>1. loc[u].repo = loc[v].repo
    BY <1>1 DEF OneRepository, Locals
  <2>2. loc[v].seen = tree[loc[v].repo]
    BY <1>4 DEF QuietInv, WriteCodeGraph, Goto, Reading
  <2> QED  BY <1>4, <2>1, <2>2 DEF QuietInv, Sight
<1>5. ASSUME NEW r \in Repos, NEW p \in Paths, Edit(r, p), \A w \in Writers : pc[w] = "idle"
      PROVE  QuietInv'
  <2>1. \A w \in Writers : ~Reading(w) /\ pc'[w] = "idle" /\ ~Reading(w)'
    BY <1>5 DEF Edit, Reading
  <2>2. Next
    BY <1>5 DEF Next
  <2>3. GraphInv'
    BY <1>1, <1>2, <1>3, <2>1, <2>2, GraphStep
  <2> QED  BY <2>1, <2>3 DEF QuietInv
<1>6. ASSUME [Next]_vars, UNCHANGED tree PROVE GraphInv'
  <2>1. ASSUME NEW r \in Repos, NEW p \in Paths, Edit(r, p) PROVE FALSE
    <3>1. PICK c \in (Contents \cup {Absent}) \ {tree[r][p]} : tree' = [tree EXCEPT ![r][p] = c]
      BY <2>1 DEF Edit
    <3>2. tree'[r][p] = c
      BY <1>1, <3>1 DEF Trees
    <3> QED  BY <1>6, <3>2
  <2> QED  BY <1>1, <1>2, <1>3, <1>4, <1>6, <2>1, GraphStep
<1>7. CASE UNCHANGED vars
  <2>1. GraphInv'
    BY <1>6, <1>7 DEF vars
  <2> QED  BY <1>7, <2>1 DEF QuietInv, Reading, vars
<1>8. ASSUME NEW w \in Writers, Ingest(w) \/ Crash(w) PROVE QuietInv'
  <2>1. Next /\ UNCHANGED tree
    BY <1>8 DEF Next, Ingest, ReadHashes, Detect, Parse, ReconstructDocuments, ReconstructEntities, WriteCodeGraph, Crash
  <2>2. GraphInv'
    BY <1>6, <2>1
  <2>3. ASSUME NEW v \in Writers, v # w PROVE pc'[v] = pc[v] /\ loc'[v] = loc[v]
    BY <1>1, <1>8, <2>3 DEF Ingest, ReadHashes, Detect, Parse, ReconstructDocuments, ReconstructEntities,
                            WriteCodeGraph, Crash, Goto
  <2>4. pc'[w] # "forget" /\ (Reading(w)' /\ pc'[w] # "detect" => loc'[w].seen = tree[loc'[w].repo])
    <3>1. CASE (\E r \in Repos : ReadHashes(w, r)) \/ WriteCodeGraph(w) \/ Crash(w)
      BY <1>1, <3>1 DEF ReadHashes, WriteCodeGraph, Crash, Goto, Reading
    <3>2. CASE Detect(w)
      BY <1>1, <3>2 DEF Detect, Goto, Locals
    <3>3. CASE Parse(w)
      <4>1. loc'[w].seen = loc[w].seen
        BY <1>1, <1>3, <3>3, ParseSeesTheSame DEF GraphInv
      <4>2. loc'[w].repo = loc[w].repo /\ pc'[w] \in {"documents", "write"}
        BY <1>1, <3>3 DEF Parse, Goto, Locals
      <4> QED  BY <1>3, <3>3, <4>1, <4>2
    <3>4. CASE ReconstructDocuments(w) \/ ReconstructEntities(w)
      <4>1. Reading(w) /\ pc[w] # "detect" /\ pc'[w] # "forget"
        BY <1>1, <3>4 DEF ReconstructDocuments, ReconstructEntities, Goto, Reading
      <4>2. loc'[w].seen = loc[w].seen /\ loc'[w].repo = loc[w].repo
        BY <1>1, <3>4 DEF ReconstructDocuments, ReconstructEntities, Locals
      <4> QED  BY <4>1, <4>2 DEF QuietInv
    <3> QED  BY <1>8, <3>1, <3>2, <3>3, <3>4 DEF Ingest
  <2> QED  BY <2>1, <2>2, <2>3, <2>4 DEF QuietInv, Reading
<1> QED  BY <1>5, <1>7, <1>8 DEF QuietNext

\* With one writer, the stored hash of a file vouches for its entities and the
\* relationships are those a full parse of the recorded contents resolves: the
\* incremental path never drifts from a rebuild, but for what the deletion of a file
\* takes of those its pattern is alike to.
THEOREM SerialGraphIsExact ==
  ASSUME Serial
  PROVE  Spec => [](EntitiesMatchDocuments /\ EdgesMatchDocuments)
<1>1. Init => SerialInv
  BY SerialInit
<1>2. SerialInv /\ [Next]_vars => SerialInv'
  BY SerialStep
<1>3. SerialInv => EntitiesMatchDocuments /\ EdgesMatchDocuments
  BY DEF SerialInv, GraphInv
<1> QED  BY <1>1, <1>2, <1>3, PTL DEF Spec

\* The same with any number of ingests at once, dying anywhere, of a tree that
\* nobody edits meanwhile: whoever comes second finds the tree recorded, and what it
\* had read of the graph before is still so of the files it takes over.
THEOREM QuietGraphIsExact ==
  ASSUME OneRepository
  PROVE  QuietSpec => [](EntitiesMatchDocuments /\ EdgesMatchDocuments)
<1>1. Init => QuietInv
  BY QuietInit
<1>2. QuietInv /\ [QuietNext]_vars => QuietInv'
  BY QuietStep
<1>3. QuietInv => EntitiesMatchDocuments /\ EdgesMatchDocuments
  BY DEF QuietInv, GraphInv
<1> QED  BY <1>1, <1>2, <1>3, PTL DEF QuietSpec

\* What an ingest records is what it saw, no file more and none less.
LEMMA IngestStep ==
  ASSUME OneRepository, GraphInv, NEW w \in Writers, WriteCodeGraph(w)
  PROVE  {d \in docs' : d.src = loc[w].repo} = DocumentsOf(loc[w].repo, loc[w].seen)
BY WriteGraph, TreeIsSound

\* Hence an incremental ingest and a full one leave the same graph.
THEOREM IngestAlwaysRecordsTree ==
  ASSUME Serial
  PROVE  Spec => IngestRecordsTree
<1>1. Init => SerialInv
  BY SerialInit
<1>2. SerialInv /\ [Next]_vars => SerialInv'
  BY SerialStep
<1>3. SerialInv => \A w \in Writers : WriteCodeGraph(w) =>
        {d \in docs' : d.src = loc[w].repo} = DocumentsOf(loc[w].repo, loc[w].seen)
  BY IngestStep DEF Serial, SerialInv
<1> QED  BY <1>1, <1>2, <1>3, PTL DEF Spec, IngestRecordsTree

\* After an ingest every symbol is of a file the repository holds: the entities are
\* those of the documents, and the documents those of the tree that was seen.
LEMMA NothingStale ==
  ASSUME OneRepository, GraphInv, NEW w \in Writers, WriteCodeGraph(w)
  PROVE  PathsOf(CodeEntities') \subseteq Tracked(loc[w])
<1>1. docs' = DocumentsOf(loc[w].repo, loc[w].seen) /\ EntitiesMatchDocuments'
  BY WriteGraph
<1>2. SUFFICES ASSUME NEW e \in CodeEntities' PROVE e.path \in Tracked(loc[w])
  BY DEF PathsOf
<1>3. e \in Symbols(FilesOf(docs'))
  BY <1>1, <1>2 DEF EntitiesMatchDocuments, Symbols, FilesOf
<1>4. PICK d \in docs' : e \in ParseSource(d.path, d.content).symbols
  BY <1>3, SymbolsOfFiles
<1>5. e.path = d.path
  BY <1>4 DEF ParseSource
<1> QED  BY <1>1, <1>4, <1>5 DEF DocumentsOf, Tracked

\* README.md:265-275, for one writer: no symbol of a file that is gone remains.
THEOREM NoStaleSymbolsEver ==
  ASSUME Serial
  PROVE  Spec => NoStaleSymbols
<1>1. SerialInv =>
        \A w \in Writers : WriteCodeGraph(w) => PathsOf(CodeEntities') \subseteq Tracked(loc[w])
  BY NothingStale DEF Serial, SerialInv
<1>2. Init => SerialInv
  BY SerialInit
<1>3. SerialInv /\ [Next]_vars => SerialInv'
  BY SerialStep
<1> QED  BY <1>1, <1>2, <1>3, PTL DEF Spec, NoStaleSymbols

\* What an incremental ingest changes of files' own symbols and edges, and of the
\* documents, is of the files that moved.
LEMMA OnlyReplaced ==
  ASSUME OneRepository, GraphInv, NEW w \in Writers, WriteCodeGraph(w), Incremental(loc[w])
  PROVE  /\ \A e \in Moved(ents, ents') : e.path \in Replaced(loc[w]) \/ ~Own(Key(e))
         /\ \A x \in Moved(Ids(rels), Ids(rels')) :
              {x[1][1], x[3][1]} \cap Replaced(loc[w]) # {} \/ ~OwnEdge(x)
         /\ \A d \in Moved(docs, docs') : d.src = loc[w].repo /\ d.path \in Replaced(loc[w])
<1> DEFINE l == loc[w]
           R == Replaced(l)
           K == DocumentsOutside(R)
           N == NewDocuments(l)
           A == ParsedDocuments(l)
           F == Parsed(l) \cup l.index
           W == WithoutEntities(R)
<1>1. docs' = K \cup N /\ l \in Locals /\ pc[w] = "write" /\ R \in SUBSET Paths
  BY WriteGraph, ReplacedType DEF WriteCodeGraph, Goto, GraphInv, TypeOK
<1>2. \A d \in N : d.path \in R /\ d.src = l.repo
  BY DEF NewDocuments, ParsedPaths, Replaced
<1>3. \A d \in docs : d.src = l.repo
  BY DEF GraphInv, TypeOK, OneRepository, Document, Locals
<1>4. \A d \in Moved(docs, docs') : d.src = l.repo /\ d.path \in R
  BY <1>1, <1>2, <1>3 DEF Moved, DocumentsOutside
<1>5. /\ ents' = InsertEntities(W, Symbols(F))
      /\ rels' = InsertRelationships(WithoutRelationships(R), KnownEdges(ResolveEdges(Parsed(l), l.index), ents'))
  BY DEF WriteCodeGraph
<1>6. Rebuilt(F, A \cup K) /\ Parsed(l) = FilesOf(A)
  BY <1>1, WriteInTermsOfDocuments, ParsedIsOfDocuments
<1>7. \A d \in A : d.path \in R
  BY DEF ParsedDocuments, ParsedPaths, Replaced
<1>8. ASSUME NEW e \in Symbols(F), e.path \notin R, Own(Key(e)) PROVE e \in ents
  <2>1. e \in Symbols(FilesOf(A \cup K))
    <3> HIDE DEF F, A, K
    <3> QED  BY <1>6, <1>8, RebuiltSymbols
  <2>2. PICK d \in A \cup K : e \in ParseSource(d.path, d.content).symbols
    BY <2>1, SymbolsOfFiles
  <2>3. e.path = d.path
    BY <2>2 DEF ParseSource
  <2>4. d \in docs
    BY <1>7, <1>8, <2>3 DEF DocumentsOutside
  <2> QED  BY <1>8, <2>2, <2>4, SymbolsOfFiles DEF GraphInv, EntitiesMatchDocuments
<1>9. ASSUME NEW e, e.path \notin R, Own(Key(e)) PROVE e \in ents <=> e \in ents'
  <2>1. e \in ents => e \in W
    <3>1. e \in ents => Key(e)[1] \in Paths \ R
      BY <1>9 DEF Key, GraphInv, TypeOK, Entity
    <3> QED  BY <1>1, <1>9, <3>1, OwnUnmatched DEF WithoutEntities
  <2>2. e \in W => e \in ents
    BY DEF WithoutEntities
  <2>3. e \in ents' <=> e \in W \/ (e \in Symbols(F) /\ Key(e) \notin KeysOf(W))
    BY <1>5 DEF InsertEntities
  <2> QED  BY <1>8, <1>9, <2>1, <2>2, <2>3
<1>10. \A e \in Moved(ents, ents') : e.path \in R \/ ~Own(Key(e))
  BY <1>9 DEF Moved
<1>11. ASSUME NEW x, x[1][1] \notin R, x[3][1] \notin R, OwnEdge(x)
       PROVE  x \in Ids(rels) <=> x \in Ids(rels')
  <2>1. x \in Ids(WithoutRelationships(R)) => x \in Ids(rels)
    BY DEF Ids, WithoutRelationships
  <2>2. ASSUME x \in Ids(rels) PROVE x \in Ids(WithoutRelationships(R))
    <3>1. PICK r \in rels : x = Id(r)
      BY <2>2 DEF Ids
    <3>2. r.from = x[1] /\ r.to = x[3] /\ r.from[1] \in Paths /\ r.to[1] \in Paths
      BY <3>1 DEF Id, GraphInv, TypeOK, Relationship, Keys
    <3>3. ~Matches(R, r.from) /\ ~Matches(R, r.to)
      BY <1>1, <1>11, <3>2, OwnUnmatched DEF OwnEdge
    <3> QED  BY <3>1, <3>3 DEF Ids, WithoutRelationships
  <2>3. x \in Ids(rels') <=> \/ x \in Ids(WithoutRelationships(R))
                             \/ x \in Ids(KnownEdges(ResolveEdges(Parsed(l), l.index), ents'))
    BY <1>5, InsertedIds
  <2>4. ASSUME x \in Ids(KnownEdges(ResolveEdges(Parsed(l), l.index), ents'))
        PROVE  x \in Ids(WithoutRelationships(R))
    <3>1. x \in Ids(ResolveEdges(FilesOf(A), l.index))
      BY <1>6, <2>4, KnownIds
    <3>2. A \in SUBSET Document /\ K \in SUBSET Document /\ A \cup K \in SUBSET Document
      BY <1>1, ParsedIsOfDocuments DEF DocumentsOutside, GraphInv, TypeOK
    <3>3. x \in Ids(DefinesEdges(FilesOf(A))) \/ x \in Ids(CallEdges(FilesOf(A) \cup l.index))
          \/ x \in Ids(LinkBindings(FilesOf(A)))
      BY <3>1 DEF ResolveEdges, Ids
    <3>4. x \notin Ids(DefinesEdges(FilesOf(A)))
      <4>1. ~IsDefine(x, A)
        BY <1>7, <1>11 DEF IsDefine
      <4> QED  BY <3>2, <4>1, DefineIds
    <3>5. x \notin Ids(LinkBindings(FilesOf(A)))
      BY <1>7, <1>11, BindingIds
    <3>6. IsCall(x, CodeOf(A \cup K))
      <4>1. x \in Ids(CallEdges(F)) /\ F = FilesOf(A) \cup l.index
        BY <1>6, <3>3, <3>4, <3>5
      <4> HIDE DEF F, A, K
      <4> QED  BY <1>6, <3>2, <4>1, CallsLeft
    <3>7. IsCall(x, K)
      BY <1>7, <1>11, <3>6 DEF IsCall, CodeOf
    <3> QED  BY <1>1, <1>11, <3>7, SurvivingIds DEF GraphInv
  <2> QED  BY <2>1, <2>2, <2>3, <2>4
<1>12. \A x \in Moved(Ids(rels), Ids(rels')) : {x[1][1], x[3][1]} \cap R # {} \/ ~OwnEdge(x)
  BY <1>11 DEF Moved
<1> QED  BY <1>4, <1>10, <1>12

\* README.md:265-275, for one writer: everything else stays as it was.
THEOREM EverythingElseStaysEver ==
  ASSUME Serial
  PROVE  Spec => EverythingElseStays
<1>1. SerialInv => \A w \in Writers : WriteCodeGraph(w) /\ Incremental(loc[w]) =>
        /\ \A e \in Moved(ents, ents') : e.path \in Replaced(loc[w]) \/ ~Own(Key(e))
        /\ \A x \in Moved(Ids(rels), Ids(rels')) :
             {x[1][1], x[3][1]} \cap Replaced(loc[w]) # {} \/ ~OwnEdge(x)
        /\ \A d \in Moved(docs, docs') : d.src = loc[w].repo /\ d.path \in Replaced(loc[w])
  BY OnlyReplaced DEF Serial, SerialInv
<1>2. Init => SerialInv
  BY SerialInit
<1>3. SerialInv /\ [Next]_vars => SerialInv'
  BY SerialStep
<1> QED  BY <1>1, <1>2, <1>3, PTL DEF Spec, EverythingElseStays

\* An own edge between files that are in the graph as they are in the tree is written
\* again or was never deleted: their documents are among those of the new graph.
LEMMA UnmovedEdge ==
  ASSUME OneRepository, GraphInv, NEW w \in Writers, WriteCodeGraph(w), NEW r \in CodeRelationships,
         OwnEdge(Id(r)),
         \E e \in ents : e.path = r.from[1] /\ e.at = loc[w].seen[r.from[1]],
         \E e \in ents : e.path = r.to[1] /\ e.at = loc[w].seen[r.to[1]]
  PROVE  Id(r) \in Ids(rels')
<1> DEFINE x == Id(r)
           l == loc[w]
<1>1. docs \subseteq Document /\ docs' = DocumentsOf(l.repo, l.seen) /\ docs' \subseteq Document
  BY WriteGraph, TypeStep DEF GraphInv, TypeOK, Next, Ingest
<1>2. x[1] = r.from /\ x[3] = r.to /\ InCode(x)
  BY DEF Id, InCode, CodeRelationships
<1>3. ASSUME NEW d \in docs, \E e \in ents : e.path = d.path /\ e.at = l.seen[d.path]
      PROVE  d \in docs'
  <2>1. PICK e \in ents : e.path = d.path /\ e.at = l.seen[d.path]
    BY <1>3
  <2>2. e \in CodeEntities
    BY <2>1 DEF CodeEntities, GraphInv, Sound
  <2>3. PICK b \in docs : e \in ParseSource(b.path, b.content).symbols
    BY <2>2, SymbolsOfFiles DEF GraphInv, EntitiesMatchDocuments
  <2>4. e.path = b.path /\ e.at = b.content
    BY <2>3 DEF ParseSource
  <2>5. d = b
    BY <2>1, <2>4 DEF GraphInv, Sound
  <2>6. d.content = l.seen[d.path] /\ d.src = l.repo /\ d.path \in Paths \ ConfigPaths
    BY <1>1, <2>1, <2>4, <2>5 DEF GraphInv, TypeOK, OneRepository, Document, Locals, Sound
  <2>7. d.content \notin Unparsable \cup {Absent}
    BY <1>1, CodeGraphAssumption DEF GraphInv, Sound, Document
  <2>8. d = [src |-> l.repo, path |-> d.path, content |-> l.seen[d.path]]
    BY <1>1, <2>6 DEF Document
  <2> QED  BY <1>1, <2>6, <2>7, <2>8 DEF DocumentsOf
<1>4. IsDefine(x, docs) \/ IsCall(x, docs)
  <2>1. x \in Ids(rels)
    BY DEF CodeRelationships, Ids
  <2> QED  BY <1>2, <2>1, RecordedIds DEF GraphInv
<1>5. IsDefine(x, docs) => IsDefine(x, docs')
  <2>1. SUFFICES ASSUME NEW d \in docs, NEW n \in Defines[d.content],
                        x = <<<<d.path, Module>>, "defines", <<d.path, n>>>>
                 PROVE  IsDefine(x, docs')
    BY DEF IsDefine
  <2>2. r.from[1] = d.path
    BY <1>2, <2>1
  <2>3. d \in docs'
    BY <1>3, <2>2
  <2> QED  BY <2>1, <2>3 DEF IsDefine
<1>6. IsCall(x, docs) => IsCall(x, docs')
  <2>1. SUFFICES ASSUME NEW d \in docs, NEW e \in docs, NEW n \in Refs[d.content] \cap Defines[e.content],
                        x = <<<<d.path, Module>>, "calls", <<e.path, n>>>>
                 PROVE  IsCall(x, docs')
    BY DEF IsCall
  <2>2. r.from[1] = d.path /\ r.to[1] = e.path
    BY <1>2, <2>1
  <2>3. d \in docs' /\ e \in docs'
    BY <1>3, <2>2
  <2> QED  BY <2>1, <2>3 DEF IsCall
<1>7. docs' \in SUBSET Document /\ CodeOf(docs') = docs'
  BY <1>1, TreeIsSound DEF CodeOf, Sound
<1>8. x \in Ids(ResolveEdges(FilesOf(docs'), {}))
  BY <1>4, <1>5, <1>6, <1>7, GraphIds
<1>9. \A y \in Ids(ResolveEdges(FilesOf(docs'), {})) : OwnEdge(y) => y \in Ids(rels')
  <2>1. /\ Ids(ResolveEdges(FilesOf(docs), {}))' = Ids(ResolveEdges(FilesOf(docs'), {}))
        /\ Ids(rels)' = Ids(rels')
    BY DEF Ids, ResolveEdges, FilesOf
  <2> QED  BY <2>1, WriteGraph DEF EdgesMatchDocuments
<1> QED  BY <1>8, <1>9

\* README.md:271-275, for one writer: no edge between unmoved files is lost, though
\* the deletion of a file takes the edges into it along.
THEOREM UnmovedEdgesStayEver ==
  ASSUME Serial
  PROVE  Spec => UnmovedEdgesStay
<1>1. SerialInv => \A w \in Writers : WriteCodeGraph(w) =>
        LET InGraph(p) == \E e \in ents : e.path = p /\ e.at = loc[w].seen[p]
        IN  \A r \in CodeRelationships :
              OwnEdge(Id(r)) /\ InGraph(r.from[1]) /\ InGraph(r.to[1]) => Id(r) \in Ids(rels')
  BY UnmovedEdge DEF Serial, SerialInv
<1>2. Init => SerialInv
  BY SerialInit
<1>3. SerialInv /\ [Next]_vars => SerialInv'
  BY SerialStep
<1> QED  BY <1>1, <1>2, <1>3, PTL DEF Spec, UnmovedEdgesStay

\* The four of them with any number of ingests at once of a tree that nobody edits
\* meanwhile: the second one's deletion takes no edge along that the first has written
\* and it does not write again.
THEOREM QuietIngestsAgree ==
  ASSUME OneRepository
  PROVE  QuietSpec => IngestRecordsTree /\ NoStaleSymbols /\ EverythingElseStays /\ UnmovedEdgesStay
<1>1. Init => QuietInv
  BY QuietInit
<1>2. QuietInv /\ [QuietNext]_vars => QuietInv'
  BY QuietStep
<1>3. QuietInv => \A w \in Writers : WriteCodeGraph(w) =>
        {d \in docs' : d.src = loc[w].repo} = DocumentsOf(loc[w].repo, loc[w].seen)
  BY IngestStep DEF QuietInv
<1>4. QuietInv => \A w \in Writers : WriteCodeGraph(w) => PathsOf(CodeEntities') \subseteq Tracked(loc[w])
  BY NothingStale DEF QuietInv
<1>5. QuietInv => \A w \in Writers : WriteCodeGraph(w) /\ Incremental(loc[w]) =>
        /\ \A e \in Moved(ents, ents') : e.path \in Replaced(loc[w]) \/ ~Own(Key(e))
        /\ \A x \in Moved(Ids(rels), Ids(rels')) :
             {x[1][1], x[3][1]} \cap Replaced(loc[w]) # {} \/ ~OwnEdge(x)
        /\ \A d \in Moved(docs, docs') : d.src = loc[w].repo /\ d.path \in Replaced(loc[w])
  BY OnlyReplaced DEF QuietInv
<1>6. QuietInv => \A w \in Writers : WriteCodeGraph(w) =>
        LET InGraph(p) == \E e \in ents : e.path = p /\ e.at = loc[w].seen[p]
        IN  \A r \in CodeRelationships :
              OwnEdge(Id(r)) /\ InGraph(r.from[1]) /\ InGraph(r.to[1]) => Id(r) \in Ids(rels')
  BY UnmovedEdge DEF QuietInv
<1> QED  BY <1>1, <1>2, <1>3, <1>4, <1>5, <1>6, PTL
         DEF QuietSpec, IngestRecordsTree, NoStaleSymbols, EverythingElseStays, UnmovedEdgesStay

-----------------------------------------------------------------------------
(* Ingests take effect at once *)

\* The tree of code files, as the abstract specification sees it.
CodeTree == [p \in Paths \ ConfigPaths |-> tree[TheRepository][p]]

\* The one repository there is.
LEMMA TheOneRepository ==
  ASSUME OneRepository, NEW r \in Repos
  PROVE  r = TheRepository
BY DEF OneRepository, TheRepository

\* The documents of a tree and the files that count in the abstract specification.
LEMMA DocumentsAreFiles ==
  ASSUME TypeOK, NEW M, M = DocumentsOf(TheRepository, tree[TheRepository])
  PROVE  /\ Atomic!Files(CodeTree) \subseteq Paths \ ConfigPaths
         /\ \A p \in Atomic!Files(CodeTree) : CodeTree[p] \in Contents
         /\ \A d \in M : d.path \in Atomic!Files(CodeTree) /\ d.content = CodeTree[d.path]
         /\ \A p \in Atomic!Files(CodeTree) :
              \E d \in M : d.path = p /\ d.content = CodeTree[p]
<1>1. TheRepository \in Repos
  BY CodeGraphAssumption DEF TheRepository
<1>2. tree[TheRepository] \in [Paths -> Contents \cup {Absent}]
  BY <1>1 DEF TypeOK, Trees
<1>3. \A p \in Paths \ ConfigPaths : CodeTree[p] = tree[TheRepository][p]
  BY DEF CodeTree
<1>4. Atomic!Files(CodeTree)
        = {p \in Paths \ ConfigPaths : tree[TheRepository][p] \notin Unparsable \cup {Absent}}
  BY <1>3 DEF Atomic!Files
<1>5. Atomic!Files(CodeTree) \subseteq Paths \ ConfigPaths
  BY <1>4
<1>6. \A p \in Atomic!Files(CodeTree) : CodeTree[p] = tree[TheRepository][p]
  BY <1>3, <1>5
<1>7. \A p \in Atomic!Files(CodeTree) : CodeTree[p] \in Contents
  BY <1>2, <1>4, <1>6
<1>8. M = {[src |-> TheRepository, path |-> p, content |-> tree[TheRepository][p]] :
             p \in Atomic!Files(CodeTree)}
  BY <1>4 DEF DocumentsOf
<1>9. M = {[src |-> TheRepository, path |-> p, content |-> CodeTree[p]] :
             p \in Atomic!Files(CodeTree)}
  BY <1>6, <1>8
<1> DEFINE doc(p) == [src |-> TheRepository, path |-> p, content |-> CodeTree[p]]
<1>10. \A p : doc(p).path = p /\ doc(p).content = CodeTree[p]
  OBVIOUS
<1>11. M = {doc(p) : p \in Atomic!Files(CodeTree)}
  BY <1>9
<1> HIDE DEF doc
<1>12. /\ \A d \in M : d.path \in Atomic!Files(CodeTree) /\ d.content = CodeTree[d.path]
       /\ \A p \in Atomic!Files(CodeTree) : \E d \in M : d.path = p /\ d.content = CodeTree[p]
  BY <1>10, <1>11
<1> QED  BY <1>5, <1>7, <1>12

\* The symbols of those documents that are a file's own are the symbols of the tree,
LEMMA SymbolsAgree ==
  ASSUME TypeOK, NEW e
  PROVE  e \in Symbols(FilesOf(DocumentsOf(TheRepository, tree[TheRepository]))) /\ Own(Key(e))
           <=> e \in Atomic!SymbolsOf(CodeTree)
<1> DEFINE M == DocumentsOf(TheRepository, tree[TheRepository])
           Of(p, c) == [path : {p}, name : Defines[c] \cup {Module}, at : {c}]
           Sure(p, c) == [path : {p}, name : (IF p \in Shadowed THEN {} ELSE Defines[c]) \cup {Module}, at : {c}]
<1>1. e \in Symbols(FilesOf(M)) <=> \E d \in M : e \in Of(d.path, d.content)
  BY SymbolsOfFiles DEF ParseSource
<1>2. e \in Atomic!SymbolsOf(CodeTree)
               <=> \E p \in Atomic!Files(CodeTree) : e \in Sure(p, CodeTree[p])
  BY DEF Atomic!SymbolsOf, Atomic!Promised
<1>3. \A p, c : e \in Of(p, c) /\ Own(Key(e)) <=> e \in Sure(p, c)
  BY DEF Own, Key
<1> HIDE DEF Of, Sure
<1>4. (\E d \in M : e \in Of(d.path, d.content))
               <=> \E p \in Atomic!Files(CodeTree) : e \in Of(p, CodeTree[p])
  BY DocumentsAreFiles
<1> QED  BY <1>1, <1>2, <1>3, <1>4

\* and the relationships a full parse of them resolves between such are its edges.
LEMMA EdgesAgree ==
  ASSUME TypeOK, NEW x
  PROVE  x \in Ids(ResolveEdges(FilesOf(DocumentsOf(TheRepository, tree[TheRepository])), {})) /\ OwnEdge(x)
           <=> x \in Atomic!EdgesOf(CodeTree)
<1> DEFINE M == DocumentsOf(TheRepository, tree[TheRepository])
           F == Atomic!Files(CodeTree)
           Sure(p) == IF p \in Shadowed THEN {} ELSE Defines[CodeTree[p]]
<1>1. M \in SUBSET Document /\ CodeOf(M) = M
  <2>1. TheRepository \in Repos /\ tree[TheRepository] \in [Paths -> Contents \cup {Absent}]
    BY CodeGraphAssumption DEF TheRepository, TypeOK, Trees
  <2> QED  BY <2>1 DEF DocumentsOf, Document, CodeOf
<1>2. x \in Ids(ResolveEdges(FilesOf(M), {})) <=> IsDefine(x, M) \/ IsCall(x, M)
  BY <1>1, GraphIds
<1>3. \A p \in F : Module \notin Defines[CodeTree[p]]
  BY DocumentsAreFiles, CodeGraphAssumption
<1>4. IsDefine(x, M) <=> \E p \in F : \E n \in Defines[CodeTree[p]] :
                            x = <<<<p, Module>>, "defines", <<p, n>>>>
  BY DocumentsAreFiles DEF IsDefine
<1>5. IsCall(x, M) <=> \E p \in F, q \in F : \E n \in Refs[CodeTree[p]] \cap Defines[CodeTree[q]] :
                          x = <<<<p, Module>>, "calls", <<q, n>>>>
  BY DocumentsAreFiles DEF IsCall
<1>6. \A p \in F, q \in F : \A n \in Defines[CodeTree[q]] : \A m :
        OwnEdge(<<<<p, Module>>, m, <<q, n>>>>) <=> q \notin Shadowed
  BY <1>3 DEF OwnEdge, Own
<1>7. IsDefine(x, M) /\ OwnEdge(x) <=> \E p \in F : x \in Atomic!DefinesOf(CodeTree, p)
  <2>1. \A p : x \in Atomic!DefinesOf(CodeTree, p)
                 <=> \E n \in Sure(p) : x = <<<<p, Module>>, "defines", <<p, n>>>>
    BY DEF Atomic!DefinesOf, Atomic!Promised
  <2> HIDE DEF F
  <2> QED  BY <1>4, <1>6, <2>1
<1>8. IsCall(x, M) /\ OwnEdge(x) <=> \E p \in F, q \in F : x \in Atomic!CallsBetween(CodeTree, p, q)
  <2>1. \A p, q : x \in Atomic!CallsBetween(CodeTree, p, q)
                    <=> \E n \in Refs[CodeTree[p]] \cap Sure(q) : x = <<<<p, Module>>, "calls", <<q, n>>>>
    BY DEF Atomic!CallsBetween, Atomic!Promised
  <2> HIDE DEF F
  <2> QED  BY <1>5, <1>6, <2>1
<1>9. x \in Atomic!EdgesOf(CodeTree)
               <=> \/ \E p \in F : x \in Atomic!DefinesOf(CodeTree, p)
                   \/ \E p \in F, q \in F : x \in Atomic!CallsBetween(CodeTree, p, q)
  <2>1. x \in Atomic!AllDefines(CodeTree)
                 <=> \E p \in F : x \in Atomic!DefinesOf(CodeTree, p)
    BY DEF Atomic!AllDefines
  <2>2. x \in Atomic!AllCalls(CodeTree)
                 <=> \E p \in F, q \in F : x \in Atomic!CallsBetween(CodeTree, p, q)
    BY DEF Atomic!AllCalls
  <2>3. x \in Atomic!EdgesOf(CodeTree)
                 <=> x \in Atomic!AllDefines(CodeTree) \/ x \in Atomic!AllCalls(CodeTree)
    BY DEF Atomic!EdgesOf
  <2> QED  BY <2>1, <2>2, <2>3, Zenon
<1> QED  BY <1>2, <1>7, <1>8, <1>9

\* An ingest that writes is the abstract one.
LEMMA WriteIsIngest ==
  ASSUME OneRepository, QuietInv, NEW w \in Writers, WriteCodeGraph(w)
  PROVE  Atomic!Ingest
<1> DEFINE M == DocumentsOf(TheRepository, tree[TheRepository])
<1>1. TypeOK /\ pc[w] = "write" /\ loc[w] \in Locals /\ UNCHANGED tree
  BY DEF QuietInv, GraphInv, TypeOK, WriteCodeGraph, Goto
<1>2. loc[w].repo = TheRepository /\ loc[w].seen = tree[TheRepository]
  BY <1>1, TheOneRepository DEF QuietInv, Reading, Locals
<1>3. docs' = M /\ EntitiesMatchDocuments' /\ EdgesMatchDocuments'
  BY <1>2, WriteGraph DEF QuietInv
<1>4. M \in SUBSET Document /\ CodeOf(M) = M
  <2>1. TheRepository \in Repos /\ tree[TheRepository] \in [Paths -> Contents \cup {Absent}]
    BY <1>1, CodeGraphAssumption DEF TheRepository, TypeOK, Trees
  <2> QED  BY <2>1 DEF DocumentsOf, Document, CodeOf
<1>5. OwnSymbols' = Atomic!SymbolsOf(CodeTree)
  <2>1. \A e : e \in OwnSymbols' <=> e \in ents' /\ e.path \notin ConfigPaths /\ Own(Key(e))
    BY DEF OwnSymbols, CodeEntities
  <2>2. /\ \A e \in ents' : e.path \notin ConfigPaths => e \in Symbols(FilesOf(M))
        /\ \A e \in Symbols(FilesOf(M)) : Own(Key(e)) => e \in ents'
    <3>1. Symbols(FilesOf(docs))' = Symbols(FilesOf(M))
      BY <1>3 DEF Symbols, FilesOf
    <3> HIDE DEF M
    <3> QED  BY <1>3, <3>1 DEF EntitiesMatchDocuments, CodeEntities
  <2>3. \A e \in Symbols(FilesOf(M)) : e.path \notin ConfigPaths
    BY <1>4, SymbolsOfFiles DEF ParseSource, CodeOf
  <2>4. \A e : e \in Symbols(FilesOf(M)) /\ Own(Key(e)) <=> e \in Atomic!SymbolsOf(CodeTree)
    BY <1>1, SymbolsAgree
  <2> HIDE DEF M
  <2> QED  BY <2>1, <2>2, <2>3, <2>4
<1>6. OwnEdges' = Atomic!EdgesOf(CodeTree)
  <2>1. \A x : x \in OwnEdges' <=> x \in Ids(CodeRelationships') /\ OwnEdge(x)
    BY DEF OwnEdges, Ids, Id, CodeRelationships
  <2>2. \A x : x \in Ids(CodeRelationships') <=> x \in Ids(rels') /\ InCode(x)
    BY DEF Ids, Id, CodeRelationships, InCode
  <2>3. /\ Ids(CodeRelationships') \subseteq Ids(ResolveEdges(FilesOf(M), {}))
        /\ \A x \in Ids(ResolveEdges(FilesOf(M), {})) : OwnEdge(x) => x \in Ids(rels')
    <3>1. /\ Ids(ResolveEdges(FilesOf(docs), {}))' = Ids(ResolveEdges(FilesOf(M), {}))
          /\ Ids(CodeRelationships)' = Ids(CodeRelationships') /\ Ids(rels)' = Ids(rels')
      BY <1>3 DEF CodeRelationships, Ids, ResolveEdges, FilesOf
    <3> HIDE DEF M
    <3> QED  BY <1>3, <3>1 DEF EdgesMatchDocuments
  <2>4. \A x \in Ids(ResolveEdges(FilesOf(M), {})) : InCode(x)
    BY <1>4, GraphIds, GraphIdsInCode
  <2>5. \A x : x \in Ids(ResolveEdges(FilesOf(M), {})) /\ OwnEdge(x) <=> x \in Atomic!EdgesOf(CodeTree)
    BY <1>1, EdgesAgree
  <2> HIDE DEF M
  <2> QED  BY <2>1, <2>2, <2>3, <2>4, <2>5
<1>7. UNCHANGED CodeTree
  BY <1>1 DEF CodeTree
<1> QED  BY <1>5, <1>6, <1>7 DEF Atomic!Ingest, Atomic!GraphOf, CodeTree

\* An edit of a code file is the abstract one; of a configuration file, nothing.
LEMMA EditIsEdit ==
  ASSUME OneRepository, TypeOK, NEW r \in Repos, NEW p \in Paths, Edit(r, p)
  PROVE  IF p \in ConfigPaths THEN UNCHANGED CodeTree ELSE Atomic!Edit(p)
<1>1. r = TheRepository
  BY TheOneRepository
<1>2. PICK c \in Contents \cup {Absent} : tree' = [tree EXCEPT ![TheRepository][p] = c]
  BY <1>1 DEF Edit
<1>3. \A q \in Paths : tree'[TheRepository][q] = IF q = p THEN c ELSE tree[TheRepository][q]
  BY <1>1, <1>2 DEF TypeOK, Trees
<1>4. CASE p \in ConfigPaths
  BY <1>3, <1>4 DEF CodeTree
<1>5. CASE p \notin ConfigPaths
  <2>1. CodeTree' = [CodeTree EXCEPT ![p] = c]
    BY <1>3, <1>5 DEF CodeTree
  <2>2. UNCHANGED [symbols |-> OwnSymbols, edges |-> OwnEdges]
    BY DEF Edit, OwnSymbols, OwnEdges, CodeEntities, CodeRelationships, Ids, Id
  <2> QED  BY <1>5, <2>1, <2>2 DEF Atomic!Edit, CodeTree
<1> QED  BY <1>4, <1>5

\* However many ingests run at once, and wherever they die, to a reader each one that
\* finishes puts the graph of the tree in place of the graph, whatever was there.
THEOREM QuietIngestsAreAtomic ==
  ASSUME OneRepository
  PROVE  QuietSpec => IngestsAtomically
<1> DEFINE Graph == [symbols |-> OwnSymbols, edges |-> OwnEdges]
<1>1. Init => Atomic!Init
  <2> SUFFICES ASSUME Init PROVE Atomic!Init  OBVIOUS
  <2>1. OwnSymbols = {} /\ OwnEdges = {}
    BY DEF Init, OwnSymbols, OwnEdges, CodeEntities, CodeRelationships, Ids
  <2>2. TheRepository \in Repos
    BY CodeGraphAssumption DEF TheRepository
  <2>3. CodeTree \in [Paths \ ConfigPaths -> Contents \cup {Absent}]
    BY <2>2 DEF Init, Trees, CodeTree
  <2> QED  BY <2>1, <2>3 DEF Atomic!Init, CodeTree
<1>2. QuietInv /\ [QuietNext]_vars => [Atomic!Next]_<<CodeTree, Graph>>
  <2> SUFFICES ASSUME QuietInv, [QuietNext]_vars
               PROVE  Atomic!Next \/ UNCHANGED <<CodeTree, Graph>>
    OBVIOUS
  <2>1. CASE \E r \in Repos, p \in Paths : Edit(r, p)
    <3>1. PICK r \in Repos, p \in Paths : Edit(r, p)
      BY <2>1
    <3>2. UNCHANGED Graph
      BY <3>1 DEF Edit, OwnSymbols, OwnEdges, CodeEntities, CodeRelationships, Ids, Id
    <3> QED  BY <3>1, <3>2, EditIsEdit DEF QuietInv, GraphInv, Atomic!Next
  <2>2. CASE \E w \in Writers : WriteCodeGraph(w)
    BY <2>2, WriteIsIngest DEF Atomic!Next
  <2>3. CASE UNCHANGED <<tree, ents, rels>>
    BY <2>3 DEF CodeTree, OwnSymbols, OwnEdges, CodeEntities, CodeRelationships, Ids, Id
  <2>4. UNCHANGED <<tree, ents, rels>> \/ (\E r \in Repos, p \in Paths : Edit(r, p))
          \/ \E w \in Writers : WriteCodeGraph(w)
    BY DEF QuietNext, Ingest, ReadHashes, Detect, Parse, ReconstructDocuments,
           ReconstructEntities, Crash, vars
  <2> QED  BY <2>1, <2>2, <2>3, <2>4
<1>3. Init => QuietInv
  BY QuietInit
<1>4. QuietInv /\ [QuietNext]_vars => QuietInv'
  BY QuietStep
<1>5. [Atomic!Next]_<<CodeTree, Graph>>
        => [Atomic!Next]_<<[p \in Paths \ ConfigPaths |-> tree[TheRepository][p]], Graph>>
  BY DEF CodeTree
<1> QED  BY <1>1, <1>2, <1>3, <1>4, <1>5, PTL DEF QuietSpec, IngestsAtomically, Atomic!Spec

-----------------------------------------------------------------------------
(* One writer: a forget deletes what it previewed *)

\* Nobody else writes between the preview and the transaction.
LEMMA PlanStep ==
  ASSUME Serial, SerialInv, PlanCurrent, [Next]_vars
  PROVE  PlanCurrent'
<1>1. CASE UNCHANGED <<docs, ents, rels, pc, plan>>
  BY <1>1 DEF PlanCurrent
<1>2. ASSUME NEW w \in Writers, pc'[w] # "forget" PROVE PlanCurrent'
  BY <1>2 DEF Serial, PlanCurrent
<1>3. ASSUME NEW w \in Writers, NEW P \in SUBSET Paths, ForgetPreview(w, P) PROVE PlanCurrent'
  <2> DEFINE R == P \cap PathsOf(ents)
             it == [paths |-> R, ents  |-> {e \in ents : Matches(R, Key(e))}, docs  |-> {d \in docs : d.path \in R},
                    edges |-> {r \in rels : Matches(R, r.from) \/ Matches(R, r.to)}]
  <2>1. plan' = [plan EXCEPT ![w] = it] /\ UNCHANGED <<docs, ents, rels>>
    BY <1>3 DEF ForgetPreview
  <2>2. plan'[w] = it
    BY <2>1 DEF SerialInv, GraphInv, TypeOK
  <2>3. \A v \in Writers : v = w
    BY DEF Serial
  <2>4. /\ plan'[w].ents = {e \in ents' : Matches(plan'[w].paths, Key(e))}
        /\ plan'[w].docs = {d \in docs' : d.path \in plan'[w].paths}
        /\ plan'[w].edges = {r \in rels' : Matches(plan'[w].paths, r.from) \/ Matches(plan'[w].paths, r.to)}
    BY <2>1, <2>2 DEF Matches, Key
  <2> QED  BY <2>3, <2>4 DEF PlanCurrent, Matches, Key
<1>4. ASSUME NEW w \in Writers, Ingest(w) \/ ForgetApply(w) \/ Crash(w) PROVE PlanCurrent'
  <2>1. pc \in [Writers -> PcValues]
    BY DEF SerialInv, GraphInv, TypeOK
  <2>2. pc'[w] # "forget"
    BY <1>4, <2>1 DEF Ingest, ReadHashes, Detect, Parse, ReconstructDocuments, ReconstructEntities, WriteCodeGraph,
                      ForgetApply, Crash, Goto
  <2> QED  BY <1>2, <2>2
<1> QED  BY <1>1, <1>3, <1>4 DEF Next, Forget, Edit, vars

\* forget.py:9-12, for one writer: the dry run counts the rows the write deletes.
THEOREM ForgetRemovesThePreviewEver ==
  ASSUME Serial
  PROVE  Spec => ForgetRemovesThePreview
<1>1. ASSUME SerialInv, PlanCurrent, NEW w \in Writers, ForgetApply(w)
      PROVE  /\ ents \ ents' = plan[w].ents
             /\ docs \ docs' = plan[w].docs
             /\ rels \ rels' = plan[w].edges
  <2> DEFINE R == plan[w].paths
  <2>1. /\ plan[w].ents = {e \in ents : Matches(R, Key(e))}
        /\ plan[w].docs = {d \in docs : d.path \in R}
        /\ plan[w].edges = {r \in rels : Matches(R, r.from) \/ Matches(R, r.to)}
    BY <1>1 DEF PlanCurrent, ForgetApply, Goto
  <2>2. ents' = WithoutEntities(R) /\ rels' = WithoutRelationships(R)
    BY <1>1 DEF ForgetApply
  <2>3. docs' = DocumentsOutside(R)
    BY <1>1, DeletedDocuments DEF ForgetApply, SerialInv, GraphInv
  <2>4. ents \ ents' = plan[w].ents /\ docs \ docs' = plan[w].docs
    BY <2>1, <2>2, <2>3 DEF WithoutEntities, DocumentsOutside
  <2>5. rels \ rels' = plan[w].edges
    BY <2>1, <2>2 DEF WithoutRelationships
  <2> QED  BY <2>4, <2>5
<1>2. SerialInv /\ PlanCurrent => \A w \in Writers : ForgetApply(w) =>
        /\ ents \ ents' = plan[w].ents
        /\ docs \ docs' = plan[w].docs
        /\ rels \ rels' = plan[w].edges
  BY <1>1
<1>3. Init => SerialInv /\ PlanCurrent
  BY SerialInit DEF Init, PlanCurrent
<1>4. SerialInv /\ PlanCurrent /\ [Next]_vars => (SerialInv /\ PlanCurrent)'
  BY SerialStep, PlanStep
<1> QED  BY <1>2, <1>3, <1>4, PTL DEF Spec, ForgetRemovesThePreview

=============================================================================
