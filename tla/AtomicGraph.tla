----------------------------- MODULE AtomicGraph -----------------------------
(***************************************************************************)
(* What the code plane promises its readers: the graph is that of the      *)
(* working tree, and an ingest replaces it as a whole.  What the graph of  *)
(* a tree is, is said of its files alone: no hashes, no rows that are kept, *)
(* nothing an ingest remembers of the one before.  Of the symbols of some  *)
(* files it promises nothing.                                              *)
(***************************************************************************)
CONSTANTS
  Paths,        \* of code files
  Contents,
  Unparsable,   \* the contents that leave their file out of the graph
  Names,
  Declares,     \* the names a content declares
  Mentions,     \* the names it mentions
  Unsure,       \* the files of whose symbols nothing is promised
  Absent,
  Module        \* the name of a file's own node

VARIABLES
  tree,   \* the content of each path, or Absent
  graph   \* [symbols, edges]

Files(t) == {p \in Paths : t[p] \notin Unparsable \cup {Absent}}
Promised(t, p) == IF p \in Unsure THEN {} ELSE Declares[t[p]]
SymbolsOf(t) ==
  UNION {[path : {p}, name : Promised(t, p) \cup {Module}, at : {t[p]}] : p \in Files(t)}

\* A file defines what it declares, and calls every declaration of a name it mentions.
DefinesOf(t, p) == {<<<<p, Module>>, "defines", <<p, n>>>> : n \in Promised(t, p)}
CallsBetween(t, p, q) ==
  {<<<<p, Module>>, "calls", <<q, n>>>> : n \in Mentions[t[p]] \cap Promised(t, q)}
AllDefines(t) == UNION {DefinesOf(t, p) : p \in Files(t)}
AllCalls(t) == UNION {CallsBetween(t, p, q) : p \in Files(t), q \in Files(t)}
EdgesOf(t) == AllDefines(t) \cup AllCalls(t)
GraphOf(t) == [symbols |-> SymbolsOf(t), edges |-> EdgesOf(t)]

Init ==
  /\ tree \in [Paths -> Contents \cup {Absent}]
  /\ graph = [symbols |-> {}, edges |-> {}]

Edit(p) ==
  /\ \E c \in Contents \cup {Absent} : tree' = [tree EXCEPT ![p] = c]
  /\ UNCHANGED graph

Ingest ==
  /\ graph' = GraphOf(tree)
  /\ UNCHANGED tree

Next == Ingest \/ \E p \in Paths : Edit(p)

Spec == Init /\ [][Next]_<<tree, graph>>

=============================================================================
