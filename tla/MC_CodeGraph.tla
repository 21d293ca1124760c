---------------------------- MODULE MC_CodeGraph ----------------------------
(* Small instances of CodeGraph.  Content c1 defines f and calls g; c2      *)
(* defines f and g; c3 defines g and is what a syntax error would leave.    *)
EXTENDS CodeGraph, TLC

CONSTANTS c1, c2, c3, f, g,
          shadowed   \* the path that the other code paths' patterns take for theirs

MCContents == {c1, c2, c3}
MCTwoContents == {c1, c2}
MCNames == {f, g}
MCDefines == [c \in Contents |-> CASE c = c1 -> {f} [] c = c2 -> {f, g} [] c = c3 -> {g}]
MCRefs == [c \in Contents |-> IF c = c1 THEN {g} ELSE {f}]

\* As of a_b.py and _-b.py, to both of which a-b.py is alike.
MCAlike == [p \in Paths |-> IF p \in ConfigPaths THEN {p} ELSE {p, shadowed}]
MCNoneAlike == [p \in Paths |-> {p}]

\* Writers are interchangeable, and so are the code paths nothing tells apart; for
\* safety properties.
MCSymmetry ==
  Permutations(Writers) \cup Permutations(Paths \ (ConfigPaths \cup Shadowed))

=============================================================================
