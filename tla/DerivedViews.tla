---------------------------- MODULE DerivedViews ----------------------------
(***************************************************************************)
(* The precomputed views of the code graph (code/postprocess.py) and the   *)
(* tools that serve them (code/catalogue.py).  A run notes the revision of *)
(* the graph, loads the graph, and replaces the rows of one stage after    *)
(* another, each in a transaction of its own; readers compare the revision *)
(* of a row with the graph's.  A stage's rows are abstracted to the graph  *)
(* they were computed from.                                                *)
(***************************************************************************)
EXTENDS Naturals, FiniteSets, Sequences

CONSTANTS Runners,     \* processes that run the post-processing
          SymbolSets,  \* the symbols a graph may have, each a set of identifiers (numbers)
          MaxChanges,  \* bound on the changes of the graph
          MaxRuns      \* bound on the runs

VARIABLES graph,    \* the symbols of the graph
          stored,   \* per stage, the rows: [of, revision], or NoRows
          lastRun,  \* table code_postprocess_runs
          run,      \* the run of each process
          had,      \* not in the code: the revisions the graph has had
          again,    \* not in the code: those a change has brought back
          changes, runs
vars == <<graph, stored, lastRun, run, had, again, changes, runs>>

(* The stages of a level, in the order of STAGES.                          *)
LevelStages == [none |-> <<>>, minimal |-> <<"communities">>, standard |-> <<"communities", "flows">>,
                full |-> <<"communities", "flows", "risk", "index">>]
NoRows == [of |-> {}, revision |-> <<0, 0>>]
Idle == [at |-> "idle", level |-> "none", view |-> {}, revision |-> <<0, 0>>, todo |-> <<>>, ran |-> {}]

(* graph_revision: the number of rows and the highest identifier.  (Edges  *)
(* contribute the same two numbers.)                                       *)
Largest(S) == IF S = {} THEN 0 ELSE CHOOSE n \in S : \A m \in S : m <= n
Revision(g) == <<Cardinality(g), Largest(g)>>

Init == /\ graph \in SymbolSets
        /\ stored = [s \in {"communities", "flows", "risk"} |-> NoRows]
        /\ lastRun = [level |-> "none", ran |-> {}, revision |-> <<0, 0>>]
        /\ run = [p \in Runners |-> Idle]
        /\ had = {Revision(graph)} /\ again = {} /\ changes = 0 /\ runs = 0

(* An ingest or a forget.                                                  *)
Change(g) == /\ changes < MaxChanges /\ g # graph
             /\ graph' = g /\ changes' = changes + 1
             /\ had' = had \cup {Revision(g)} /\ again' = again \cup (had \cap {Revision(g)})
             /\ UNCHANGED <<stored, lastRun, run, runs>>

Becomes(p, r) == run' = [run EXCEPT ![p] = r]
(* run_postprocess: the revision first, the view afterwards.               *)
ReadRevision(p) == \E level \in DOMAIN LevelStages :
    /\ run[p].at = "idle" /\ runs < MaxRuns /\ runs' = runs + 1
    /\ Becomes(p, [Idle EXCEPT !.at = "load", !.level = level, !.revision = Revision(graph),
                               !.todo = LevelStages[level]])
    /\ UNCHANGED <<graph, stored, lastRun, had, again, changes>>
LoadView(p) ==
    /\ run[p].at = "load"
    /\ Becomes(p, [run[p] EXCEPT !.at = "stage", !.view = graph])
    /\ UNCHANGED <<graph, stored, lastRun, had, again, changes, runs>>

Row_RevisionNow(r) == [of |-> r.view, revision |-> Revision(graph)]
Row(r) == [of |-> r.view, revision |-> r.revision]
(* The next stage of the level: delete the rows of the tenant and insert   *)
(* the new ones.  The index stage rebuilds the vectors, or says why it did *)
(* not run: no model, or an exception it swallows.                         *)
Stage(p) ==
    LET r == run[p]
        s == Head(r.todo)
    IN  /\ r.at = "stage" /\ r.todo # <<>>
        /\ \E ran \in IF s = "index" THEN BOOLEAN ELSE {TRUE} :
             /\ stored' = IF ran /\ s # "index"
                          THEN [stored EXCEPT ![s] = Row(r)]
                          ELSE stored
             /\ Becomes(p, [r EXCEPT !.todo = Tail(@), !.ran = IF ran THEN @ \cup {s} ELSE @])
        /\ UNCHANGED <<graph, lastRun, had, again, changes, runs>>

(* The run is recorded under the level that was asked for.                 *)
RecordRun(p) ==
    /\ run[p].at = "stage" /\ run[p].todo = <<>>
    /\ lastRun' = [level |-> run[p].level, ran |-> run[p].ran, revision |-> run[p].revision]
    /\ Becomes(p, Idle)
    /\ UNCHANGED <<graph, stored, had, again, changes, runs>>
Crash(p) == /\ run[p].at # "idle" /\ Becomes(p, Idle)
            /\ UNCHANGED <<graph, stored, lastRun, had, again, changes, runs>>

Next == \/ \E g \in SymbolSets : Change(g)
        \/ \E p \in Runners : ReadRevision(p) \/ LoadView(p) \/ Stage(p) \/ RecordRun(p) \/ Crash(p)
Spec == Init /\ [][Next]_vars

(* What list_flows, community_summary and symbol_risk answer: the rows and *)
(* whether they are current, or that nothing was computed.                 *)
Currency(s) == stored[s].revision = Revision(graph)
Serve(s) == IF stored[s].of = {} THEN "not built"
            ELSE IF Currency(s) THEN "current" ELSE "stale"

-----------------------------------------------------------------------------

(* What a reader calls current was computed from the graph as it stands,   *)
(* whatever was added or removed, ran at the same time or died: a change   *)
(* after the revision was noted makes it stale, never wrong                *)
(* (code/postprocess.py:138-141: revision first, view second).  Except     *)
(* under a revision that a change has brought back, because the graph is   *)
(* an earlier one again or because another one has as many rows and the    *)
(* same greatest identifiers: graph_revision cannot tell those apart.      *)
ServedRight == Revision(graph) \notin again =>
               \A s \in DOMAIN stored : Serve(s) = "current" => stored[s].of = graph
=============================================================================
