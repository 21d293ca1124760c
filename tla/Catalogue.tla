----------------------------- MODULE Catalogue ------------------------------
(***************************************************************************)
(* The derived tables: what the post-processing stages write               *)
(* (code/postprocess.py) and what the readers make of it                   *)
(* (code/catalogue.py).  When a row counts as current is in DerivedViews.  *)
(*                                                                         *)
(* `canon` gives the canonical name of a node, as its rank among the       *)
(* names; two nodes of different kinds may share one.  `b` holds the       *)
(* bounds MAX_FLOWS, MAX_FLOW_STEPS and MAX_FLOW_DEPTH.                    *)
(***************************************************************************)
EXTENDS Tools

Stages == <<"communities", "flows", "risk", "index">>
LevelStages == [none |-> {}, minimal |-> {"communities"}, standard |-> {"communities", "flows"},
                full |-> ToSet(Stages)]
AppliedLevel(ran) ==
    LET held == SelectSeq(<<"none", "minimal", "standard", "full">>, LAMBDA l : LevelStages[l] \subseteq ran)
    IN  Last(held)

(* Communities: a row each.  A density is <<edges, possible edges>>.       *)
GroupRow(v, group, c, inner) ==
    LET size  == Cardinality(group)
    IN  [index |-> c, members |-> group, internal |-> inner, files |-> {v.file[n] : n \in group} \ {0},
         external |-> MapThenSumSet(LAMBDA n : Cardinality(Near(v, Structural, n) \ group), group),
         density |-> IF size >= 2 THEN <<2 * inner, size * (size - 1)>> ELSE <<1, 1>>,
         entries |-> {n \in group : v.kind[n] \in EntryPointKinds \/ v.name[n] \in {"main", "__main__"}}]
SummaryRow(v, group, c) ==
    GroupRow(v, group, c, MapThenSumSet(LAMBDA n : Cardinality(Near(v, Structural, n) \cap group), group) \div 2)
SummaryRows(v, comm) == {SummaryRow(v, {n \in v.nodes : comm[n] = c}, c) : c \in {comm[n] : n \in v.nodes}}
StageCommunities(v, res) == SummaryRows(v, Assignment(v, res))

(* A flow: breadth first, a node marked when it is queued, cut at b.steps  *)
(* steps and at b.depth without saying so.  A step is <<node, depth>>.     *)
Unseen_OnTheFlow(t, v, n) ==
    SelectSeq(Sorted(Children(v, n)), LAMBDA m : \A i \in DOMAIN t.steps : t.steps[i][1] # m)
Unseen(t, v, n) == SelectSeq(Sorted(Children(v, n)), LAMBDA m : m \notin t.seen)
RECURSIVE TraceOn(_, _, _)
TraceOn(t, v, b) ==
    IF t.queue = <<>> \/ Len(t.steps) >= b.steps THEN t.steps ELSE
    LET step == Head(t.queue)
        new  == IF step[2] >= b.depth THEN <<>> ELSE Unseen(t, v, step[1])
    IN  TraceOn([queue |-> Tail(t.queue) \o [i \in DOMAIN new |-> <<new[i], step[2] + 1>>],
                 seen |-> t.seen \cup ToSet(new), steps |-> Append(t.steps, step)], v, b)
Trace(v, entry, b) == TraceOn([queue |-> <<<<entry, 0>>>>, seen |-> {entry}, steps |-> <<>>], v, b)
NodesOn(steps) == {steps[i][1] : i \in DOMAIN steps}

(* Flows of at least two steps, ranked by half their steps and half their  *)
(* files, each against the most of any flow.  A rank is times twice both.  *)
(* `name` is unique in the table: two entries of one name fail the insert. *)
FlowRow(v, canon, e, steps, files, longest, widest) ==
    [entry |-> e, name |-> canon[e], kind |-> v.kind[e], steps |-> steps, files |-> files \ {0},
     depth |-> Max({steps[i][2] : i \in DOMAIN steps}), rank |-> Len(steps) * widest + Cardinality(files \ {0}) * longest]
FlowTable(v, canon, considered, trace, traced) ==
    LET FilesOf(e) == {v.file[n] : n \in NodesOn(trace[e])}
        longest == Max({1} \cup {Len(trace[e]) : e \in traced})
        widest  == Max({1} \cup {Cardinality(FilesOf(e)) : e \in traced})
    IN  [rows |-> {FlowRow(v, canon, e, trace[e], FilesOf(e), longest, widest) : e \in traced},
         considered |-> Cardinality(considered),
         clash |-> \E e, f \in traced : e # f /\ canon[e] = canon[f]]
TracedTable(v, canon, trace) == FlowTable(v, canon, DOMAIN trace, trace, {e \in DOMAIN trace : Len(trace[e]) >= 2})
StageFlows(v, canon, b) ==
    LET considered == {e \in RiskEntries(v) : Cardinality({f \in RiskEntries(v) : f < e}) < b.flows}
    IN  TracedTable(v, canon, Table([e \in considered |-> Trace(v, e, b)]))

(* The risk index: score and level of every symbol, keyed by its name.     *)
RiskRow(n, name, score, cuts) == [symbol |-> n, name |-> name, score |-> score, level |-> LevelFor(score, cuts)]
RiskTable(model, cuts, canon) ==
    [rows |-> {RiskRow(n, canon[n], RiskScore(model, n), cuts) : n \in DOMAIN model.callers},
     clash |-> \E m, n \in DOMAIN model.callers : m # n /\ canon[m] = canon[n]]
CutTable(model, canon) == RiskTable(model, LevelCuts(model), canon)
StageRisk(v, comm, canon) == CutTable(RiskModel(v, comm), canon)

(* One run: the stages in order, each a transaction of its own.  A clash   *)
(* raises: what was written stays and no run is recorded.  The index stage *)
(* needs a real model ("ok"); its own failure is reported, not raised.     *)
Raises(v, canon, b, s) ==
    CASE s = "flows" -> StageFlows(v, canon, b).clash
      [] s = "risk" -> StageRisk(v, Assignment(v, 4), canon).clash
      [] OTHER -> FALSE
Outcome(end) == [raised |-> end.raised, ran |-> end.ran, applied |-> AppliedLevel(end.ran), recorded |-> ~end.raised]
RunPostprocess(v, canon, b, stages, adapter) ==
    LET Stage(r, s) ==
            IF r.raised \/ s \notin stages \/ (s = "index" /\ adapter # "ok") THEN r
            ELSE IF Raises(v, canon, b, s) THEN [r EXCEPT !.raised = TRUE]
            ELSE [r EXCEPT !.ran = @ \cup {s}]
    IN  Outcome(FoldLeft(Stage, [ran |-> {}, raised |-> FALSE], Stages))

(* The readers.  A list asks for one row more than it may show, so that it *)
(* knows of the rest; the affected flows and the summaries do not.         *)
Leads(f, g) == f.rank > g.rank \/ (f.rank = g.rank /\ f.name < g.name)
InRank(S, Lead(_, _), k) == LET all == InOrderOf(S, Lead) IN SubSeq(all, 1, Min({k, Len(all)}))
ListFlows(rows, limit) ==
    LET k == Clamp(limit, 1, 1000)
        read == InRank(rows, Leads, k + 1)
    IN  [built |-> rows # {}, flows |-> SubSeq(read, 1, Min({k, Len(read)})), total |-> Cardinality(rows), truncated |-> Len(read) > k]
GetFlow(rows, name) == {f \in rows : f.name = name}
Touched(f, wanted) == Cardinality(f.files \cap wanted)
FlowsAffectedBy(rows, wanted, limit) ==
    LET affected == {f \in rows : Touched(f, wanted) > 0}
        Lead(f, g) == \/ Touched(f, wanted) > Touched(g, wanted)
                      \/ Touched(f, wanted) = Touched(g, wanted) /\ Leads(f, g)
    IN  [built |-> wanted = {} \/ rows # {}, flows |-> InRank(affected, Lead, Clamp(limit, 1, 1000)),
         inNoFlow |-> IF rows = {} THEN {} ELSE wanted \ UNION {f.files : f \in rows}]
CommunitySummary(rows, index, limit) ==
    LET Larger(r, s) == \/ Cardinality(r.members) > Cardinality(s.members)
                        \/ Cardinality(r.members) = Cardinality(s.members) /\ r.index < s.index
    IN  IF index >= 0 THEN InOrderOf({r \in rows : r.index = index}, Larger) ELSE InRank(rows, Larger, Clamp(limit, 1, 1000))
SymbolRisk(rows, limit) ==
    InRank(rows, LAMBDA r, s : r.score > s.score \/ (r.score = s.score /\ r.name < s.name), Clamp(limit, 1, 1000))

(* dkg.code.flows, dkg.code.flow.get, dkg.code.flows.affected,             *)
(* dkg.code.communities, dkg.code.risk.index, and the code-postprocess,    *)
(* code-flows and code-summaries commands.                                 *)
Catalogued == Idle /\ \E b \in Args.bounds, files \in Args.changed, limit \in Args.limits, v \in {View} :
    \E stage \in {StageFlows(v, Args.names[1], b)} :
        Returns([tool |-> "catalogue", view |-> v, b |-> b, files |-> files, limit |-> limit, stage |-> stage,
                 named |-> [n \in v.nodes |-> GetFlow(stage.rows, n)],
                 flows |-> ListFlows(stage.rows, limit), affected |-> FlowsAffectedBy(stage.rows, files, limit)])
Summarised == Idle /\ \E limit \in Args.limits, v \in {View} : \E comm \in {Assignment(v, 4)} :
    \E communities \in {SummaryRows(v, comm)}, risk \in {StageRisk(v, comm, Args.names[1]).rows} :
        Returns([tool |-> "summaries", view |-> v, limit |-> limit, rows |-> communities,
                 first |-> CommunitySummary(communities, 0, limit), communities |-> CommunitySummary(communities, -1, limit),
                 risk |-> risk, riskiest |-> SymbolRisk(risk, limit)])
Postprocess == Idle /\ \E names \in DOMAIN Args.names, stages \in Range(LevelStages) \cup {{"risk"}, {"flows", "risk"}}, adapter \in {"hashing", "fails", "ok"} :
    /\ Cardinality(db.nodes) = 6
    /\ Returns([tool |-> "postprocess", stages |-> stages, view |-> View, canon |-> Args.names[names],
                of |-> RunPostprocess(View, Args.names[names], CHOOSE b \in Args.bounds : TRUE, stages, adapter)])
CatalogueNext == Catalogued \/ Summarised \/ Postprocess
=============================================================================
