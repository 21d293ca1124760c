---------------------------- MODULE ContextSlices ----------------------------
(***************************************************************************)
(* Context for a model: node-level slices around a seed                    *)
(* (context/slices.py), exact answers (context/exact.py), and the two ways *)
(* to gather a neighbourhood (context/provenance.py); and how an answer is *)
(* made to fit a token budget (context/pack.py): units one by one, and a   *)
(* finished payload by cutting its ranked lists.  The text of a symbol is  *)
(* its cost in tokens; detail only changes that.                           *)
(***************************************************************************)
EXTENDS Traversals

CostOf(S, cost) == FoldSet(LAMBDA k, t : cost[k] + t, 0, S)

(* pack_units: `order` best first.  What is required goes in always; of    *)
(* the rest, each that still fits.  A budget of 0 stands for none.         *)
PackUnits(order, required, cost, budget) ==
    FoldLeft(LAMBDA in, k : IF k \in required \/ budget = 0 \/ CostOf(in \cup {k}, cost) <= budget
                            THEN in \cup {k} ELSE in,
             {}, order)
(* The promises of the packing, for a set of units out of which `in` went. *)
PackedWell(units, in, required, cost, budget) ==
    /\ required \cap units \subseteq in /\ in \subseteq units
    /\ budget > 0 =>
         /\ CostOf(in, cost) > budget <=> CostOf(required \cap units, cost) > budget
         /\ CostOf(in, cost) > budget => in \subseteq required
         /\ \A k \in units \ in : CostOf(in, cost) + cost[k] > budget

(* apply_budget.  A payload has something that is never cut, and lists     *)
(* whose entries cost `each`; its report costs a token for itself, one for *)
(* every list that was cut, and another when the count has two digits.     *)
PayloadSize(p, kept, dropped, count) ==
    p.fixed + CostOf(DOMAIN kept, [l \in DOMAIN kept |-> p.each[l] * kept[l]])
      + (IF count < 0 THEN 0 ELSE 1 + Cardinality(dropped) + IF count > 9 THEN 1 ELSE 0)
Reported(p, kept, dropped) ==
    Max({PayloadSize(p, kept, dropped, 0), PayloadSize(p, kept, dropped, PayloadSize(p, kept, dropped, 0))})
RECURSIVE Trim(_, _, _, _)
Longest(kept) ==
    LET long == {l \in DOMAIN kept : kept[l] > 1}
    IN  {l \in long : \A m \in long : kept[l] > kept[m] \/ (kept[l] = kept[m] /\ l >= m)}
Trim(p, kept, dropped, budget) ==
    IF PayloadSize(p, kept, dropped, 0) <= budget \/ Longest(kept) = {}
    THEN [kept |-> kept, dropped |-> dropped, tokens |-> Reported(p, kept, dropped),
          exceeded |-> Reported(p, kept, dropped) > budget, reports |-> TRUE]
    ELSE LET l == CHOOSE m \in Longest(kept) : TRUE
         IN  Trim(p, [kept EXCEPT ![l] = @ - 1], dropped \cup {l}, budget)
ApplyBudget(p, budget) ==
    LET whole == PayloadSize(p, p.lists, {}, -1)
    IN  IF budget = 0 \/ whole <= budget
        THEN [kept |-> p.lists, dropped |-> {}, tokens |-> whole, exceeded |-> FALSE, reports |-> FALSE]
        ELSE Trim(p, [l \in {m \in DOMAIN p.lists : p.lists[m] > 0} |-> p.lists[l]], {}, budget)

Relations == [impact     |-> [preds |-> {"calls", "inherits", "imports"}, way |-> {"in"}],
              callers    |-> [preds |-> {"calls"}, way |-> {"in"}],
              callees    |-> [preds |-> {"calls"}, way |-> {"out"}],
              flow       |-> [preds |-> {"calls"}, way |-> {"out"}],
              neighbours |-> [preds |-> {"calls", "inherits", "imports"}, way |-> {"in", "out"}]]

(* _traverse: breadth first; a node's confidence is the product of the     *)
(* weights along the path that found it, kept here in units of 100^-3.     *)
(* `rows` is the order in which the database returns rows.  The node cap   *)
(* ends the whole walk.                                                    *)
EdgeWeight(v, r, from, to) ==
    LET back == {e \in EdgesFor(v, r.preds) : "in" \in r.way /\ e.s = to /\ e.o = from}
        on   == {e \in EdgesFor(v, r.preds) : e.s = from /\ e.o = to}
    IN  (CHOOSE e \in IF back # {} THEN back ELSE on : TRUE).w
NextRows(v, r, n, rows) ==
    (IF "in" \in r.way THEN ReadInto(v, r.preds, n, rows) ELSE <<>>)
    \o (IF "out" \in r.way THEN ReadOutOf(v, r.preds, n, rows) ELSE <<>>)
RECURSIVE Gather(_, _, _, _, _, _)
Gather(b, v, r, depth, cap, rows) ==
    IF b.queue = <<>> \/ b.truncated THEN b ELSE
    LET cur == Head(b.queue)
        Take(a, n) ==
            IF n \in DOMAIN a.dist \/ a.truncated THEN a
            ELSE IF Cardinality(DOMAIN a.dist) >= cap THEN [a EXCEPT !.truncated = TRUE]
            ELSE [a EXCEPT !.queue = Append(@, n),
                           !.dist = (n :> b.dist[cur] + 1) @@ @,
                           !.conf = (n :> (b.conf[cur] \div 100) * EdgeWeight(v, r, cur, n)) @@ @]
        rest == [b EXCEPT !.queue = Tail(@)]
    IN  Gather(IF b.dist[cur] >= depth THEN rest
               ELSE FoldLeft(Take, rest, NextRows(v, r, cur, rows)), v, r, depth, cap, rows)

(* Near and certain first; what is next to the seed counts a quarter more. *)
SliceScore(walk, n) ==
    (12 \div (1 + walk.dist[n])) * walk.conf[n] * (IF walk.dist[n] = 1 THEN 125 ELSE 100)
AnswerSlices(v, seed, relation, depth, cap, rows, cost, budget) ==
    LET walk  == Gather([queue |-> <<seed>>, dist |-> seed :> 0, conf |-> seed :> 1000000, truncated |-> FALSE],
                        v, Relations[relation], Clamp(depth, 1, 10), Clamp(cap, 1, 5000), rows)
        found == DOMAIN walk.dist
        Score(n) == SliceScore(walk, n)
        order == InOrderOf(found, LAMBDA m, n :
                     n # seed /\ (m = seed \/ Score(m) > Score(n) \/ (Score(m) = Score(n) /\ m < n)))
        kept  == PackUnits(order, {seed}, cost, budget)
    IN  [matched |-> found, dist |-> walk.dist, conf |-> walk.conf, truncated |-> walk.truncated,
         slices |-> SelectSeq(order, LAMBDA n : n \in kept), omitted |-> found \ kept,
         tokens |-> CostOf(kept, cost), exceeded |-> budget > 0 /\ CostOf(kept, cost) > budget]

(* answer_exact takes a canonical name or the name of symbols, all of     *)
(* which it finds; a name that several symbols have is refused.            *)
ResolveExact(v) ==
    {{n} : n \in v.nodes} \cup {{n \in v.nodes : v.name[n] = name} : name \in {"main", "f", "none"}}
AnswerExact(v, kind, symbols, depth, rows) ==
    IF Cardinality(symbols) # 1 THEN [resolved |-> FALSE, candidates |-> symbols, found |-> {}, truncated |-> FALSE]
    ELSE LET root == CHOOSE n \in symbols : TRUE
             wide == BlastRadius(v, root, depth, 500, rows)
         IN  [resolved |-> TRUE, candidates |-> symbols, truncated |-> kind = "impact" /\ wide.truncated,
              found |-> CASE kind = "impact"  -> wide.impacted
                          [] kind = "callers" -> Incoming(v, {"calls"}, root)
                          [] kind = "callees" -> Outgoing(v, {"calls"}, root)
                          [] kind \in {"tests_for", "is_tested"} -> Outgoing(v, {"tested_by"}, root)]

(* fixed_neighbourhood: whatever is near, in either direction.  A node put *)
(* in the queue is counted; with the cap reached nothing is expanded.      *)
RECURSIVE Neighbourhood(_, _, _, _, _)
Neighbourhood(b, succ, depth, cap, counted) ==
    IF b.queue = <<>> THEN b ELSE
    LET cur == Head(b.queue)
        Take(a, n) ==
            IF n \in a.seen THEN a
            ELSE LET fits == Cardinality(a.seen \ counted) < cap
                 IN  [a EXCEPT !.seen = IF fits THEN @ \cup {n} ELSE @,
                               !.dist = IF fits THEN (n :> a.dist[cur] + 1) @@ @ ELSE @,
                               !.queue = IF fits THEN Append(@, n) ELSE @]
        rest == [b EXCEPT !.queue = Tail(@)]
    IN  Neighbourhood(IF b.dist[cur] >= depth \/ Cardinality(b.seen \ counted) >= cap THEN rest
                      ELSE FoldLeft(Take, rest, succ[cur]), succ, depth, cap, counted)
Around(seeds, succ, depth, cap, counted) ==
    Neighbourhood([queue |-> Sorted(seeds), seen |-> seeds, dist |-> [s \in seeds |-> 0]],
                  succ, depth, cap, counted).seen
FixedNeighbourhood(v, seeds, depth, cap) ==
    Around(seeds, [n \in v.nodes |-> Sorted({m \in Incoming(v, Structural, n) : m < n})
                                     \o Sorted(Outgoing(v, Structural, n))
                                     \o Sorted({m \in Incoming(v, Structural, n) : m > n})],
           depth, cap, {})
(* provenance_bounded: what has a path to a seed; the cap does not count   *)
(* the seeds.                                                              *)
ProvenanceBounded_BothWays(v, seeds, depth, cap) == FixedNeighbourhood(v, seeds, depth, cap)
ProvenanceBounded(v, seeds, depth, cap) ==
    Around(seeds, [n \in v.nodes |-> Sorted(Incoming(v, Structural, n))], depth, cap, seeds)

(* _review_context: callers and callees as slices within a budget, and the *)
(* tests; the questions go by the slices that were kept.                   *)
ReviewContext(v, n, depth, rows, cost, budget) ==
    LET callers == AnswerSlices(v, n, "callers", depth, 500, rows, cost, budget)
        callees == AnswerSlices(v, n, "callees", depth, 500, rows, cost, budget)
        tests   == Outgoing(v, {"tested_by"}, n)
        Others(a) == ToSet(a.slices) \ {n}
    IN  [callers |-> Others(callers), callees |-> Others(callees), tests |-> tests, left |-> callers.omitted,
         questions |-> (IF tests = {} THEN {"untested"} ELSE {})
                       \cup (IF Cardinality(Others(callers)) >= 5 THEN {"many callers"} ELSE {})
                       \cup (IF Others(callers) = {} THEN {"no caller"} ELSE {})
                       \cup (IF \E m \in Others(callers) : callers.conf[m] < 700000 THEN {"ambiguous"} ELSE {})]
(* _impact_radius: the same slices without a budget, ranked by nearness,   *)
(* confidence and the rank of what a slice left out.                       *)
RankHits(all, hit, cost, limit) ==
    LET Rank(m) == (60 * Cardinality({k \in hit : cost[k] <= cost[m]})) \div Cardinality(hit)
        Score(m) == 5 * (60 \div (1 + all.dist[m])) + (3 * 60 * all.conf[m]) \div 1000000 + 2 * Rank(m)
        order == InOrderOf(hit, LAMBDA k, m : Score(k) > Score(m) \/ (Score(k) = Score(m) /\ k < m))
    IN  [ranked |-> SubSeq(order, 1, Min({Clamp(limit, 1, 500), Len(order)})), total |-> Len(order),
         cut |-> Len(order) > Clamp(limit, 1, 500)]
ImpactRadius(v, n, depth, rows, cost, limit) ==
    LET all == AnswerSlices(v, n, "impact", depth, 500, rows, cost, 0)
    IN  RankHits(all, all.matched \ {n}, cost, limit)
=============================================================================
