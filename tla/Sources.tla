------------------------------ MODULE Sources -------------------------------
(***************************************************************************)
(* What an ingest makes of source files before it writes: which paths the  *)
(* project's ignore file leaves out (code/ignores.py), which module an     *)
(* aliased import names (code/aliases.py), which method a call on a local  *)
(* variable reaches (code/dataflow.py, code/resolve.py), what else starts  *)
(* execution (code/entrypoints.py), which symbol reads which configuration *)
(* key (code/config_keys.py), and the edges all of it gives                *)
(* (code/graph.py).  And what an answer about them saves over reading them *)
(* (context/savings.py).                                                   *)
(***************************************************************************)
EXTENDS Catalogue

(* Ignore rules.  A path is a sequence of segments [dot, stem, ext]; a     *)
(* pattern one of segments, whose stem or extension may be "*", and of     *)
(* AnyDepth ("**").                                                        *)
AnyDepth == [dot |-> FALSE, stem |-> "**", ext |-> ""]
FitsSegment(p, s) == /\ p.stem = "*" \/ <<p.stem, p.dot>> = <<s.stem, s.dot>>
                     /\ p.ext = "*" \/ p.ext = s.ext
RECURSIVE Fits(_, _)
Fits(pattern, path) ==
    CASE pattern = <<>> -> path = <<>>
      [] pattern # <<>> /\ Head(pattern) = AnyDepth ->
           IF Len(pattern) = 1 THEN path # <<>>
           ELSE \E k \in 0..Len(path) : Fits(Tail(pattern), SubSeq(path, k + 1, Len(path)))
      [] OTHER -> path # <<>> /\ FitsSegment(Head(pattern), Head(path)) /\ Fits(Tail(pattern), Tail(path))
(* A pattern without a slash is one for the basename, at any depth.        *)
Compiled(line) == [pattern |-> IF Len(line.pattern) = 1 THEN <<AnyDepth>> \o line.pattern ELSE line.pattern,
                   negated |-> line.negated, directory |-> line.directory]
(* Comments, blank lines and patterns of nothing are passed over.          *)
ParseRules(lines, maxPatterns) ==
    LET kept == SelectSeq(lines, LAMBDA l : ~l.comment /\ l.pattern # <<>>)
    IN  [i \in 1..Min({maxPatterns, Len(kept)}) |-> Compiled(kept[i])]
(* lstrip of dots and slashes: the path loses the dot it begins with.      *)
Stripped(path) == [path EXCEPT ![1].dot = FALSE]
FitsRule(rule, path) ==
    \/ Fits(rule.pattern, path)
    \/ rule.directory /\ \E k \in 1..(Len(path) - 1) : Fits(rule.pattern, SubSeq(path, 1, k))
MatchRule(rules, path) == Max({0} \cup {i \in DOMAIN rules : FitsRule(rules[i], Stripped(path))})
Deciding(rules, path) == MatchRule(rules, path)
Excludes(rules, path) == Deciding(rules, path) # 0 /\ ~rules[Deciding(rules, path)].negated
FilterPaths(rules, paths) ==
    [kept |-> SelectSeq(paths, LAMBDA p : ~Excludes(rules, p)), dropped |-> SelectSeq(paths, LAMBDA p : Excludes(rules, p))]
(* An ignore file that cannot be read, or is too large, excludes nothing   *)
(* and is reported.                                                        *)
LoadIgnoreRules(file, maxPatterns) ==
    [present |-> file.state = "ok", error |-> file.state \in {"unreadable", "large"},
     rules |-> IF file.state = "ok" THEN ParseRules(file.lines, maxPatterns) ELSE <<>>]
IgnoreReport(rules, dropped, maxListed) ==
    [count |-> Cardinality(ToSet(dropped)), listed |-> Min({maxListed, Cardinality(ToSet(dropped))}),
     truncated |-> Cardinality(ToSet(dropped)) > maxListed,
     byPattern |-> [i \in {Deciding(rules, p) : p \in ToSet(dropped)} |-> Cardinality({p \in ToSet(dropped) : Deciding(rules, p) = i})]]

(* Aliased imports.  A path is its segments and its extension (0: none);   *)
(* a pattern is its segments before the star, and whether it has one.  A   *)
(* pattern's targets are [pre, star, spelling], in the order declared.     *)
Normalise(segments) ==
    FoldLeft(LAMBDA out, s : CASE s = "." -> out [] s = ".." -> IF out = <<>> THEN out ELSE Front(out)
                               [] OTHER -> Append(out, s), <<>>, segments)
Middle(p, spec) == IF p.star THEN SubSeq(spec, Len(p.prefix) + 1, Len(spec)) ELSE <<>>
Applies(p, spec) == IF p.star THEN Len(p.prefix) < Len(spec) /\ IsPrefix(p.prefix, spec) ELSE p.prefix = spec
Expand(t, middle) == t.pre \o (IF t.star THEN middle ELSE <<>>)
(* The sort keys as they are: an exact pattern has key 0, a wildcard the   *)
(* length of its prefix, negated.                                          *)
PatternKey(p) == IF p.star THEN -Len(p.prefix) ELSE 0
ExpansionRows(spec, patterns) ==
    UNION {{<<PatternKey(p), rank, p.targets[rank].spelling, Expand(p.targets[rank], Middle(p, spec))>> : rank \in DOMAIN p.targets} :
             p \in {x \in patterns : Applies(x, spec)}}
Expansions(spec, patterns) ==
    LET rows == InOrderOf(ExpansionRows(spec, patterns), LAMBDA x, y : Earlier(SubSeq(x, 1, 3), SubSeq(y, 1, 3)))
    IN  [i \in DOMAIN rows |-> rows[i][4]]
(* The first configuration file that exists decides, even when it fails.   *)
LoadCompilerConfig(files) ==
    LET found == SelectSeq(files, LAMBDA f : f.state # "absent")
    IN  IF found = <<>> \/ Head(found).state # "object" THEN [present |-> FALSE, error |-> found # <<>>, base |-> <<>>, patterns |-> {}]
        ELSE [present |-> TRUE, error |-> FALSE, base |-> Head(found).base,
              patterns |-> {p \in Head(found).patterns : p.targets # <<>>}]
(* The module itself, with an extension, or the index of a directory.      *)
MatchModule(segments, known, extensions) ==
    LET tried == <<[segments |-> segments, ext |-> 0]>>
                 \o [e \in 1..extensions |-> [segments |-> segments, ext |-> e]]
                 \o [e \in 1..extensions |-> [segments |-> Append(segments, "index"), ext |-> e]]
        hits  == SelectSeq(tried, LAMBDA m : m \in known)
    IN  IF hits = <<>> THEN <<>> ELSE <<Head(hits)>>
BaseCandidates(spec, config) ==
    LET base == Normalise(config.base)
        expanded == Expansions(spec, config.patterns)
    IN  IF expanded = <<>> /\ base # <<>> THEN <<Normalise(base \o spec)>>
        ELSE [i \in DOMAIN expanded |-> Normalise(base \o expanded[i])]
ResolveSpecifier(spec, config, known, extensions) ==
    IF spec = <<>> \/ ~config.present THEN <<>>
    ELSE FoldLeft(LAMBDA hit, c : IF hit # <<>> THEN hit ELSE MatchModule(c, known, extensions),
                  <<>>, BaseCandidates(spec, config))
(* Calls on local variables.  A file's body is its statements and scope    *)
(* marks in the order the walk visits them: "open" and "close" of a        *)
(* function, or a statement [line, target, value, recv, method, args].     *)
(* The value is a class it constructs, a variable it copies, a "call" of   *)
(* the method itself, or other.  An assignment is visited before the call  *)
(* in its value.  A symbol is [kind, name, qualified, class, start, end].  *)
Runnable == {"function", "method", "test"}
Definable == Runnable \cup {"class", "type"}
ClassNames(files) == {s.name : s \in {x \in UNION {ToSet(f.symbols) : f \in ToSet(files)} : x.kind \in {"class", "type"}}}
(* Classes of one short name share their methods; the last one wins.       *)
MethodsByClass(files) ==
    LET Put(m, s) == IF s.kind = "method" /\ s.class # "" THEN (<<s.class, s.name>> :> s.qualified) @@ m ELSE m
    IN  FoldLeft(LAMBDA m, f : FoldLeft(Put, m, f.symbols), <<>>, files)
EnclosingFunction(f, line) ==
    LET around == SelectSeq(f.symbols, LAMBDA s : s.kind \in Runnable /\ s.start <= line /\ line <= s.end)
        deepest == SelectSeq(around, LAMBDA s : s.start = Max({t.start : t \in ToSet(around)}))
    IN  IF around = <<>> THEN f.path ELSE Head(deepest).qualified

Assigned_KeepsOld(types, st, classes) ==
    CASE st.target = "" -> types
      [] st.target # "" /\ st.value \in classes -> (st.target :> st.value) @@ types
      [] OTHER -> types
Assigned(types, st, classes) ==
    CASE st.target = "" -> types
      [] st.target # "" /\ st.value \in classes -> (st.target :> st.value) @@ types
      [] st.target # "" /\ st.value \notin classes /\ st.value \in DOMAIN types -> (st.target :> types[st.value]) @@ types
      [] OTHER -> Restrict(types, DOMAIN types \ {st.target})
Visit(t, f, st, classes, methods) ==
    IF st.form = "open" THEN [t EXCEPT !.scopes = Append(t.scopes, <<>>)]
    ELSE IF st.form = "close" THEN [t EXCEPT !.scopes = Front(t.scopes)]
    ELSE LET types  == Assigned(Last(t.scopes), st, classes)
             key    == IF st.recv \in DOMAIN types THEN <<types[st.recv], st.method>> ELSE <<>>
             caller == EnclosingFunction(f, st.line)
         IN  [scopes |-> Append(Front(t.scopes), types),
              found  |-> IF key \in DOMAIN methods /\ caller # methods[key]
                         THEN (<<caller, st.method>> :> methods[key]) @@ t.found ELSE t.found]
WalkTypes(found, f, classes, methods) ==
    FoldLeft(LAMBDA t, st : Visit(t, f, st, classes, methods), [scopes |-> <<<<>>>>, found |-> found], f.body).found
DataflowResolutions(files) ==
    FoldLeft(LAMBDA found, f : IF f.lang \in {"python", "javascript"} THEN WalkTypes(found, f, ClassNames(files), MethodsByClass(files)) ELSE found,
             <<>>, files)

(* Taint, in Python files: a variable assigned from a call of a source,    *)
(* until it is assigned again, in the arguments of a sink.                 *)
TaintSources == {"input"}
TaintSinks == {"eval"}
Tainting(t, f, st) ==
    IF st.form = "open" THEN [t EXCEPT !.scopes = Append(t.scopes, {})]
    ELSE IF st.form = "close" THEN [t EXCEPT !.scopes = Front(t.scopes)]
    ELSE LET before == Last(t.scopes) \ {st.target}
             now    == IF st.target # "" /\ st.value = "call" /\ st.method \in TaintSources THEN before \cup {st.target} ELSE before
         IN  [scopes |-> Append(Front(t.scopes), now),
              findings |-> IF st.method \in TaintSinks /\ st.args \cap now # {}
                           THEN Append(t.findings, [line |-> st.line, sink |-> st.method, args |-> st.args \cap now,
                                                    function |-> EnclosingFunction(f, st.line)])
                           ELSE t.findings]
TaintFindings(f) ==
    IF f.lang # "python" THEN <<>>
    ELSE FoldLeft(LAMBDA t, st : Tainting(t, f, st), [scopes |-> <<{}>>, findings |-> <<>>], f.body).findings

(* Language servers, one per language: "absent", "fails" (before it is     *)
(* asked), or "works" with the definitions it gives for a call, as         *)
(* <<file, line>>; one request that fails gives none.                      *)
CalleeSites(f) == SelectSeq(f.body, LAMBDA st : st.form = "statement" /\ st.method # "")
SymbolAt(f, line) ==
    LET at == SelectSeq(f.symbols, LAMBDA s : s.start = line /\ s.kind \in Definable)
        longest == SelectSeq(at, LAMBDA s : s.width = Max({t.width : t \in ToSet(at)}))
    IN  IF at = <<>> THEN 0 ELSE Head(longest).qualified
(* Only the files of the server's language are in its workspace.           *)
FirstKnownCallee(files, lang, defs) ==
    LET Symbol(d) == IF d[1] \in DOMAIN files /\ files[d[1]].lang = lang THEN SymbolAt(files[d[1]], d[2]) ELSE 0
        known == SelectSeq([i \in DOMAIN defs |-> Symbol(defs[i])], LAMBDA q : q # 0)
    IN  IF known = <<>> THEN 0 ELSE Head(known)
AskServer(found, files, f, server) ==
    LET Ask(r, st) == LET callee == FirstKnownCallee(files, f.lang, server.defs[st.method])
                          caller == EnclosingFunction(f, st.line)
                      IN  IF callee \in {0, caller} THEN r ELSE (<<caller, st.method>> :> callee) @@ r
    IN  FoldLeft(Ask, found, CalleeSites(f))
ResolveParsedFiles(files, servers) ==
    FoldLeft(LAMBDA found, f : IF servers[f.lang].state = "works" THEN AskServer(found, files, f, servers[f.lang]) ELSE found, <<>>, files)
ResolveAll(files, servers) == DataflowResolutions(files) @@ ResolveParsedFiles(files, servers)
(* Symbols that start execution.  A match of a registration pattern is     *)
(* [handler, label]; a label is one symbol, of the first handler only.     *)
Detect(matches, cap) ==
    LET Take(t, m) == IF Len(t) >= cap \/ m.handler = "" \/ \E i \in DOMAIN t : t[i].label = m.label THEN t ELSE Append(t, m)
    IN  FoldLeft(Take, <<>>, matches)
EntrySymbol(f, m) == [kind |-> "route", name |-> "", qualified |-> m.label, class |-> "", parent |-> f.path,
                      start |-> m.line, end |-> m.line, width |-> 1]
Enrich(f, cap) ==
    LET found == Detect(f.matches, cap)
        refs  == [i \in DOMAIN found |-> [from |-> found[i].label, kind |-> "routes_to", name |-> found[i].handler, spec |-> <<>>]]
        Had(s) == \E x \in ToSet(f.symbols) : x.qualified = s.qualified
    IN  [f EXCEPT !.symbols = @ \o SelectSeq([i \in DOMAIN found |-> EntrySymbol(f, found[i])], LAMBDA s : ~Had(s)),
                  !.refs = @ \o SelectSeq(refs, LAMBDA r : r \notin ToSet(f.refs))]

(* References into edges: <<from, predicate, to>> -> confidence, in        *)
(* thousandths, the first one added.  A resolved call is one edge, an      *)
(* aliased import is one edge, anything else goes to every symbol of the   *)
(* name.                                                                   *)
AllSymbols(files) == UNION {ToSet(f.symbols) : f \in ToSet(files)}
NamedOf(files, name, kinds) == {s.qualified : s \in {x \in AllSymbols(files) : x.kind \in kinds /\ x.name = name}}
Fan(from, pred, targets, one, many) ==
    {<<<<from, pred, t>>, IF Cardinality(targets) = 1 THEN one ELSE many>> : t \in targets}
CallTargets(files, r, resolved) ==
    IF <<r.from, r.name>> \in DOMAIN resolved THEN {resolved[<<r.from, r.name>>]} ELSE NamedOf(files, r.name, {"function", "method"})
CallFan(files, r, resolved, targets) ==
    Fan(r.from, "calls", targets, IF <<r.from, r.name>> \in DOMAIN resolved THEN 950 ELSE 900, 600)
    \cup IF \E s \in AllSymbols(files) : s.qualified = r.from /\ s.kind = "test"
         THEN {<<<<t, "tested_by", r.from>>, 500>> : t \in targets} ELSE {}
AliasTarget(files, r, config, extensions) ==
    LET hit == ResolveSpecifier(r.spec, config, {f.module : f \in ToSet(files)}, extensions)
    IN  {f.path : f \in {x \in ToSet(files) : hit # <<>> /\ x.module = hit[1]}}
ImportTargets(files, r) == NamedOf(files, r.name, {"module", "class", "type", "function"})
ReferenceEdges(files, r, resolved, config, extensions) ==
    CASE r.kind = "calls" -> CallFan(files, r, resolved, CallTargets(files, r, resolved))
      [] r.kind = "inherits" -> Fan(r.from, "inherits", NamedOf(files, r.name, {"class", "type"}), 900, 600)
      [] r.kind = "imports" -> LET aliased == AliasTarget(files, r, config, extensions)
                               IN  Fan(r.from, "imports", IF aliased # {} THEN aliased ELSE ImportTargets(files, r), 900, 600)
      [] r.kind \in FrameworkPredicates -> Fan(r.from, r.kind, NamedOf(files, r.name, Definable), 900, 600)
Contained(files) == {<<<<s.parent, "defines", s.qualified>>, 1000>> : s \in {x \in AllSymbols(files) : x.parent # 0}}
(* A file read by pattern gives weaker edges.                              *)
Weakened(files) == UNION {{s.qualified : s \in ToSet(f.symbols)} : f \in {x \in ToSet(files) : x.fallback}}
Add(edges, new, weak) ==
    LET fresh == {e \in new : e[1][1] # e[1][3] /\ e[1] \notin DOMAIN edges}
    IN  edges @@ [k \in {e[1] : e \in fresh} |-> LET c == (CHOOSE e \in fresh : e[1] = k)[2]
                                              IN  IF k[1] \in weak THEN (c * 7) \div 10 ELSE c]
EdgesOf(files, resolved, config, extensions) ==
    FoldLeft(LAMBDA edges, f :
                 FoldLeft(LAMBDA es, r : Add(es, ReferenceEdges(files, r, resolved, config, extensions), Weakened(files)), edges, f.refs),
             Add(<<>>, Contained(files), Weakened(files)), files)
ResolvedEdges(files, resolved, config, extensions) ==
    LET known == {s.qualified : s \in AllSymbols(files)}
    IN  EdgesOf(files, Restrict(resolved, {k \in DOMAIN resolved : resolved[k] \in known}), config, extensions)

(* Keys of a configuration file, by indentation: a line is                 *)
(* [indent, key], a comment, a list item or a scalar has no key (0).       *)
RECURSIVE Shallower(_, _)
Shallower(stack, indent) ==
    IF stack = <<>> \/ Last(stack).indent < indent THEN stack ELSE Shallower(Front(stack), indent)
YamlKeys(lines, maxDepth) ==
    LET Line(t, l) ==
            LET stack == Shallower(t.stack, l.indent)
            IN  CASE l.key = 0 -> t
                  [] l.key # 0 /\ Len(stack) >= maxDepth -> [t EXCEPT !.stack = stack]
                  [] OTHER -> [stack |-> Append(stack, l), out |-> Append(t.out, [i \in 1..(Len(stack) + 1) |-> Append(stack, l)[i].key])]
    IN  FoldLeft(Line, [stack |-> <<>>, out |-> <<>>], lines).out
(* A section or a table header goes before the keys that follow it.        *)
SectionKeys(lines) ==
    LET Line(t, l) == CASE l.key = 0 -> t
                        [] l.key # 0 /\ l.header -> [t EXCEPT !.section = <<l.key>>]
                        [] OTHER -> [t EXCEPT !.out = Append(t.out, t.section \o <<l.key>>)]
    IN  FoldLeft(Line, [section |-> <<>>, out |-> <<>>], lines).out
ExtractKeys(file, cap, maxDepth) ==
    LET keys == CASE file.form = "yaml" -> YamlKeys(file.lines, maxDepth)
                  [] file.form \in {"ini", "toml"} -> SectionKeys(file.lines)
                  [] file.form = "env" -> SectionKeys(SelectSeq(file.lines, LAMBDA l : ~l.header))
        Take(t, k) == IF k \in ToSet(t) \/ Len(t) >= cap THEN t ELSE Append(t, k)
    IN  FoldLeft(Take, <<>>, keys)
(* Bindings: the first span that holds the line owns it, or the module.    *)
(* A read is [line, key]; one over several lines has no line (0).          *)
OwningSymbol(f, line) ==
    LET spans == SelectSeq(f.symbols, LAMBDA s : s.kind # "module" /\ 0 < s.start /\ s.start <= line /\ line <= s.end)
    IN  IF spans = <<>> THEN f.path ELSE Head(spans).qualified
BoundPairs(keys, f) == {<<r.key, OwningSymbol(f, r.line)>> : r \in {x \in f.reads : x.key \in ToSet(keys) /\ x.line > 0}}

(* What an answer saves over reading the files it names.                   *)
PathsIn(objects, limit) ==
    LET found == FoldLeft(LAMBDA t, o : IF Cardinality(t) >= limit THEN t ELSE t \cup o, {}, objects)
    IN  {p \in found : Cardinality({q \in found : q < p}) < limit}
Reason(f, cap) ==
    CASE ~f.inside -> "escapes the root"
      [] f.inside /\ ~f.present -> "not a readable file here"
      [] f.inside /\ f.present /\ f.size > cap -> "larger than the per-file cap"
      [] f.inside /\ f.present /\ f.size <= cap /\ ~f.readable -> "unreadable"
      [] OTHER -> "read"
TokensOf(files, S) == MapThenSumSet(LAMBDA p : files[p].tokens, S)
Baseline(paths, files, cap) ==
    LET read == {p \in paths : Reason(files[p], cap) = "read"}
    IN  [total |-> TokensOf(files, read), read |-> read,
         excluded |-> [p \in paths \ read |-> Reason(files[p], cap)]]
(* The envelope is what the categories leave of the whole.                 *)
Breakdown(payload) ==
    [keys |-> payload.tokens, envelope |-> payload.whole - FoldFunction(+, 0, payload.tokens)]
CalibrationError(estimated, real) == IF real = 0 THEN 0 ELSE (100 * (estimated - real)) \div real
CrossCheck(base, files, payload, tokenizer) ==
    IF ~tokenizer THEN [ran |-> FALSE, baseline |-> 0, error |-> 0]
    ELSE LET real == MapThenSumSet(LAMBDA p : files[p].real, base.read)
         IN  [ran |-> TRUE, baseline |-> real, error |-> CalibrationError(base.total, real)]
SavingsRecord(payload, files, limit, cap, tokenizer) ==
    LET named == PathsIn(payload.objects, limit)
        base  == Baseline(named, files, cap)
    IN  [named |-> named, base |-> base, breakdown |-> Breakdown(payload), graph |-> payload.whole,
         saved |-> base.total - payload.whole, check |-> CrossCheck(base, files, payload, tokenizer)]
AttachSavings(payload, files, limit, cap, mode) ==
    IF mode = "off" THEN <<>> ELSE <<SavingsRecord(payload, files, limit, cap, mode = "tokenizer")>>

(* What `dkg code-ingest` and the tools do with it.                        *)
Ignored == Once("budget") /\ \E file \in Args.ignoreFiles, maxPatterns \in {2, 9} :
    \E loaded \in {LoadIgnoreRules(file, maxPatterns)} :
        Returns([tool |-> "ignore", loaded |-> loaded, paths |-> Args.ignorePaths, of |-> FilterPaths(loaded.rules, Args.ignorePaths),
                 report |-> IgnoreReport(loaded.rules, FilterPaths(loaded.rules, Args.ignorePaths).dropped, 1)])
Aliased == Once("copies") /\ \E files \in Args.compilerFiles, spec \in Args.specifiers, known \in Args.knownModules :
    \E config \in {LoadCompilerConfig(files)} :
        Returns([tool |-> "alias", config |-> config, spec |-> spec, known |-> known,
                 of |-> ResolveSpecifier(spec, config, known, 1)])
Resolved == Once("texts") /\ \E body \in Args.bodies, servers \in Args.servers, files \in Args.programs :
    \E program \in {[i \in DOMAIN files |-> Enrich(IF i = 1 THEN [files[i] EXCEPT !.body = body] ELSE files[i], 2)]} :
        \E flow \in {DataflowResolutions(program)}, all \in {ResolveAll(program, servers)} :
            Returns([tool |-> "resolve", program |-> program, servers |-> servers, flow |-> flow, all |-> all, taint |-> TaintFindings(program[1]),
                     of |-> ResolvedEdges(program, all, Args.project, 1)])
Configured == Once("claims") /\ \E file \in Args.configFiles, reads \in Args.reads :
    \E keys \in {ExtractKeys(file, 3, 2)} :
        Returns([tool |-> "keys", file |-> file, of |-> keys, reads |-> reads,
                 pairs |-> BoundPairs(keys, [Args.owners EXCEPT !.reads = reads])])
Saved == Once("search") /\ \E payload \in Args.answers, files \in Args.readable, mode \in {"off", "estimate", "tokenizer"} :
    Returns([tool |-> "savings", payload |-> payload, files |-> files, mode |-> mode, of |-> AttachSavings(payload, files, 3, 9, mode)])
SourceNext == Ignored \/ Aliased \/ Resolved \/ Configured \/ Saved
=============================================================================
