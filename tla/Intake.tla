------------------------------- MODULE Intake -------------------------------
(***************************************************************************)
(* What comes in: the settings of a run (core/config.py), a text cut into  *)
(* chunks (ingest/chunker.py), the counting of tokens (context/tokens.py), *)
(* and answers written down and taken in again as documents                *)
(* (context/memory.py).                                                    *)
(***************************************************************************)
EXTENDS Reports

(* Settings: section -> key -> value.  A file that is named but not there  *)
(* is passed over; sections and keys it does not know are ignored.         *)
ApplyOverrides(config, raw) ==
    [s \in DOMAIN config |->
       IF s \in DOMAIN raw /\ raw[s].object
       THEN [k \in DOMAIN config[s] |-> IF k \in DOMAIN raw[s].keys THEN raw[s].keys[k] ELSE config[s][k]]
       ELSE config[s]]
ReadEnvBool(env, name, default) == IF name \in DOMAIN env THEN env[name] \in {"1", "true", "yes", "on"} ELSE default
ReadEnvList(env, name, default) == IF name \in DOMAIN env THEN SelectSeq(env[name], LAMBDA item : item # "") ELSE default
LoadConfig(default, file, env) ==
    IF file.state = "invalid" THEN [error |-> TRUE, config |-> default]
    ELSE LET of == IF file.state = "ok" THEN ApplyOverrides(default, file.sections) ELSE default
         IN  [error  |-> FALSE,
              config |-> [of EXCEPT !.network.outbound = ReadEnvBool(env, "outbound", @),
                                    !.mcp.bind  = IF "bind" \in DOMAIN env THEN env.bind ELSE @,
                                    !.mcp.hosts = ReadEnvList(env, "hosts", @)]]

(* Chunks.  A paragraph lies between two offsets of the text; `len` is     *)
(* its length once white space is compacted, 0 when nothing is left.  A    *)
(* chunk's text is a sequence of pieces <<paragraph, from, to>>.           *)
IterParagraphs(shapes) ==
    [i \in DOMAIN shapes |->
       LET start == FoldLeft(LAMBDA at, j : at + shapes[j].raw + shapes[j].gap, 0, [j \in 1..(i - 1) |-> j])
       IN  [len |-> shapes[i].len, start |-> start, end |-> start + shapes[i].raw]]
Joined(paras, buffer) ==
    [text |-> [k \in DOMAIN buffer |-> <<buffer[k], 0, paras[buffer[k]].len>>],
     start |-> paras[Head(buffer)].start, end |-> paras[Last(buffer)].end]
Flush(s, paras) == IF s.buffer = <<>> THEN s ELSE [chunks |-> Append(s.chunks, Joined(paras, s.buffer)), buffer |-> <<>>]
CutParagraph(para, i, max) ==
    [k \in 1..((para.len + max - 1) \div max) |->
       LET from == (k - 1) * max
           to   == Min({k * max, para.len})
       IN  [text |-> <<<<i, from, to>>>>, start |-> para.start + from, end |-> para.start + to]]
TakeParagraph(s, paras, i, perChunk, max) ==
    IF paras[i].len = 0 THEN s
    ELSE IF paras[i].len > max
    THEN [chunks |-> Flush(s, paras).chunks \o CutParagraph(paras[i], i, max), buffer |-> <<>>]
    ELSE LET buffer == Append(s.buffer, i)
             held   == FoldLeft(LAMBDA n, j : n + paras[j].len, 0, buffer)
             more   == [s EXCEPT !.buffer = buffer]
         IN  IF Len(buffer) >= perChunk \/ held >= max THEN Flush(more, paras) ELSE more
ChunkParagraphs(paras, perChunk, max) ==
    Flush(FoldLeft(LAMBDA s, i : TakeParagraph(s, paras, i, perChunk, max),
                   [chunks |-> <<>>, buffer |-> <<>>], [i \in DOMAIN paras |-> i]), paras).chunks

(* Tokens.  A text is words between spaces, a word the lengths of its runs *)
(* between other white space.  The staged tokenizer gives up on a run that *)
(* is longer than `limit`: one token, whatever its length.                 *)
Encoder(tools) == IF tools.bpe THEN "bpe" ELSE IF tools.staged = "loads" THEN "staged" ELSE "estimator"
WordLength(word) == FoldLeft(LAMBDA n, r : n + r, Len(word) - 1, word)
CutWord(word, limit) ==
    LET Span(k) == FoldLeft(LAMBDA n, r : n + r + 1, 0, SubSeq(word, 1, k - 1))
        Part(piece, k) == Max({0, Min({piece * limit, Span(k) + word[k]}) - Max({(piece - 1) * limit, Span(k)})})
    IN  [piece \in 1..((WordLength(word) + limit - 1) \div limit) |->
           SelectSeq([k \in DOMAIN word |-> Part(piece, k)], LAMBDA r : r > 0)]
SplitLongRuns(text, limit) ==
    IF \A w \in ToSet(text) : \A r \in ToSet(w) : r <= limit THEN text
    ELSE FoldLeft(LAMBDA out, w : out \o (IF WordLength(w) <= limit THEN <<w>> ELSE CutWord(w, limit)), <<>>, text)
Runs(text) == FoldLeft(LAMBDA out, w : out \o w, <<>>, text)
EncodeRuns(runs, each, limit) == FoldLeft(LAMBDA n, r : n + (IF r > limit THEN 1 ELSE (r + each - 1) \div each), 0, runs)
CountTokens(text, tools, limit) ==
    CASE Encoder(tools) = "bpe"       -> EncodeRuns(Runs(text), 3, 1000)
      [] Encoder(tools) = "staged"    -> EncodeRuns(Runs(SplitLongRuns(text, limit)), 2, limit)
      [] Encoder(tools) = "estimator" -> EncodeRuns(Runs(text), 4, 1000)

(* Answers written down.  A question is words, with what stands between    *)
(* them; letters have a case.  Its identity forgets case and the amount of *)
(* white space, the rest of the file's name all that is not a letter.      *)
Folded(word) == IF word = "WHY" THEN "why" ELSE word
IsSpace(token) == token \in {"space", "tab"}
QuestionId(q) ==
    LET kept == FoldLeft(LAMBDA out, t : IF IsSpace(t) /\ (out = <<>> \/ Last(out) = "space") THEN out
                                         ELSE Append(out, IF IsSpace(t) THEN "space" ELSE Folded(t)), <<>>, q)
    IN  IF kept # <<>> /\ Last(kept) = "space" THEN Front(kept) ELSE kept
Slug(q) == LET words == SelectSeq(q, LAMBDA t : ~IsSpace(t) /\ t # "mark")
           IN  IF words = <<>> THEN <<"question">> ELSE [i \in DOMAIN words |-> Folded(words[i])]
Heading(q) == LET at == {i \in DOMAIN q : ~IsSpace(q[i])} IN SubSeq(q, Min(at), Max(at))
WriteAnswer(store, step) ==
    IF \A t \in ToSet(step.question) : IsSpace(t) THEN store
    ELSE [store EXCEPT !.files = (<<QuestionId(step.question), Slug(step.question)>>
                                    :> <<step.answer, step.stamp, Heading(step.question)>>) @@ @]
ListAnswers(store) == DOMAIN store.files
(* An ingest keeps a version for a content it has not seen in the file.    *)
IngestAnswers(store, unreadable) ==
    LET Versions(p) == IF p \in DOMAIN store.docs THEN store.docs[p] ELSE <<>>
        new   == {p \in ListAnswers(store) \ unreadable : store.files[p] \notin ToSet(Versions(p))}
    IN  [store EXCEPT !.docs = [p \in new |-> Append(Versions(p), store.files[p])] @@ @,
                      !.report = [ingested |-> new, failed |-> ListAnswers(store) \ new, total |-> Cardinality(ListAnswers(store))]]
NothingStored == [files |-> <<>>, docs |-> <<>>, report |-> [ingested |-> {}, failed |-> {}, total |-> 0]]

Loaded == Once("search") /\ \E file \in Args.settings, env \in Args.environments :
    Returns([tool |-> "config", file |-> file, env |-> env, of |-> LoadConfig(Args.defaults, file, env)])
Chunked == Once("budget") /\ \E shapes \in Args.paragraphs, perChunk \in {1, 3}, max \in {2, 4} :
    \E paras \in {IterParagraphs(shapes)} :
        Returns([tool |-> "chunks", paras |-> paras, perChunk |-> perChunk, max |-> max, of |-> ChunkParagraphs(paras, perChunk, max)])
Counted == Once("diff") /\ \E text \in Args.words, tools \in [bpe : BOOLEAN, staged : {"absent", "broken", "loads"}], limit \in {3, 4} :
    Returns([tool |-> "tokens", text |-> text, tools |-> tools, limit |-> limit, split |-> SplitLongRuns(text, limit),
             of |-> CountTokens(text, tools, limit)])
Remembered == Once("copies") /\ \E steps \in Args.answered, unreadable \in {{}, {<<"why">>}} :
    Returns([tool |-> "memory", steps |-> steps,
             of |-> FoldLeft(LAMBDA s, step : IF step.ingest THEN IngestAnswers(s, {p \in ListAnswers(s) : p[1] \in unreadable})
                                              ELSE WriteAnswer(s, step), NothingStored, steps)])
IntakeNext == Loaded \/ Chunked \/ Counted \/ Remembered
=============================================================================
