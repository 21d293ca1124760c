# A TLA+ model of D-Knowledge Graph

D-Knowledge Graph (`src/dkg`) keeps a knowledge graph of source code and
documents in one SQLite file under `$DKG_HOME`. Command-line calls, a commit
hook, a background watch service, a foreground watch daemon, agents and an MCP
server are separate processes (or threads) over that file and over a handful of
small files beside it; dozens of read-only tools answer questions about the
graph. This directory models both: the protocols, whose correctness depends on
the order of steps (which reads happen before which writes, what a process knows
that is no longer true, what is left when one of them dies), and the answers,
which are functions of a graph with bounds that may cut them.

Paths below are relative to the repository's `src/dkg` unless they start with
`docs/` or `tests/` or name `README.md` of the repository.

## 1. Inventory

### The core protocols

**Code ingest** (`code/ingest.py`, `code/graph.py`, `code/changes.py`,
`code/config_keys.py`). *State:* the code rows of the tables `documents` (one per
parsed file, with its content hash and its references), `entities` (symbols,
keyed by path and qualified name) and `relationships` (edges, keyed by both ends
and predicate). *Operations:* `ingest_repo`, incremental (`--since`, `update`,
hook, watch worker), full (`--full`), or walked (no version control). *Steps:*
read stored hashes; list and hash the working tree; read the changed files again
and parse them; read documents, then entities, of the unchanged files; one write
transaction. *Hard:* everything read before the transaction may be stale inside
it; deleting a file's symbols deletes inbound edges from files that are not
parsed, which must come back from persisted references; a crash at any read; a
file that fails to parse; configuration files, which have no document. *Correct
when:* the stored hash of a file vouches for its symbols and edges, an update
leaves everything else alone, both ends of every edge exist, and when editing
stops the graph becomes that of the tree.

**Forget** (`code/forget.py`). Count what would go, then delete it in one
transaction. *Correct when:* what goes is what was previewed. Both it and the ingest
select a file's symbols by a LIKE pattern that also takes those of sibling paths.

**Audit log** (`core/audit.py`). The table `audit_log`, each row hashed with its
predecessor's hash, and the journal file. *Hard:* read of the tail, insert and
journal line are three steps after the caller's own commit; several processes;
crashes; tampering. *Correct when:* verification fails exactly when the table no
longer says what was recorded.

**Watch service identity** (`watch/service.py`, `cli/entry.py`).
`$DKG_HOME/watch-service.pid`. *Hard:* create, write, read, probe, unlink are
separate system calls of several processes; process ids are handed out again.
*Correct when:* one service runs over a home, it can be found and stopped, and
its file is removed only for it.

**Watch supervisor and workers** (`watch/service.py`). A worker thread per
registered name with a stop event and the signature it last ingested. *Hard:* the
SIGTERM handler interrupts the supervisor between any two steps; joins time out;
workers die, fail and are moved while they ingest. *Correct when:* a repository
has one worker, no thread is lost, a worker that sees no change is right about
the graph, every repository is followed, a stop ends the process.

### The protocols around it

Each of these keeps a state of its own and shares none with the others.

| part | state | operations | what is hard | correct when |
|---|---|---|---|---|
| opening a database (`core/db.py`, `core/version.py`) | recorded migrations, tables, schema version | read what is recorded, run scripts statement by statement, record | a second opener; a crash between script and record | an open that returns has the whole schema |
| document ingest, vectors (`ingest/base.py`, `search/vector_index.py`) | document versions, vectors | ingest a directory, re-index, automatic index, search | two writers; a crash between delete and batches | versions form one line; a re-index repairs |
| derived views (`code/postprocess.py`, `code/catalogue.py`) | rows with the revision they are of | revision, view, stages, record | a writer in between; two runs; a crash | rows called current are |
| backup (`export/backup.py`) | home, archives | copy, hash, archive; verify, copy back | files written meanwhile | what is restored is what was hashed |
| editor setup (`mcp/configure.py`, `install_cli.py`, `artifacts.py`, `rules.py`, `platforms.py`) | users' configuration files | install, uninstall, per file | foreign content; death between files | the user's part of every file stays |
| git hooks (`watch/hooks.py`) | hook file, copy | install, force, uninstall | four writes, death, user edits, hooks that are not UTF-8 | the user's hook is in place or beside |
| registry (`watch/registry.py`) | `registry.json` | add, remove, list | load and save of the whole file | commands account for what they say |
| foreground watch (`watch/daemon.py`) | one signature per repository | cycle, stop | changes during an ingest; failures | nothing changed is skipped; all are followed |
| PR publication (`code/pr_publish.py`, `pr_comment.py`, `pr_cli.py`) | the comments of a remote service | look up, post or update | lost answers, retries, others' comments | one comment, the newest text |
| agents (`agents/`, `core/policy.py`) | `task_runs`, journal, entities, mentions | submit, run, merge duplicates | death; a second agent; time-out after the fact | every run accounted for; mentions kept |
| sessions (`context/session.py`, `pack.py`) | what was shown | a turn, reset | token budgets, edits, lost history | the client has what the session believes |
| servers (`mcp/server_http.py`, `http_guard.py`, `server_stdio.py`, `protocol.py`) | rate windows, issued tokens, the pipe | start, request, token, line | threads share the counters | rate kept; a server that starts can be used; answers in order |
| viewer (`export/serve.py`) | socket, request count, stop event | start, serve, stop | silent, slow, late and absent peers, and those that do not read; one thread | budget kept; stop releases the socket in its time |
| language server (`code/lsp.py`, `code/resolve.py`) | pending and filed responses | ask, read, stop | late, wrong and missing answers; a server that dies or stops reading | an answer is used for its own question; no process is left |
| wiki (`code/wiki.py`) | pages, manifest | build | death between pages and manifest; edits | pages are of the graph; nothing stale stays |
| tenancy (`tenancy/`, `core/ids.py`) | tenants, roles, principals, bindings | create, delete, bind, resolve | cascades; two processes that bind | rows have their tenant; a subject is who it was bound to |

### The answers

Functions of a graph, a working copy or a text: walks, flows and impact
(`code/analysis.py`, `flow.py`, `impact.py`, `criticality.py`, `graph/query.py`),
structure (`centrality.py`, `coupling.py`, `architecture.py`, `deadcode.py`,
`gaps.py`), communities (`ariadne/`, `graph/community.py`, `split.py`), context
slices, exact context and provenance (`context/`), snapshots, working copies,
risk, questions, refactorings and renames (`diff.py`, `changes.py`,
`cochange.py`, `risk.py`, `review.py`, `refactor.py`, `rename.py`), search
(`search/`), contradictions (`evidence/contradiction.py`), the stored views'
readers (`catalogue.py`), and what an ingest makes of ignore files, aliases,
local types, configuration keys and entry points. *Hard:* every one of them has
caps on nodes, depth, paths, rows or tokens, and a cut answer must still be a
correct part of the whole and say that it was cut; two routes to one fact must
agree; orders decide who is cut. *Correct when:* the answer is what a definition
that takes no account of the algorithm says.

Text heuristics (parsing, extraction, redaction), the layout of exports, and wrappers
of external programs (media, adapters) are not modelled; `PROJECT.json` lists each
with the reason.

## 2. Modules

**The core**

| module | models | abstracts |
|---|---|---|
| `CodeGraph`, `AtomicGraph`, `MC_CodeGraph`, `CodeGraph_proofs` | an ingest as its six visible steps, forget as two, edits, crashes, any number of writers and repositories; and what it promises: the graph of the tree, replaced at once | a file's content is an element of `Contents`, with what it declares (`Defines`) and mentions (`Refs`) |
| `AuditLog`, `AtomicAudit`, `AuditLog_proofs` | `record` as its steps, verification, crashes, tampering; and what it promises: entries recorded one at a time | a SHA-256 is the sequence of the bodies it chains |
| `WatchService`, `WatchService_proofs` | every system call on the identity file, by services, starts and stops | wording of the file; time |
| `WatchSupervisor`, `WatchSupervisor_proofs` | supervisor, SIGTERM handler, workers, registry edits | a tree is the number of its state; an ingest is read and commit (its inside is `CodeGraph`) |

**The protocols around it**, one module each, with its own `Init`, `Next` and
properties; `Installation` instantiates all sixteen and lets a behaviour exercise
one of them, so that one run checks them together. It states the properties by
theme, each conjunct naming the module's operator. `Installation_proofs` proves
all of its safety themes, over `Store_proofs` (migrations, documents, views,
backups), `Desk_proofs` (setup, hooks, registry, foreground watch, publication) and
`Serving_proofs` (agents, sessions, servers, viewer, language server, wiki, tenants),
which hold the inductive invariants of the parts (section 4).

| module | actions, in the order of the code |
|---|---|
| `Migrations` | connect, read recorded, statement, record, version; crash |
| `Documents` | read, BEGIN IMMEDIATE, commit; purge, embed, insert row by row; search with automatic index; crash |
| `DerivedViews` | read revision, load view, each stage, record; writer; crash |
| `Backups` | copy, hash and archive file by file; verify, copy back file by file; the writer's row and line |
| `Setup` | per file: load, write or unlink; environment file; exit; the user's edits; death |
| `GitHooks` | copy aside (truncate, write), write ours, chmod; unlink, restore, chmod; the user's edits; death |
| `Registry` | load, change, truncate, save; a reader; death |
| `Daemon` | signature, ingest, record; stop; saves during an ingest; failures; the watchfiles backend and its fall back to polling |
| `Publisher` | look page by page, update or post, lost requests; others comment and delete |
| `Agents` | task, policy, row, agent's steps, answer; merge statement by statement; death |
| `Session` | a turn (fresh, resent, suppressed, packed), reset, edits, lost history; what is packed is the one set in which each unit fits beside those taken before it |
| `Server` | guard, rate window of a caller (read the clock, filter, keep, count, append), dispatch, token; pipe lines |
| `Viewer` | start, accept, handle, write to a peer that does not read, time out, trickle, late request, tick, stop, join |
| `CodeServer` | start, initialize, open the documents, ask, answer, time out, shutdown, kill, each write into a pipe that may be full; the reader files and replies; the server answers, asks, goes deaf, dies |
| `Wiki` | render, page by page (truncate, write), remove, manifest (truncate, write); graph changes, edits, death |
| `Tenants` | create, delete with cascade, bind and unbind as load and save |

**The answers**, a stack of modules of operators, each EXTENDing the ones it
calls, with the tools as actions on top.

| module | models |
|---|---|
| `Traversals` | the view of the graph and its loader's caps; execution flow, impact radius, blast radius, paths, bounded walks, criticality |
| `Structure` | betweenness, articulation points, bridges, coupling, dead code, gaps; components, cycles, warnings |
| `Communities` | the optimizer's passes, refinement, split |
| `ContextSlices` | slices, exact context, provenance; fitting an answer into a token budget |
| `Reviewing` | risk, questions, refactorings; snapshots, their files and differences; working copies; churn and co-change; masks, previews and applied renames |
| `Searching` | keyword and full-text arms, identifiers, fusion, rerank, federation |
| `Evidence` | claims that disagree |
| `Catalogue` | stored flows, communities and risk, and their readers |
| `Sources` | ignore files, aliases, local types, resolution, entry points, configuration keys, edges; savings |
| `Reports` | a restored database and whether it is trusted, the report on a change, its gates and its comment, the graph as a picture and as notes |
| `Intake` | settings from defaults, file and environment, a text cut into chunks, answers written down and taken in again as documents |
| `Tools` | the tools as actions that return one answer for one choice of graph and arguments |
| `Answers` | what the answers must be: reference definitions, and the properties over them |
| `MC_Answers` | graphs, revisions, working copies, texts, stores and arguments |

How state and actions correspond to the code is in `PROJECT.json` under `map`,
definition by definition. The main lines:

- **CodeGraph.** `docs`, `ents`, `rels` are the three tables; `tree` the working
  trees. `loc[w]` holds the locals of `ingest_repo`: `stored` (`_stored_hashes`),
  `seen` (the contents as hashed, then as parsed), `changed` and `removed`
  (`detect_changes`), `kept` and `index` (`_reconstruct_symbols`, first and second
  SELECT). `ReadHashes`, `Detect`, `Parse`, `ReconstructDocuments`,
  `ReconstructEntities`, `WriteCodeGraph` are its steps in order; a full or walked
  ingest goes from `Parse` to `WriteCodeGraph`. SQLite makes the transaction one
  action; a crash before its COMMIT leaves no trace. One predicate, `calls`, stands
  for every predicate resolved through the name index; containment (`defines`) and
  configuration bindings (`configures`) are kept apart because an incremental
  update treats them differently. Rows that come back in no stated order are read
  through `OnePerPath`, a choice. `Matches(P, k)` is the pattern that selects what is
  deleted for the paths `P`: with `Alike` it takes the symbols of other paths too.
  `Shadowed` are the paths so taken, `Own` and `OwnEdge` the symbols and edges that
  are not theirs; the properties promise those, and soundness of all.
- **AuditLog.** `rows` and `journal` are the table and the file, `changes` what
  the callers committed. `written` is a history variable: the rows as they were
  inserted, against which `rows` is compared once somebody has tampered.
- **WatchService.** `file` says who created the identity file and whether the id
  is in it. A service whose file was unlinked still writes to the inode it
  opened (`WritePid`). `term` are the services that SIGTERM has reached.
- **WatchSupervisor.** `sup` is the supervisor's program counter. `busy` is the
  worker it is stopping or starting, `halt` a `Supervisor.stop` under way with the
  place to go back to: `Sigterm` may enter it from anywhere, since Python runs the
  handler in the main thread. A new thread is reserved first and started in a
  later step (`Replace`, `Start`, `Install`), so the handler can fall between.
- **The protocols around it.** A file that is rewritten in place has a state for
  being truncated; one that is replaced by `os.replace` has not. A statement
  outside a transaction is an action; a transaction is one action. What a process
  has read is in its record (`job`, `run`, `proc`, `build`, `admin` ...), so that a
  crash loses it. History variables (`meant`, `theirs`, `held`, `strays`, `met` ...)
  say what the properties need of the past.
- **The answers.** `db` is one database and `answer` what the last tool returned.
  An action takes the tool's arguments from `Args`, evaluates it and returns it
  with what the reference definition needs. Numbers are kept exact over a stated
  denominator where the code rounds, so ties fall as in the code.

Definitions named `X_Something` next to a definition `X` are variants with a
plausible bug of that name. One of them breaks each property (`PROJECT.json`,
`mutants`); the others break other conjuncts of the same properties and are kept
for whoever changes the code.

## 3. Runs

| run | instance | distinct states | shows |
|---|---|---|---|
| `CodeGraph_serial` | 1 writer, 2 files, the second in the first one's pattern, 3 contents (one fails to parse, one is changed by decoding), incremental, forget, crash | 29 thousand | entities match the recorded contents; an ingest records the tree it saw; everything else stays; a forget deletes its preview; the graph converges to the tree |
| `CodeGraph_quiet` | 2 writers, 2 code files, the second in the first one's pattern, and 1 configuration file, 3 contents, crash; edits only between ingests | 143 252 | however two ingests of one tree interleave: each takes effect at once (`AtomicGraph`), edges match the recorded contents, none dangles, and those between untouched files survive |
| `CodeGraph_ghosts` | 2 writers, 2 files, incremental | violated | see section 6 |
| `AuditLog_serial` | 1 recorder, 3 entries, 2 crashes, rows rewritten, relinked, hashed again and deleted | 13 thousand | verification fails exactly when the table differs from what was recorded, at the first row that does or after rows hashed again; changes, rows and lines are accounted for; recording implements `AtomicAudit` |
| `AuditLog_fork` | 2 recorders, 3 entries | violated | see section 6 |
| `WatchService_orderly` | 3 services, 2 commands, crashes, recycled ids, one command at a time | 4.1 thousand | one service, findable, released only by its owner, refused only for the holder or an id in use again |
| `WatchService_fair` | 3 services, 1 command, recycled ids, any interleaving | 178 thousand | claims end; a stopped service goes and leaves no identity |
| `WatchService_two` | 2 services | violated | see section 6 |
| `WatchSupervisor_safe` | 1 name, 2 paths, 2 threads, every hazard | 826 thousand | no thread is lost |
| `WatchSupervisor_fair` | the same, 2 edits, joins that do not time out | 245 thousand | one worker per repository; no worker is wrongly content; every repository is followed; a stop ends |
| `Queries` | every call graph on three symbols, chosen ones up to six, mixed kinds of edges, loader's caps; about forty tools with their bounds at, below and above what is there, row limits, sibling paths, a sampled betweenness | 63 thousand | the answers of the tools are what their reference definitions say |
| `Installation` | two processes each for whatever may run twice, two or three commands, one crash, one or two edits by somebody else | 843 thousand | the sixteen protocols keep what they promise, by theme |

**The themes of `Installation`.** `OneOfEach`: versions of a source form one line;
one review comment. `CalledCurrentIsCurrent`: stored views, watched repositories,
units held back in a session, wiki pages that are not rewritten.
`SuccessMeansDone`: an open, an install, a registry command, an agent's run, a
re-index, a stop of the viewer or of a language server did what they report.
`Kept`: the user's hook, the mentions of merged entities, other tenants' rows and
the principal of a subject. `ServedAsAgreed`: token budgets, rates (of a caller
no two of whose requests were between reading the clock and appending at once; see
section 6 for those), request budgets, usability and the order of answers. `NothingLost` (an action property):
no step of a setup changes what is the user's, a restore puts back what was hashed
or nothing. `EventuallySettled`: no opening stays under way, the foreground
watcher follows, the viewer stops, and a resolution ends, unless its server lives and
has stopped reading, when the write to it may wait for ever (section 6).

**The groups of `Queries`.** `WalksComplete`: walks, flows, impact, paths and
criticality against reachability and the set of all simple paths: a flag means that
something was cut, and what is missing without a flag lies behind a node with more rows
than its query reads.
`StructureExact`: betweenness (of all sources, or of the sample), articulation points,
bridges, coupling, layers against their definitions over all paths, every list a leading
part of the whole with its count, and that nothing called dead is reached.
`CommunitiesSound`: connected, never joined across the base pass, splits only
where modularity rises. `ContextSound`: slices, exact context, review context and
provenance agree with the walks, and payloads shrink as agreed. `ReviewSound`:
differences of snapshots are inverse to each other and say nothing of what was not
comparable, listings are of the working copy, scores move with their factors,
masks are what a scanner finds, a rename touches what it previewed.
`SearchSound`, `EvidenceSound`, `CatalogueSound`, `SourcesSound`: the same for
search, claims, stored views and what an ingest reads off the sources; they take
in the review report and its cache, the exports, the chunks of a text, the
configuration, and the answers that are kept as documents (`Reports`, `Intake`).

**Bounds and why they are enough.** In `CodeGraph` the interference is between a
file that is updated and one that is not; an edge that joins two files an update
does not touch needs a third, and the configuration file every update parses again
is the fourth. Two symbol names with contents that declare one, the other or both
give unresolved, certain and ambiguous references. Two writers are enough for a
read of one to be outdated by the other. Three entries let a recorder append before and
after a tampering, and leave two rows above the last that can be chained anew. Three services are a holder, a reclaimer
and a newcomer. Two threads for one name are an old worker and its successor;
`MaxVersion` bounds the edits of a tree, `MaxDeaths` the worker threads that die,
`MaxCrashes` the recorders'. In `Installation` two processes and two or three
commands let every command meet the leavings of a crashed one and the steps of
another; every `Max...` constant bounds how often the environment or the user acts,
and a bound of the code (`PerPage`, `MaxPages`, `BatchSize`, `PerMinute`,
`MaxRequests`, token budgets) is small enough to be reached. In `Queries` the caps
are at, below and above what the graphs hold. `MCSymmetry` permutes writers and
code paths, which nothing in the module tells apart; it is used in safety runs
only. Deadlock is checked in the `CodeGraph` runs, where an edit is always
possible; elsewhere the system may really stop (every entry recorded, every service
gone, the bounds used up, an answer returned).

**Configuration files.** They get no `documents` row, so nothing vouches for
them: `EntitiesMatchDocuments`, `EdgesMatchDocuments`, `NoStaleSymbols` and
`UnmovedEdgesStay` speak of code files and the edges between them, and hold also
when configuration files are about. What goes wrong for the configuration files
themselves is in section 6.

**Fairness.** `CodeGraph`: an ingest or a forget that has begun runs to its end,
and ingests keep coming (the watch worker polls every few seconds, the hook runs
on each commit); `Converges` assumes that editing, forgetting and crashing stop.
`WatchService`: a process that is not stopped by the system runs, and a
supervisor whose event is set leaves its loop, since the loop waits on that event
(`watch/service.py:468-475`). Launching, starting and stopping are the user's and
not fair. `WatchSupervisor`: threads are scheduled (weak fairness of the supervisor
and of each worker's poll), and an ingest that is retried at every poll does not
fail for ever (strong fairness of `Commit`); deaths and edits are not fair.
`Installation`: an opener, the foreground watcher's thread, the viewer's thread and
the resolving thread are scheduled, time passes (`Tick`) and a join that may return
does; commands, peers, servers and users owe nothing: to begin an open, or to run one
again that was refused, is the user's. Answers of the language server, requests of the
viewer's peers and joins are waited for with a time-out, so no fairness of the other
side is needed for them. A write to the language server has none: what `EventuallySettled`
claims of a resolution leaves out a server that lives and reads nothing (`HeldInWrite`).

## 4. Proofs

All theorems hold for every value of the constants that satisfies the modules'
assumptions.

| theorem | setting | says |
|---|---|---|
| `CodeGraph_proofs!TypeCorrect` | any | `TypeOK` |
| `CodeGraph_proofs!EndpointsAlwaysExist` | any number of writers, repositories, files; full, incremental, forget, crash | `EndpointsExist` |
| `CodeGraph_proofs!SerialGraphIsExact` | `Serial` | `EntitiesMatchDocuments` and `EdgesMatchDocuments`: nothing a full parse would not give, and all it gives of the paths no other pattern takes |
| `CodeGraph_proofs!IngestAlwaysRecordsTree` | `Serial` | an ingest records the tree it saw |
| `CodeGraph_proofs!NoStaleSymbolsEver`, `EverythingElseStaysEver`, `UnmovedEdgesStayEver`, `ForgetRemovesThePreviewEver` | `Serial` | the four action properties on what an ingest and a forget may change |
| `CodeGraph_proofs!QuietGraphIsExact` | `OneRepository`, `QuietSpec`: any number of writers | `EntitiesMatchDocuments` and `EdgesMatchDocuments` |
| `CodeGraph_proofs!QuietIngestsAgree` | the same | the four action properties on an ingest |
| `CodeGraph_proofs!QuietIngestsAreAtomic` | the same | `CodeGraph` implements `AtomicGraph` |
| `AuditLog_proofs!JournalSoundEver` | any number of recorders, crashes, any tampering | every journal line repeats a row that was inserted |
| `AuditLog_proofs!AccountedEver` | the same | every missing row or line is in flight or lost to a crash of its own |
| `AuditLog_proofs!VerifiedEver` | `OneRecorder`, crashes, any tampering that leaves the last hash | verification fails exactly when the table differs, and names the first row that does or the first after rows hashed again |
| `AuditLog_proofs!RecordsAtomicallyEver` | the same | `AuditLog` implements `AtomicAudit` |
| `WatchService_proofs!OneServiceOrderly`, `FindableOrderly`, `ReleaseOnlyOwnOrderly`, `RefusedOrderly` | `OrderlySpec`, crashes, recycled ids | the four properties of the identity file |
| `WatchSupervisor_proofs!TypeCorrect`, `NoOrphansEver` | every hazard | `TypeOK`; no thread is lost |
| `WatchSupervisor_proofs!OneWorker`, `NotLeftStaleEver` | no join times out; while the registry gives no repository two names | one worker per repository; a worker that sees no change is right |
| `WatchSupervisor_proofs!OneNameEver` | no join times out; one registered name | the two without the condition on the registry |
| `Installation_proofs!KeptEver` | any | `Kept` |
| `Installation_proofs!OneOfEachEver` | any | `OneOfEach` |
| `Installation_proofs!CalledCurrentEver` | any | `CalledCurrentIsCurrent` |
| `Installation_proofs!DoneEver` | any | `SuccessMeansDone` |
| `Installation_proofs!NothingLostEver` | any | `NothingLost` |
| `Installation_proofs!ServedEver` | any | `ServedAsAgreed` |

**Why dangling edges are impossible.** `write_code_graph` inserts an edge only
after looking up both ends inside its transaction, and both deletions remove every
edge that touches a removed path. `EndpointsExist` is inductive with `TypeOK`.

**Why the incremental graph is exact.** Two settings, both with one versioned
repository and no full re-ingest over a graph (`OneRepository`): `Serial`, one writer
at a time, while files are edited at any moment and paths are forgotten; and
`QuietSpec`, any number of writers, dying anywhere, while nobody forgets a path and
files are edited only between ingests. The two properties are not inductive: an
update relies on what it read. `GraphInv` adds what its locals still say:

- `StoredCurrent`: the hashes it read are those recorded, or else another ingest has
  since recorded the very tree this one looks at;
- `DetectedCurrent`: detection left out only files whose stored contents are the seen;
- `LocalsCurrent`: what it takes over of the other files is `Unmoved`, or of their
  symbols at least their own (`Rebuilt`), which is said of its own locals alone, so no one else's transaction can make it untrue;
- `Sound`: no path has two documents, and none is of a file that did not parse.

`UnreplacedIsUnmoved` is the heart of it: in either case of `StoredCurrent` the
recorded documents of the files an ingest does not replace are those of the tree it has
seen. So the symbols rebuilt for them are among those their parse would give, with all
that are their own (`RebuildIsLeft`), what a deletion leaves is the graph of the remaining
documents but for what its pattern took of others (`SurvivingEntities`, `SurvivingIds`,
`OwnUnmatched`), and the transaction yields the graph of the tree that was seen
(`WriteGraph`), to the same extent, whoever wrote before. `GraphStep` proves the
invariant of every step, provided that no edit comes under an ingest whose hashes are
outdated, and no transaction of another that has seen another tree; `SerialStep` and
`QuietStep` show that in their setting neither can happen. The action properties follow:
the documents of files that did not move are among the new ones, so their symbols,
and the edges among those that stay, are the old ones (`OnlyReplaced`, `UnmovedEdge`); a
forget needs besides that its preview is still what is there (`PlanCurrent`, by
`PlanStep`). `NoStaleSymbols` is a theorem only: it follows from `EntitiesMatchDocuments`
and `IngestRecordsTree`, which the runs check.

**Why concurrent ingests are atomic** (`QuietSpec`). `AtomicGraph` says of the files of a
tree what its graph is, without a parser, hashes or rows that are kept; its `Ingest`
puts that in place of the graph in one step. Under `QuietInv` every ingest has seen the
tree as it is, so by `WriteGraph` its transaction leaves the symbols and edges of the
documents of that tree, which are those of its files (`SymbolsAgree`, `EdgesAgree`). An
edit of code is the abstract edit; an edit of a configuration file, the five other steps
of an ingest and a crash are stutters. With edits under an ingest this does not hold
for two writers: `CodeGraph_ghosts` is the counterexample.

**Why nothing recorded is unaccounted for** (any recorders). `Carried`: no two
recorders carry one entry, and what one carries is exactly a piece that is missing,
a row of a change until it inserts it, then a line of a row. `Counted` bounds the
missing pieces by the crashes and the recorders in flight: a recorder that finishes
removes itself with its piece, one that dies becomes a crash.

**Why verification does not lie** (`OneRecorder`; it may die anywhere, and rows may be
rewritten, chained anew or deleted, as long as the last one keeps its hash). `ChainInv`:
what was inserted (`written`) is a chain whose k-th hash covers k bodies
(`ChainWritten`); the last hash stays, and it is the one a recorder has read
(`LastStays`, `PrevIsLast`). Rows that say what was inserted verify (`KeptVerifies`).
From the first row that does not, every row that verifies carries a hash that was never
issued (`FirstDifferingIsNew`, `NextIsNew`: a hash that was issued determines the body
and the hash before it); since the last row's was, verification fails somewhere
(`DifferingBreaks`). An insertion extends the chain of `written`, so it is a
`Record` of `AtomicAudit` although the table it is made to has been tampered with.

**Why one service holds the home** (`OrderlySpec`: no launch, start or stop begins
while a claim or a command is under way; processes die and ids are handed out again at
any moment). `OrderlyInv` ties the file to the holder, if there is one, and each program
counter to what the file must be there: a claim about to unlink it has met no holder.

**Why no thread is lost, and a repository has one worker.** The signal handler
interrupts the supervisor anywhere and goes back, so the invariant of
`WatchSupervisor` speaks of the `Stage` of the loop, the handler's or the one it will
return to. `Stages` says which locals are in use at which stage, `Handover` that a
thread being started is in the map while the one about to replace it is not yet, and
`Told` that a thread which polls and has not been told to stop is in the map and, once
the loop has ended, among those the handler has still to tell. `Single` adds, if joins
end and no repository has two names, that every live thread is in the map under its
repository's name or is the one being joined. `Fresher` orders what a worker saw, what
it is about to write, the graph and the tree, so that a worker whose signature is the
tree's has ingested it. `OneName` discharges the condition on the registry for the
setting the run checks. `dkg registry add` allows two names for one path, and a join
that times out lets a thread outlive its place in the map, so neither condition can go.

**Why what was somebody's stays** (`Kept`). *Hook* (`HookInd`): unless an install died
and was run again, the user's hook is in its place, or in the copy while the file is
ours or half written; what reading it as text makes of it stands for it from the first
copy on (`AsHeWroteIt`). *Mentions* (`AgentInd`): a mention points at an entity that is
there or at none; a curator that merges keeps an entity that no other curator of the
same duplicates deletes, because all take the least id (`Smallest`), and what it has
yet to delete it has already taken the mentions from, unless another agent was met
meanwhile. *Tenants* (`TenantInd`): rows are deleted with their tenant in one
transaction; a binding saved by one administrator is the one meant, unless two loads
and saves overlapped.

**Why races leave one of each** (`OneOfEach`). *Versions* (`DocInd`): whoever is about
to insert a version holds the write lock since it looked the latest one up
(`DocInserts`), so the version it saw is still the latest. *Comments* (`PubInd`): the pages a run has looked through hold no comment of
ours, and it posts only when there is no further page; this is so while runs do not
overlap, no comment moved between two pages of a look, and the pages did not run out
(`Calm`), and then ours is one comment with the last body sent.

**Why what is called current is** (`CalledCurrentIsCurrent`). *Views* (`ViewInd`): a run
notes the revision before it loads, so what it loads, and what it has stored, is of the
graph while the graph has that revision (`Right`): once the graph has moved on, only a
change can bring the revision back, and those are left out (`again`). *Watch* (`WatchOrder`): known, ingested
and present signatures of a repository are ordered, and those the thread carries lie
between. *Session* (`SessionInd`): what is marked as shown is what the client has, until
its history is lost. *Wiki* (`WikiInd`): the pages a run has passed are as rendered or
edited by somebody, the manifest lists what it lists only when the pages are there, and
in a wiki without edits and deaths a run over an unchanged graph finds nothing to write.

**Why what was reported is done** (`SuccessMeansDone`). *Opening* (`OpenInd`): a script
is recorded only when all its statements have run, the scripts before the one an opener
is at are recorded, and what it read at first is still recorded, so an opener that comes
to the version has them all. *Setup* (`SetupInd`): the text a command is about to write
over was found neither settled nor to be refused (`Decided`), and unless somebody edited
a file since the command began, every file of its plan that is no longer to be done is as
wanted (`Progressed`). *Registry* (`RegistryInd`): while no two commands overlapped and
none died saving, a client between its load and its save knows what the file says. *Agents* (`RunInd`): two agents have two rows, and the row and the journal of one
that has ended say how it ended; a curator that has answered has left one of the
duplicates, unless it met another agent. *Re-index* (the part `DocCovers` of `DocInd`): a
re-index that no other one overlapped has stored, or holds in its batch, every row up to
the one it is at (`Covered`). *Viewer* (`ViewerStops`): who joins the thread has told it
to stop and waits for longer than any request or write it may still hold, unless a peer
sent on meanwhile; a request that is there is handled before time passes, so that
the wait of its write does not follow another (`MayHoldAnew`).
*Language server* (`ClientInd`): every id about is less than the next one, so an answer
under the id that is waited for is to that question, and nothing revives a process that is
gone.

**Why nothing is lost** (`NothingLost`). `SetupInd` with what an edit of a file keeps
(`Texts`, the launchers a user may have), and *backups* (`BackupInd`): a restore that
copies has an archive whose files are what its manifest says, so what it has copied so
far is what was hashed, and an archive that does not verify is not copied from.

**Why limits hold and answers come in order** (`ServedAsAgreed`).
*ContextSlices* (`PackedRight`): the cost of a set is the number of its token pieces, so it grows
with the set. The last unit taken that is not required saw all the others beside it when
it was found to fit; so the whole fits, or is required. A unit left out did not fit beside
fewer, so it does not fit beside all.
*Rate* (`RateInd`), while no two requests of a caller are counted at once: no entry is of a
time to come (`NoneAhead`); an entry the window has dropped is older than a minute, for the
clock and for whoever is counting now (`GoneIsOld`); what a thread kept is still what is
recent (`KeptIsRecent`), and one that appends found room (`RoomLeft`). So the window
bounds the requests of the minute before each one let through (`Bounded`). Without the
condition on overlaps both `GoneIsOld` and `RoomLeft` fail.
*Viewer* (`ViewerBudget`): while a connection is held or written to, one more request may be counted; a
loop that ended without being told to has used the budget up.
*Pipe* (`PipeInd`): a line has its place as its number, and there is an answer for each line
read so far that is due. *Guard* (`Started`): the settings never change, and each that
starts has a request its guard lets through.

**How a theorem of `Installation` is put together.** `OneStep`: a step of the whole is a
step of the part in play, or leaves its variables alone. The invariants of the parts and
the lemmas about their first states, steps and promises are in `Store_proofs`,
`Desk_proofs` and `Serving_proofs`, which instantiate the same components over fewer
variables; `Installation_proofs` instantiates those modules in turn, and its lemmas
`SameHook`, `SameAgents` ... say that the two instances define the same. The assumptions
are `Installation`'s own, and the run evaluates them:

| assumption | what it says of the code |
|---|---|
| `HooksAssumption` | the user's scripts, some of which are not UTF-8, can be told from ours, from a half-written one and from one with replaced characters |
| `WorkersAssumption` | a process is not called "nobody"; a batch has a size |
| `ScriptsAssumption` | the migrations are numbered, and so are the statements of one |
| `PagesAssumption` | a page of comments holds one, and at least one page is looked at |
| `AgentsAssumption` | there are duplicates to merge, finitely many, with positive ids |
| `ToolsAssumption` | no editor is called "data" |
| `KeysAssumption` | a turn's units are finitely many, in an order, and budgets are numbers |
| `CallersAssumption` | the rate is a number; no token is the word for having none |
| `TimesAssumption` | times and request budgets are numbers; the join's slack is positive |

**Only model-checked.** Liveness (`Converges`, `ClaimDecides`,
`StopLeavesNothing`, `Followed`, `StopEnds`, `EventuallySettled`) is beyond this
prover, as is `ENABLED`. What the answers' algorithms compute for every input cannot be
proved with the installed provers: it needs induction over data. `Structure`,
`Traversals`, `Communities`, `ContextSlices`, `Reviewing`, `Searching`, `Catalogue`,
`Sources` and the modules above them therefore use `RECURSIVE` where the code loops, and
their nine properties (`WalksComplete`, `StructureExact`, `CommunitiesSound`,
`ContextSound`, `ReviewSound`, `SearchSound`, `EvidenceSound`, `CatalogueSound`,
`SourcesSound`) stay with TLC (`Queries`). Every other safety property of a passing run is
a theorem, some of them in a setting the table names.

## 5. What is left out, and why it does not hide what is claimed

*Of the core.* Chunks, provenance rows and full-text rows follow their document in
the same transaction. Weights and confidences of relationships are kept in the
model but the properties compare relationships by their key, because `INSERT OR
IGNORE` does (section 6). In `CodeGraph` aliases, framework edges and
language-server resolution only add predicates over the same name index
(`Sources` and `CodeServer` model them on their own). Status and log files of the
service feed nothing back. Two repositories with the same relative paths, and full
re-ingests, are in the model (`Repos`, `Operations`), but the exactness properties
are not claimed of them. `WatchSupervisor` takes one command at a time on the
registry; what two of them do to each other is `Registry`.

*Of the protocols.* The sixteen parts are checked side by side, not composed: no
part reads another's state, except through the graph, which each sees as a number
that changes. A write to a file is either whole or cut short, not reordered by the
disk. The viewer's second start after a stop that raised is left out (section 6).

*Of the answers.* Graphs have up to six symbols, so the caps in the thousands, the
limits of rows and the sizes at which betweenness is sampled are constants of a few, at
which they bite; the lists of `unexpected_coupling` and `knowledge_gaps` are not cut,
only those drawn from them are. Arithmetic is exact, so the effects of rounding to
four digits are modelled and those of floating point are not. SQLite's order of
rows without `ORDER BY` is a choice where an answer depends on it.

*Not modelled.* Parsing and per-language tables (`code/parser.py`,
`code/languages.py`): a transliteration of grammars, with no state; `CodeGraph`
takes their result as given. Extraction, redaction and embeddings: text heuristics
without a definition of correct other than themselves. The layout of exports and
reports (`export/viz.py`, the Markdown of `code/report.py`); what they select, count
and cut is in `Reports`. Media, adapters, connectors
and plugins: wrappers of programs and services that are not in the repository, one
call each. Command line and MCP dispatch tables: argument plumbing to the
operations that are modelled. `PROJECT.json` names each under `components`.

## 6. Where code and documents disagree

Three disagreements are runs (`findings` in `PROJECT.json`):

- **A removed file comes back.** `_reconstruct_symbols` reads the symbols of
  unchanged files outside the write transaction, and the transaction inserts them
  again. If another process's ingest removed one of those files in between, its
  symbols return without a document, and no later update removes them
  (`CodeGraph_ghosts`).
- **The chain forks.** `record` reads the tail and inserts in two autocommit
  statements. Two recorders that read the same tail leave a log that
  `verify_chain` rejects (`AuditLog_fork`).
- **Two services.** `O_EXCL` makes creating the file one step, but the id is
  written in another; a second start in between takes the empty file for stale,
  unlinks it and claims (`WatchService_two`).

The others below were met while modelling. The models contain the behaviour (the
properties of section 3 are stated so that they hold beside it); none is kept as a
run.

**Code ingest, forget, audit**

- Two repositories in one database with the same relative path delete each other's
  symbols: an entity id has no repository in it (`code/graph.py:197`).
- The key nodes of a removed configuration file stay: it has no document, so it is
  never found missing (`code/ingest.py:197`, against `code/changes.py:271-272`).
- A full ingest over an existing graph deletes nothing, so stale symbols stay
  (`code/ingest.py:223`, against `docs/TROUBLESHOOTING.md:204-205`).
- `configures` edges into code an update does not parse are dropped and cannot be
  rebuilt (`code/config_keys.py:301`). A binding that spans several lines gets no
  pair.
- A file whose bytes differ from their decoded text never matches its stored hash
  and is parsed on every update (`code/graph.py:261`).
- A relationship that was certain stays so when a second definition makes it
  ambiguous (`code/graph.py:360`).
- git lists tracked files that are missing on disk, so `detect_changes` raises on
  them (svn skips them); it quotes non-ASCII names, so they are skipped silently.
- The preview of a forget counts an edge between two forgotten files twice
  (`code/forget.py:125`).
- The deletion of a file's symbols takes those of sibling paths: in `canonical LIKE
  'a_b.py::%'` the underscore stands for any character and case does not count, so an
  update of `a_b.py` also deletes the symbols of `a-b.py` and `A_B.py` with their
  edges. Their symbols are rebuilt, but their `defines` edges are not, since their
  documents still vouch for them; after a forget of `a_b.py` their symbols do not come
  back either (`code/graph.py:183-199`, `code/forget.py:25-33`; against `README.md:265-275`,
  "Everything else stays as it was", and `code/forget.py:9`, "Forgetting is exact").
- Deleting the newest audit rows, or computing the hashes anew from a rewritten row
  through the last, is not found (against `core/audit.py:3-4` and
  `docs/DEPLOYMENT_GUIDE.md:94-95`). A rewritten row whose hash is computed again is
  reported at the first row below whose own is not (against "audit_id_of_first_break",
  `core/audit.py:114`, and `docs/THREAT_MODEL.md:36`). The column `prev_hash` is never
  compared with anything, so rewriting it is not found. A crash before the journal line
  is never repaired.
- `aliases.py`: an exact pattern loses to every wildcard pattern with a non-empty
  prefix (against its docstring and `tests/code/test_path_alias_resolution.py:151`).
- `ignores.py`: `match` drops the leading dot of a path.
- Local types: in `x = B(); x = A(x.m())` the call is resolved to `A.m`; two calls of
  one method name on different classes in one function share one key.
- Two registrations of an entry point under one label keep only the first.
- `resolve_parsed_files` writes its copies outside the block that suppresses errors.

**Watching**

- `release_pid_file` reads and unlinks in two steps and may unlink the file of a
  service that has just claimed it (`watch/service.py:176-182`).
- After a power loss, a recorded id that now belongs to another process refuses the
  start, and so does one that the claimant itself was given, as in a container whose
  service always has the same id (`watch/service.py:160`, against its lines 162-164, "a
  machine that lost power must not need a manual file deletion to start again").
- Two names registered for one path get two workers (`watch/service.py:390`).
- A worker that outlives the five-second join may commit an older tree over its
  successor's, which then never looks again (`watch/service.py:313`).
- A reconcile that reads `registry.json` while it is rewritten ends the service
  (`watch/registry.py:58`, `watch/service.py:370`). Two registry commands lose each
  other's updates; a torn file makes every later command refuse.
- A file name that is not UTF-8 ends the foreground watcher's thread
  (`watch/daemon.py:144`) while its health stays "ok".
- Git hooks: a forced install that died, run again, loses the original; a stale
  backup can resurrect an old hook; a hook that was disabled comes back executable; a
  hook that is not UTF-8 is kept, and put back, with its other bytes replaced
  (`watch/hooks.py:185`, against lines 22-24, "the existing file is preserved");
  `render_hook` does not use its time-out (against `watch/hooks.py:27-28`).

**Database, documents, views, backup, wiki**

- The second opener of a new database gets a `MigrationError`; a retry succeeds.
- `graph_revision` is counts of rows and greatest ids. A rename or a replacement that
  keeps them, or a graph that goes back to an earlier one while a run was loading, leaves
  rows of another graph called current (`code/postprocess.py:77-101`, against its
  docstring, lines 80-83, and lines 170-174).
- A document that goes from A to B and back to A keeps B as its latest version.
- A crashed re-index leaves a partial index that the automatic index does not
  repair; of two re-indexes the older snapshot may win.
- Two symbols of one canonical name make a stage of `postprocess` raise; earlier
  stages stay written and no run is recorded. The recorded level is the requested
  one.
- A database written between hash and archive makes a backup that does not verify
  (against `docs/TROUBLESHOOTING.md:193`, "consistent portable archive"); the manifest
  has no schema version, which the header of `backup.py` says it has.
- Wiki: `incremental=False` forgets stale pages and leaves them on disk (the
  docstring says removed); death between a page and the manifest, followed by a
  graph that goes back, leaves a wrong page as "unchanged".

**Setup, publication, agents, sessions, servers, tenancy**

- `install_all` and `uninstall_all` stop at the first tool that refuses;
  `install_bundle` can leave the server entry when a later file refuses; an edit
  between read and write is lost; a `version` key of the user's may be removed;
  the removal of trailing commas in JSONC does not know strings.
- Two runs of the publisher, a deletion during its lookup, or more than the maximum
  of pages give a second comment; a quoted marker of somebody else blocks updates;
  `--top 200` may exceed the 65,000 bytes a comment may have.
- `run_parallel` and `run_workflow` skip the policy; budget and time-out of an agent
  are checked after its effects; a ledger that cannot be written leaves "running".
- Merging entities deletes mentions that were added meanwhile (`ON DELETE CASCADE`)
  and leaves `events.subject_id` behind.
- Sessions: under a token budget `full_resend` does not recover a client that lost
  its history (against `context/session.py:14-15`). `pack.py` imports the tokenizer
  at run time, which the docstring of `tokens.py` rules out.
- Server: overlapping requests of one caller exceed the rate limit, because one loses
  the other's entry (`mcp/server_http.py:190-193`), and also because a request that read
  the clock (`mcp/server_http.py:187`) and was overtaken by a later one finds entries
  dropped that are younger than a minute for it; a wildcard bind with a token and no named hosts
  starts and refuses everything; `expires_in` is never enforced; an exception that
  is not a `DKGError` ends the stdio server; booleans pass for integers.
- Viewer: a request whose peer is gone during the write is not counted (docstring:
  "Count every request"); a peer that trickles bytes, or sends its request
  late and does not read the document, whose write waits as long again, holds the thread
  past the shutdown budget, so the stop raises (`export/serve.py:92-102`, which counts one
  request time-out); a start after that clears the flag the old
  thread would end on.
- Language server: a request of its own with a non-numeric id ends the reader
  thread, after which every question times out. Writes to it are not bounded: if it lives
  and stops reading, `did_open`, a question, a reply and `stop` itself wait for ever, since
  the process is killed only after two writes (`code/lsp.py:155-167`, `213-221`, against
  lines 5-6, "a bounded timeout, and a clean shutdown"). An answer that is not made of
  locations ends the resolution of the whole language.
- Tenancy: role ids join names with underscores, so two tenants' roles may collide
  (and are refused); a principal that holds another tenant's role blocks that
  tenant's deletion; deleting a tenant that does not exist reports success; bindings
  are lost between two processes and outlive their principals; nothing calls
  `check_quota`.
- Memory: `ingest_answers` reports an unchanged answer as failed, and the version a
  newer answer replaced can still be found; answering A, B and A again within a second
  leaves B the latest version. Nothing in the product calls `context/memory.py`.

**Answers**

- Cuts that are not reported: `blast_radius_for_file` drops the flag; the clip of
  `flow_criticality`'s paths; `_trace` and the `LIMIT` of `flows_affected_by`;
  the rows of one query, 2000 for a node in `code/impact.py:46`, `code/flow.py:70` and
  `context/slices.py:168`, 500 and 1000 in `code/criticality.py:154` and `320-330`
  (against `code/criticality.py:23-27`, "the result says which"); the provenance caps of
  slices; the cycles `architecture_map` does not list, whose components it draws plain; the callers a review
  context's budget drops, which then asks about "No caller is visible"; the
  candidates `identifier_search` limits before it confirms them; `paths_in`'s 200
  names.
- `blast_radius_for_file` finds a file's own symbols by the pattern a deletion uses, so
  those of a sibling path are taken as its own and left out of the impact
  (`code/impact.py:80-83`).
- `impact_radius`: the weight called fan-in ranks the elided lines.
  `communities_combined` uses another resolution than its parts; `split` repeats
  what it rejected; the partition depends on the order of entity ids.
- `risk.py:_entry_point_reach` says it uses the entry points of the dead-code
  analysis; that one looks at incoming edges of five kinds, this one at outgoing
  edges of two.
- A chokepoint ranked past the cap gets no question; ids of questions repeat for
  parallel edges. `apply_budget` may end over the budget by the digits of the token
  count, which it reports.
- Renames: a file with CRLF is rewritten with LF; a file that is not UTF-8 stops the
  rename after earlier files were written; `_rewrite` checks only that the old name
  begins at the offset.
- Search: keyword and full-text arms have no tenant filter; `--source` filters one
  arm (`docs/USER_GUIDE.md:31`, `search/hybrid.py:57-58`); an upper-case AND, OR or
  NOT makes the full-text query a syntax error; `bm25()` is negative, so its score is
  always 1.0 (against `docs/ARCHITECTURE.md:67`); a file name as identifier never
  matches; two entities at one position credit the smaller name.
- Contradictions: antonyms match inside words, and the reason depends on the hash
  seed; claims without a topic are never compared by the paraphrase route.
- The report on a change: `changed_symbols_truncated` is false for a `top` of five or
  more although more symbols changed; test gaps are cut over the whole repository before
  they are filtered to the change; `render_markdown` always uses the default top of ten;
  a change inside a cycle of calls that nobody outside calls gets no flow; an empty
  change can be called "high" when the configured cuts are 0.
- A cache miss leaves stray `-wal` and `-shm` files (against the docstring of
  `_remove_database_files`), and a database that cannot be removed stays although
  `pr_cli.py` reports that it "has been deleted".
- A chunk may exceed `max_chars`, up to less than twice of it, and the offsets of a
  paragraph that was split count compacted white space (against the docstring of
  `chunker.py`).
- An export to a note vault that is repeated leaves the notes of entities that are gone
  or renamed; two entities with the same label and end of id share one note.
- Values of the configuration file are not checked for their type (the text "no" turns
  outbound traffic on), and no command passes a configuration file.
- Taint: `x = eval(x)` is not reported, and a copy drops the taint. Savings: "a.py"
  and "./a.py" count twice.

## 7. Plan

1. *Done:* the core, the protocols, the answers; the proofs of section 4, which cover
   every safety property of the core's runs and of `Installation`.
2. *Done:* `AtomicGraph`, the abstract specification of the code plane, and `CodeGraph`
   as its refinement for concurrent ingests.

## 8. Running

    tlc -workers 2 -config CodeGraph_serial.cfg MC_CodeGraph.tla
    tlapm CodeGraph_proofs.tla

Each run's module and configuration are listed in `PROJECT.json`; every run ends
in under five minutes with two workers.
