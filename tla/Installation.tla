---------------------------- MODULE Installation ----------------------------
(***************************************************************************)
(* The parts of an installation that share no state, side by side: opening *)
(* and migrating a database, document ingest with the vector index, the    *)
(* derived views, backup and restore; the editor setup, the git hook, the  *)
(* registry and the foreground watcher; the pull-request publication and   *)
(* the agents; the sessions and the servers; the viewer, the language      *)
(* server, the wiki and the tenants.  A behaviour exercises one of them;   *)
(* the variables of the others are out of play.                            *)
(***************************************************************************)
EXTENDS Naturals, FiniteSets, Sequences

CONSTANTS Openers, Scripts, Statements, MaxCrashes,
          Workers, Sources, Contents, MaxEdits, MaxJobs, BatchSize,
          Runners, SymbolSets, MaxChanges, MaxRuns,
          MaxEvents, MaxBackups, MaxRestores,
          Tools, MaxCommands, MaxTrouble,
          UserHooks, Lossy, MaxInstalls, MaxHookEdits,
          Clients, RepoNames, Missing, MaxRegistryCommands,
          Watched, MaxSaves, MaxFailures,
          CIRuns, PerPage, MaxPages, MaxComments, MaxLost,
          Threads, Duplicates, Mentions, MaxTasks, MaxDeaths,
          Keys, TokenBudgets, MaxTurns, MaxTextEdits,
          Connections, PerMinute, Tokens, MaxCalls, MaxLines, MaxClock,
          MaxRequests, RequestTimeout, Polls, Slack, MaxConnects, MaxStarts,
          Sites, MaxAsks,
          MaxWikiRuns, MaxWikiChanges, MaxWikiDeaths, MaxWikiEdits,
          Admins, Subjects, MaxRoles, MaxPrincipals, MaxDeletes, MaxBinds

(* The scripts the user may have are told from half a file, from ours and  *)
(* from one that was changed by being read; a process is not nobody, and   *)
(* batches, migrations and statements are counted; there is a page to look *)
(* at;                                                                     *)
(* there is something to merge, and 0 is no entity; no editor is called    *)
(* "data", the name of what a purge removes; the symbols of a session are  *)
(* finitely many and in order, and budgets are counted; no token is the    *)
(* word for no token, and requests are counted; and so are the times of    *)
(* the viewer, with a margin left for its shutdown, and its requests.      *)
ASSUME HooksAssumption == Lossy \subseteq UserHooks /\ UserHooks \cap {"none", "half", "ours", "changed"} = {}
ASSUME WorkersAssumption == "nobody" \notin Workers /\ BatchSize \in Nat
ASSUME ScriptsAssumption == Scripts \in Nat /\ Statements \in Nat
ASSUME PagesAssumption == PerPage \in Nat \ {0} /\ MaxPages \in Nat \ {0}
ASSUME AgentsAssumption == Duplicates \subseteq Nat \ {0} /\ Duplicates # {} /\ IsFiniteSet(Duplicates)
ASSUME ToolsAssumption == "data" \notin Tools
ASSUME KeysAssumption == Keys \subseteq Nat /\ IsFiniteSet(Keys) /\ TokenBudgets \subseteq Nat
ASSUME CallersAssumption == PerMinute \in Nat /\ "none" \notin Tokens
ASSUME TimesAssumption == RequestTimeout \in Nat /\ Polls \in Nat /\ Slack \in Nat \ {0} /\ MaxRequests \in Nat

VARIABLES part,
          tables, recorded, major, opener, crashes,
          files, docs, vectors, lock, job, edits, jobs,
          graph, stored, lastRun, run, had, again, changes, runs,
          home, present, unwritten, backup, archives, restore, target, events, backups, restores,
          config, marked, env, data, proc, used,
          hook, copy, enabled, theirs, at, spent,
          registry, client, agreed, trouble, commands,
          tree, odd, known, current, health, watcher, stopping, failures,
          comments, ciRun, traffic,
          entities, refers, dropped, rows, journal, worker, policy, around,
          text, seen, held, turn, lost, turns,
          settings, issued, conn, reply, bucket, clock, admitted, overlap, pipe, calls,
          document, httpd, loop, flag, owner, sent, met,
          server, reader, open, responses, nextId, caller, pipeFull, resolved, asks,
          clusters, pages, manifest, build, marks, strays, wear,
          tenants, roles, principals, bindings, admin, meant, usage
openVars   == <<tables, recorded, major, opener, crashes>>
docVars    == <<files, docs, vectors, lock, job, edits, jobs>>
viewVars   == <<graph, stored, lastRun, run, had, again, changes, runs>>
backupVars == <<home, present, unwritten, backup, archives, restore, target, events, backups, restores>>
setupVars  == <<config, marked, env, data, proc, used>>
hookVars   == <<hook, copy, enabled, theirs, at, spent>>
regVars    == <<registry, client, agreed, trouble, commands>>
watchVars  == <<tree, odd, known, current, health, watcher, stopping, failures>>
pubVars    == <<comments, ciRun, traffic>>
agentVars  == <<entities, refers, dropped, rows, journal, worker, policy, around>>
sessionVars == <<text, seen, held, turn, lost, turns>>
serverVars == <<settings, issued, conn, reply, bucket, clock, admitted, overlap, pipe, calls>>
viewerVars == <<document, httpd, loop, flag, owner, sent, met>>
clientVars == <<server, reader, open, responses, nextId, caller, pipeFull, resolved, asks>>
wikiVars   == <<clusters, pages, manifest, build, marks, strays, wear>>
tenantVars == <<tenants, roles, principals, bindings, admin, meant, usage>>
storeVars  == <<openVars, docVars, viewVars, backupVars>>
deskVars   == <<setupVars, hookVars, regVars, watchVars, pubVars, agentVars>>
answerVars == <<sessionVars, serverVars>>
sideVars == <<viewerVars, clientVars, wikiVars, tenantVars>>
vars == <<part, storeVars, deskVars, answerVars, sideVars>>

M == INSTANCE Migrations
D == INSTANCE Documents
V == INSTANCE DerivedViews
B == INSTANCE Backups
S == INSTANCE Setup WITH files <- config, present <- marked
H == INSTANCE GitHooks
R == INSTANCE Registry
W == INSTANCE Daemon WITH thread <- watcher
P == INSTANCE Publisher WITH thread <- comments, job <- ciRun, events <- traffic
A == INSTANCE Agents
C == INSTANCE Session
E == INSTANCE Server
U == INSTANCE Viewer
L == INSTANCE CodeServer
K == INSTANCE Wiki
T == INSTANCE Tenants

Off == "out of play"
Init ==
    /\ part \in {"open", "documents", "views", "backup", "setup", "hooks", "registry", "watch", "publish", "agents",
                "session", "server", "viewer", "resolve", "wiki", "tenants"}
    /\ IF part = "open" THEN M!Init
       ELSE tables = Off /\ recorded = Off /\ major = Off /\ opener = Off /\ crashes = Off
    /\ IF part = "documents" THEN D!Init
       ELSE files = Off /\ docs = Off /\ vectors = Off /\ lock = Off /\ job = Off /\ edits = Off /\ jobs = Off
    /\ IF part = "views" THEN V!Init
       ELSE graph = Off /\ stored = Off /\ lastRun = Off /\ run = Off /\ had = Off /\ again = Off /\ changes = Off /\ runs = Off
    /\ IF part = "backup" THEN B!Init
       ELSE home = Off /\ present = Off /\ unwritten = Off /\ backup = Off /\ archives = Off
            /\ restore = Off /\ target = Off /\ events = Off /\ backups = Off /\ restores = Off
    /\ IF part = "setup" THEN S!Init
       ELSE config = Off /\ marked = Off /\ env = Off /\ data = Off /\ proc = Off /\ used = Off
    /\ IF part = "hooks" THEN H!Init
       ELSE hook = Off /\ copy = Off /\ enabled = Off /\ theirs = Off /\ at = Off /\ spent = Off
    /\ IF part = "registry" THEN R!Init
       ELSE registry = Off /\ client = Off /\ agreed = Off /\ trouble = Off /\ commands = Off
    /\ IF part = "watch" THEN W!Init
       ELSE tree = Off /\ odd = Off /\ known = Off /\ current = Off /\ health = Off /\ watcher = Off
            /\ stopping = Off /\ failures = Off
    /\ IF part = "publish" THEN P!Init ELSE comments = Off /\ ciRun = Off /\ traffic = Off
    /\ IF part = "agents" THEN A!Init
       ELSE entities = Off /\ refers = Off /\ dropped = Off /\ rows = Off /\ journal = Off
            /\ worker = Off /\ policy = Off /\ around = Off
    /\ IF part = "session" THEN C!Init
       ELSE text = Off /\ seen = Off /\ held = Off /\ turn = Off /\ lost = Off /\ turns = Off
    /\ IF part = "server" THEN E!Init
       ELSE settings = Off /\ issued = Off /\ conn = Off /\ reply = Off /\ bucket = Off /\ clock = Off /\ admitted = Off
            /\ overlap = Off /\ pipe = Off /\ calls = Off
    /\ IF part = "viewer" THEN U!Init
       ELSE document = Off /\ httpd = Off /\ loop = Off /\ flag = Off /\ owner = Off /\ sent = Off /\ met = Off
    /\ IF part = "resolve" THEN L!Init
       ELSE server = Off /\ reader = Off /\ open = Off /\ responses = Off /\ nextId = Off /\ caller = Off
            /\ pipeFull = Off /\ resolved = Off /\ asks = Off
    /\ IF part = "wiki" THEN K!Init
       ELSE clusters = Off /\ pages = Off /\ manifest = Off /\ build = Off /\ marks = Off /\ strays = Off /\ wear = Off
    /\ IF part = "tenants" THEN T!Init
       ELSE tenants = Off /\ roles = Off /\ principals = Off /\ bindings = Off /\ admin = Off
            /\ meant = Off /\ usage = Off

InStore == UNCHANGED <<part, deskVars, answerVars, sideVars>>
AtDesk  == UNCHANGED <<part, storeVars, answerVars, sideVars>>
Aside   == UNCHANGED <<part, storeVars, deskVars, answerVars>>
Opens(Step)   == part = "open" /\ Step /\ InStore /\ UNCHANGED <<docVars, viewVars, backupVars>>
Watches(Step) == part = "watch" /\ Step /\ AtDesk
                 /\ UNCHANGED <<setupVars, hookVars, regVars, pubVars, agentVars>>
Views(Step)    == part = "viewer" /\ Step /\ Aside /\ UNCHANGED <<clientVars, wikiVars, tenantVars>>
Resolves(Step) == part = "resolve" /\ Step /\ Aside /\ UNCHANGED <<viewerVars, wikiVars, tenantVars>>
Next ==
    \/ Opens(M!Next)
    \/ part = "documents" /\ D!Next /\ InStore /\ UNCHANGED <<openVars, viewVars, backupVars>>
    \/ part = "views"     /\ V!Next /\ InStore /\ UNCHANGED <<openVars, docVars, backupVars>>
    \/ part = "backup"    /\ B!Next /\ InStore /\ UNCHANGED <<openVars, docVars, viewVars>>
    \/ part = "setup"     /\ S!Next /\ AtDesk /\ UNCHANGED <<hookVars, regVars, watchVars, pubVars, agentVars>>
    \/ part = "hooks"     /\ H!Next /\ AtDesk /\ UNCHANGED <<setupVars, regVars, watchVars, pubVars, agentVars>>
    \/ part = "registry"  /\ R!Next /\ AtDesk /\ UNCHANGED <<setupVars, hookVars, watchVars, pubVars, agentVars>>
    \/ Watches(W!Next)
    \/ part = "publish"   /\ P!Next /\ AtDesk /\ UNCHANGED <<setupVars, hookVars, regVars, watchVars, agentVars>>
    \/ part = "agents"    /\ A!Next /\ AtDesk /\ UNCHANGED <<setupVars, hookVars, regVars, watchVars, pubVars>>
    \/ part = "session"   /\ C!Next /\ UNCHANGED <<part, storeVars, deskVars, serverVars, sideVars>>
    \/ part = "server"    /\ E!Next /\ UNCHANGED <<part, storeVars, deskVars, sessionVars, sideVars>>
    \/ Views(U!Next)
    \/ Resolves(L!Next)
    \/ part = "wiki"      /\ K!Next /\ Aside /\ UNCHANGED <<viewerVars, clientVars, tenantVars>>
    \/ part = "tenants"   /\ T!Next /\ Aside /\ UNCHANGED <<viewerVars, clientVars, wikiVars>>
Fairness ==
    /\ \A p \in Openers : WF_vars(Opens(M!Step(p)))
    /\ WF_vars(Watches(W!ThreadStep))
    /\ WF_vars(Views(U!ThreadStep)) /\ WF_vars(Views(U!Tick)) /\ WF_vars(Views(U!Join))
    /\ WF_vars(Resolves(L!CallerStep))
Spec == Init /\ [][Next]_vars /\ Fairness

-----------------------------------------------------------------------------

(* What the parts promise, by theme; each names the operators of the       *)
(* modules, where it is said what they mean.                               *)

(* Writers that race leave one of each: the versions of a source form one  *)
(* line (ingest/base.py), a pull request has one comment, with the last    *)
(* body sent (code/pr_publish.py).                                         *)
OneOfEach == /\ part = "documents" => D!OneVersionChain
             /\ part = "publish" => P!OneThread
(* What is called current, and so not done or sent again, is: stored rows  *)
(* of a revision not come back (code/postprocess.py, code/catalogue.py), a *)
(* repository that is skipped (watch/daemon.py), a unit that is held back  *)
(* as shown (context/session.py), a page that is not rewritten             *)
(* (code/wiki.py).                                                         *)
CalledCurrentIsCurrent == /\ part = "views" => V!ServedRight
                          /\ part = "watch" => W!NothingSkipped
                          /\ part = "session" => C!ClientUpToDate
                          /\ part = "wiki" => K!PagesCurrent /\ K!NoStalePages /\ K!WritesNothing
(* A command that reports success has done it, all of it: an open, which   *)
(* leaves the database migrated whatever raced it and whatever died        *)
(* (core/db.py), an install or uninstall (mcp/configure.py), a registry    *)
(* command (watch/registry.py), an agent's run (agents/coordinator.py), a  *)
(* re-index (search/vector_index.py), the stop of the viewer's server      *)
(* (export/serve.py) and of the language server, whose answers are used    *)
(* for what they answer (code/lsp.py, code/resolve.py).                    *)
SuccessMeansDone == /\ part = "open" => M!OpenMeansMigrated
                    /\ part = "setup" => S!CompleteAtTheEnd
                    /\ part = "registry" => R!RegistryAccounts /\ R!OnlyExisting
                    /\ part = "agents" => A!RunsAccounted
                    /\ part = "documents" => D!ReindexRepairs
                    /\ part = "viewer" => U!StopReleases
                    /\ part = "resolve" => L!NoServerLeft /\ L!AnswersOwnQuestion
(* What was somebody's before stays: the user's hook, in its place or      *)
(* beside it (watch/hooks.py), the mentions of entities that are merged    *)
(* (agents/curation.py), the rows of the other tenants and the principal a *)
(* subject is bound to (tenancy/models.py, identity.py).                   *)
Kept == /\ part = "hooks" => H!HookKept /\ H!RunsWhole
        /\ part = "agents" => A!MentionsKept
        /\ part = "tenants" => T!RowsHaveTenants /\ T!SubjectsAsBound
(* No step changes what is the user's in a configuration file              *)
(* (mcp/configure.py, artifacts.py, rules.py), and a restore puts back     *)
(* what was hashed, or nothing (export/backup.py).                         *)
NothingLost == [][/\ part = "setup" => S!KeepStep
                  /\ part = "backup" => B!RestoreStep]_vars
(* Limits hold as they are configured: the token budget of a turn          *)
(* (context/pack.py), the rate of a caller (mcp/server_http.py) and the    *)
(* request budget of the viewer (export/serve.py); a server that starts    *)
(* can be used (mcp/http_guard.py), and the pipe answers its lines in      *)
(* their order (mcp/server_stdio.py).                                      *)
ServedAsAgreed == /\ part = "session" => C!BudgetKept
                  /\ part = "server" => E!RateKept /\ E!UsableWhenStarted /\ E!RepliesInOrder
                  /\ part = "viewer" => U!WithinBudget
(* Every opening ends, whoever it races and however often it is run again  *)
(* (core/db.py), the watcher ends with each repository as it is            *)
(* (watch/daemon.py), a stop of the viewer comes to an end                 *)
(* (export/serve.py), and so does the resolution of a language, unless its *)
(* server lives and reads nothing (code/lsp.py, code/resolve.py).          *)
EventuallySettled ==
    <>[]/\ part = "open" => M!Unoccupied
        /\ part = "watch" => W!Followed
        /\ part = "viewer" => owner.at # "join"
        /\ part = "resolve" => L!ResolutionEnds
=============================================================================
