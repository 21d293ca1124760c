------------------------- MODULE Installation_proofs -------------------------
(***************************************************************************)
(* Themes of Installation, for any number of processes, runs, agents,      *)
(* tenants, pages and commands: what was somebody's before stays (Kept),   *)
(* writers that race leave one of each (OneOfEach), what is called current *)
(* is (CalledCurrentIsCurrent), a command that reports success has done it *)
(* (SuccessMeansDone), limits and answers are as agreed (ServedAsAgreed),  *)
(* and no step loses what is the user's (NothingLost).                     *)
(* The parts and their inductive invariants are in modules of their own,   *)
(* small enough for the provers; the Same lemmas say that the definitions  *)
(* there are the ones that Installation instantiates, and OneStep that a   *)
(* step of the installation is a step of the part that is in play.         *)
(***************************************************************************)
EXTENDS Installation, TLAPS

SP == INSTANCE Store_proofs
DP == INSTANCE Desk_proofs
VP == INSTANCE Serving_proofs

(* A step is a step of the part in play and leaves its variables alone     *)
(* otherwise.                                                              *)
LEMMA OneStep ==
    ASSUME [Next]_vars
    PROVE  /\ part' = part
           /\ part = "hooks" => H!Next \/ UNCHANGED hookVars
           /\ part = "agents" => A!Next \/ UNCHANGED agentVars
           /\ part = "tenants" => T!Next \/ UNCHANGED tenantVars
           /\ part = "open" => M!Next \/ UNCHANGED openVars
           /\ part = "documents" => D!Next \/ UNCHANGED docVars
           /\ part = "views" => V!Next \/ UNCHANGED viewVars
           /\ part = "backup" => B!Next \/ UNCHANGED backupVars
           /\ part = "setup" => S!Next \/ UNCHANGED setupVars
           /\ part = "registry" => R!Next \/ UNCHANGED regVars
           /\ part = "watch" => W!Next \/ UNCHANGED watchVars
           /\ part = "publish" => P!Next \/ UNCHANGED pubVars
           /\ part = "session" => C!Next \/ UNCHANGED sessionVars
           /\ part = "server" => E!Next \/ UNCHANGED serverVars
           /\ part = "viewer" => U!Next \/ UNCHANGED viewerVars
           /\ part = "resolve" => L!Next \/ UNCHANGED clientVars
           /\ part = "wiki" => K!Next \/ UNCHANGED wikiVars
<1>1. CASE UNCHANGED vars
  BY <1>1 DEF vars, storeVars, deskVars, answerVars, sideVars
<1>2. CASE Next
  BY <1>2 DEF Next, Opens, Watches, Views, Resolves, InStore, AtDesk, Aside
<1> QED
  BY <1>1, <1>2

-----------------------------------------------------------------------------

(* The store.                                                              *)
LEMMA SameOpen ==
    /\ M!Init => SP!M!Init
    /\ M!Next => SP!M!Next
    /\ SP!M!OpenMeansMigrated => M!OpenMeansMigrated
<1>1. M!Init => SP!M!Init
  BY DEF M!Init, SP!M!Init, M!CurrentMajor, SP!M!CurrentMajor, M!Closed, SP!M!Closed
<1>2. M!Next => SP!M!Next
  BY DEF M!Next, SP!M!Next, M!Step, SP!M!Step, M!Crash, SP!M!Crash, M!ReadApplied, SP!M!ReadApplied, M!SkipScript,
     SP!M!SkipScript, M!RunStatement, SP!M!RunStatement, M!RecordMigration, SP!M!RecordMigration, M!LookUpMajor,
     SP!M!LookUpMajor, M!RecordOpen, SP!M!RecordOpen, M!Retry, SP!M!Retry, M!Closed, SP!M!Closed, M!Finished,
     SP!M!Finished, M!Goes, SP!M!Goes, M!CurrentMajor, SP!M!CurrentMajor
<1>3. SP!M!OpenMeansMigrated => M!OpenMeansMigrated
  BY DEF M!OpenMeansMigrated, SP!M!OpenMeansMigrated, M!CurrentMajor, SP!M!CurrentMajor
<1> QED
  BY <1>1, <1>2, <1>3

LEMMA SameDocuments ==
    /\ D!Init => SP!D!Init
    /\ D!Next => SP!D!Next
    /\ SP!D!OneVersionChain => D!OneVersionChain
    /\ SP!D!ReindexRepairs => D!ReindexRepairs
<1>1. D!Init => SP!D!Init
  BY DEF D!Init, SP!D!Init, D!Nobody, SP!D!Nobody, D!Idle, SP!D!Idle, D!NoContent, SP!D!NoContent
<1>2. D!Next => SP!D!Next
  BY DEF D!Next, SP!D!Next, D!NoContent, SP!D!NoContent, D!Edit, SP!D!Edit, D!IngestPath, SP!D!IngestPath,
     D!ReadFile, SP!D!ReadFile, D!Begin, SP!D!Begin, D!Commit, SP!D!Commit, D!Reindex, SP!D!Reindex, D!Purge,
     SP!D!Purge, D!Embed, SP!D!Embed, D!InsertVector, SP!D!InsertVector, D!IndexDone, SP!D!IndexDone,
     D!VectorSearch, SP!D!VectorSearch, D!Query, SP!D!Query, D!Return, SP!D!Return, D!Crash, SP!D!Crash,
     D!SetToSeq, SP!D!SetToSeq, D!Starts, SP!D!Starts, D!Idle, SP!D!Idle, D!Becomes, SP!D!Becomes, D!NextFile,
     SP!D!NextFile, D!Nobody, SP!D!Nobody, D!Stored, SP!D!Stored, D!Highest, SP!D!Highest, D!Latest,
     SP!D!Latest, D!StartIndex, SP!D!StartIndex, D!Writable, SP!D!Writable, D!Batch, SP!D!Batch, D!Cardinality,
     SP!D!Cardinality, D!IsInjective, SP!D!IsInjective, D!Indexing, SP!D!Indexing
<1>3. SP!D!OneVersionChain => D!OneVersionChain
  BY DEF D!OneVersionChain, SP!D!OneVersionChain, D!Cardinality, SP!D!Cardinality
<1>4. SP!D!ReindexRepairs => D!ReindexRepairs
  BY DEF D!ReindexRepairs, SP!D!ReindexRepairs, D!ToSet, SP!D!ToSet
<1> QED
  BY <1>1, <1>2, <1>3, <1>4

LEMMA SameViews ==
    /\ V!Init => SP!V!Init
    /\ V!Next => SP!V!Next
    /\ SP!V!ServedRight => V!ServedRight
<1>1. V!Init => SP!V!Init
  BY DEF V!Init, SP!V!Init, V!NoRows, SP!V!NoRows, V!Idle, SP!V!Idle, V!Revision, SP!V!Revision, V!Cardinality,
     SP!V!Cardinality, V!Largest, SP!V!Largest
<1>2. V!Next => SP!V!Next
  BY DEF V!Next, SP!V!Next, V!Change, SP!V!Change, V!ReadRevision, SP!V!ReadRevision, V!LoadView, SP!V!LoadView,
     V!Stage, SP!V!Stage, V!RecordRun, SP!V!RecordRun, V!Crash, SP!V!Crash, V!LevelStages, SP!V!LevelStages,
     V!Becomes, SP!V!Becomes, V!Idle, SP!V!Idle, V!Revision, SP!V!Revision, V!Row,
     SP!V!Row, V!Cardinality, SP!V!Cardinality, V!Largest, SP!V!Largest
<1>3. SP!V!ServedRight => V!ServedRight
  BY DEF V!ServedRight, SP!V!ServedRight, V!Serve, SP!V!Serve, V!Currency, SP!V!Currency,
     V!Revision, SP!V!Revision, V!Cardinality, SP!V!Cardinality, V!Largest, SP!V!Largest
<1> QED
  BY <1>1, <1>2, <1>3

LEMMA SameBackup ==
    /\ B!Init => SP!B!Init
    /\ B!Next => SP!B!Next
    /\ SP!B!RestoreStep => B!RestoreStep
<1>1. B!Init => SP!B!Init
  BY DEF B!Init, SP!B!Init, B!Names, SP!B!Names, B!NoBackup, SP!B!NoBackup, B!NoRestore, SP!B!NoRestore, B!Empty,
     SP!B!Empty
<1>2. B!Next => SP!B!Next
  BY DEF B!Next, SP!B!Next, B!RecordRow, SP!B!RecordRow, B!RecordLine, SP!B!RecordLine, B!SnapshotDatabase,
     SP!B!SnapshotDatabase, B!HashFile, SP!B!HashFile, B!ArchiveFile, SP!B!ArchiveFile, B!AbortBackup,
     SP!B!AbortBackup, B!BeginRestore, SP!B!BeginRestore, B!CopyFile, SP!B!CopyFile, B!EndRestore,
     SP!B!EndRestore, B!NoBackup, SP!B!NoBackup, B!With, SP!B!With, B!Empty, SP!B!Empty, B!First, SP!B!First,
     B!Included, SP!B!Included, B!Reading, SP!B!Reading, B!Verified, SP!B!Verified, B!NoRestore, SP!B!NoRestore,
     B!Sorted, SP!B!Sorted
<1>3. SP!B!RestoreStep => B!RestoreStep
  BY DEF B!RestoreStep, SP!B!RestoreStep
<1> QED
  BY <1>1, <1>2, <1>3


-----------------------------------------------------------------------------

(* The desk.                                                               *)
LEMMA SameSetup ==
    /\ S!Init => DP!S!Init
    /\ S!Next => DP!S!Next
    /\ DP!S!KeepStep => S!KeepStep
    /\ DP!S!CompleteAtTheEnd => S!CompleteAtTheEnd
<1>1. S!Init => DP!S!Init
  BY DEF S!Init, DP!S!Init, S!Files, DP!S!Files, S!UserFiles, DP!S!UserFiles, S!NoFile, DP!S!NoFile, S!Idle,
     DP!S!Idle, S!WithHooks, DP!S!WithHooks, S!WithCommands, DP!S!WithCommands, S!WithRules, DP!S!WithRules,
     S!File, DP!S!File, S!Platforms, DP!S!Platforms
<1>2. S!Next => DP!S!Next
  BY DEF S!Next, DP!S!Next, S!Begin, DP!S!Begin, S!Load, DP!S!Load, S!Write, DP!S!Write, S!Purge, DP!S!Purge,
     S!Exit, DP!S!Exit, S!Die, DP!S!Die, S!Edit, DP!S!Edit, S!Idle, DP!S!Idle, S!Detected, DP!S!Detected,
     S!Cardinality, DP!S!Cardinality, S!Command, DP!S!Command, S!Whole, DP!S!Whole, S!Data, DP!S!Data, S!First,
     DP!S!First, S!Refuses, DP!S!Refuses, S!Settled, DP!S!Settled, S!NextFile, DP!S!NextFile, S!Installed,
     DP!S!Installed, S!Removed, DP!S!Removed, S!Files, DP!S!Files, S!NoFile, DP!S!NoFile, S!UserFiles,
     DP!S!UserFiles, S!FileNames, DP!S!FileNames, S!FirstFile, DP!S!FirstFile, S!HalfWritten, DP!S!HalfWritten,
     S!SomebodysCommand, DP!S!SomebodysCommand, S!SomebodysEntry, DP!S!SomebodysEntry, S!Wanted, DP!S!Wanted,
     S!OnlyOurs, DP!S!OnlyOurs, S!WithHooks, DP!S!WithHooks, S!WithCommands, DP!S!WithCommands, S!WithRules,
     DP!S!WithRules, S!File, DP!S!File, S!DetectLaunch, DP!S!DetectLaunch, S!Platforms, DP!S!Platforms,
     S!FirstRunner, DP!S!FirstRunner
<1>3. DP!S!KeepStep => S!KeepStep
  BY DEF S!KeepStep, DP!S!KeepStep, S!Files, DP!S!Files, S!Theirs, DP!S!Theirs, S!WithHooks, DP!S!WithHooks,
     S!WithCommands, DP!S!WithCommands, S!WithRules, DP!S!WithRules, S!Platforms, DP!S!Platforms
<1>4. DP!S!CompleteAtTheEnd => S!CompleteAtTheEnd
  BY DEF S!CompleteAtTheEnd, DP!S!CompleteAtTheEnd, S!Data, DP!S!Data, S!Wanted, DP!S!Wanted, S!DetectLaunch,
     DP!S!DetectLaunch, S!FirstRunner, DP!S!FirstRunner
<1> QED
  BY <1>1, <1>2, <1>3, <1>4

LEMMA SameHook ==
    /\ H!Init => DP!H!Init
    /\ H!Next => DP!H!Next
    /\ DP!H!HookKept => H!HookKept
    /\ DP!H!RunsWhole => H!RunsWhole
<1>1. H!Init => DP!H!Init
  BY DEF H!Init, DP!H!Init
<1>2. H!Next => DP!H!Next
  BY DEF H!Next, DP!H!Next, H!Install, DP!H!Install, H!KeepTruncate, DP!H!KeepTruncate, H!KeepCopy, DP!H!KeepCopy,
     H!Truncate, DP!H!Truncate, H!WriteOurs, DP!H!WriteOurs, H!MakeExecutable, DP!H!MakeExecutable, H!Uninstall,
     DP!H!Uninstall, H!Unlink, DP!H!Unlink, H!Restore, DP!H!Restore, H!PutBack, DP!H!PutBack, H!UnlinkCopy,
     DP!H!UnlinkCopy, H!Die, DP!H!Die, H!Edit, DP!H!Edit, H!Installed, DP!H!Installed, H!Ours, DP!H!Ours, H!ReadAsText,
     DP!H!ReadAsText, H!AsHeWroteIt, DP!H!AsHeWroteIt
<1>3. DP!H!HookKept => H!HookKept
  BY DEF H!HookKept, DP!H!HookKept, H!ReadAsText, DP!H!ReadAsText, H!AsHeWroteIt, DP!H!AsHeWroteIt
<1>4. DP!H!RunsWhole => H!RunsWhole
  BY DEF H!RunsWhole, DP!H!RunsWhole, H!ReadAsText, DP!H!ReadAsText
<1> QED
  BY <1>1, <1>2, <1>3, <1>4

LEMMA SameRegistry ==
    /\ R!Init => DP!R!Init
    /\ R!Next => DP!R!Next
    /\ DP!R!RegistryAccounts => R!RegistryAccounts
    /\ DP!R!OnlyExisting => R!OnlyExisting
<1>1. R!Init => DP!R!Init
  BY DEF R!Init, DP!R!Init, R!Quiet, DP!R!Quiet
<1>2. R!Next => DP!R!Next
  BY DEF R!Next, DP!R!Next, R!Load, DP!R!Load, R!Change, DP!R!Change, R!Truncate, DP!R!Truncate, R!Save, DP!R!Save,
     R!Die, DP!R!Die, R!Quiet, DP!R!Quiet, R!Refused, DP!R!Refused, R!Changed, DP!R!Changed
<1>3. DP!R!RegistryAccounts => R!RegistryAccounts
  BY DEF R!RegistryAccounts, DP!R!RegistryAccounts
<1>4. DP!R!OnlyExisting => R!OnlyExisting
  BY DEF R!OnlyExisting, DP!R!OnlyExisting
<1> QED
  BY <1>1, <1>2, <1>3, <1>4

LEMMA SameWatch ==
    /\ W!Init => DP!W!Init
    /\ W!Next => DP!W!Next
    /\ DP!W!NothingSkipped => W!NothingSkipped
<1>1. W!Init => DP!W!Init
  BY DEF W!Init, DP!W!Init
<1>2. W!Next => DP!W!Next
  BY DEF W!Next, DP!W!Next, W!ThreadStep, DP!W!ThreadStep, W!Stop, DP!W!Stop, W!UserSaves, DP!W!UserSaves, W!Start,
     DP!W!Start, W!Wake, DP!W!Wake, W!RoundDone, DP!W!RoundDone, W!Scan, DP!W!Scan, W!Reingest, DP!W!Reingest,
     W!Fail, DP!W!Fail, W!Record, DP!W!Record, W!Round, DP!W!Round, W!RepoSignature, DP!W!RepoSignature,
     W!Signature, DP!W!Signature
<1>3. DP!W!NothingSkipped => W!NothingSkipped
  BY DEF W!NothingSkipped, DP!W!NothingSkipped
<1> QED
  BY <1>1, <1>2, <1>3

LEMMA SamePublisher ==
    /\ P!Init => DP!P!Init
    /\ P!Next => DP!P!Next
    /\ DP!P!OneThread => P!OneThread
<1>1. P!Init => DP!P!Init
  BY DEF P!Init, DP!P!Init, P!Free, DP!P!Free
<1>2. P!Next => DP!P!Next
  BY DEF P!Next, DP!P!Next, P!Publish, DP!P!Publish, P!Look, DP!P!Look, P!Write, DP!P!Write, P!Lost, DP!P!Lost,
     P!Others, DP!P!Others, P!Delete, DP!P!Delete, P!Artifacts, DP!P!Artifacts, P!Cardinality, DP!P!Cardinality,
     P!Valid, DP!P!Valid, P!Free, DP!P!Free, P!Looking, DP!P!Looking, P!Page, DP!P!Page, P!LastPage,
     DP!P!LastPage, P!IsMine, DP!P!IsMine, P!Comment, DP!P!Comment, P!RemoveAt, DP!P!RemoveAt, P!Render,
     DP!P!Render, P!Body, DP!P!Body, P!Escaped, DP!P!Escaped
<1>3. DP!P!OneThread => P!OneThread
  BY DEF P!OneThread, DP!P!OneThread, P!Cardinality, DP!P!Cardinality, P!Ours, DP!P!Ours
<1> QED
  BY <1>1, <1>2, <1>3


-----------------------------------------------------------------------------

(* Serving.                                                                *)
LEMMA SameAgents ==
    /\ A!Init => VP!A!Init
    /\ A!Next => VP!A!Next
    /\ VP!A!MentionsKept => A!MentionsKept
    /\ VP!A!RunsAccounted => A!RunsAccounted
<1>1. A!Init => VP!A!Init
  BY DEF A!Init, VP!A!Init, A!Resting, VP!A!Resting
<1>2. A!Next => VP!A!Next
  BY DEF A!Next, VP!A!Next, A!Task, VP!A!Task, A!Read, VP!A!Read, A!Insert, VP!A!Insert, A!Merge, VP!A!Merge,
     A!Delete, VP!A!Delete, A!Answer, VP!A!Answer, A!Die, VP!A!Die, A!Kinds, VP!A!Kinds, A!Budgets,
     VP!A!Budgets, A!Evaluate, VP!A!Evaluate, A!Handled, VP!A!Handled, A!Resting, VP!A!Resting, A!LedgerStart,
     VP!A!LedgerStart, A!Cardinality, VP!A!Cardinality, A!Min0, VP!A!Min0, A!Writers, VP!A!Writers, A!Charged,
     VP!A!Charged, A!LedgerFinish, VP!A!LedgerFinish
<1>3. VP!A!MentionsKept => A!MentionsKept
  BY DEF A!MentionsKept, VP!A!MentionsKept
<1>4. VP!A!RunsAccounted => A!RunsAccounted
  BY DEF A!RunsAccounted, VP!A!RunsAccounted, A!Contains, VP!A!Contains, A!Cardinality, VP!A!Cardinality
<1> QED
  BY <1>1, <1>2, <1>3, <1>4

LEMMA SameSession ==
    /\ C!Init => VP!C!Init
    /\ C!Next => VP!C!Next
    /\ VP!C!ClientUpToDate => C!ClientUpToDate
    /\ VP!C!BudgetKept => C!BudgetKept
<1>1. C!Init => VP!C!Init
  BY DEF C!Init, VP!C!Init, C!NoTurn, VP!C!NoTurn
<1>2. C!Next => VP!C!Next
  BY DEF C!Next, VP!C!Next, C!Turn, VP!C!Turn, C!Reset, VP!C!Reset, C!EditText, VP!C!EditText, C!LoseHistory,
     VP!C!LoseHistory, C!PackUnits, VP!C!PackUnits, C!Cost, VP!C!Cost, C!Shown, VP!C!Shown, C!NoTurn,
     VP!C!NoTurn, C!Before, VP!C!Before, C!Cardinality, VP!C!Cardinality, C!UnitTokens, VP!C!UnitTokens
<1>3. VP!C!ClientUpToDate => C!ClientUpToDate
  BY DEF C!ClientUpToDate, VP!C!ClientUpToDate
<1>4. VP!C!BudgetKept => C!BudgetKept
  BY DEF C!BudgetKept, VP!C!BudgetKept, C!Cost, VP!C!Cost, C!UnitTokens, VP!C!UnitTokens, C!Cardinality,
     VP!C!Cardinality
<1> QED
  BY <1>1, <1>2, <1>3, <1>4

LEMMA SameServer ==
    /\ E!Init => VP!E!Init
    /\ E!Next => VP!E!Next
    /\ VP!E!RateKept => E!RateKept
    /\ VP!E!UsableWhenStarted => E!UsableWhenStarted
    /\ VP!E!RepliesInOrder => E!RepliesInOrder
<1>1. E!Init => VP!E!Init
  BY DEF E!Init, VP!E!Init, E!Settings, VP!E!Settings, E!Distinct, VP!E!Distinct, E!StartupRefusal,
     VP!E!StartupRefusal, E!OverPipe, VP!E!OverPipe, E!Idle, VP!E!Idle, E!Callers, VP!E!Callers, E!Peers,
     VP!E!Peers, E!Bearers, VP!E!Bearers
<1>2. E!Next => VP!E!Next
  BY DEF E!Next, VP!E!Next, E!OverPipe, VP!E!OverPipe, E!Get, VP!E!Get, E!PostToken, VP!E!PostToken, E!PostRpc,
     VP!E!PostRpc, E!Filter, VP!E!Filter, E!Keep, VP!E!Keep, E!CountIt, VP!E!CountIt, E!Admit, VP!E!Admit,
     E!Dispatch, VP!E!Dispatch, E!Tick, VP!E!Tick, E!ReadLine, VP!E!ReadLine, E!Headers, VP!E!Headers,
     E!GuardRequest, VP!E!GuardRequest, E!Request, VP!E!Request, E!Answered, VP!E!Answered, E!Bearers,
     VP!E!Bearers, E!Peers, VP!E!Peers, E!Counting, VP!E!Counting, E!Recent, VP!E!Recent, E!Full, VP!E!Full,
     E!Idle, VP!E!Idle, E!Arguments, VP!E!Arguments, E!Called, VP!E!Called, E!Reply, VP!E!Reply, E!CheckHost,
     VP!E!CheckHost, E!CheckOrigin, VP!E!CheckOrigin, E!CheckContentType, VP!E!CheckContentType,
     E!CheckAuthorisation, VP!E!CheckAuthorisation, E!Cardinality, VP!E!Cardinality, E!Enforced, VP!E!Enforced,
     E!Authorities, VP!E!Authorities, E!Ceiling, VP!E!Ceiling, E!Fallback, VP!E!Fallback
<1>3. VP!E!RateKept => E!RateKept
  BY DEF E!RateKept, VP!E!RateKept, E!Callers, VP!E!Callers, E!Cardinality, VP!E!Cardinality, E!Peers, VP!E!Peers,
     E!Bearers, VP!E!Bearers
<1>4. VP!E!UsableWhenStarted => E!UsableWhenStarted
  BY DEF E!UsableWhenStarted, VP!E!UsableWhenStarted, E!OverPipe, VP!E!OverPipe, E!Headers, VP!E!Headers, E!Bearers,
     VP!E!Bearers, E!Peers, VP!E!Peers, E!GuardRequest, VP!E!GuardRequest, E!Request, VP!E!Request, E!CheckHost,
     VP!E!CheckHost, E!CheckOrigin, VP!E!CheckOrigin, E!CheckContentType, VP!E!CheckContentType,
     E!CheckAuthorisation, VP!E!CheckAuthorisation, E!Authorities, VP!E!Authorities
<1>5. VP!E!RepliesInOrder => E!RepliesInOrder
  BY DEF E!RepliesInOrder, VP!E!RepliesInOrder, E!Cardinality, VP!E!Cardinality
<1> QED
  BY <1>1, <1>2, <1>3, <1>4, <1>5

LEMMA SameViewer ==
    /\ U!Init => VP!U!Init
    /\ U!Next => VP!U!Next
    /\ VP!U!StopReleases => U!StopReleases
    /\ VP!U!WithinBudget => U!WithinBudget
<1>1. U!Init => VP!U!Init
  BY DEF U!Init, VP!U!Init, U!Closed, VP!U!Closed, U!NoLoop, VP!U!NoLoop, U!Nothing, VP!U!Nothing, U!Plain,
     VP!U!Plain
<1>2. U!Next => VP!U!Next
  BY DEF U!Next, VP!U!Next, U!Render, VP!U!Render, U!Start, VP!U!Start, U!Accept, VP!U!Accept, U!ThreadStep,
     VP!U!ThreadStep, U!Trickle, VP!U!Trickle, U!Tick, VP!U!Tick, U!Stop, VP!U!Stop, U!Join, VP!U!Join,
     U!HostKinds, VP!U!HostKinds, U!ResolveBindHost, VP!U!ResolveBindHost, U!Nothing, VP!U!Nothing, U!NoLoop,
     VP!U!NoLoop, U!Peers, VP!U!Peers, U!LoopEnds, VP!U!LoopEnds, U!Handle, VP!U!Handle, U!TimedOut,
     VP!U!TimedOut, U!Less, VP!U!Less, U!ShutdownBudget, VP!U!ShutdownBudget, U!Plain, VP!U!Plain, U!Finish,
     VP!U!Finish, U!Body, VP!U!Body, U!Code, VP!U!Code, U!Max, VP!U!Max, U!Counted, VP!U!Counted, U!OverLimit,
     VP!U!OverLimit, U!Permitted, VP!U!Permitted, U!Answer, VP!U!Answer, U!WriteWaits, VP!U!WriteWaits, U!SendLate,
     VP!U!SendLate, U!ReadLate, VP!U!ReadLate
<1>3. VP!U!StopReleases => U!StopReleases
  BY DEF U!StopReleases, VP!U!StopReleases
<1>4. VP!U!WithinBudget => U!WithinBudget
  BY DEF U!WithinBudget, VP!U!WithinBudget
<1> QED
  BY <1>1, <1>2, <1>3, <1>4

LEMMA SameCodeServer ==
    /\ L!Init => VP!L!Init
    /\ L!Next => VP!L!Next
    /\ VP!L!NoServerLeft => L!NoServerLeft
    /\ VP!L!AnswersOwnQuestion => L!AnswersOwnQuestion
<1>1. L!Init => VP!L!Init
  BY DEF L!Init, VP!L!Init, L!Empty, VP!L!Empty
<1>2. L!Next => VP!L!Next
  BY DEF L!Next, VP!L!Next, L!CallerStep, VP!L!CallerStep, L!Respond, VP!L!Respond, L!ServerAsks, VP!L!ServerAsks,
     L!GoesDeaf, VP!L!GoesDeaf, L!Dies, VP!L!Dies, L!EndOfStream, VP!L!EndOfStream, L!Start, VP!L!Start,
     L!Initialized, VP!L!Initialized, L!NotInitialized, VP!L!NotInitialized, L!AskDefinition,
     VP!L!AskDefinition, L!Definition, VP!L!Definition, L!NoDefinition, VP!L!NoDefinition, L!Abandon,
     VP!L!Abandon, L!OpenDocuments, VP!L!OpenDocuments, L!FillsPipe, VP!L!FillsPipe, L!Reply, VP!L!Reply,
     L!Sent, VP!L!Sent, L!Room, VP!L!Room, L!Shutdown, VP!L!Shutdown, L!ShutDown, VP!L!ShutDown, L!Exit, VP!L!Exit, L!Drop, VP!L!Drop,
     L!Set, VP!L!Set, L!Empty, VP!L!Empty, L!Taken, VP!L!Taken, L!Answered, VP!L!Answered, L!Pop, VP!L!Pop,
     L!Result, VP!L!Result, L!FailStart, VP!L!FailStart, L!Ready, VP!L!Ready, L!Request, VP!L!Request, L!Later,
     VP!L!Later, L!Reap, VP!L!Reap
<1>3. VP!L!NoServerLeft => L!NoServerLeft
  BY DEF L!NoServerLeft, VP!L!NoServerLeft
<1>4. VP!L!AnswersOwnQuestion => L!AnswersOwnQuestion
  BY DEF L!AnswersOwnQuestion, VP!L!AnswersOwnQuestion
<1> QED
  BY <1>1, <1>2, <1>3, <1>4

LEMMA SameWiki ==
    /\ K!Init => VP!K!Init
    /\ K!Next => VP!K!Next
    /\ VP!K!PagesCurrent => K!PagesCurrent
    /\ VP!K!NoStalePages => K!NoStalePages
    /\ VP!K!WritesNothing => K!WritesNothing
<1>1. K!Init => VP!K!Init
  BY DEF K!Init, VP!K!Init, K!Graphs, VP!K!Graphs, K!Nothing, VP!K!Nothing, K!Resting, VP!K!Resting
<1>2. K!Next => VP!K!Next
  BY DEF K!Next, VP!K!Next, K!Change, VP!K!Change, K!Edits, VP!K!Edits, K!Begin, VP!K!Begin, K!Skip, VP!K!Skip,
     K!Truncate, VP!K!Truncate, K!Fill, VP!K!Fill, K!PagesDone, VP!K!PagesDone, K!Remove, VP!K!Remove,
     K!TruncateManifest, VP!K!TruncateManifest, K!WriteManifest, VP!K!WriteManifest, K!Return, VP!K!Return,
     K!Dies, VP!K!Dies, K!Graphs, VP!K!Graphs, K!Drop, VP!K!Drop, K!Set, VP!K!Set, K!Theirs, VP!K!Theirs,
     K!Resting, VP!K!Resting, K!Pages, VP!K!Pages, K!LoadManifest, VP!K!LoadManifest, K!Unchanged,
     VP!K!Unchanged, K!Page, VP!K!Page, K!Torn, VP!K!Torn, K!Stale, VP!K!Stale, K!Nothing, VP!K!Nothing,
     K!Index, VP!K!Index, K!RenderIndex, VP!K!RenderIndex, K!RenderPage, VP!K!RenderPage, K!Recorded,
     VP!K!Recorded, K!Min, VP!K!Min
<1>3. VP!K!PagesCurrent => K!PagesCurrent
  BY DEF K!PagesCurrent, VP!K!PagesCurrent, K!Complete, VP!K!Complete, K!Recorded, VP!K!Recorded
<1>4. VP!K!NoStalePages => K!NoStalePages
  BY DEF K!NoStalePages, VP!K!NoStalePages, K!Complete, VP!K!Complete
<1>5. VP!K!WritesNothing => K!WritesNothing
  BY DEF K!WritesNothing, VP!K!WritesNothing, K!Complete, VP!K!Complete
<1> QED
  BY <1>1, <1>2, <1>3, <1>4, <1>5

LEMMA SameTenants ==
    /\ T!Init => VP!T!Init
    /\ T!Next => VP!T!Next
    /\ VP!T!RowsHaveTenants => T!RowsHaveTenants
    /\ VP!T!SubjectsAsBound => T!SubjectsAsBound
<1>1. T!Init => VP!T!Init
  BY DEF T!Init, VP!T!Init, T!Local, VP!T!Local, T!RoleId, VP!T!RoleId, T!Empty, VP!T!Empty, T!Resting, VP!T!Resting
<1>2. T!Next => VP!T!Next
  BY DEF T!Next, VP!T!Next, T!CreateTenant, VP!T!CreateTenant, T!CreateRole, VP!T!CreateRole, T!CreatePrincipal,
     VP!T!CreatePrincipal, T!DeleteTenant, VP!T!DeleteTenant, T!Load, VP!T!Load, T!Save, VP!T!Save, T!Names,
     VP!T!Names, T!TenantId, VP!T!TenantId, T!Local, VP!T!Local, T!RoleNames, VP!T!RoleNames, T!RoleId,
     VP!T!RoleId, T!Cardinality, VP!T!Cardinality, T!Set, VP!T!Set, T!PrincipalId, VP!T!PrincipalId, T!Held,
     VP!T!Held, T!Without, VP!T!Without, T!RolesOf, VP!T!RolesOf, T!Owned, VP!T!Owned, T!Changed, VP!T!Changed,
     T!Resting, VP!T!Resting, T!Empty, VP!T!Empty
<1>3. VP!T!RowsHaveTenants => T!RowsHaveTenants
  BY DEF T!RowsHaveTenants, VP!T!RowsHaveTenants
<1>4. VP!T!SubjectsAsBound => T!SubjectsAsBound
  BY DEF T!SubjectsAsBound, VP!T!SubjectsAsBound, T!Resolve, VP!T!Resolve
<1> QED
  BY <1>1, <1>2, <1>3, <1>4

-----------------------------------------------------------------------------

(* What every state of every part satisfies: the inductive invariants of   *)
(* the parts, which say of each process, run, request or command what it   *)
(* may have found and done at the place where it is.                       *)
InstInv ==
    /\ part = "open" => SP!OpenInd
    /\ part = "documents" => SP!DocInd
    /\ part = "views" => SP!ViewInd
    /\ part = "backup" => SP!BackupInd
    /\ part = "setup" => DP!SetupInd
    /\ part = "hooks" => DP!HookInd
    /\ part = "registry" => DP!RegistryInd
    /\ part = "watch" => DP!WatchInd
    /\ part = "publish" => DP!PubInd
    /\ part = "agents" => VP!AgentInd /\ VP!RunInd
    /\ part = "session" => VP!SessionInd
    /\ part = "server" => VP!ServerInd
    /\ part = "viewer" => VP!ViewerInd
    /\ part = "resolve" => VP!ClientInd
    /\ part = "wiki" => VP!WikiInd
    /\ part = "tenants" => VP!TenantInd

LEMMA InstInit == Init => InstInv
<1> SUFFICES ASSUME Init PROVE InstInv
  OBVIOUS
<1>1. part = "open" => SP!OpenInd
  BY SameOpen, SP!OpenInit, ScriptsAssumption DEF Init
<1>2. part = "documents" => SP!DocInd
  BY SameDocuments, SP!DocInit, WorkersAssumption DEF Init, SP!D!Nobody
<1>3. part = "views" => SP!ViewInd
  BY SameViews, SP!ViewInit DEF Init
<1>4. part = "backup" => SP!BackupInd
  BY SameBackup, SP!BackupInit DEF Init
<1>5. part = "setup" => DP!SetupInd
  BY SameSetup, DP!SetupInit, ToolsAssumption DEF Init
<1>6. part = "hooks" => DP!HookInd
  BY SameHook, DP!HookInit, HooksAssumption DEF Init, DP!ScriptsTold
<1>7. part = "registry" => DP!RegistryInd
  BY SameRegistry, DP!RegistryInit DEF Init
<1>8. part = "watch" => DP!WatchInd
  BY SameWatch, DP!WatchInit DEF Init
<1>9. part = "publish" => DP!PubInd
  BY SamePublisher, DP!PubInit, PagesAssumption DEF Init
<1>10. part = "agents" => VP!AgentInd /\ VP!RunInd
  BY SameAgents, VP!AgentInit, VP!RunInit, AgentsAssumption DEF Init, VP!Mergeable
<1>11. part = "session" => VP!SessionInd
  BY SameSession, VP!SessionInit, KeysAssumption DEF Init, VP!KeysCounted, VP!IsFiniteSet, IsFiniteSet
<1>12. part = "server" => VP!ServerInd
  BY SameServer, VP!ServerInit, CallersAssumption DEF Init, VP!ServerCounted
<1>13. part = "viewer" => VP!ViewerInd
  BY SameViewer, VP!ViewerInit, TimesAssumption DEF Init, VP!Times
<1>14. part = "resolve" => VP!ClientInd
  BY SameCodeServer, VP!ClientInit DEF Init
<1>15. part = "wiki" => VP!WikiInd
  BY SameWiki, VP!WikiInit DEF Init
<1>16. part = "tenants" => VP!TenantInd
  BY SameTenants, VP!TenantInit DEF Init
<1> QED
  BY <1>1, <1>2, <1>3, <1>4, <1>5, <1>6, <1>7, <1>8, <1>9, <1>10, <1>11, <1>12, <1>13, <1>14, <1>15, <1>16 DEF InstInv

(* One step: the invariant of the part in play, and what the step itself   *)
(* must keep.                                                              *)
LEMMA InstStep ==
    ASSUME InstInv, [Next]_vars
    PROVE  /\ InstInv'
           /\ part = "setup" => S!KeepStep
           /\ part = "backup" => B!RestoreStep
<1>1. ASSUME SP!OpenInd, M!Next \/ UNCHANGED openVars
     PROVE  SP!OpenInd'
  <2>1. CASE UNCHANGED openVars
    BY <1>1, <2>1, SP!OpenStays DEF openVars, SP!M!vars
  <2>2. CASE M!Next
    BY <1>1, <2>2, SameOpen, SP!OpenStep, ScriptsAssumption
  <2> QED
    BY <1>1, <2>1, <2>2
<1>2. ASSUME SP!DocInd, D!Next \/ UNCHANGED docVars
     PROVE  SP!DocInd'
  <2>1. CASE UNCHANGED docVars
    BY <1>2, <2>1, SP!DocStays DEF docVars, SP!D!vars
  <2>2. CASE D!Next
    BY <1>2, <2>2, SameDocuments, SP!DocStep, WorkersAssumption DEF SP!D!Nobody
  <2> QED
    BY <1>2, <2>1, <2>2
<1>3. ASSUME SP!ViewInd, V!Next \/ UNCHANGED viewVars
     PROVE  SP!ViewInd'
  <2>1. CASE UNCHANGED viewVars
    BY <1>3, <2>1, SP!ViewStays DEF viewVars, SP!V!vars
  <2>2. CASE V!Next
    BY <1>3, <2>2, SameViews, SP!ViewStep
  <2> QED
    BY <1>3, <2>1, <2>2
<1>4. ASSUME SP!BackupInd, B!Next \/ UNCHANGED backupVars
     PROVE  SP!BackupInd' /\ B!RestoreStep
  <2>1. CASE UNCHANGED backupVars
    BY <1>4, <2>1, SP!BackupStays, SameBackup DEF backupVars, SP!B!vars
  <2>2. CASE B!Next
    BY <1>4, <2>2, SameBackup, SP!BackupStep
  <2> QED
    BY <1>4, <2>1, <2>2
<1>5. ASSUME DP!SetupInd, S!Next \/ UNCHANGED setupVars
     PROVE  DP!SetupInd' /\ S!KeepStep
  <2>1. CASE UNCHANGED setupVars
    BY <1>5, <2>1, DP!SetupStays, SameSetup DEF setupVars, DP!S!setupVars
  <2>2. CASE S!Next
    BY <1>5, <2>2, SameSetup, DP!SetupStep, ToolsAssumption
  <2> QED
    BY <1>5, <2>1, <2>2
<1>6. ASSUME DP!HookInd, H!Next \/ UNCHANGED hookVars
     PROVE  DP!HookInd'
  <2>1. CASE UNCHANGED hookVars
    BY <1>6, <2>1, DP!HookStays DEF hookVars, DP!H!hookVars
  <2>2. CASE H!Next
    BY <1>6, <2>2, SameHook, DP!HookStep, HooksAssumption DEF DP!ScriptsTold
  <2> QED
    BY <1>6, <2>1, <2>2
<1>7. ASSUME DP!RegistryInd, R!Next \/ UNCHANGED regVars
     PROVE  DP!RegistryInd'
  <2>1. CASE UNCHANGED regVars
    BY <1>7, <2>1, DP!RegistryStays DEF regVars, DP!R!regVars
  <2>2. CASE R!Next
    BY <1>7, <2>2, SameRegistry, DP!RegistryStep
  <2> QED
    BY <1>7, <2>1, <2>2
<1>8. ASSUME DP!WatchInd, W!Next \/ UNCHANGED watchVars
     PROVE  DP!WatchInd'
  <2>1. CASE UNCHANGED watchVars
    BY <1>8, <2>1, DP!WatchStays DEF watchVars, DP!W!watchVars
  <2>2. CASE W!Next
    BY <1>8, <2>2, SameWatch, DP!WatchStep
  <2> QED
    BY <1>8, <2>1, <2>2
<1>9. ASSUME DP!PubInd, P!Next \/ UNCHANGED pubVars
     PROVE  DP!PubInd'
  <2>1. CASE UNCHANGED pubVars
    BY <1>9, <2>1, DP!PubStays DEF pubVars, DP!P!pubVars
  <2>2. CASE P!Next
    BY <1>9, <2>2, SamePublisher, DP!PubStep, PagesAssumption
  <2> QED
    BY <1>9, <2>1, <2>2
<1>10. ASSUME VP!AgentInd, VP!RunInd, A!Next \/ UNCHANGED agentVars
     PROVE  VP!AgentInd' /\ VP!RunInd'
  <2>1. CASE UNCHANGED agentVars
    BY <1>10, <2>1, VP!AgentStays, VP!RunStays DEF agentVars, VP!A!agentVars
  <2>2. CASE A!Next
    BY <1>10, <2>2, SameAgents, VP!AgentStep, VP!RunStep, AgentsAssumption DEF VP!Mergeable, VP!IsFiniteSet, IsFiniteSet
  <2> QED
    BY <1>10, <2>1, <2>2
<1>11. ASSUME VP!SessionInd, C!Next \/ UNCHANGED sessionVars
     PROVE  VP!SessionInd'
  <2>1. CASE UNCHANGED sessionVars
    BY <1>11, <2>1, VP!SessionStays DEF sessionVars, VP!C!sessionVars
  <2>2. CASE C!Next
    BY <1>11, <2>2, SameSession, VP!SessionStep, KeysAssumption DEF VP!KeysCounted, VP!IsFiniteSet, IsFiniteSet
  <2> QED
    BY <1>11, <2>1, <2>2
<1>12. ASSUME VP!ServerInd, E!Next \/ UNCHANGED serverVars
     PROVE  VP!ServerInd'
  <2>1. CASE UNCHANGED serverVars
    BY <1>12, <2>1, VP!ServerStays DEF serverVars, VP!E!serverVars
  <2>2. CASE E!Next
    BY <1>12, <2>2, SameServer, VP!ServerStep, CallersAssumption DEF VP!ServerCounted
  <2> QED
    BY <1>12, <2>1, <2>2
<1>13. ASSUME VP!ViewerInd, U!Next \/ UNCHANGED viewerVars
     PROVE  VP!ViewerInd'
  <2>1. CASE UNCHANGED viewerVars
    BY <1>13, <2>1, VP!ViewerStays DEF viewerVars, VP!U!viewerVars
  <2>2. CASE U!Next
    BY <1>13, <2>2, SameViewer, VP!ViewerStep, TimesAssumption DEF VP!Times
  <2> QED
    BY <1>13, <2>1, <2>2
<1>14. ASSUME VP!ClientInd, L!Next \/ UNCHANGED clientVars
     PROVE  VP!ClientInd'
  <2>1. CASE UNCHANGED clientVars
    BY <1>14, <2>1, VP!ClientStays DEF clientVars, VP!L!clientVars
  <2>2. CASE L!Next
    BY <1>14, <2>2, SameCodeServer, VP!ClientStep
  <2> QED
    BY <1>14, <2>1, <2>2
<1>15. ASSUME VP!WikiInd, K!Next \/ UNCHANGED wikiVars
     PROVE  VP!WikiInd'
  <2>1. CASE UNCHANGED wikiVars
    BY <1>15, <2>1, VP!WikiStays DEF wikiVars, VP!K!wikiVars
  <2>2. CASE K!Next
    BY <1>15, <2>2, SameWiki, VP!WikiStep
  <2> QED
    BY <1>15, <2>1, <2>2
<1>16. ASSUME VP!TenantInd, T!Next \/ UNCHANGED tenantVars
     PROVE  VP!TenantInd'
  <2>1. CASE UNCHANGED tenantVars
    BY <1>16, <2>1, VP!TenantStays DEF tenantVars, VP!T!tenantVars
  <2>2. CASE T!Next
    BY <1>16, <2>2, SameTenants, VP!TenantStep
  <2> QED
    BY <1>16, <2>1, <2>2
<1> QED
  BY <1>1, <1>2, <1>3, <1>4, <1>5, <1>6, <1>7, <1>8, <1>9, <1>10, <1>11, <1>12, <1>13, <1>14, <1>15, <1>16, OneStep DEF InstInv

(* The invariant of the installation, in every behaviour.                  *)
THEOREM InstEver == Spec => []InstInv
<1>1. Init => InstInv
  BY InstInit
<1>2. InstInv /\ [Next]_vars => InstInv'
  BY InstStep
<1> QED
  BY <1>1, <1>2, PTL DEF Spec

(* Hooks, mentions, rows and bindings: what was somebody's before stays    *)
(* (watch/hooks.py, agents/curation.py, tenancy/).                         *)
THEOREM KeptEver == Spec => []Kept
<1>1. InstInv => Kept
  <2> SUFFICES ASSUME InstInv PROVE Kept
    OBVIOUS
  <2>1. part = "hooks" => H!HookKept /\ H!RunsWhole
    BY SameHook, DP!HookPromises, HooksAssumption DEF InstInv, DP!ScriptsTold
  <2>2. part = "agents" => A!MentionsKept
    BY SameAgents, VP!AgentPromise DEF InstInv
  <2>3. part = "tenants" => T!RowsHaveTenants /\ T!SubjectsAsBound
    BY SameTenants, VP!TenantPromise DEF InstInv
  <2> QED
    BY <2>1, <2>2, <2>3 DEF Kept
<1> QED
  BY <1>1, InstEver, PTL

(* One line of versions for each source, and one comment of ours, whoever  *)
(* races and whatever is lost (ingest/base.py, code/pr_publish.py).        *)
THEOREM OneOfEachEver == Spec => []OneOfEach
<1>1. InstInv => OneOfEach
  <2> SUFFICES ASSUME InstInv PROVE OneOfEach
    OBVIOUS
  <2>1. part = "documents" => D!OneVersionChain
    BY SameDocuments, SP!DocPromise DEF InstInv
  <2>2. part = "publish" => P!OneThread
    BY SamePublisher, DP!PubPromise DEF InstInv
  <2> QED
    BY <2>1, <2>2 DEF OneOfEach
<1> QED
  BY <1>1, InstEver, PTL

(* Stored rows, a repository that is skipped, a unit that is held back, a  *)
(* page that is not rewritten: what is called current is, whatever fails,  *)
(* dies or is changed meanwhile (code/postprocess.py, watch/daemon.py,     *)
(* context/session.py, code/wiki.py).                                      *)
THEOREM CalledCurrentEver == Spec => []CalledCurrentIsCurrent
<1>1. InstInv => CalledCurrentIsCurrent
  <2> SUFFICES ASSUME InstInv PROVE CalledCurrentIsCurrent
    OBVIOUS
  <2>1. part = "views" => V!ServedRight
    BY SameViews, SP!ViewPromise DEF InstInv
  <2>2. part = "watch" => W!NothingSkipped
    BY SameWatch, DP!WatchPromise DEF InstInv
  <2>3. part = "session" => C!ClientUpToDate
    BY SameSession, VP!SessionPromise DEF InstInv
  <2>4. part = "wiki" => K!PagesCurrent /\ K!NoStalePages /\ K!WritesNothing
    BY SameWiki, VP!WikiPromise DEF InstInv
  <2> QED
    BY <2>1, <2>2, <2>3, <2>4 DEF CalledCurrentIsCurrent
<1> QED
  BY <1>1, InstEver, PTL

(* An open database is migrated, an install or an uninstall is complete,   *)
(* the registry is as its commands said, a finished run is in the record,  *)
(* a re-index leaves every document searchable, a stopped server is gone   *)
(* and an answer answers its question: who reports success has done it, to *)
(* whatever end the races, deaths and failures meanwhile (core/db.py,      *)
(* mcp/configure.py, watch/registry.py, agents/coordinator.py,             *)
(* search/vector_index.py, export/serve.py, code/lsp.py).                  *)
THEOREM DoneEver == Spec => []SuccessMeansDone
<1>1. InstInv => SuccessMeansDone
  <2> SUFFICES ASSUME InstInv PROVE SuccessMeansDone
    OBVIOUS
  <2>1. part = "open" => M!OpenMeansMigrated
    BY SameOpen, SP!OpenPromise DEF InstInv
  <2>2. part = "setup" => S!CompleteAtTheEnd
    BY SameSetup, DP!SetupPromise DEF InstInv
  <2>3. part = "registry" => R!RegistryAccounts /\ R!OnlyExisting
    BY SameRegistry, DP!RegistryPromise DEF InstInv
  <2>4. part = "agents" => A!RunsAccounted
    BY SameAgents, VP!RunPromise DEF InstInv
  <2>5. part = "documents" => D!ReindexRepairs
    BY SameDocuments, SP!DocPromise DEF InstInv
  <2>6. part = "viewer" => U!StopReleases
    BY SameViewer, VP!ViewerPromise, TimesAssumption DEF InstInv, VP!Times
  <2>7. part = "resolve" => L!NoServerLeft /\ L!AnswersOwnQuestion
    BY SameCodeServer, VP!ClientPromise DEF InstInv
  <2> QED
    BY <2>1, <2>2, <2>3, <2>4, <2>5, <2>6, <2>7 DEF SuccessMeansDone
<1> QED
  BY <1>1, InstEver, PTL

(* A turn keeps its token budget, a caller gets through as often in a      *)
(* minute as it may, as long as no two of its requests are counted at      *)
(* once, and the viewer's request budget holds; a server that starts can   *)
(* be used, and the pipe answers its lines in their order                  *)
(* (context/pack.py, mcp/server_http.py, export/serve.py,                  *)
(* mcp/http_guard.py, mcp/server_stdio.py).                                *)
THEOREM ServedEver == Spec => []ServedAsAgreed
<1>1. InstInv => ServedAsAgreed
  <2> SUFFICES ASSUME InstInv PROVE ServedAsAgreed
    OBVIOUS
  <2>1. part = "session" => C!BudgetKept
    BY SameSession, VP!SessionPromise DEF InstInv
  <2>2. part = "server" => E!RateKept /\ E!UsableWhenStarted /\ E!RepliesInOrder
    BY SameServer, VP!ServerPromise, CallersAssumption DEF InstInv, VP!ServerCounted
  <2>3. part = "viewer" => U!WithinBudget
    BY SameViewer, VP!ViewerPromise, TimesAssumption DEF InstInv, VP!Times
  <2> QED
    BY <2>1, <2>2, <2>3 DEF ServedAsAgreed
<1> QED
  BY <1>1, InstEver, PTL

(* No step of an install, an uninstall or an edit changes what is the      *)
(* user's in a configuration file, and no step of a restore puts back      *)
(* anything but what was hashed (mcp/configure.py, export/backup.py).      *)
THEOREM NothingLostEver == Spec => NothingLost
<1>1. InstInv /\ [Next]_vars
      => [(part = "setup" => S!KeepStep) /\ (part = "backup" => B!RestoreStep)]_vars
  BY InstStep
<1> QED
  BY <1>1, InstEver, PTL DEF Spec, NothingLost
=============================================================================
