---------------------------- MODULE Desk_proofs -----------------------------
(***************************************************************************)
(* The parts at the developer's desk: the editor setup (Setup), the git    *)
(* hook (GitHooks), the repository registry (Registry), the foreground     *)
(* watcher (Daemon) and the pull-request comment (Publisher).  For each    *)
(* its inductive invariant, that it holds in the first states, that every  *)
(* step and every step of another part keeps it, and what it promises.     *)
(* The parts are instantiated as in Installation, whose theorems cite      *)
(* these lemmas.                                                           *)
(***************************************************************************)
EXTENDS Naturals, Sequences, FiniteSets, TLAPS, FiniteSetTheorems, WellFoundedInduction

CONSTANTS Tools, MaxCommands, MaxTrouble,
          UserHooks, Lossy, MaxInstalls, MaxHookEdits,
          Clients, RepoNames, Missing, MaxRegistryCommands,
          Watched, MaxSaves, MaxFailures,
          CIRuns, PerPage, MaxPages, MaxComments, MaxLost
VARIABLES config, marked, env, data, proc, used,
          hook, copy, enabled, theirs, at, spent,
          registry, client, agreed, trouble, commands,
          tree, odd, known, current, health, watcher, stopping, failures,
          comments, ciRun, traffic

S == INSTANCE Setup WITH files <- config, present <- marked
H == INSTANCE GitHooks
R == INSTANCE Registry
W == INSTANCE Daemon WITH thread <- watcher
P == INSTANCE Publisher WITH thread <- comments, job <- ciRun, events <- traffic

-----------------------------------------------------------------------------

(* The editor setup.  What a command has passed of its plan is done, as    *)
(* long as the user did not edit meanwhile; what it is about to write it   *)
(* has read, and has not refused.                                          *)
Launches == {"uvx", "uv", "pipx", "dkg"}
Rests == {"none", "some", "open", "broken"}
Texts(f) == {c \in [exists : BOOLEAN, ours : Launches \cup {"ours", "old", "none", "foreign"}, rest : Rests] :
                c.ours = "foreign" => c.exists /\ f \in {"server", "command"}}
Places == {s \in Tools \X S!FileNames : s[2] \in S!Files(s[1])} \cup {S!Data}
CommandFields == {"at", "op", "force", "dry", "plan", "todo", "read", "since"}
Filed == /\ DOMAIN config = Tools
         /\ \A t \in Tools : DOMAIN config[t] = S!Files(t) /\ \A f \in S!Files(t) : config[t][f] \in Texts(f)
Planned == /\ DOMAIN proc = CommandFields /\ DOMAIN used = {"commands", "edits", "deaths"}
           /\ proc.plan \subseteq Places /\ proc.todo \subseteq proc.plan
           /\ used.edits \in Nat /\ proc.since \in Nat /\ proc.since <= used.edits
           /\ proc.at \in {"load", "write"} => proc.todo # {}
           /\ proc.at = "done" => proc.todo = {}
           /\ proc.at # "idle" => proc.op \in {"install", "uninstall"}
Decided == proc.at = "write" =>
    /\ S!First(proc.todo) # S!Data
    /\ LET f == S!First(proc.todo)[2]
       IN  /\ proc.read \in Texts(f) /\ ~S!Settled(proc.op, f, proc.read)
           /\ ~(proc.read.exists /\ S!Refuses(proc.op, f, proc.read, proc.force))
Finished(s) == IF s = S!Data THEN data = "none"
               ELSE config[s[1]][s[2]].ours = IF proc.op = "install" THEN S!Wanted(s[2]) ELSE "none"
Progressed == proc.at \in {"load", "write", "done"} /\ ~proc.dry /\ used.edits = proc.since =>
                  \A s \in proc.plan \ proc.todo : Finished(s)
SetupInd == Filed /\ Planned /\ Decided /\ Progressed

(* What is launched.                                                       *)
LEMMA Launched == S!DetectLaunch(env) \in Launches /\ \A f : S!Wanted(f) \in Launches \cup {"ours"}
BY DEF S!DetectLaunch, S!FirstRunner, S!Wanted, Launches

(* The next one of a plan is of the plan, and a file of a tool unless it   *)
(* is the data.                                                            *)
LEMMA FirstOfPlan ==
    ASSUME "data" \notin Tools, NEW todo, todo \subseteq Places, todo # {}
    PROVE  /\ S!First(todo) \in todo
           /\ S!First(todo) # S!Data => S!First(todo)[1] \in Tools /\ S!First(todo)[2] \in S!Files(S!First(todo)[1])
<1>1. CASE todo = {S!Data}
  BY <1>1 DEF S!First
<1>2. CASE todo # {S!Data}
  <2> DEFINE some == {s[1] : s \in todo \ {S!Data}}
             t == CHOOSE x \in some : TRUE
             kinds == {s[2] : s \in {u \in todo : u[1] = t}}
  <2>1. S!First(todo) = <<t, S!FirstFile(kinds)>>
    BY <1>2 DEF S!First
  <2>2. t \in some
    BY <1>2
  <2>3. PICK s \in todo \ {S!Data} : s[1] = t
    BY <2>2
  <2> HIDE DEF t
  <2>4. t \in Tools /\ s[2] \in kinds
    BY <2>3 DEF Places
  <2>5. \A u \in todo : u[1] = t => u = <<t, u[2]>> /\ u[2] \in S!FileNames /\ u[2] \in S!Files(t) /\ u # S!Data
    BY <2>4 DEF Places, S!Data
  <2>6. kinds \subseteq S!FileNames /\ kinds # {}
    BY <2>4, <2>5
  <2>7. S!FirstFile(kinds) \in kinds
    <3> HIDE DEF kinds
    <3> QED
      BY <2>6 DEF S!FirstFile, S!FileNames
  <2>8. PICK u \in todo : u[1] = t /\ u[2] = S!FirstFile(kinds)
    BY <2>7
  <2> QED
    BY <2>1, <2>4, <2>5, <2>8
<1> QED
  BY <1>1, <1>2

(* Any content the user writes is one.                                     *)
LEMMA UserTexts ==
    ASSUME NEW f, NEW c \in {S!NoFile} \cup S!UserFiles(f)
    PROVE  c \in Texts(f)
<1>1. \A o \in Launches \cup {"ours", "old", "none", "foreign"}, r \in Rests :
        (o = "foreign" => f \in {"server", "command"}) => S!File(o, r) \in Texts(f)
  BY DEF S!File, Texts
<1>2. S!NoFile \in Texts(f)
  BY DEF S!NoFile, Texts, Rests
<1>3. S!UserFiles(f) \subseteq Texts(f)
  <2>1. \A r \in Rests : S!File("old", r) \in Texts(f) /\ S!File("none", r) \in Texts(f)
    BY <1>1
  <2>2. f \in {"server", "command"} => S!File("foreign", "none") \in Texts(f)
    BY <1>1 DEF Rests
  <2> QED
    BY <2>1, <2>2 DEF S!UserFiles, Rests
<1> QED
  BY <1>2, <1>3

LEMMA SetupInit == S!Init => SetupInd
<1> SUFFICES ASSUME S!Init PROVE SetupInd
  OBVIOUS
<1>1. PICK t \in Tools : \E f \in S!Files(t) : \E c \in S!UserFiles(f) :
          config = [u \in Tools |-> [g \in S!Files(u) |-> IF u = t /\ g = f THEN c ELSE S!NoFile]]
  BY DEF S!Init
<1>2. PICK f \in S!Files(t) : \E c \in S!UserFiles(f) :
          config = [u \in Tools |-> [g \in S!Files(u) |-> IF u = t /\ g = f THEN c ELSE S!NoFile]]
  BY <1>1
<1>3. PICK c \in S!UserFiles(f) :
          config = [u \in Tools |-> [g \in S!Files(u) |-> IF u = t /\ g = f THEN c ELSE S!NoFile]]
  BY <1>2
<1>4. c \in Texts(f) /\ \A g : S!NoFile \in Texts(g)
  BY UserTexts
<1>5. Filed
  BY <1>3, <1>4 DEF Filed
<1>6. proc = S!Idle /\ used = [commands |-> 0, edits |-> 0, deaths |-> 0]
  BY DEF S!Init
<1>7. Planned /\ Decided /\ Progressed
  BY <1>6 DEF S!Idle, Planned, Decided, Progressed, CommandFields
<1> QED
  BY <1>5, <1>7 DEF SetupInd

(* The command goes on to the next file of its plan, or is done: if what   *)
(* it leaves is finished, and what it had passed still is.                 *)
LEMMA GoesOn ==
    ASSUME "data" \notin Tools, SetupInd, proc.at \in {"load", "write"}, S!NextFile, Filed',
           UNCHANGED <<env, used>>,
           ~proc.dry => \A s \in Places : s = S!First(proc.todo) \/ Finished(s) => Finished(s)'
    PROVE  SetupInd'
<1> DEFINE left == proc.todo \ {S!First(proc.todo)}
           place == IF left = {} THEN "done" ELSE "load"
<1>1. proc' = [proc EXCEPT !.at = place, !.todo = left]
  BY DEF S!NextFile
<1>2. /\ DOMAIN proc = CommandFields /\ proc.todo # {} /\ proc.todo \subseteq proc.plan /\ proc.plan \subseteq Places
  BY DEF SetupInd, Planned
<1> HIDE DEF left, place
<1>3. /\ DOMAIN proc' = CommandFields /\ proc'.at = place /\ proc'.todo = left /\ proc'.plan = proc.plan
      /\ proc'.op = proc.op /\ proc'.dry = proc.dry /\ proc'.since = proc.since
  BY <1>1, <1>2 DEF CommandFields
<1>4. Planned' /\ Decided'
  BY <1>2, <1>3 DEF SetupInd, Planned, Decided, place, left
<1>5. Progressed'
  <2> SUFFICES ASSUME ~proc.dry, used.edits = proc.since, NEW s \in proc.plan \ left
               PROVE  Finished(s)'
    BY <1>3 DEF Progressed
  <2>1. CASE s = S!First(proc.todo)
    <3>1. s \in Places
      BY <1>2
    <3> QED
      BY <2>1, <3>1
  <2>2. CASE s # S!First(proc.todo)
    <3>1. s \in proc.plan \ proc.todo /\ s \in Places
      BY <1>2, <2>2 DEF left
    <3>2. Finished(s)
      BY <3>1 DEF SetupInd, Progressed
    <3> QED
      BY <3>1, <3>2
  <2> QED
    BY <2>1, <2>2
<1> QED
  BY <1>4, <1>5 DEF SetupInd

(* A command begins with all of its plan to do.                            *)
LEMMA SetupBegin == SetupInd /\ S!Begin => SetupInd'
<1> SUFFICES ASSUME SetupInd, S!Begin PROVE SetupInd'
  OBVIOUS
<1> HIDE DEF S!Command, S!Whole
<1>1. ASSUME NEW some \in SUBSET Tools, NEW bare, NEW purge
      PROVE  S!Whole(some, bare) \cup (IF purge THEN {S!Data} ELSE {}) \subseteq Places
  <2>1. \A t : "server" \in S!Files(t)
    BY DEF S!Files
  <2>2. S!Whole(some, bare) \subseteq Places
    BY <2>1 DEF S!Whole, Places
  <2> QED
    BY <2>2 DEF Places
<1>2. \E op \in {"install", "uninstall"} : \E force, dry, plan : plan \subseteq Places /\ proc' = S!Command(op, force, dry, plan)
  BY <1>1 DEF S!Begin
<1>3. PICK op \in {"install", "uninstall"} : \E force, dry, plan : plan \subseteq Places /\ proc' = S!Command(op, force, dry, plan)
  BY <1>2
<1>4. PICK force, dry, plan : plan \subseteq Places /\ proc' = S!Command(op, force, dry, plan)
  BY <1>3
<1>5. proc' = [S!Idle EXCEPT !.at = IF plan = {} THEN "done" ELSE "load", !.op = op,
                           !.force = force, !.dry = dry, !.plan = plan, !.todo = plan, !.since = used.edits]
  BY <1>4 DEF S!Command
<1>6. /\ DOMAIN proc' = CommandFields /\ proc'.op = op /\ proc'.plan = plan /\ proc'.todo = plan /\ proc'.since = used.edits
      /\ proc'.at = IF plan = {} THEN "done" ELSE "load"
  BY <1>5 DEF S!Idle, CommandFields
<1>7. used' = [used EXCEPT !.commands = @ + 1] /\ UNCHANGED <<config, data, env>>
  BY DEF S!Begin
<1>8. DOMAIN used' = DOMAIN used /\ used'.edits = used.edits
  BY <1>7 DEF SetupInd, Planned
<1>9. Planned' /\ Decided' /\ Progressed'
  BY <1>4, <1>6, <1>8 DEF SetupInd, Planned, Decided, Progressed
<1>10. Filed'
  BY <1>7 DEF SetupInd, Filed
<1> QED
  BY <1>9, <1>10 DEF SetupInd

(* What is read is refused, is right already, or is kept for the writing.  *)
LEMMA SetupLoad == "data" \notin Tools /\ SetupInd /\ S!Load => SetupInd'
<1> SUFFICES ASSUME "data" \notin Tools, SetupInd, S!Load PROVE SetupInd'
  OBVIOUS
<1> DEFINE next == S!First(proc.todo)
           t == next[1]
           f == next[2]
           c == config[t][f]
<1>0. /\ DOMAIN proc = CommandFields /\ proc.todo # {} /\ proc.todo \subseteq Places /\ proc.at = "load"
      /\ next # S!Data /\ UNCHANGED <<config, marked, env, data, used>>
  BY DEF S!Load, SetupInd, Planned
<1>1. t \in Tools /\ f \in S!Files(t) /\ c \in Texts(f)
  BY <1>0, FirstOfPlan DEF SetupInd, Filed
<1>2. Filed'
  BY <1>0 DEF SetupInd, Filed
<1>3. \A s : Finished(s) /\ proc'.op = proc.op => Finished(s)'
  BY <1>0 DEF Finished, S!Wanted
<1>4. CASE c.exists /\ S!Refuses(proc.op, f, c, proc.force)
  <2>1. proc' = [proc EXCEPT !.at = "refused"]
    BY <1>4 DEF S!Load
  <2>2. Planned' /\ Decided' /\ Progressed'
    BY <1>0, <2>1 DEF SetupInd, Planned, Decided, Progressed, CommandFields
  <2> QED
    BY <1>2, <2>2 DEF SetupInd
<1>5. CASE S!NextFile /\ (proc.dry \/ S!Settled(proc.op, f, c))
  <2>1. proc'.op = proc.op
    BY <1>0, <1>5 DEF S!NextFile, CommandFields
  <2>2. ~proc.dry => Finished(next)
    <3> SUFFICES ASSUME S!Settled(proc.op, f, c) PROVE Finished(next)
      BY <1>5
    <3>1. proc.op = "install" => S!Installed(f, c) = c
      BY DEF S!Settled
    <3>2. S!Installed(f, c).ours = S!Wanted(f)
      BY DEF S!Installed
    <3>3. c.ours = IF proc.op = "install" THEN S!Wanted(f) ELSE "none"
      BY <3>1, <3>2 DEF S!Settled
    <3> QED
      BY <1>0, <3>3 DEF Finished
  <2>3. ~proc.dry => \A s \in Places : s = next \/ Finished(s) => Finished(s)'
    BY <1>3, <2>1, <2>2
  <2> QED
    BY <1>0, <1>2, <1>5, <2>3, GoesOn
<1>6. CASE ~(c.exists /\ S!Refuses(proc.op, f, c, proc.force)) /\ ~(proc.dry \/ S!Settled(proc.op, f, c))
  <2>1. proc' = [proc EXCEPT !.at = "write", !.read = c]
    BY <1>6 DEF S!Load
  <2> HIDE DEF c
  <2>2. /\ DOMAIN proc' = CommandFields /\ proc'.at = "write" /\ proc'.read = c /\ proc'.op = proc.op /\ proc'.plan = proc.plan
        /\ proc'.todo = proc.todo /\ proc'.since = proc.since /\ proc'.dry = proc.dry /\ proc'.force = proc.force
    BY <1>0, <2>1 DEF CommandFields
  <2>3. Planned'
    BY <1>0, <2>2 DEF SetupInd, Planned
  <2>4. Decided'
    BY <1>0, <1>1, <1>6, <2>2 DEF Decided, S!Settled, S!Installed, S!Wanted, S!Refuses, S!HalfWritten, S!SomebodysCommand, S!SomebodysEntry
  <2>5. Progressed'
    BY <1>0, <1>3, <2>2 DEF SetupInd, Progressed
  <2> QED
    BY <1>2, <2>3, <2>4, <2>5 DEF SetupInd
<1> QED
  BY <1>4, <1>5, <1>6 DEF S!Load

(* What is written is what was to be, and leaves what is the user's: the   *)
(* file is the one that was read, or the user edited it meanwhile.         *)
LEMMA SetupWrite == "data" \notin Tools /\ SetupInd /\ S!Write => SetupInd' /\ S!KeepStep
<1> SUFFICES ASSUME "data" \notin Tools, SetupInd, S!Write PROVE SetupInd' /\ S!KeepStep
  OBVIOUS
<1> DEFINE next == S!First(proc.todo)
           t == next[1]
           f == next[2]
           new == IF proc.op = "install" THEN S!Installed(f, proc.read) ELSE S!Removed(f, proc.read)
<1>0. /\ DOMAIN proc = CommandFields /\ proc.todo # {} /\ proc.todo \subseteq Places /\ proc.at = "write"
      /\ next # S!Data /\ UNCHANGED <<env, data, used>> /\ S!NextFile
      /\ config' = [config EXCEPT ![t][f] = new]
  BY DEF S!Write, SetupInd, Planned, Decided
<1>1. /\ t \in Tools /\ f \in S!Files(t) /\ next \in Places
      /\ proc.read \in Texts(f) /\ ~S!Settled(proc.op, f, proc.read)
      /\ ~(proc.read.exists /\ S!Refuses(proc.op, f, proc.read, proc.force))
  BY <1>0, FirstOfPlan DEF SetupInd, Decided
<1>2. /\ new \in Texts(f) /\ new.ours = IF proc.op = "install" THEN S!Wanted(f) ELSE "none"
      /\ new.ours # "foreign"
      /\ \/ S!Theirs(new) = S!Theirs(proc.read)
         \/ proc.force /\ f = "server" /\ proc.read.ours = "foreign" /\ new.rest = proc.read.rest
  <2>1. CASE proc.op = "install"
    <3>1. new = [exists |-> TRUE, ours |-> S!Wanted(f),
                 rest |-> IF proc.read.rest = "open" /\ proc.read.ours = "none" THEN "some" ELSE proc.read.rest]
      BY <2>1 DEF S!Installed
    <3> HIDE DEF new
    <3>2. S!Wanted(f) \in Launches \cup {"ours"} /\ S!Wanted(f) # "foreign"
      BY Launched DEF Launches
    <3>3. new \in Texts(f)
      <4>1. proc.read.rest \in Rests /\ "some" \in Rests
        BY <1>1 DEF Texts, Rests
      <4>2. new.exists \in BOOLEAN /\ new.rest \in Rests /\ new.ours \in Launches \cup {"ours"} /\ new.ours # "foreign"
        BY <3>1, <3>2, <4>1
      <4>3. new = [exists |-> new.exists, ours |-> new.ours, rest |-> new.rest]
        BY <3>1
      <4> QED
        BY <4>2, <4>3 DEF Texts
    <3>4. proc.read.ours = "foreign" => proc.force /\ f = "server" /\ new.rest = proc.read.rest
      BY <1>1, <2>1, <3>1 DEF Texts, S!Refuses, S!SomebodysCommand, S!SomebodysEntry
    <3>5. proc.read.ours # "foreign" => S!Theirs(new) = S!Theirs(proc.read)
      BY <1>1, <3>1, <3>2 DEF Texts, S!Theirs
    <3> QED
      BY <2>1, <3>1, <3>2, <3>3, <3>4, <3>5
  <2>2. CASE proc.op # "install"
    <3>1. new = IF S!OnlyOurs(proc.read) THEN S!NoFile ELSE [proc.read EXCEPT !.ours = "none"]
      BY <2>2 DEF S!Removed
    <3> HIDE DEF new
    <3>2. new \in Texts(f) /\ new.ours = "none"
      <4>1. CASE S!OnlyOurs(proc.read)
        BY <3>1, <4>1, UserTexts DEF S!NoFile
      <4>2. CASE ~S!OnlyOurs(proc.read)
        BY <1>1, <3>1, <4>2 DEF Texts
      <4> QED
        BY <4>1, <4>2
    <3>3. S!Theirs(new) = S!Theirs(proc.read)
      <4>1. proc.read.ours # "foreign" \/ (f = "server" /\ proc.op # "uninstall")
        BY <1>1 DEF Texts, S!Refuses, S!SomebodysCommand, S!SomebodysEntry
      <4>2. proc.read.ours # "foreign"
        BY <1>0, <2>2, <4>1 DEF SetupInd, Planned
      <4> QED
        BY <1>1, <3>1, <4>2 DEF Texts, S!Theirs, S!OnlyOurs, S!NoFile
    <3> QED
      BY <2>2, <3>2, <3>3
  <2> QED
    BY <2>1, <2>2
<1> HIDE DEF new
<1>3. /\ DOMAIN config' = Tools /\ config'[t][f] = new
      /\ \A u \in Tools : DOMAIN config'[u] = S!Files(u)
      /\ \A u \in Tools : \A g \in S!Files(u) : u # t \/ g # f => config'[u][g] = config[u][g]
  BY <1>0, <1>1 DEF SetupInd, Filed
<1>4. Filed'
  BY <1>1, <1>2, <1>3 DEF SetupInd, Filed
<1>5. proc'.op = proc.op
  BY <1>0 DEF S!NextFile, CommandFields
<1>6. ASSUME NEW s \in Places, s = next \/ Finished(s) PROVE Finished(s)'
  <2>1. CASE s = next
    BY <1>0, <1>2, <1>3, <1>5, <2>1 DEF Finished, S!Wanted
  <2>2. CASE s # next
    <3>1. CASE s = S!Data
      BY <1>0, <1>6, <2>2, <3>1 DEF Finished
    <3>2. CASE s # S!Data
      <4>1. s[1] \in Tools /\ s[2] \in S!Files(s[1]) /\ s = <<s[1], s[2]>> /\ next = <<t, f>>
        BY <1>0, <1>1, <3>2 DEF Places
      <4>2. config'[s[1]][s[2]] = config[s[1]][s[2]]
        BY <1>3, <2>2, <4>1
      <4> QED
        BY <1>0, <1>5, <1>6, <2>2, <3>2, <4>2 DEF Finished, S!Wanted
    <3> QED
      BY <3>1, <3>2
  <2> QED
    BY <2>1, <2>2
<1>7. SetupInd'
  BY <1>0, <1>4, <1>6, GoesOn
<1>8. S!KeepStep
  BY <1>2, <1>3 DEF S!KeepStep
<1> QED
  BY <1>7, <1>8

LEMMA SetupPurge == "data" \notin Tools /\ SetupInd /\ S!Purge => SetupInd'
<1> SUFFICES ASSUME "data" \notin Tools, SetupInd, S!Purge PROVE SetupInd'
  OBVIOUS
<1>0. /\ DOMAIN proc = CommandFields /\ proc.at = "load" /\ S!First(proc.todo) = S!Data /\ UNCHANGED <<config, env, used>>
  BY DEF S!Purge, SetupInd, Planned
<1>1. Filed'
  BY <1>0 DEF SetupInd, Filed
<1>2. CASE proc' = [proc EXCEPT !.at = "refused"]
  <2>1. Planned' /\ Decided' /\ Progressed'
    BY <1>0, <1>2 DEF SetupInd, Planned, Decided, Progressed, CommandFields
  <2> QED
    BY <1>1, <2>1 DEF SetupInd
<1>3. CASE S!NextFile /\ data' = IF proc.dry THEN data ELSE "none"
  <2>1. proc'.op = proc.op
    BY <1>0, <1>3 DEF S!NextFile, CommandFields
  <2>2. ~proc.dry => \A s \in Places : s = S!First(proc.todo) \/ Finished(s) => Finished(s)'
    BY <1>0, <1>3, <2>1 DEF Finished, S!Wanted
  <2> QED
    BY <1>0, <1>1, <1>3, <2>2, GoesOn
<1> QED
  BY <1>2, <1>3 DEF S!Purge

(* The end of a command, and its death.                                    *)
LEMMA SetupEnds == SetupInd /\ (S!Exit \/ S!Die) => SetupInd'
<1> SUFFICES ASSUME SetupInd, S!Exit \/ S!Die PROVE SetupInd'
  OBVIOUS
<1>1. proc' = S!Idle /\ UNCHANGED <<config, data>>
  BY DEF S!Exit, S!Die
<1>2. DOMAIN used' = {"commands", "edits", "deaths"} /\ used'.edits = used.edits /\ used.edits \in Nat
  BY DEF S!Exit, S!Die, SetupInd, Planned
<1>3. Planned' /\ Decided' /\ Progressed'
  BY <1>1, <1>2 DEF Planned, Decided, Progressed, S!Idle, CommandFields
<1>4. Filed'
  BY <1>1 DEF SetupInd, Filed
<1> QED
  BY <1>3, <1>4 DEF SetupInd

(* An edit: what the command passed may be undone, and it shows.           *)
LEMMA SetupEdit == SetupInd /\ S!Edit => SetupInd' /\ S!KeepStep
<1> SUFFICES ASSUME SetupInd, S!Edit PROVE SetupInd' /\ S!KeepStep
  OBVIOUS
<1>1. PICK t \in Tools : \E f \in S!Files(t) : \E c \in {S!NoFile} \cup S!UserFiles(f) : config' = [config EXCEPT ![t][f] = c]
  BY DEF S!Edit
<1>2. PICK f \in S!Files(t) : \E c \in {S!NoFile} \cup S!UserFiles(f) : config' = [config EXCEPT ![t][f] = c]
  BY <1>1
<1>3. PICK c \in {S!NoFile} \cup S!UserFiles(f) : config' = [config EXCEPT ![t][f] = c]
  BY <1>2
<1>4. Filed'
  BY <1>3, UserTexts DEF SetupInd, Filed
<1>5. used' = [used EXCEPT !.edits = @ + 1] /\ UNCHANGED <<proc, env, data>>
  BY DEF S!Edit
<1>6. used.edits \in Nat /\ used'.edits = used.edits + 1 /\ DOMAIN used' = DOMAIN used
  BY <1>5 DEF SetupInd, Planned
<1>7. Planned' /\ Progressed'
  BY <1>5, <1>6 DEF SetupInd, Planned, Progressed
<1>8. Decided'
  BY <1>5 DEF SetupInd, Decided, S!Settled, S!Installed, S!Wanted
<1>9. used' # used
  BY <1>6
<1> QED
  BY <1>4, <1>7, <1>8, <1>9 DEF SetupInd, S!KeepStep

LEMMA SetupStep == "data" \notin Tools /\ SetupInd /\ S!Next => SetupInd' /\ S!KeepStep
<1> SUFFICES ASSUME "data" \notin Tools, SetupInd, S!Next PROVE SetupInd' /\ S!KeepStep
  OBVIOUS
<1>1. S!Begin \/ S!Load \/ S!Purge \/ S!Exit \/ S!Die => UNCHANGED config
  BY DEF S!Begin, S!Load, S!Purge, S!Exit, S!Die
<1>2. UNCHANGED config => S!KeepStep
  BY DEF S!KeepStep
<1> QED
  BY <1>1, <1>2, SetupBegin, SetupLoad, SetupWrite, SetupPurge, SetupEnds, SetupEdit DEF S!Next

LEMMA SetupStays == SetupInd /\ UNCHANGED S!setupVars => SetupInd' /\ S!KeepStep
BY DEF S!setupVars, SetupInd, Filed, Planned, Decided, S!Settled, S!Installed, S!Wanted, Progressed, Finished, S!KeepStep

LEMMA SetupPromise == SetupInd => S!CompleteAtTheEnd
<1> SUFFICES ASSUME SetupInd, proc.at = "done", ~proc.dry, used.edits = proc.since, NEW s \in proc.plan
             PROVE  IF s = S!Data THEN data = "none"
                    ELSE IF proc.op = "install" THEN config[s[1]][s[2]].ours = S!Wanted(s[2])
                    ELSE config[s[1]][s[2]].ours \notin {"ours", "old", S!DetectLaunch(env)}
  BY DEF S!CompleteAtTheEnd
<1>1. Finished(s)
  BY DEF SetupInd, Planned, Progressed
<1>2. S!DetectLaunch(env) # "none"
  BY Launched DEF Launches
<1> QED
  BY <1>1, <1>2 DEF Finished

-----------------------------------------------------------------------------

(* The git hook.  HookSafe says where the user's hook is at each place of  *)
(* a command; HookWhole, of commands none of which died, that a file is    *)
(* half written only where one is writing it.                              *)
(* The scripts are told from half a file, from ours and from one that was  *)
(* changed by being read.                                                  *)
ScriptsTold == Lossy \subseteq UserHooks /\ UserHooks \cap {"none", "half", "ours", "changed"} = {}
Spendings == [installs : Nat, edits : Nat, died : BOOLEAN, retried : BOOLEAN]
HookType ==
    /\ hook \in UserHooks \cup {"none", "half", "ours", "changed"}
    /\ copy \in UserHooks \cup {"none", "half", "ours", "changed"}
    /\ theirs \in UserHooks \cup {"none"}
    /\ enabled \in BOOLEAN
    /\ spent \in Spendings
HookSafe == theirs # "none" /\ ~(spent.died /\ spent.retried) =>
    /\ H!AsHeWroteIt(hook) \/ copy = H!ReadAsText(theirs)
    /\ at \in {"keep", "copy", "chmod back", "unlink copy"} => H!AsHeWroteIt(hook)
    /\ at \in {"truncate", "write", "chmod", "unlink", "restore", "put back"} => copy = H!ReadAsText(theirs)
HookWhole == ~spent.died =>
    /\ hook = "half" <=> at \in {"write", "put back"}
    /\ copy = "half" <=> at = "copy"
    /\ at \in {"restore", "put back", "chmod back", "unlink copy"} => copy # "none"
    /\ at \in {"chmod back", "unlink copy"} => hook = copy
    /\ at \in {"keep", "copy"} => hook \in UserHooks \cup {"changed"}
    /\ hook \in UserHooks \cup {"changed"} /\ theirs # "none" => H!AsHeWroteIt(hook)
    /\ "changed" \in {hook, copy} => Lossy # {}
    /\ at = "chmod" => hook = "ours"
    /\ at \in {"idle", "restore", "truncate"} /\ hook = "none" => ~enabled
HookInd == HookType /\ HookSafe /\ HookWhole

(* A hook that was there before the first command is the user's.            *)
LEMMA HookInit == ScriptsTold /\ H!Init => HookInd
<1> SUFFICES ASSUME ScriptsTold, H!Init PROVE HookInd
  OBVIOUS
<1>1. enabled \in BOOLEAN
  BY DEF H!Init
<1>2. HookType
  BY <1>1 DEF H!Init, HookType, Spendings
<1>3. HookSafe /\ HookWhole
  BY DEF ScriptsTold, H!Init, HookSafe, HookWhole, H!AsHeWroteIt, H!ReadAsText
<1> QED
  BY <1>2, <1>3 DEF HookInd

(* What install does to the record of what is spent.                       *)
LEMMA InstallSpends ==
    ASSUME NEW s \in Spendings, NEW r \in BOOLEAN
    PROVE  /\ [s EXCEPT !.installs = @ + 1, !.retried = r] \in Spendings
           /\ [s EXCEPT !.installs = @ + 1, !.retried = r].died = s.died
           /\ [s EXCEPT !.installs = @ + 1, !.retried = r].retried = r
<1> DEFINE t == [s EXCEPT !.installs = @ + 1]
<1>1. t \in Spendings /\ t.died = s.died
  BY DEF Spendings
<1> HIDE DEF t
<1>2. [t EXCEPT !.retried = r] \in Spendings /\ [t EXCEPT !.retried = r].died = t.died /\ [t EXCEPT !.retried = r].retried = r
  BY <1>1 DEF Spendings
<1> QED
  BY <1>1, <1>2 DEF t

(* Every step of install, uninstall and the user keeps them.               *)
LEMMA HookStep == ScriptsTold /\ HookInd /\ H!Next => HookInd'
<1> SUFFICES ASSUME ScriptsTold, HookInd, H!Next PROVE HookInd'
  OBVIOUS
<1>0. HookType /\ HookSafe /\ HookWhole
  BY DEF HookInd
<1>1. CASE H!Install
  <2>1. PICK again \in BOOLEAN : spent' = [spent EXCEPT !.installs = @ + 1, !.retried = again]
                                   /\ (again \/ ~spent.died \/ at' # "keep") /\ (spent.retried => again)
    BY <1>1 DEF H!Install
  <2>2. spent' \in Spendings /\ spent'.died = spent.died /\ spent'.retried = again
    BY <1>0, <2>1, InstallSpends DEF HookType
  <2>3. HookType'
    BY <1>0, <1>1, <2>2 DEF H!Install, HookType
  <2>4. HookSafe'
    BY <1>0, <1>1, <2>1, <2>2 DEF ScriptsTold, H!Install, H!Installed, H!Ours, HookType, HookSafe, HookWhole, H!AsHeWroteIt, H!ReadAsText
  <2>5. HookWhole'
    BY <1>0, <1>1, <2>2 DEF ScriptsTold, H!Install, H!Installed, H!Ours, HookType, HookWhole, H!AsHeWroteIt, H!ReadAsText
  <2> QED
    BY <2>3, <2>4, <2>5 DEF HookInd
<1>2. CASE H!KeepTruncate
  <2>1. HookType'
    BY <1>0, <1>2 DEF H!KeepTruncate, HookType, Spendings
  <2>2. HookSafe'
    BY <1>0, <1>2 DEF ScriptsTold, H!KeepTruncate, HookType, Spendings, HookSafe, HookWhole, H!AsHeWroteIt, H!ReadAsText
  <2>3. HookWhole'
    BY <1>0, <1>2 DEF ScriptsTold, H!KeepTruncate, HookType, Spendings, HookSafe, HookWhole, H!AsHeWroteIt, H!ReadAsText
  <2> QED
    BY <2>1, <2>2, <2>3 DEF HookInd
<1>3. CASE H!KeepCopy
  <2>1. HookType'
    BY <1>0, <1>3 DEF H!KeepCopy, H!ReadAsText, HookType, Spendings
  <2>2. HookSafe'
    BY <1>0, <1>3 DEF ScriptsTold, H!KeepCopy, HookType, Spendings, HookSafe, HookWhole, H!AsHeWroteIt, H!ReadAsText
  <2>3. HookWhole'
    BY <1>0, <1>3 DEF ScriptsTold, H!KeepCopy, HookType, Spendings, HookSafe, HookWhole, H!AsHeWroteIt, H!ReadAsText
  <2> QED
    BY <2>1, <2>2, <2>3 DEF HookInd
<1>4. CASE H!Truncate
  <2>1. HookType'
    BY <1>0, <1>4 DEF H!Truncate, H!Installed, H!Ours, HookType, Spendings
  <2>2. HookSafe'
    BY <1>0, <1>4 DEF ScriptsTold, H!Truncate, H!Installed, H!Ours, HookType, Spendings, HookSafe, HookWhole, H!AsHeWroteIt, H!ReadAsText
  <2>3. HookWhole'
    BY <1>0, <1>4 DEF ScriptsTold, H!Truncate, H!Installed, H!Ours, HookType, Spendings, HookSafe, HookWhole, H!AsHeWroteIt, H!ReadAsText
  <2> QED
    BY <2>1, <2>2, <2>3 DEF HookInd
<1>5. CASE H!WriteOurs
  <2>1. HookType'
    BY <1>0, <1>5 DEF H!WriteOurs, HookType, Spendings
  <2>2. HookSafe'
    BY <1>0, <1>5 DEF ScriptsTold, H!WriteOurs, HookType, Spendings, HookSafe, HookWhole, H!AsHeWroteIt, H!ReadAsText
  <2>3. HookWhole'
    BY <1>0, <1>5 DEF ScriptsTold, H!WriteOurs, HookType, Spendings, HookSafe, HookWhole, H!AsHeWroteIt, H!ReadAsText
  <2> QED
    BY <2>1, <2>2, <2>3 DEF HookInd
<1>6. CASE H!MakeExecutable
  <2>1. HookType'
    BY <1>0, <1>6 DEF H!MakeExecutable, HookType, Spendings
  <2>2. HookSafe'
    BY <1>0, <1>6 DEF ScriptsTold, H!MakeExecutable, HookType, Spendings, HookSafe, HookWhole, H!AsHeWroteIt, H!ReadAsText
  <2>3. HookWhole'
    BY <1>0, <1>6 DEF ScriptsTold, H!MakeExecutable, HookType, Spendings, HookSafe, HookWhole, H!AsHeWroteIt, H!ReadAsText
  <2> QED
    BY <2>1, <2>2, <2>3 DEF HookInd
<1>7. CASE H!Uninstall
  <2>1. HookType'
    BY <1>0, <1>7 DEF H!Uninstall, H!Installed, H!Ours, HookType, Spendings
  <2>2. HookSafe'
    BY <1>0, <1>7 DEF ScriptsTold, H!Uninstall, H!Installed, H!Ours, HookType, Spendings, HookSafe, HookWhole, H!AsHeWroteIt, H!ReadAsText
  <2>3. HookWhole'
    BY <1>0, <1>7 DEF ScriptsTold, H!Uninstall, H!Installed, H!Ours, HookType, Spendings, HookSafe, HookWhole, H!AsHeWroteIt, H!ReadAsText
  <2> QED
    BY <2>1, <2>2, <2>3 DEF HookInd
<1>8. CASE H!Unlink
  <2>1. HookType'
    BY <1>0, <1>8 DEF H!Unlink, HookType, Spendings
  <2>2. HookSafe'
    BY <1>0, <1>8 DEF ScriptsTold, H!Unlink, HookType, Spendings, HookSafe, HookWhole, H!AsHeWroteIt, H!ReadAsText
  <2>3. HookWhole'
    BY <1>0, <1>8 DEF ScriptsTold, H!Unlink, HookType, Spendings, HookSafe, HookWhole, H!AsHeWroteIt, H!ReadAsText
  <2> QED
    BY <2>1, <2>2, <2>3 DEF HookInd
<1>9. CASE H!Restore
  <2>1. HookType'
    BY <1>0, <1>9 DEF H!Restore, HookType, Spendings
  <2>2. HookSafe'
    BY <1>0, <1>9 DEF ScriptsTold, H!Restore, HookType, Spendings, HookSafe, HookWhole, H!AsHeWroteIt, H!ReadAsText
  <2>3. HookWhole'
    BY <1>0, <1>9 DEF ScriptsTold, H!Restore, HookType, Spendings, HookSafe, HookWhole, H!AsHeWroteIt, H!ReadAsText
  <2> QED
    BY <2>1, <2>2, <2>3 DEF HookInd
<1>10. CASE H!PutBack
  <2>1. HookType'
    BY <1>0, <1>10 DEF H!PutBack, HookType, Spendings
  <2>2. HookSafe'
    BY <1>0, <1>10 DEF ScriptsTold, H!PutBack, HookType, Spendings, HookSafe, HookWhole, H!AsHeWroteIt, H!ReadAsText
  <2>3. HookWhole'
    BY <1>0, <1>10 DEF ScriptsTold, H!PutBack, HookType, Spendings, HookSafe, HookWhole, H!AsHeWroteIt, H!ReadAsText
  <2> QED
    BY <2>1, <2>2, <2>3 DEF HookInd
<1>11. CASE H!UnlinkCopy
  <2>1. HookType'
    BY <1>0, <1>11 DEF H!UnlinkCopy, HookType, Spendings
  <2>2. HookSafe'
    BY <1>0, <1>11 DEF ScriptsTold, H!UnlinkCopy, HookType, Spendings, HookSafe, HookWhole, H!AsHeWroteIt, H!ReadAsText
  <2>3. HookWhole'
    BY <1>0, <1>11 DEF ScriptsTold, H!UnlinkCopy, HookType, Spendings, HookSafe, HookWhole, H!AsHeWroteIt, H!ReadAsText
  <2> QED
    BY <2>1, <2>2, <2>3 DEF HookInd
<1>12. CASE H!Die
  <2>1. HookType'
    BY <1>0, <1>12 DEF H!Die, HookType, Spendings
  <2>2. HookSafe'
    BY <1>0, <1>12 DEF ScriptsTold, H!Die, HookType, Spendings, HookSafe, HookWhole, H!AsHeWroteIt, H!ReadAsText
  <2>3. HookWhole'
    BY <1>0, <1>12 DEF ScriptsTold, H!Die, HookType, Spendings, HookSafe, HookWhole, H!AsHeWroteIt, H!ReadAsText
  <2> QED
    BY <2>1, <2>2, <2>3 DEF HookInd
<1>13. CASE H!Edit
  <2>1. HookType'
    <3>1. enabled' \in BOOLEAN
      BY <1>0, <1>13 DEF H!Edit, HookType
    <3>2. spent' \in Spendings
      BY <1>0, <1>13 DEF H!Edit, HookType, Spendings
    <3>3. hook' \in UserHooks \cup {"none", "half", "ours", "changed"} /\ theirs' \in UserHooks \cup {"none"} /\ copy' = copy
      BY <1>0, <1>13 DEF H!Edit, HookType
    <3> QED
      BY <1>0, <3>1, <3>2, <3>3 DEF HookType
  <2>2. HookSafe'
    BY <1>0, <1>13 DEF ScriptsTold, H!Edit, H!Installed, H!Ours, HookType, Spendings, HookSafe, HookWhole, H!AsHeWroteIt, H!ReadAsText
  <2>3. HookWhole'
    BY <1>0, <1>13 DEF ScriptsTold, H!Edit, H!Installed, H!Ours, HookType, Spendings, HookSafe, HookWhole, H!AsHeWroteIt, H!ReadAsText
  <2> QED
    BY <2>1, <2>2, <2>3 DEF HookInd
<1> QED
  BY <1>1, <1>2, <1>3, <1>4, <1>5, <1>6, <1>7, <1>8, <1>9, <1>10, <1>11, <1>12, <1>13 DEF H!Next

LEMMA HookStays == HookInd /\ UNCHANGED H!hookVars => HookInd'
<1> SUFFICES ASSUME HookInd, UNCHANGED H!hookVars PROVE HookInd'
  OBVIOUS
<1>1. HookType' /\ HookSafe'
  BY DEF H!hookVars, HookInd, HookType, HookSafe, H!AsHeWroteIt
<1>2. HookWhole'
  BY DEF H!hookVars, HookInd, HookWhole, H!AsHeWroteIt
<1> QED
  BY <1>1, <1>2 DEF HookInd

(* They give what the module promises.                                     *)
LEMMA HookPromises == ScriptsTold /\ HookInd => H!HookKept /\ H!RunsWhole
BY DEF ScriptsTold, HookInd, HookType, HookSafe, HookWhole, H!HookKept, H!RunsWhole, H!AsHeWroteIt, H!ReadAsText

-----------------------------------------------------------------------------

(* The registry.  Of commands that do not overlap one at a time is under   *)
(* way; what it has read is what was agreed, and what it is about to write *)
(* differs from that by its name.                                          *)
ClientFields == {"at", "op", "name", "entries"}
Held(k) == IF k.op = "add" THEN agreed \cup {k.name} ELSE agreed \ {k.name}
RegistryTypes ==
    /\ registry = [whole |-> registry.whole, names |-> registry.names] /\ registry.names \cap Missing = {}
    /\ trouble \in BOOLEAN /\ DOMAIN client = Clients
    /\ \A c \in Clients : /\ DOMAIN client[c] = ClientFields /\ client[c].entries \cap Missing = {}
                          /\ client[c].at \in {"idle", "change", "truncate", "save"}
Alone == \A c, d \in Clients : client[c].at # "idle" /\ client[d].at # "idle" => c = d
ClientKnows(c) == /\ client[c].at = "change" => client[c].entries = agreed
                  /\ client[c].at \in {"truncate", "save"} => client[c].entries = Held(client[c])
FileSays == (\A c \in Clients : client[c].at # "save") => registry.whole = TRUE /\ registry.names = agreed
RegistryInd == /\ RegistryTypes
               /\ ~trouble => Alone /\ FileSays /\ \A c \in Clients : ClientKnows(c)

LEMMA RegistryInit == R!Init => RegistryInd
<1> SUFFICES ASSUME R!Init PROVE RegistryInd
  OBVIOUS
<1>1. registry.whole = TRUE /\ registry.names = {} /\ registry = [whole |-> registry.whole, names |-> registry.names]
      /\ agreed = {} /\ trouble \in BOOLEAN
  BY DEF R!Init
<1>2. DOMAIN R!Quiet = ClientFields /\ R!Quiet.at = "idle" /\ R!Quiet.entries = {}
  BY DEF R!Quiet, ClientFields
<1>3. DOMAIN client = Clients /\ \A c \in Clients : client[c] = R!Quiet
  BY DEF R!Init
<1> QED
  BY <1>1, <1>2, <1>3 DEF RegistryInd, RegistryTypes, Alone, ClientKnows, FileSays

LEMMA RegistryStep == RegistryInd /\ R!Next => RegistryInd'
<1> SUFFICES ASSUME RegistryInd, NEW c \in Clients, R!Load(c) \/ R!Change(c) \/ R!Truncate(c) \/ R!Save(c) \/ R!Die(c)
             PROVE  RegistryInd'
  BY DEF R!Next
<1> DEFINE k == client[c]
           u == client'[c]
<1>0. /\ DOMAIN client = Clients /\ DOMAIN k = ClientFields /\ k.entries \cap Missing = {}
      /\ k.at \in {"idle", "change", "truncate", "save"} /\ trouble \in BOOLEAN
      /\ registry = [whole |-> registry.whole, names |-> registry.names] /\ registry.names \cap Missing = {}
      /\ ~trouble => Alone /\ FileSays /\ ClientKnows(c)
  BY DEF RegistryInd, RegistryTypes
<1>q. DOMAIN R!Quiet = ClientFields /\ R!Quiet.at = "idle" /\ R!Quiet.entries = {}
  BY DEF R!Quiet, ClientFields
<1> HIDE DEF k, u
<1>m. ASSUME DOMAIN client' = Clients, \A d \in Clients \ {c} : client'[d] = client[d],
             DOMAIN u = ClientFields, u.entries \cap Missing = {}, u.at \in {"idle", "change", "truncate", "save"},
             registry' = [whole |-> registry'.whole, names |-> registry'.names], registry'.names \cap Missing = {}, trouble' \in BOOLEAN
      PROVE  RegistryTypes'
  BY <1>m DEF RegistryInd, RegistryTypes, u
<1>n. ASSUME ~trouble, k.at # "idle" PROVE \A d \in Clients \ {c} : client[d].at = "idle"
  BY <1>0, <1>n DEF Alone, k, RegistryInd, RegistryTypes
<1>1. CASE R!Load(c)
  <2>1. PICK op \in {"add", "remove"}, name \in RepoNames :
           client' = [client EXCEPT ![c] =
              IF ~registry.whole THEN R!Quiet
              ELSE [at |-> "change", op |-> op, name |-> name, entries |-> registry.names]]
    BY <1>1 DEF R!Load
  <2>2. /\ k.at = "idle" /\ UNCHANGED <<registry, agreed>>
        /\ trouble' = (trouble \/ \E d \in Clients \ {c} : client[d].at # "idle")
    BY <1>1 DEF R!Load, k
  <2>3. DOMAIN client' = Clients /\ (\A d \in Clients \ {c} : client'[d] = client[d])
        /\ u = IF ~registry.whole THEN R!Quiet
               ELSE [at |-> "change", op |-> op, name |-> name, entries |-> registry.names]
    BY <1>0, <2>1 DEF u
  <2>4. DOMAIN u = ClientFields /\ u.entries \cap Missing = {} /\ u.at \in {"idle", "change"}
    BY <1>0, <1>q, <2>3 DEF ClientFields
  <2>5. u.at = "change" => u.entries = registry.names
    BY <1>q, <2>3
  <2>6. trouble' \in BOOLEAN
    BY <2>2
  <2>7. RegistryTypes'
    BY <1>0, <1>m, <2>2, <2>3, <2>4, <2>6
  <2>8. ASSUME ~trouble' PROVE Alone' /\ FileSays' /\ \A d \in Clients : ClientKnows(d)'
    <3>1. ~trouble /\ \A d \in Clients \ {c} : client[d].at = "idle"
      BY <2>2, <2>8
    <3>2. registry.whole = TRUE /\ registry.names = agreed
      BY <1>0, <2>2, <3>1 DEF FileSays, k
    <3>3. Alone'
      BY <2>3, <3>1 DEF Alone
    <3>4. FileSays'
      BY <2>2, <3>2 DEF FileSays
    <3>5. \A d \in Clients : ClientKnows(d)'
      BY <2>2, <2>3, <2>4, <2>5, <3>1, <3>2 DEF ClientKnows, u
    <3> QED
      BY <3>3, <3>4, <3>5
  <2> QED
    BY <2>7, <2>8 DEF RegistryInd
<1>2. CASE R!Change(c)
  <2>1. k.at = "change" /\ UNCHANGED <<registry, agreed, trouble>>
    BY <1>2 DEF R!Change, k
  <2>2. DOMAIN client' = Clients /\ (\A d \in Clients \ {c} : client'[d] = client[d])
        /\ u = IF R!Refused(k) THEN R!Quiet ELSE [k EXCEPT !.at = "truncate", !.entries = R!Changed(k)]
    BY <1>0, <1>2 DEF R!Change, k, u
  <2>3. \/ u = R!Quiet
        \/ /\ ~R!Refused(k) /\ DOMAIN u = ClientFields /\ u.at = "truncate" /\ u.entries = R!Changed(k)
           /\ u.op = k.op /\ u.name = k.name
    BY <1>0, <2>2 DEF ClientFields
  <2>4. DOMAIN u = ClientFields /\ u.entries \cap Missing = {} /\ u.at \in {"idle", "truncate"}
    BY <1>0, <1>q, <2>3 DEF R!Refused, R!Changed
  <2>5. RegistryTypes'
    BY <1>0, <1>m, <2>1, <2>2, <2>4
  <2>6. ASSUME ~trouble' PROVE Alone' /\ FileSays' /\ \A d \in Clients : ClientKnows(d)'
    <3>1. ~trouble /\ \A d \in Clients \ {c} : client[d].at = "idle"
      BY <1>n, <2>1, <2>6
    <3>2. registry.whole = TRUE /\ registry.names = agreed /\ k.entries = agreed
      BY <1>0, <2>1, <3>1 DEF FileSays, ClientKnows, k
    <3>3. Alone'
      BY <2>2, <3>1 DEF Alone
    <3>4. FileSays'
      BY <2>1, <3>2 DEF FileSays
    <3>5. u.at = "truncate" => u.entries = IF u.op = "add" THEN agreed' \cup {u.name} ELSE agreed' \ {u.name}
      BY <1>q, <2>1, <2>3, <3>2 DEF R!Changed
    <3>6. \A d \in Clients : ClientKnows(d)'
      BY <2>1, <2>2, <2>4, <3>1, <3>5 DEF ClientKnows, Held, u
    <3> QED
      BY <3>3, <3>4, <3>6
  <2> QED
    BY <2>5, <2>6 DEF RegistryInd
<1>3. CASE R!Truncate(c)
  <2>1. k.at = "truncate" /\ UNCHANGED <<agreed, trouble>> /\ registry' = [whole |-> FALSE, names |-> {}]
    BY <1>3 DEF R!Truncate, k
  <2>2. DOMAIN client' = Clients /\ (\A d \in Clients \ {c} : client'[d] = client[d]) /\ u = [k EXCEPT !.at = "save"]
    BY <1>0, <1>3 DEF R!Truncate, k, u
  <2>3. DOMAIN u = ClientFields /\ u.at = "save" /\ u.entries = k.entries /\ u.op = k.op /\ u.name = k.name
    BY <1>0, <2>2 DEF ClientFields
  <2>4. RegistryTypes'
    BY <1>0, <1>m, <2>1, <2>2, <2>3
  <2>5. ASSUME ~trouble' PROVE Alone' /\ FileSays' /\ \A d \in Clients : ClientKnows(d)'
    <3>1. ~trouble /\ \A d \in Clients \ {c} : client[d].at = "idle"
      BY <1>n, <2>1, <2>5
    <3>2. k.entries = Held(k)
      BY <1>0, <2>1, <3>1 DEF ClientKnows, k
    <3>3. Alone'
      BY <2>2, <3>1 DEF Alone
    <3>4. FileSays'
      BY <2>3 DEF FileSays, u
    <3>5. u.entries = IF u.op = "add" THEN agreed' \cup {u.name} ELSE agreed' \ {u.name}
      BY <2>1, <2>3, <3>2 DEF Held
    <3>6. \A d \in Clients : ClientKnows(d)'
      BY <2>1, <2>2, <2>3, <3>1, <3>5 DEF ClientKnows, Held, u
    <3> QED
      BY <3>3, <3>4, <3>6
  <2> QED
    BY <2>4, <2>5 DEF RegistryInd
<1>4. CASE R!Save(c)
  <2>1. /\ k.at = "save" /\ UNCHANGED trouble /\ registry' = [whole |-> TRUE, names |-> k.entries]
        /\ agreed' = Held(k)
    BY <1>4 DEF R!Save, Held, k
  <2>2. DOMAIN client' = Clients /\ (\A d \in Clients \ {c} : client'[d] = client[d]) /\ u = R!Quiet
    BY <1>0, <1>4 DEF R!Save, u
  <2>3. RegistryTypes'
    BY <1>0, <1>m, <1>q, <2>1, <2>2
  <2>4. ASSUME ~trouble' PROVE Alone' /\ FileSays' /\ \A d \in Clients : ClientKnows(d)'
    <3>1. ~trouble /\ \A d \in Clients \ {c} : client[d].at = "idle"
      BY <1>n, <2>1, <2>4
    <3>2. k.entries = Held(k)
      BY <1>0, <2>1, <3>1 DEF ClientKnows, k
    <3>3. \A d \in Clients : client'[d].at = "idle"
      BY <1>q, <2>2, <3>1 DEF u
    <3> QED
      BY <2>1, <3>2, <3>3 DEF Alone, FileSays, ClientKnows
  <2> QED
    BY <2>3, <2>4 DEF RegistryInd
<1>5. CASE R!Die(c)
  <2>1. /\ k.at \in {"change", "truncate", "save"} /\ ~trouble /\ trouble' = (k.at = "save")
        /\ UNCHANGED <<registry, agreed>>
    BY <1>5 DEF R!Die, k
  <2>2. DOMAIN client' = Clients /\ (\A d \in Clients \ {c} : client'[d] = client[d]) /\ u = R!Quiet
    BY <1>0, <1>5 DEF R!Die, u
  <2>3. trouble' \in BOOLEAN
    BY <2>1
  <2>4. RegistryTypes'
    BY <1>0, <1>m, <1>q, <2>1, <2>2, <2>3
  <2>5. ASSUME ~trouble' PROVE Alone' /\ FileSays' /\ \A d \in Clients : ClientKnows(d)'
    <3>1. k.at # "save" /\ \A d \in Clients \ {c} : client[d].at = "idle"
      BY <1>n, <2>1, <2>5
    <3>2. registry.whole = TRUE /\ registry.names = agreed
      BY <1>0, <2>1, <3>1 DEF FileSays, k
    <3>3. \A d \in Clients : client'[d].at = "idle"
      BY <1>q, <2>2, <3>1 DEF u
    <3> QED
      BY <2>1, <3>2, <3>3 DEF Alone, FileSays, ClientKnows
  <2> QED
    BY <2>4, <2>5 DEF RegistryInd
<1> QED
  BY <1>1, <1>2, <1>3, <1>4, <1>5

LEMMA RegistryStays == RegistryInd /\ UNCHANGED R!regVars => RegistryInd'
BY DEF R!regVars, RegistryInd, RegistryTypes, Alone, ClientKnows, FileSays, Held

LEMMA RegistryPromise == RegistryInd => R!RegistryAccounts /\ R!OnlyExisting
<1> SUFFICES ASSUME RegistryInd PROVE R!RegistryAccounts /\ R!OnlyExisting
  OBVIOUS
<1>1. ASSUME registry = [whole |-> registry.whole, names |-> registry.names], registry.whole = TRUE, registry.names = agreed
      PROVE  registry = [whole |-> TRUE, names |-> agreed]
  BY <1>1
<1> QED
  BY <1>1 DEF RegistryInd, RegistryTypes, FileSays, R!RegistryAccounts, R!OnlyExisting

-----------------------------------------------------------------------------

(* The daemon.  A version that is known was no newer when it was noted     *)
(* than what was then read into the graph.                                 *)
WatchTypes == /\ tree \in [Watched -> Nat \ {0}] /\ known \in [Watched -> Nat] /\ current \in [Watched -> Nat]
              /\ watcher.at \in {"ingest", "record"} => watcher.repo \in Watched /\ watcher.sig \in Nat
              /\ watcher = [at |-> watcher.at, mode |-> watcher.mode, todo |-> watcher.todo, repo |-> watcher.repo,
                           sig |-> watcher.sig]
              /\ watcher.todo \subseteq Watched
WatchOrder == /\ \A r \in Watched : known[r] <= current[r] /\ current[r] <= tree[r]
              /\ watcher.at = "ingest" => watcher.sig <= tree[watcher.repo]
              /\ watcher.at = "record" => watcher.sig <= current[watcher.repo]
WatchInd == WatchTypes /\ WatchOrder

LEMMA WatchInit == W!Init => WatchInd
<1> SUFFICES ASSUME W!Init PROVE WatchInd
  OBVIOUS
<1>1. PICK mode \in {"looking", "polling"} :
        watcher = [at |-> "unstarted", mode |-> mode, todo |-> {}, repo |-> "none", sig |-> 0]
  BY DEF W!Init
<1>2. /\ watcher.at = "unstarted" /\ watcher.todo = {}
      /\ watcher = [at |-> watcher.at, mode |-> watcher.mode, todo |-> watcher.todo, repo |-> watcher.repo,
                   sig |-> watcher.sig]
  BY <1>1
<1>3. tree = [r \in Watched |-> 1] /\ known = [r \in Watched |-> 0] /\ current = [r \in Watched |-> 0]
  BY DEF W!Init
<1>4. \A r \in Watched : tree[r] = 1 /\ known[r] = 0 /\ current[r] = 0
  BY <1>3
<1>5. WatchTypes
  <2>1. 1 \in Nat \ {0} /\ 0 \in Nat
    OBVIOUS
  <2>2. tree \in [Watched -> Nat \ {0}]
    BY Zenon, <1>3, <2>1
  <2> QED
    BY <1>2, <1>3, <2>2 DEF WatchTypes
<1>6. WatchOrder
  BY <1>2, <1>4 DEF WatchOrder
<1> QED
  BY <1>5, <1>6 DEF WatchInd

LEMMA WatchStep == WatchInd /\ W!Next => WatchInd'
<1> SUFFICES ASSUME WatchInd, W!Next PROVE WatchInd'
  OBVIOUS
<1>0. WatchTypes /\ WatchOrder
  BY DEF WatchInd
<1>1. CASE W!Start \/ W!Wake \/ W!RoundDone
  <2>1. /\ UNCHANGED <<tree, known, current>> /\ watcher'.at \notin {"ingest", "record"}
        /\ watcher'.todo \subseteq Watched
        /\ watcher' = [at |-> watcher'.at, mode |-> watcher'.mode, todo |-> watcher'.todo, repo |-> watcher'.repo,
                      sig |-> watcher'.sig]
    BY <1>0, <1>1 DEF W!Start, W!Wake, W!RoundDone, W!Round, WatchTypes
  <2> QED
    BY <1>0, <2>1 DEF WatchTypes, WatchOrder, WatchInd
<1>2. ASSUME NEW r \in Watched, W!Scan(r) PROVE WatchInd'
  <2>1. CASE watcher'.at # "ingest"
    <3>1. /\ UNCHANGED <<tree, known, current>> /\ watcher'.at \notin {"ingest", "record"}
          /\ watcher'.todo \subseteq Watched
          /\ watcher' = [at |-> watcher'.at, mode |-> watcher'.mode, todo |-> watcher'.todo, repo |-> watcher'.repo,
                        sig |-> watcher'.sig]
      BY <1>0, <1>2, <2>1 DEF W!Scan, WatchTypes
    <3> QED
      BY <1>0, <3>1 DEF WatchTypes, WatchOrder, WatchInd
  <2>2. CASE watcher'.at = "ingest"
    <3>1. /\ UNCHANGED <<tree, known, current>> /\ watcher'.at = "ingest"
          /\ watcher'.repo = r /\ watcher'.sig = tree[r]
          /\ watcher'.todo \subseteq Watched
          /\ watcher' = [at |-> watcher'.at, mode |-> watcher'.mode, todo |-> watcher'.todo, repo |-> watcher'.repo,
                        sig |-> watcher'.sig]
      BY <1>0, <1>2, <2>2 DEF W!Scan, WatchTypes, W!RepoSignature
    <3> QED
      BY <1>0, <3>1 DEF WatchTypes, WatchOrder, WatchInd
  <2> QED
    BY <2>1, <2>2
<1>3. CASE W!Reingest
  <2>1. /\ tree' = tree /\ known' = known /\ current' = [current EXCEPT ![watcher.repo] = tree[watcher.repo]]
        /\ watcher'.at = "record" /\ watcher'.repo = watcher.repo /\ watcher'.sig = watcher.sig
        /\ watcher'.todo = watcher.todo
        /\ watcher' = [at |-> watcher'.at, mode |-> watcher'.mode, todo |-> watcher'.todo, repo |-> watcher'.repo,
                      sig |-> watcher'.sig]
        /\ watcher.at = "ingest"
    BY <1>0, <1>3 DEF W!Reingest, WatchTypes
  <2> QED
    BY <1>0, <2>1 DEF WatchTypes, WatchOrder, WatchInd
<1>4. CASE W!Fail
  <2>1. /\ UNCHANGED <<tree, known, current>> /\ watcher'.at = "scan" /\ watcher'.todo = watcher.todo
        /\ watcher' = [at |-> watcher'.at, mode |-> watcher'.mode, todo |-> watcher'.todo, repo |-> watcher'.repo,
                      sig |-> watcher'.sig]
    BY <1>0, <1>4 DEF W!Fail, WatchTypes
  <2> QED
    BY <1>0, <2>1 DEF WatchTypes, WatchOrder, WatchInd
<1>5. CASE W!Record
  <2>1. /\ UNCHANGED <<tree, current>> /\ known' = [known EXCEPT ![watcher.repo] = watcher.sig]
        /\ watcher.at = "record" /\ watcher'.at = "scan" /\ watcher'.todo = watcher.todo
        /\ watcher' = [at |-> watcher'.at, mode |-> watcher'.mode, todo |-> watcher'.todo, repo |-> watcher'.repo,
                      sig |-> watcher'.sig]
    BY <1>0, <1>5 DEF W!Record, W!Signature, WatchTypes
  <2> QED
    BY <1>0, <2>1 DEF WatchTypes, WatchOrder, WatchInd
<1>6. CASE W!Stop
  BY <1>0, <1>6 DEF W!Stop, WatchTypes, WatchOrder, WatchInd
<1>7. CASE W!UserSaves
  <2>1. PICK r \in Watched : tree' = [tree EXCEPT ![r] = @ + 1] /\ UNCHANGED <<known, current, watcher>>
    BY <1>7 DEF W!UserSaves
  <2>2. tree' \in [Watched -> Nat \ {0}] /\ \A q \in Watched : tree[q] <= tree'[q]
    BY <1>0, <2>1 DEF WatchTypes
  <2>3. WatchTypes'
    BY <1>0, <2>1, <2>2 DEF WatchTypes
  <2>4. WatchOrder'
    BY <1>0, <2>1, <2>2 DEF WatchTypes, WatchOrder
  <2> QED
    BY <2>3, <2>4 DEF WatchInd
<1> QED
  BY <1>1, <1>2, <1>3, <1>4, <1>5, <1>6, <1>7 DEF W!Next, W!ThreadStep

LEMMA WatchStays == WatchInd /\ UNCHANGED W!watchVars => WatchInd'
BY DEF W!watchVars, WatchInd, WatchTypes, WatchOrder

LEMMA WatchPromise == WatchInd => W!NothingSkipped
BY DEF WatchInd, WatchTypes, WatchOrder, W!NothingSkipped

-----------------------------------------------------------------------------

(* The invariant.  Ids are given once and each comment has one; while      *)
(* nothing overlapped, moved or overflowed, at most one run is under way,  *)
(* a comment of ours lies behind the pages it has looked at, and there is  *)
(* none when it has looked at all of them and found nothing.               *)
PubRun == [at : {"free", "look", "write"}, page : 1..MaxPages, found : Nat, rev : Nat, dry : BOOLEAN]
PubComment == [id : Nat, mine : BOOLEAN, marked : BOOLEAN, rev : Nat]
PubType == /\ comments \in Seq(PubComment)
           /\ ciRun \in [CIRuns -> PubRun]
           /\ traffic.ids \in Nat /\ traffic.runs \in Nat /\ traffic.shown \in Nat
           /\ traffic.overlap \in BOOLEAN /\ traffic.shifted \in BOOLEAN
           /\ traffic = [others |-> traffic.others, lost |-> traffic.lost, ids |-> traffic.ids, runs |-> traffic.runs,
                        overlap |-> traffic.overlap, shifted |-> traffic.shifted, shown |-> traffic.shown]
PubThread == /\ Len(comments) <= traffic.ids
             /\ \A i \in DOMAIN comments : /\ 0 < comments[i].id /\ comments[i].id <= traffic.ids
                                           /\ comments[i].mine => comments[i].marked
             /\ \A i, k \in DOMAIN comments : comments[i].id = comments[k].id => i = k
PubOne == ~traffic.overlap => \A r, s \in CIRuns : P!Looking(r) /\ P!Looking(s) => r = s
Calm == ~traffic.overlap /\ ~traffic.shifted /\ traffic.ids <= PerPage * MaxPages
PubSeen == Calm => \A r \in CIRuns :
    /\ ciRun[r].at = "look" => \A i \in DOMAIN comments : comments[i].mine => PerPage * (ciRun[r].page - 1) < i
    /\ ciRun[r].at = "write" /\ ciRun[r].found = 0 => \A i \in DOMAIN comments : ~comments[i].mine
PubOurs == Calm => /\ \A i, k \in DOMAIN comments : comments[i].mine /\ comments[k].mine => i = k
                   /\ \A i \in DOMAIN comments : comments[i].mine => comments[i].rev = traffic.shown
PubInd == PubType /\ PubThread /\ PubOne /\ PubSeen /\ PubOurs

(* A set of numbers that is not empty has its least element.               *)
LEMMA Least ==
    ASSUME NEW X, X \subseteq Nat, X # {}
    PROVE  (CHOOSE i \in X : \A l \in X : i <= l) \in X
<1> DEFINE Less == {ss \in Nat \X Nat : ss[1] < ss[2]}
<1>1. Less = OpToRel(<, Nat)
  BY DEF OpToRel
<1> HIDE DEF Less
<1>2. PICK x \in X : \A y \in X : ~(<<y, x>> \in Less)
  BY <1>1, WFMin, NatLessThanWellFounded
<1>3. ASSUME NEW y \in X PROVE x <= y
  <2>1. x \in Nat /\ y \in Nat /\ ~(<<y, x>> \in Less)
    BY <1>2
  <2>2. <<y, x>> \in Nat \X Nat /\ <<y, x>>[1] = y /\ <<y, x>>[2] = x
    BY <2>1
  <2>3. ~(y < x)
    BY <2>1, <2>2 DEF Less
  <2> QED
    BY <2>1, <2>3
<1> QED
  BY <1>3

LEMMA PubInit == MaxPages \in Nat \ {0} /\ P!Init => PubInd
<1> SUFFICES ASSUME MaxPages \in Nat \ {0}, P!Init PROVE PubInd
  OBVIOUS
<1>1. P!Free \in PubRun
  BY DEF P!Free, PubRun
<1>2. PubType
  BY <1>1 DEF P!Init, PubType
<1>3. DOMAIN comments = {} /\ Len(comments) = 0 /\ \A r \in CIRuns : ciRun[r].at = "free"
  BY DEF P!Init, P!Free
<1> QED
  BY <1>2, <1>3 DEF P!Init, PubInd, PubThread, PubOne, PubSeen, PubOurs, P!Looking

(* A page has the comments of its numbers, and a page that is not full is  *)
(* the last one.                                                           *)
LEMMA PubPage ==
    ASSUME comments \in Seq(PubComment), PerPage \in Nat \ {0}, NEW k \in Nat \ {0}
    PROVE  /\ P!Page(k) \in Seq(PubComment) /\ PerPage * (k - 1) \in Nat
              /\ PerPage * k = PerPage * (k - 1) + PerPage
           /\ \A i \in DOMAIN P!Page(k) : PerPage * (k - 1) + i \in DOMAIN comments
              /\ P!Page(k)[i] = comments[PerPage * (k - 1) + i]
           /\ \A i \in DOMAIN comments : PerPage * (k - 1) < i /\ i <= PerPage * k
                  => \E l \in DOMAIN P!Page(k) : P!Page(k)[l] = comments[i]
           /\ Len(P!Page(k)) < PerPage => Len(comments) < PerPage * k
<1> DEFINE a == PerPage * (k - 1)
           b == PerPage * k
<1>1. a \in Nat /\ b \in Nat /\ b = a + PerPage
  OBVIOUS
<1> HIDE DEF a, b
<1> DEFINE e == IF b < Len(comments) THEN b ELSE Len(comments)
<1>2. P!Page(k) = SubSeq(comments, a + 1, e)
  BY DEF P!Page, a, b
<1>3. e \in Nat /\ e <= Len(comments) /\ e <= b /\ (e = b \/ e = Len(comments)) /\ Len(comments) \in Nat
  BY <1>1
<1> HIDE DEF e
<1>4. /\ P!Page(k) \in Seq(PubComment)
      /\ Len(P!Page(k)) = IF a + 1 <= e THEN e - a ELSE 0
      /\ \A i \in 1..(e - a) : P!Page(k)[i] = comments[a + i]
  BY <1>1, <1>2, <1>3
<1>5. \A i \in DOMAIN P!Page(k) : a + i \in DOMAIN comments /\ P!Page(k)[i] = comments[a + i]
  BY <1>1, <1>3, <1>4
<1>6. ASSUME NEW i \in DOMAIN comments, a < i, i <= b PROVE \E l \in DOMAIN P!Page(k) : P!Page(k)[l] = comments[i]
  <2>1. i - a \in DOMAIN P!Page(k) /\ a + (i - a) = i
    BY <1>1, <1>3, <1>4, <1>6
  <2> QED
    BY <1>5, <2>1
<1>7. Len(P!Page(k)) < PerPage => Len(comments) < b
  BY <1>1, <1>3, <1>4
<1> QED
  BY <1>1, <1>4, <1>5, <1>6, <1>7 DEF a, b

(* A run that begins, and one that looks at a page.                        *)
LEMMA PubPublish ==
    ASSUME PubInd, MaxPages \in Nat \ {0}, PerPage \in Nat \ {0}, NEW r \in CIRuns, P!Publish(r)
    PROVE  PubInd'
<1>1. comments' = comments /\ ciRun[r].at = "free"
  BY DEF P!Publish
<1>2. CASE UNCHANGED <<ciRun, traffic>>
  BY <1>1, <1>2 DEF PubInd, PubType, PubThread, PubOne, PubSeen, PubOurs, Calm, P!Looking
<1>3. CASE ~(UNCHANGED <<ciRun, traffic>>)
  <2> DEFINE some == \E s \in CIRuns : P!Looking(s)
  <2>1. PICK dry \in BOOLEAN :
          /\ ciRun' = [ciRun EXCEPT ![r] = [P!Free EXCEPT !.at = "look", !.rev = traffic.runs + 1, !.dry = dry]]
          /\ traffic' = [traffic EXCEPT !.runs = @ + 1, !.overlap = @ \/ some]
    BY <1>3 DEF P!Publish
  <2>2. PICK j : j = [P!Free EXCEPT !.at = "look", !.rev = traffic.runs + 1, !.dry = dry]
    OBVIOUS
  <2>3. j \in PubRun /\ j.at = "look" /\ j.page = 1 /\ ciRun' = [ciRun EXCEPT ![r] = j]
    <3>1. j = [at |-> "look", page |-> 1, found |-> 0, rev |-> traffic.runs + 1, dry |-> dry]
      BY <2>2 DEF P!Free
    <3>2. traffic.runs + 1 \in Nat
      BY DEF PubInd, PubType
    <3>3. ciRun' = [ciRun EXCEPT ![r] = j]
      BY <2>1, <2>2
    <3> QED
      BY <3>1, <3>2, <3>3 DEF PubRun
  <2> HIDE DEF some
  <2>4. traffic'.ids = traffic.ids /\ traffic'.runs = traffic.runs + 1 /\ traffic'.shown = traffic.shown
        /\ traffic'.shifted = traffic.shifted
    BY <2>1 DEF PubInd, PubType
  <2>5. traffic'.overlap = (traffic.overlap \/ some)
    BY <2>1 DEF PubInd, PubType
  <2>6. traffic'.overlap \in BOOLEAN /\ (traffic'.overlap <=> traffic.overlap \/ some)
    BY <2>5
  <2>7. traffic' = [others |-> traffic'.others, lost |-> traffic'.lost, ids |-> traffic'.ids, runs |-> traffic'.runs,
                   overlap |-> traffic'.overlap, shifted |-> traffic'.shifted, shown |-> traffic'.shown]
    BY <2>1 DEF PubInd, PubType
  <2>8. PubType'
    BY <1>1, <2>3, <2>4, <2>6, <2>7 DEF PubInd, PubType
  <2>9. ciRun'[r] = j /\ \A s \in CIRuns \ {r} : ciRun'[s] = ciRun[s]
    BY <2>3 DEF PubInd, PubType
  <2>10. PubThread'
    BY <1>1, <2>4 DEF PubInd, PubThread
  <2>11. PubOne'
    BY <2>6, <2>9 DEF PubInd, PubOne, P!Looking, some
  <2>12. Calm' => Calm
    BY <2>4, <2>6 DEF Calm
  <2>13. PubOurs'
    BY <1>1, <2>4, <2>12 DEF PubInd, PubOurs
  <2>14. PubSeen'
    <3>1. PerPage * (1 - 1) = 0
      OBVIOUS
    <3> QED
      BY <1>1, <2>3, <2>9, <2>12, <3>1 DEF PubInd, PubSeen, PubType
  <2> QED
    BY <2>8, <2>10, <2>11, <2>13, <2>14 DEF PubInd
<1> QED
  BY <1>2, <1>3

(* A run that looks or writes, of which only what it found has changed.    *)
LEMMA PubOther ==
    ASSUME PubInd, NEW r \in CIRuns, NEW j \in PubRun, ciRun' = [ciRun EXCEPT ![r] = j],
           UNCHANGED <<comments, traffic>>, P!Looking(r)
    PROVE  /\ PubType' /\ PubThread' /\ PubOne' /\ PubOurs' /\ (Calm' <=> Calm)
           /\ ciRun'[r] = j /\ \A s \in CIRuns \ {r} : ciRun'[s] = ciRun[s]
<1>1. ciRun'[r] = j /\ \A s \in CIRuns \ {r} : ciRun'[s] = ciRun[s]
  BY DEF PubInd, PubType
<1>2. PubType'
  BY DEF PubInd, PubType
<1>3. PubThread' /\ PubOurs' /\ (Calm' <=> Calm)
  BY DEF PubInd, PubThread, PubOurs, Calm
<1>4. PubOne'
  BY <1>1 DEF PubInd, PubOne, P!Looking
<1> QED
  BY <1>1, <1>2, <1>3, <1>4

LEMMA PubLook ==
    ASSUME PubInd, MaxPages \in Nat \ {0}, PerPage \in Nat \ {0}, NEW r \in CIRuns, P!Look(r)
    PROVE  PubInd'
<1> DEFINE k == ciRun[r].page
           hits == {i \in DOMAIN P!Page(k) : P!Page(k)[i].marked}
<1>1. /\ ciRun[r].at = "look" /\ UNCHANGED <<comments, traffic>> /\ ciRun[r] \in PubRun /\ k \in Nat \ {0}
         /\ k <= MaxPages /\ P!Looking(r)
  BY DEF P!Look, PubInd, PubType, PubRun, P!Looking
<1>2. comments \in Seq(PubComment) /\ ciRun \in [CIRuns -> PubRun] /\ traffic.ids \in Nat
  BY DEF PubInd, PubType
<1>3. ciRun' = [ciRun EXCEPT ![r] =
              IF hits # {} THEN [ciRun[r] EXCEPT !.at = "write", !.found = P!Page(k)[CHOOSE i \in hits : \A j \in hits : i <= j].id]
              ELSE IF P!LastPage(k) THEN [ciRun[r] EXCEPT !.at = "write"]
              ELSE [ciRun[r] EXCEPT !.page = ciRun[r].page + 1]]
  BY <1>1, <1>2 DEF P!Look
<1>4. /\ P!Page(k) \in Seq(PubComment) /\ PerPage * (k - 1) \in Nat
         /\ PerPage * k = PerPage * (k - 1) + PerPage
      /\ \A i \in DOMAIN P!Page(k) : PerPage * (k - 1) + i \in DOMAIN comments
         /\ P!Page(k)[i] = comments[PerPage * (k - 1) + i]
      /\ \A i \in DOMAIN comments : PerPage * (k - 1) < i /\ i <= PerPage * k
             => \E l \in DOMAIN P!Page(k) : P!Page(k)[l] = comments[i]
      /\ Len(P!Page(k)) < PerPage => Len(comments) < PerPage * k
  BY <1>1, <1>2, PubPage
<1>5. CASE hits # {}
  <2> DEFINE n == CHOOSE i \in hits : \A j \in hits : i <= j
  <2>1. n \in hits
    <3>1. hits \subseteq Nat
      BY <1>4
    <3> HIDE DEF hits
    <3> QED
      BY <1>5, <3>1, Least
  <2>2. P!Page(k)[n].id \in Nat /\ P!Page(k)[n].id # 0
    <3>1. n \in DOMAIN P!Page(k)
      BY <2>1
    <3> HIDE DEF n, hits, k
    <3>2. PICK i \in DOMAIN comments : P!Page(k)[n] = comments[i]
      BY <1>4, <3>1
    <3>3. comments[i] \in PubComment /\ 0 < comments[i].id
      BY <1>2, <3>2 DEF PubInd, PubThread
    <3>4. comments[i].id \in Nat
      BY <3>3 DEF PubComment
    <3> QED
      BY <3>2, <3>3, <3>4
  <2>3. PICK j : j = [ciRun[r] EXCEPT !.at = "write", !.found = P!Page(k)[n].id]
    OBVIOUS
  <2>4. j.at = "write" /\ j.found # 0 /\ j \in PubRun
    BY <1>1, <2>2, <2>3 DEF PubRun
  <2>5. ciRun' = [ciRun EXCEPT ![r] = j]
    BY <1>3, <1>5, <2>3
  <2> HIDE DEF n, hits, k
  <2>6. /\ PubType' /\ PubThread' /\ PubOne' /\ PubOurs' /\ (Calm' <=> Calm)
        /\ ciRun'[r] = j /\ \A s \in CIRuns \ {r} : ciRun'[s] = ciRun[s]
    BY <1>1, <2>4, <2>5, PubOther
  <2>7. PubSeen'
    BY <1>1, <2>4, <2>6 DEF PubInd, PubSeen
  <2> QED
    BY <2>6, <2>7 DEF PubInd
<1>6. ASSUME hits = {}, Calm
      PROVE \A i \in DOMAIN comments : comments[i].mine => PerPage * k < i
  <2> SUFFICES ASSUME NEW i \in DOMAIN comments, comments[i].mine PROVE PerPage * k < i
    OBVIOUS
  <2>1. PerPage * (k - 1) < i
    BY <1>1, <1>6 DEF PubInd, PubSeen
  <2>2. comments[i].marked
    BY DEF PubInd, PubThread
  <2>3. ~(i <= PerPage * k)
    BY <1>4, <1>6, <2>1, <2>2
  <2>4. i \in Nat /\ PerPage * k \in Nat
    BY <1>2, <1>4
  <2> QED
    BY <2>3, <2>4
<1>7. CASE hits = {} /\ P!LastPage(k)
  <2>1. PICK j : j = [ciRun[r] EXCEPT !.at = "write"]
    OBVIOUS
  <2>2. j.at = "write" /\ j \in PubRun
    BY <1>1, <2>1 DEF PubRun
  <2>3. ciRun' = [ciRun EXCEPT ![r] = j]
    BY <1>3, <1>7, <2>1
  <2>4. Calm => \A i \in DOMAIN comments : ~comments[i].mine
    <3> SUFFICES ASSUME Calm, NEW i \in DOMAIN comments, comments[i].mine PROVE FALSE
      OBVIOUS
    <3>1. PerPage * k < i /\ i <= Len(comments) /\ Len(comments) <= traffic.ids
          /\ traffic.ids <= PerPage * MaxPages
      BY <1>2, <1>6, <1>7 DEF PubInd, PubThread, Calm
    <3>2. Len(comments) \in Nat /\ i \in Nat /\ PerPage * k \in Nat /\ PerPage * MaxPages \in Nat
      BY <1>2, <1>4
    <3>3. k # MaxPages
      BY <1>2, <3>1, <3>2
    <3>4. Len(comments) < PerPage * k
      BY <1>4, <1>7, <3>3 DEF P!LastPage
    <3> HIDE DEF k
    <3> QED
      BY <3>1, <3>2, <3>4
  <2> HIDE DEF hits, k
  <2>5. /\ PubType' /\ PubThread' /\ PubOne' /\ PubOurs' /\ (Calm' <=> Calm)
        /\ ciRun'[r] = j /\ \A s \in CIRuns \ {r} : ciRun'[s] = ciRun[s]
    BY <1>1, <2>2, <2>3, PubOther
  <2>6. PubSeen'
    BY <1>1, <2>2, <2>4, <2>5 DEF PubInd, PubSeen
  <2> QED
    BY <2>5, <2>6 DEF PubInd
<1>8. CASE hits = {} /\ ~P!LastPage(k)
  <2>1. PICK j : j = [ciRun[r] EXCEPT !.page = @ + 1]
    OBVIOUS
  <2>2. j.at = "look" /\ j \in PubRun /\ j.page = k + 1 /\ j.page - 1 = k
    <3>1. k + 1 \in 1..MaxPages
      BY <1>1, <1>8 DEF P!LastPage
    <3> QED
      BY <1>1, <2>1, <3>1 DEF PubRun
  <2>3. ciRun' = [ciRun EXCEPT ![r] = j]
    BY <1>3, <1>8, <2>1
  <2>4. Calm => \A i \in DOMAIN comments : comments[i].mine => PerPage * k < i
    BY <1>6, <1>8
  <2> HIDE DEF hits, k
  <2>5. /\ PubType' /\ PubThread' /\ PubOne' /\ PubOurs' /\ (Calm' <=> Calm)
        /\ ciRun'[r] = j /\ \A s \in CIRuns \ {r} : ciRun'[s] = ciRun[s]
    BY <1>1, <2>2, <2>3, PubOther
  <2>6. PubSeen'
    BY <1>1, <2>2, <2>4, <2>5 DEF PubInd, PubSeen
  <2> QED
    BY <2>5, <2>6 DEF PubInd
<1> HIDE DEF hits, k
<1> QED
  BY <1>5, <1>7, <1>8

LEMMA PubLost ==
    ASSUME PubInd, MaxPages \in Nat \ {0}, PerPage \in Nat \ {0}, NEW r \in CIRuns, P!Lost(r)
    PROVE  PubInd'
<1>1. /\ ciRun' = [ciRun EXCEPT ![r] = P!Free] /\ traffic' = [traffic EXCEPT !.lost = @ + 1]
         /\ comments' = comments /\ P!Looking(r)
  BY DEF P!Lost
<1>2. P!Free \in PubRun /\ P!Free.at = "free"
  BY DEF P!Free, PubRun
<1>3. ciRun'[r] = P!Free /\ \A s \in CIRuns \ {r} : ciRun'[s] = ciRun[s]
  BY <1>1 DEF PubInd, PubType
<1>4. traffic'.ids = traffic.ids /\ traffic'.runs = traffic.runs /\ traffic'.shown = traffic.shown
      /\ traffic'.overlap = traffic.overlap /\ traffic'.shifted = traffic.shifted
  BY <1>1 DEF PubInd, PubType
<1>5. traffic' = [others |-> traffic'.others, lost |-> traffic'.lost, ids |-> traffic'.ids, runs |-> traffic'.runs,
                 overlap |-> traffic'.overlap, shifted |-> traffic'.shifted, shown |-> traffic'.shown]
  BY <1>1 DEF PubInd, PubType
<1>6. PubType'
  BY <1>1, <1>2, <1>4, <1>5 DEF PubInd, PubType
<1>7. PubThread' /\ PubOurs' /\ (Calm' <=> Calm)
  BY <1>1, <1>4 DEF PubInd, PubThread, PubOurs, Calm
<1>8. PubOne'
  BY <1>2, <1>3, <1>4 DEF PubInd, PubOne, P!Looking
<1>9. PubSeen'
  BY <1>1, <1>2, <1>3, <1>7 DEF PubInd, PubSeen
<1> QED
  BY <1>6, <1>7, <1>8, <1>9 DEF PubInd

(* A comment more at the end of the thread.                                *)
LEMMA PubAppend ==
    ASSUME PubInd, NEW mine \in BOOLEAN, NEW signed \in BOOLEAN, NEW rev \in Nat, mine => signed,
           comments' = Append(comments, P!Comment(traffic.ids + 1, mine, signed, rev)),
           traffic'.ids = traffic.ids + 1
    PROVE  /\ comments' \in Seq(PubComment) /\ PubThread'
           /\ \A i \in DOMAIN comments : i \in DOMAIN comments' /\ comments'[i] = comments[i]
           /\ \A i \in DOMAIN comments' : i \in DOMAIN comments \/ i = Len(comments) + 1
           /\ comments'[Len(comments) + 1].mine = mine /\ comments'[Len(comments) + 1].rev = rev
<1>1. comments \in Seq(PubComment) /\ traffic.ids \in Nat
  BY DEF PubInd, PubType
<1>2. PICK c : c = P!Comment(traffic.ids + 1, mine, signed, rev)
  OBVIOUS
<1>3. c \in PubComment /\ c.id = traffic.ids + 1 /\ c.mine = mine /\ c.marked = signed /\ c.rev = rev
  BY <1>1, <1>2 DEF P!Comment, PubComment
<1>4. comments' = Append(comments, c)
  BY <1>2
<1>5. /\ comments' \in Seq(PubComment) /\ Len(comments') = Len(comments) + 1
         /\ comments'[Len(comments) + 1] = c
      /\ \A i \in DOMAIN comments : i \in DOMAIN comments' /\ comments'[i] = comments[i]
      /\ \A i \in DOMAIN comments' : i \in DOMAIN comments \/ i = Len(comments) + 1
  BY <1>1, <1>3, <1>4
<1>6. PubThread'
  <2>1. Len(comments') <= traffic'.ids
    BY <1>1, <1>5 DEF PubInd, PubThread
  <2>2. \A i \in DOMAIN comments : comments[i].id \in Nat /\ 0 < comments[i].id
        /\ comments[i].id <= traffic.ids
                                 /\ (comments[i].mine => comments[i].marked)
    <3> SUFFICES ASSUME NEW i \in DOMAIN comments PROVE comments[i].id \in Nat
      BY DEF PubInd, PubThread
    <3>1. comments[i] \in PubComment
      BY <1>1
    <3> QED
      BY <3>1 DEF PubComment
  <2>3. \A i \in DOMAIN comments' : /\ 0 < comments'[i].id /\ comments'[i].id <= traffic'.ids
                                    /\ comments'[i].mine => comments'[i].marked
    BY <1>1, <1>3, <1>5, <2>2
  <2>4. ASSUME NEW i \in DOMAIN comments', NEW k \in DOMAIN comments', comments'[i].id = comments'[k].id PROVE i = k
    <3>1. CASE i \in DOMAIN comments /\ k \in DOMAIN comments
      BY <1>5, <2>4, <3>1 DEF PubInd, PubThread
    <3>2. CASE ~(i \in DOMAIN comments /\ k \in DOMAIN comments)
      BY <1>1, <1>3, <1>5, <2>2, <2>4, <3>2
    <3> QED
      BY <3>1, <3>2
  <2> QED
    BY <2>1, <2>3, <2>4 DEF PubThread
<1> QED
  BY <1>3, <1>5, <1>6

LEMMA PubOthers ==
    ASSUME PubInd, MaxPages \in Nat \ {0}, PerPage \in Nat \ {0}, P!Others
    PROVE  PubInd'
<1>1. PICK quote \in BOOLEAN : /\ comments' = Append(comments, P!Comment(traffic.ids + 1, FALSE, quote, 0))
                               /\ traffic' = [traffic EXCEPT !.ids = @ + 1, !.others = @ + 1]
                               /\ UNCHANGED ciRun
  BY DEF P!Others
<1>2. traffic'.ids = traffic.ids + 1 /\ traffic'.runs = traffic.runs /\ traffic'.shown = traffic.shown
      /\ traffic'.overlap = traffic.overlap /\ traffic'.shifted = traffic.shifted
  BY <1>1 DEF PubInd, PubType
<1>3. traffic' = [others |-> traffic'.others, lost |-> traffic'.lost, ids |-> traffic'.ids, runs |-> traffic'.runs,
                 overlap |-> traffic'.overlap, shifted |-> traffic'.shifted, shown |-> traffic'.shown]
  BY <1>1 DEF PubInd, PubType
<1>4. /\ comments' \in Seq(PubComment) /\ PubThread'
      /\ \A i \in DOMAIN comments : i \in DOMAIN comments' /\ comments'[i] = comments[i]
      /\ \A i \in DOMAIN comments' : i \in DOMAIN comments \/ i = Len(comments) + 1
      /\ comments'[Len(comments) + 1].mine = FALSE /\ comments'[Len(comments) + 1].rev = 0
  BY <1>1, <1>2, PubAppend
<1>5. traffic.ids \in Nat /\ PerPage * MaxPages \in Nat
  BY DEF PubInd, PubType
<1>6. Calm' => Calm
  <2>1. PICK room : room = PerPage * MaxPages
    OBVIOUS
  <2> QED
    BY <1>2, <1>5, <2>1 DEF Calm
<1>7. PubType'
  <2>1. traffic'.overlap \in BOOLEAN /\ traffic'.shifted \in BOOLEAN
    BY <1>2 DEF PubInd, PubType
  <2>2. traffic'.ids \in Nat /\ traffic'.runs \in Nat /\ traffic'.shown \in Nat
    BY <1>2 DEF PubInd, PubType
  <2>3. ciRun' \in [CIRuns -> PubRun]
    BY <1>1 DEF PubInd, PubType
  <2> QED
    BY <1>3, <1>4, <2>1, <2>2, <2>3 DEF PubType
<1>8. PubOne'
  BY <1>1, <1>2 DEF PubInd, PubOne, P!Looking
<1>9. \A i \in DOMAIN comments' : comments'[i].mine => i \in DOMAIN comments /\ comments'[i] = comments[i]
  BY <1>4
<1>10. PubSeen'
  <2> SUFFICES ASSUME Calm' PROVE \A r \in CIRuns :
        /\ ciRun'[r].at = "look" => \A i \in DOMAIN comments' : comments'[i].mine => PerPage * (ciRun'[r].page - 1) < i
        /\ ciRun'[r].at = "write" /\ ciRun'[r].found = 0 => \A i \in DOMAIN comments' : ~comments'[i].mine
    BY DEF PubSeen
  <2>1. ciRun' = ciRun
    BY <1>1
  <2> QED
    BY <1>6, <1>9, <2>1 DEF PubInd, PubSeen
<1>11. PubOurs'
  <2> SUFFICES ASSUME Calm'
               PROVE  /\ \A i, k \in DOMAIN comments' : comments'[i].mine /\ comments'[k].mine => i = k
                      /\ \A i \in DOMAIN comments' : comments'[i].mine => comments'[i].rev = traffic'.shown
    BY DEF PubOurs
  <2> QED
    BY <1>2, <1>6, <1>9 DEF PubInd, PubOurs
<1> QED
  BY <1>4, <1>7, <1>8, <1>10, <1>11 DEF PubInd

(* A comment is deleted: those behind it move up.                          *)
LEMMA PubDelete ==
    ASSUME PubInd, MaxPages \in Nat \ {0}, PerPage \in Nat \ {0}, P!Delete
    PROVE  PubInd'
<1> DEFINE some == \E r \in CIRuns : P!Looking(r)
<1>1. PICK d \in DOMAIN comments : /\ comments' = P!RemoveAt(comments, d)
                                   /\ traffic' = [traffic EXCEPT !.others = @ + 1, !.shifted = @ \/ some]
                                   /\ UNCHANGED ciRun
  BY DEF P!Delete
<1> HIDE DEF some
<1>2. traffic'.ids = traffic.ids /\ traffic'.runs = traffic.runs /\ traffic'.shown = traffic.shown
      /\ traffic'.overlap = traffic.overlap
  BY <1>1 DEF PubInd, PubType
<1>3. traffic'.shifted = (traffic.shifted \/ some)
  BY <1>1 DEF PubInd, PubType
<1>4. traffic' = [others |-> traffic'.others, lost |-> traffic'.lost, ids |-> traffic'.ids, runs |-> traffic'.runs,
                 overlap |-> traffic'.overlap, shifted |-> traffic'.shifted, shown |-> traffic'.shown]
  BY <1>1 DEF PubInd, PubType
<1>5. comments \in Seq(PubComment)
  BY DEF PubInd, PubType
<1>6. /\ comments' \in Seq(PubComment) /\ Len(comments') = Len(comments) - 1
      /\ \A i \in DOMAIN comments' : comments'[i] = comments[IF i < d THEN i ELSE i + 1]
  <2>1. comments' = SubSeq(comments, 1, d - 1) \o SubSeq(comments, d + 1, Len(comments))
    BY <1>1 DEF P!RemoveAt
  <2>2. PICK low, high : low = SubSeq(comments, 1, d - 1) /\ high = SubSeq(comments, d + 1, Len(comments))
    OBVIOUS
  <2>3. /\ low \in Seq(PubComment) /\ Len(low) = d - 1 /\ \A i \in 1..(d - 1) : low[i] = comments[i]
        /\ high \in Seq(PubComment) /\ Len(high) = Len(comments) - d
        /\ \A i \in 1..(Len(comments) - d) : high[i] = comments[d + i]
    BY <1>5, <2>2
  <2>4. d \in 1..Len(comments) /\ Len(comments) \in Nat
    BY <1>5
  <2>5. comments' = low \o high
    BY <2>1, <2>2
  <2>6. /\ comments' \in Seq(PubComment) /\ Len(comments') = Len(low) + Len(high)
        /\ \A i \in 1..(Len(low) + Len(high)) : comments'[i] = IF i <= Len(low) THEN low[i] ELSE high[i - Len(low)]
    <3>1. low \in Seq(PubComment) /\ high \in Seq(PubComment)
      BY <2>3
    <3>2. low \o high \in Seq(PubComment) /\ Len(low \o high) = Len(low) + Len(high)
      BY <3>1
    <3>3. \A i \in 1..(Len(low) + Len(high)) : (low \o high)[i] = IF i <= Len(low) THEN low[i] ELSE high[i - Len(low)]
      BY <3>1
    <3> QED
      BY <2>5, <3>2, <3>3
  <2>7. Len(comments') = Len(comments) - 1 /\ DOMAIN comments' = 1..(Len(comments) - 1)
    BY <2>3, <2>4, <2>6
  <2>8. ASSUME NEW i \in DOMAIN comments' PROVE comments'[i] = comments[IF i < d THEN i ELSE i + 1]
    <3>1. i \in 1..(Len(low) + Len(high))
      BY <2>6
    <3>2. CASE i < d
      BY <2>3, <2>4, <2>6, <3>1, <3>2
    <3>3. CASE ~(i < d)
      <4>1. i - Len(low) \in 1..(Len(comments) - d) /\ d + (i - Len(low)) = i + 1 /\ ~(i <= Len(low))
        <5>1. i \in Int /\ 1 <= i /\ i <= Len(comments) - 1 /\ d \in Int /\ Len(comments) \in Int
              /\ Len(low) = d - 1
          BY <2>3, <2>4, <2>7
        <5>2. PICK n \in Int : n = Len(comments)
          BY <5>1
        <5> QED
          BY <3>3, <5>1, <5>2
      <4> QED
        BY <2>3, <2>6, <3>1, <3>3, <4>1
    <3> QED
      BY <3>2, <3>3
  <2> QED
    BY <2>6, <2>7, <2>8
<1>7. \A i \in DOMAIN comments' : \E h \in DOMAIN comments : comments'[i] = comments[h]
      /\ h = IF i < d THEN i ELSE i + 1
  BY <1>5, <1>6
<1>8. \A i, k \in DOMAIN comments' : (IF i < d THEN i ELSE i + 1) = (IF k < d THEN k ELSE k + 1) => i = k
  BY <1>5, <1>6
<1>9. PubThread'
  <2>1. Len(comments') <= traffic'.ids
    BY <1>2, <1>5, <1>6 DEF PubInd, PubThread, PubType
  <2>2. \A i \in DOMAIN comments' : /\ 0 < comments'[i].id /\ comments'[i].id <= traffic'.ids
                                    /\ comments'[i].mine => comments'[i].marked
    BY <1>2, <1>7 DEF PubInd, PubThread
  <2>3. \A i, k \in DOMAIN comments' : comments'[i].id = comments'[k].id => i = k
    BY <1>7, <1>8 DEF PubInd, PubThread
  <2> QED
    BY <2>1, <2>2, <2>3 DEF PubThread
<1>10. PubType'
  <2>1. traffic'.overlap \in BOOLEAN /\ traffic'.shifted \in BOOLEAN
    BY <1>2, <1>3 DEF PubInd, PubType
  <2>2. traffic'.ids \in Nat /\ traffic'.runs \in Nat /\ traffic'.shown \in Nat
    BY <1>2 DEF PubInd, PubType
  <2>3. ciRun' \in [CIRuns -> PubRun]
    BY <1>1 DEF PubInd, PubType
  <2> QED
    BY <1>4, <1>6, <2>1, <2>2, <2>3 DEF PubType
<1>11. Calm' => Calm /\ ~some
  BY <1>2, <1>3 DEF Calm
<1>12. PubOne'
  BY <1>1, <1>2 DEF PubInd, PubOne, P!Looking
<1>13. PubSeen'
  BY <1>1, <1>11 DEF PubSeen, some, P!Looking
<1>14. PubOurs'
  <2> SUFFICES ASSUME Calm'
               PROVE  /\ \A i, k \in DOMAIN comments' : comments'[i].mine /\ comments'[k].mine => i = k
                      /\ \A i \in DOMAIN comments' : comments'[i].mine => comments'[i].rev = traffic'.shown
    BY DEF PubOurs
  <2> QED
    BY <1>2, <1>7, <1>8, <1>11 DEF PubInd, PubOurs
<1> QED
  BY <1>9, <1>10, <1>12, <1>13, <1>14 DEF PubInd

(* The update of what was found, or the post when nothing was.             *)
LEMMA PubWrite ==
    ASSUME PubInd, MaxPages \in Nat \ {0}, PerPage \in Nat \ {0}, NEW r \in CIRuns, P!Write(r)
    PROVE  PubInd'
<1>1. ciRun[r].at = "write" /\ ciRun' = [ciRun EXCEPT ![r] = P!Free] /\ P!Looking(r)
  BY DEF P!Write, P!Looking
<1>2. P!Free \in PubRun /\ P!Free.at = "free"
  BY DEF P!Free, PubRun
<1>3. ciRun'[r] = P!Free /\ ciRun' \in [CIRuns -> PubRun] /\ \A s \in CIRuns \ {r} : ciRun'[s] = ciRun[s]
  BY <1>1, <1>2 DEF PubInd, PubType
<1>4. ciRun[r].found \in Nat /\ ciRun[r].rev \in Nat
  BY DEF PubInd, PubType, PubRun
<1>5. comments \in Seq(PubComment) /\ traffic.ids \in Nat /\ traffic.overlap \in BOOLEAN
      /\ traffic.shifted \in BOOLEAN
  BY DEF PubInd, PubType
<1>6. CASE UNCHANGED <<comments, traffic>>
  <2>1. PubType' /\ PubThread' /\ PubOne' /\ PubOurs' /\ (Calm' <=> Calm)
    BY <1>1, <1>2, <1>6, PubOther
  <2>2. PubSeen'
    BY <1>2, <1>3, <1>6, <2>1 DEF PubInd, PubSeen
  <2> QED
    BY <2>1, <2>2 DEF PubInd
<1>7. CASE /\ ciRun[r].found # 0 /\ P!IsMine(ciRun[r].found)
           /\ comments' = [i \in DOMAIN comments |->
                           IF comments[i].id = ciRun[r].found THEN [comments[i] EXCEPT !.rev = ciRun[r].rev]
                           ELSE comments[i]]
           /\ traffic' = [traffic EXCEPT !.shown = ciRun[r].rev]
  <2>1. traffic'.ids = traffic.ids /\ traffic'.runs = traffic.runs /\ traffic'.shown = ciRun[r].rev
        /\ traffic'.overlap = traffic.overlap /\ traffic'.shifted = traffic.shifted
    BY <1>7 DEF PubInd, PubType
  <2>2. traffic' = [others |-> traffic'.others, lost |-> traffic'.lost, ids |-> traffic'.ids, runs |-> traffic'.runs,
                   overlap |-> traffic'.overlap, shifted |-> traffic'.shifted, shown |-> traffic'.shown]
    BY <1>7 DEF PubInd, PubType
  <2>3. /\ DOMAIN comments' = DOMAIN comments
        /\ \A i \in DOMAIN comments : comments'[i] \in PubComment /\ comments'[i].id = comments[i].id
              /\ comments'[i].mine = comments[i].mine /\ comments'[i].marked = comments[i].marked
              /\ (comments[i].id = ciRun[r].found => comments'[i].rev = ciRun[r].rev)
    <3>1. DOMAIN comments' = DOMAIN comments
      BY <1>7
    <3>2. ASSUME NEW i \in DOMAIN comments
          PROVE  /\ comments'[i] \in PubComment /\ comments'[i].id = comments[i].id
                 /\ comments'[i].mine = comments[i].mine /\ comments'[i].marked = comments[i].marked
                 /\ (comments[i].id = ciRun[r].found => comments'[i].rev = ciRun[r].rev)
      <4>1. comments[i] \in PubComment
        BY <1>5
      <4>2. comments'[i] = IF comments[i].id = ciRun[r].found THEN [comments[i] EXCEPT !.rev = ciRun[r].rev] ELSE comments[i]
        BY <1>7
      <4>3. PICK c : c = comments[i]
        OBVIOUS
      <4>4. PICK b : b = [c EXCEPT !.rev = ciRun[r].rev]
        OBVIOUS
      <4>5. c = [id |-> c.id, mine |-> c.mine, marked |-> c.marked, rev |-> c.rev] /\ c.id \in Nat
            /\ c.mine \in BOOLEAN /\ c.marked \in BOOLEAN
        BY <4>1, <4>3 DEF PubComment
      <4>6. b = [id |-> c.id, mine |-> c.mine, marked |-> c.marked, rev |-> ciRun[r].rev]
        BY <4>4, <4>5
      <4>7. b \in PubComment /\ b.id = c.id /\ b.mine = c.mine /\ b.marked = c.marked
            /\ b.rev = ciRun[r].rev
        BY <1>4, <4>5, <4>6 DEF PubComment
      <4>8. comments'[i] = b \/ (comments'[i] = c /\ comments[i].id # ciRun[r].found)
        BY <4>2, <4>3, <4>4
      <4> QED
        BY <4>1, <4>3, <4>7, <4>8
    <3> QED
      BY <3>1, <3>2
  <2>4. comments' \in Seq(PubComment) /\ Len(comments') = Len(comments)
    <3>1. DOMAIN comments = 1..Len(comments) /\ Len(comments) \in Nat
      BY <1>5
    <3>2. comments' = [i \in 1..Len(comments) |-> comments'[i]]
      BY <1>7, <3>1
    <3> QED
      BY <2>3, <3>1, <3>2
  <2>5. PubType'
    <3>1. traffic'.overlap \in BOOLEAN /\ traffic'.shifted \in BOOLEAN
      BY <1>5, <2>1
    <3>2. traffic'.ids \in Nat /\ traffic'.runs \in Nat /\ traffic'.shown \in Nat
      BY <1>4, <2>1 DEF PubInd, PubType
    <3> QED
      BY <1>3, <2>2, <2>4, <3>1, <3>2 DEF PubType
  <2>6. PubThread'
    <3>1. Len(comments') <= traffic'.ids
      BY <2>1, <2>4 DEF PubInd, PubThread
    <3>2. \A i \in DOMAIN comments' : 0 < comments'[i].id /\ comments'[i].id <= traffic'.ids
      BY <2>1, <2>3 DEF PubInd, PubThread
    <3>3. \A i \in DOMAIN comments' : comments'[i].mine => comments'[i].marked
      BY Zenon, <2>3 DEF PubInd, PubThread
    <3>4. \A i, k \in DOMAIN comments' : comments'[i].id = comments'[k].id => i = k
      BY <2>3 DEF PubInd, PubThread
    <3> QED
      BY <3>1, <3>2, <3>3, <3>4 DEF PubThread
  <2>7. PubOne'
    BY <1>1, <1>2, <1>3, <2>1 DEF PubInd, PubOne, P!Looking
  <2>8. Calm' <=> Calm
    BY <2>1 DEF Calm
  <2>9. PubSeen'
    <3>1. \A s \in CIRuns : ciRun'[s].at = "free" \/ ciRun'[s] = ciRun[s]
      BY <1>2, <1>3
    <3>2. ASSUME Calm', NEW s \in CIRuns
          PROVE  /\ ciRun'[s].at = "look" => \A i \in DOMAIN comments' : comments'[i].mine => PerPage * (ciRun'[s].page - 1) < i
                 /\ ciRun'[s].at = "write"
                    /\ ciRun'[s].found = 0 => \A i \in DOMAIN comments' : ~comments'[i].mine
      <4>1. CASE ciRun'[s].at = "free"
        BY <4>1
      <4>2. CASE ciRun'[s] = ciRun[s]
        BY <2>3, <2>8, <3>2, <4>2 DEF PubInd, PubSeen
      <4> QED
        BY <3>1, <4>1, <4>2
    <3> QED
      BY <3>2 DEF PubSeen
  <2>10. PubOurs'
    <3>1. PICK o \in DOMAIN comments : comments[o].id = ciRun[r].found /\ comments[o].mine
      BY <1>7 DEF P!IsMine
    <3>2. \A i \in DOMAIN comments' : i \in DOMAIN comments /\ (comments'[i].mine <=> comments[i].mine)
      BY <2>3
    <3>3. ASSUME Calm' PROVE \A i, k \in DOMAIN comments' : comments'[i].mine
                 /\ comments'[k].mine => i = k
      BY <2>8, <3>2, <3>3 DEF PubInd, PubOurs
    <3>4. ASSUME Calm', NEW i \in DOMAIN comments', comments'[i].mine PROVE comments'[i].rev = traffic'.shown
      <4>1. i = o
        BY <2>8, <3>1, <3>2, <3>4 DEF PubInd, PubOurs
      <4> QED
        BY <2>1, <2>3, <3>1, <4>1
    <3> QED
      BY <3>3, <3>4 DEF PubOurs
  <2> QED
    BY <2>5, <2>6, <2>7, <2>9, <2>10 DEF PubInd
<1>8. CASE /\ ciRun[r].found = 0
           /\ comments' = Append(comments, P!Comment(traffic.ids + 1, TRUE, TRUE, ciRun[r].rev))
           /\ traffic' = [traffic EXCEPT !.ids = @ + 1, !.shown = ciRun[r].rev]
  <2>1. traffic'.ids = traffic.ids + 1 /\ traffic'.runs = traffic.runs /\ traffic'.shown = ciRun[r].rev
        /\ traffic'.overlap = traffic.overlap /\ traffic'.shifted = traffic.shifted
    BY <1>8 DEF PubInd, PubType
  <2>2. traffic' = [others |-> traffic'.others, lost |-> traffic'.lost, ids |-> traffic'.ids, runs |-> traffic'.runs,
                   overlap |-> traffic'.overlap, shifted |-> traffic'.shifted, shown |-> traffic'.shown]
    BY <1>8 DEF PubInd, PubType
  <2>3. /\ comments' \in Seq(PubComment) /\ PubThread'
        /\ \A i \in DOMAIN comments : i \in DOMAIN comments' /\ comments'[i] = comments[i]
        /\ \A i \in DOMAIN comments' : i \in DOMAIN comments \/ i = Len(comments) + 1
        /\ comments'[Len(comments) + 1].mine = TRUE /\ comments'[Len(comments) + 1].rev = ciRun[r].rev
    BY <1>4, <1>8, <2>1, PubAppend
  <2>4. PubType'
    <3>1. traffic'.overlap \in BOOLEAN /\ traffic'.shifted \in BOOLEAN
      BY <1>5, <2>1
    <3>2. traffic'.ids \in Nat /\ traffic'.runs \in Nat /\ traffic'.shown \in Nat
      BY <1>4, <2>1 DEF PubInd, PubType
    <3> QED
      BY <1>3, <2>2, <2>3, <3>1, <3>2 DEF PubType
  <2>5. PubOne'
    BY <1>1, <1>2, <1>3, <2>1 DEF PubInd, PubOne, P!Looking
  <2>6. Calm' => Calm
    <3>1. PICK room \in Nat : room = PerPage * MaxPages
      OBVIOUS
    <3> QED
      BY <1>5, <2>1, <3>1 DEF Calm
  <2>7. ASSUME Calm' PROVE \A s \in CIRuns : ~(ciRun'[s].at \in {"look", "write"})
    BY <1>1, <1>2, <1>3, <2>6, <2>7 DEF PubInd, PubOne, P!Looking, Calm
  <2>8. PubSeen'
    BY <2>7 DEF PubSeen
  <2>9. Calm' => \A i \in DOMAIN comments' : comments'[i].mine => i = Len(comments) + 1
    <3>1. Calm' => \A i \in DOMAIN comments : ~comments[i].mine
      BY <1>1, <1>8, <2>6 DEF PubInd, PubSeen
    <3> QED
      BY <2>3, <3>1
  <2>10. PubOurs'
    BY <2>1, <2>3, <2>9 DEF PubOurs
  <2> QED
    BY <2>3, <2>4, <2>5, <2>8, <2>10 DEF PubInd
<1> QED
  BY <1>6, <1>7, <1>8 DEF P!Write

LEMMA PubStep ==
    ASSUME PubInd, MaxPages \in Nat \ {0}, PerPage \in Nat \ {0}, P!Next
    PROVE  PubInd'
BY PubPublish, PubLook, PubWrite, PubLost, PubOthers, PubDelete DEF P!Next

LEMMA PubStays == PubInd /\ UNCHANGED P!pubVars => PubInd'
BY DEF P!pubVars, PubInd, PubType, PubThread, PubOne, PubSeen, PubOurs, Calm, P!Looking

LEMMA PubPromise == PubInd => P!OneThread
<1> SUFFICES ASSUME PubInd, Calm PROVE Cardinality(P!Ours) <= 1
             /\ \A i \in P!Ours : comments[i].rev = traffic.shown
  BY DEF P!OneThread, Calm, P!Cardinality, Cardinality
<1>1. \A i, k \in P!Ours : i = k
  BY DEF PubInd, PubOurs, P!Ours
<1>2. P!Ours = {} => Cardinality(P!Ours) = 0
  BY FS_EmptySet
<1>3. ASSUME NEW x \in P!Ours PROVE Cardinality(P!Ours) = 1
  <2>1. P!Ours = {x}
    BY <1>1, <1>3
  <2> QED
    BY <2>1, FS_Singleton
<1>4. Cardinality(P!Ours) <= 1
  <2>1. Cardinality(P!Ours) = 0 \/ Cardinality(P!Ours) = 1
    BY <1>2, <1>3
  <2> QED
    BY <2>1
<1>5. \A i \in P!Ours : comments[i].rev = traffic.shown
  BY DEF PubInd, PubOurs, P!Ours
<1> QED
  BY <1>4, <1>5
=============================================================================
