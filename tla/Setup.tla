------------------------------- MODULE Setup --------------------------------
(***************************************************************************)
(* Registering the server with editors and taking it out again             *)
(* (mcp/configure.py, platforms.py, artifacts.py, rules.py,                *)
(* install_cli.py).  A tool has a configuration file with a map of         *)
(* servers, and may have a hook file, a command file and a rules file.     *)
(* Each is read, changed and replaced (a temporary file and os.replace),   *)
(* one after the other, while the user edits the same files.  The model    *)
(* keeps what in a file is ours, and what is there besides.                *)
(***************************************************************************)
EXTENDS Naturals, FiniteSets

CONSTANTS Tools,        \* the tools there are, a subset of the table below
          MaxCommands,  \* bound on the commands
          MaxTrouble    \* bound on the edits and deaths

VARIABLES files,    \* tool -> file -> content
          present,  \* the tools whose marker directory exists
          env,      \* how this program was installed, and the runners there are
          data,     \* the home: "graph", "other" (no graph in it), or "none"
          proc,     \* the command under way
          used      \* commands, edits and deaths so far
setupVars == <<files, present, env, data, proc, used>>

(* The table of tools: which of them have the further files.               *)
Platforms == {"claude-code", "cursor", "windsurf", "gemini-cli", "qwen-code", "vscode",
              "claude-desktop", "amazon-q-cli", "kiro", "zed", "opencode", "crush", "cline",
              "roo-code", "copilot-cli", "junie", "factory-droid", "amp", "kilo-code", "continue"}
WithHooks    == {"claude-code", "cursor", "windsurf"}
WithCommands == Platforms \ {"vscode", "claude-desktop"}
WithRules    == Platforms \ {"vscode", "claude-desktop", "amazon-q-cli", "kilo-code"}
Files(t) == {"server"} \cup (IF t \in WithHooks THEN {"hooks"} ELSE {})
                        \cup (IF t \in WithCommands THEN {"command"} ELSE {})
                        \cup (IF t \in WithRules THEN {"rules"} ELSE {})
FileNames == {"server", "hooks", "command", "rules"}

(* `ours`: the launch command of our entry, "ours" for text of ours, "old" *)
(* for either from an earlier version, "none", or "foreign": an entry of   *)
(* our name, or a command file, without our marker.                        *)
(* `rest`: "none" (or white space), "some", "open" (text whose last line   *)
(* does not end), or "broken": no JSON, or half a block of ours.           *)
NoFile == [exists |-> FALSE, ours |-> "none", rest |-> "none"]
File(ours, rest) == [exists |-> TRUE, ours |-> ours, rest |-> rest]
Idle == [at |-> "idle", op |-> "none", force |-> FALSE, dry |-> FALSE, plan |-> {},
         todo |-> {}, read |-> NoFile, since |-> 0]

(* detect_launch: from a virtual environment that is not on the search     *)
(* path, a runner if there is one; otherwise the console script first.     *)
FirstRunner(runners) == IF "uvx" \in runners THEN "uvx"
                        ELSE IF "uv" \in runners THEN "uv" ELSE "pipx"
DetectLaunch(e) ==
    LET hidden == e.kind = "venv" /\ e.console # "elsewhere"
    IN  IF e.runners # {} /\ (hidden \/ e.console = "nowhere") THEN FirstRunner(e.runners) ELSE "dkg"
Wanted(f) == IF f \in {"server", "hooks"} THEN DetectLaunch(env) ELSE "ours"

UserFiles(f) ==
    IF f = "command" THEN {File("foreign", "none"), File("old", "none")}
    ELSE {File("none", "none"), File("none", "some"), File("none", "broken"), File("old", "some")}
         \cup (IF f = "server" THEN {File("foreign", "none")} ELSE {})
         \cup (IF f = "rules" THEN {File("none", "open")} ELSE {})
(* A home where the user has one of these files; more come by edits.       *)
Init ==
    /\ \E t \in Tools : \E f \in Files(t) : \E c \in UserFiles(f) :
          files = [u \in Tools |-> [g \in Files(u) |-> IF u = t /\ g = f THEN c ELSE NoFile]]
    /\ \/ present = {} /\ env = [kind |-> "venv", console |-> "nowhere", runners |-> {"pipx", "uvx"}]
                       /\ data = "graph"
       \/ present = Tools /\ env = [kind |-> "system", console |-> "elsewhere", runners |-> {}]
                          /\ data = "other"
    /\ proc = Idle
    /\ used = [commands |-> 0, edits |-> 0, deaths |-> 0]

(* The program and a reader see a tool by its directory; the first one's   *)
(* configuration file counts as well.                                      *)
Detected(t) == t \in present \/ (t = "claude-code" /\ files[t]["server"].exists)

-----------------------------------------------------------------------------

(* What the handlers make of a file, and when they refuse to.  A command   *)
(* file of somebody else's is reported after the others were written.      *)
HalfWritten(c) == c.rest = "broken"
SomebodysCommand(f, c) == f = "command" /\ c.ours = "foreign"
SomebodysEntry(f, c) == f = "server" /\ c.ours = "foreign"
Refuses(op, f, c, force) ==
    \/ HalfWritten(c) \/ SomebodysCommand(f, c)
    \/ SomebodysEntry(f, c) /\ (op = "uninstall" \/ ~force)
Installed(f, c) ==
    [exists |-> TRUE, ours |-> Wanted(f),
     rest |-> IF c.rest = "open" /\ c.ours = "none" THEN "some" ELSE c.rest]
Removed_Whole(f, c) == IF c.ours = "none" THEN c ELSE NoFile
OnlyOurs(c) == c.ours # "none" /\ c.rest = "none"
Removed(f, c) == IF OnlyOurs(c) THEN NoFile ELSE [c EXCEPT !.ours = "none"]

(* mcp-install and mcp-uninstall, of one tool or of all of them: those     *)
(* detected, or (--all-supported, and every uninstall) each one.  `bare`   *)
(* leaves the further files alone.                                         *)
Whole(some, bare) == {s \in some \X FileNames : s[2] \in IF bare THEN {"server"} ELSE Files(s[1])}
Data == <<"data", "data">>
Command(op, force, dry, plan) ==
    [Idle EXCEPT !.at = IF plan = {} THEN "done" ELSE "load", !.op = op, !.force = force, !.dry = dry,
                 !.plan = plan, !.todo = plan, !.since = used.edits]
Begin == \E op \in {"install", "uninstall"}, force, dry, bare, purge \in BOOLEAN :
    /\ proc = Idle /\ used.commands < MaxCommands
    /\ IF op = "install" THEN ~purge ELSE ~force
    /\ \E some \in {{t} : t \in Tools} \cup {Tools}
                   \cup (IF op = "install" THEN {{t \in Tools : Detected(t)}} ELSE {}) :
       /\ op = "uninstall" /\ bare => Cardinality(some) = 1
       /\ proc' = Command(op, force, dry, Whole(some, bare) \cup (IF purge THEN {Data} ELSE {}))
    /\ used' = [used EXCEPT !.commands = @ + 1]
    /\ UNCHANGED <<files, present, env, data>>

(* Tool after tool, the files of each in the order of its bundle, and the  *)
(* data last.                                                              *)
FirstFile(some) == IF "server" \in some THEN "server" ELSE IF "hooks" \in some THEN "hooks"
                   ELSE IF "command" \in some THEN "command" ELSE "rules"
First(todo) == IF todo = {Data} THEN Data
               ELSE LET t == CHOOSE t \in {s[1] : s \in todo \ {Data}} : TRUE
                    IN  <<t, FirstFile({s[2] : s \in {u \in todo : u[1] = t}})>>
NextFile == LET rest == proc.todo \ {First(proc.todo)}
            IN  proc' = [proc EXCEPT !.at = IF rest = {} THEN "done" ELSE "load", !.todo = rest]
(* Nothing to write: the server's entry is always written anew.            *)
Settled_WhenPresent(op, f, c) ==
    IF op = "install" THEN f # "server" /\ c.ours # "none" ELSE c.ours = "none"
Settled(op, f, c) ==
    IF op = "install" THEN f # "server" /\ Installed(f, c) = c ELSE c.ours = "none"
(* Read and decide: an exception ends the whole command where it is.       *)
Load ==
    /\ proc.at = "load" /\ First(proc.todo) # Data
    /\ LET t == First(proc.todo)[1]
           f == First(proc.todo)[2]
           c == files[t][f]
       IN  IF c.exists /\ Refuses(proc.op, f, c, proc.force)
           THEN proc' = [proc EXCEPT !.at = "refused"]
           ELSE IF proc.dry \/ Settled(proc.op, f, c) THEN NextFile
           ELSE proc' = [proc EXCEPT !.at = "write", !.read = c]
    /\ UNCHANGED <<files, present, env, data, used>>
(* Put the new text in place of whatever is there by now, or unlink it.    *)
Write ==
    /\ proc.at = "write"
    /\ LET t == First(proc.todo)[1]
           f == First(proc.todo)[2]
       IN  /\ files' = [files EXCEPT ![t][f] = IF proc.op = "install" THEN Installed(f, proc.read)
                                               ELSE Removed(f, proc.read)]
           /\ present' = IF proc.op = "install" /\ ~(t = "claude-code" /\ f = "server")
                         THEN present \cup {t} ELSE present
    /\ NextFile /\ UNCHANGED <<env, data, used>>
(* purge_data deletes a home that holds a graph, and nothing else.         *)
Purge ==
    /\ proc.at = "load" /\ First(proc.todo) = Data
    /\ IF data = "other" THEN proc' = [proc EXCEPT !.at = "refused"] /\ UNCHANGED data
       ELSE NextFile /\ data' = IF proc.dry THEN data ELSE "none"
    /\ UNCHANGED <<files, present, env, used>>
Exit == /\ proc.at \in {"done", "refused"} /\ proc' = Idle
        /\ UNCHANGED <<files, present, env, data, used>>
Die == /\ proc.at \in {"load", "write"} /\ used.edits + used.deaths < MaxTrouble
       /\ proc' = Idle /\ used' = [used EXCEPT !.deaths = @ + 1]
       /\ UNCHANGED <<files, present, env, data>>

(* The user, or the tool itself, rewrites a file.                          *)
Edit == \E t \in Tools : \E f \in Files(t) : \E c \in {NoFile} \cup UserFiles(f) :
    /\ used.edits + used.deaths < MaxTrouble /\ c # files[t][f] /\ c.ours # "old"
    /\ files' = [files EXCEPT ![t][f] = c]
    /\ used' = [used EXCEPT !.edits = @ + 1]
    /\ UNCHANGED <<present, env, data, proc>>

Next == Begin \/ Load \/ Write \/ Purge \/ Exit \/ Die \/ Edit

-----------------------------------------------------------------------------

(* The user's part of a file; the end of the last line and an empty file   *)
(* are not part of it.                                                     *)
Theirs(c) == <<c.rest \in {"some", "open"}, c.rest = "broken", c.ours = "foreign">>

(* Neither command changes what the user has in a file, unless he changes  *)
(* it between the reading and the writing, or forces his entry away.  In   *)
(* particular a file is deleted only when nothing of his is in it.         *)
(* (mcp/configure.py:8-33, rules.py, artifacts.py.)                        *)
KeepStep ==
    \A t \in Tools : \A f \in Files(t) :
        LET now == files[t][f]
            new == files'[t][f]
        IN  (now # new /\ used' = used /\ now = proc.read) =>
               \/ Theirs(new) = Theirs(now)
               \/ proc.force /\ f = "server" /\ now.ours = "foreign"
                  /\ new.rest = now.rest

(* A command that ends without a refusal has done it all: after an install *)
(* every file of its plan is there and current, after an uninstall nothing *)
(* of ours is left in them, whatever died or was refused before and        *)
(* whatever the user edited, as long as he did not edit meanwhile.         *)
CompleteAtTheEnd ==
    (proc.at = "done" /\ ~proc.dry /\ used.edits = proc.since) =>
        \A s \in proc.plan :
            IF s = Data THEN data = "none"
            ELSE IF proc.op = "install" THEN files[s[1]][s[2]].ours = Wanted(s[2])
            ELSE files[s[1]][s[2]].ours \notin {"ours", "old", DetectLaunch(env)}
=============================================================================
