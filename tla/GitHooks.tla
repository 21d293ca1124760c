------------------------------ MODULE GitHooks ------------------------------
(***************************************************************************)
(* Installing a hook into a git repository and taking it out again         *)
(* (watch/hooks.py).  The hook file is rewritten in place, so a reader,    *)
(* or a command that dies, can leave half of it; a hook of the user's is   *)
(* copied beside the new one, with --force only, and as the text that was  *)
(* read of it.  Between the commands the user writes, deletes, enables and *)
(* disables his own.                                                       *)
(***************************************************************************)
EXTENDS Naturals

CONSTANTS UserHooks,     \* the scripts the user may have there
          Lossy,         \* of them, those that are not UTF-8 text: reading changes them
          MaxInstalls,   \* bound on the commands
          MaxHookEdits   \* bound on what the user does to the file

VARIABLES hook,     \* what the file of the hook is
          copy,     \* what the backup beside it is
          enabled,     \* whether git runs it: its executable bit
          theirs,   \* the user's hook: the last one he put there
          at,       \* the command under way and where in it
          spent     \* commands, edits, whether a command died, and force since
hookVars == <<hook, copy, enabled, theirs, at, spent>>

Init ==
    /\ hook \in {"none"} \cup UserHooks /\ theirs = hook
    /\ copy = "none" /\ enabled \in IF hook = "none" THEN {FALSE} ELSE BOOLEAN
    /\ at = "idle"
    /\ spent = [installs |-> 0, edits |-> 0, died |-> FALSE, retried |-> FALSE]

(* The marker tells our hook from anybody else's; half a file has none.    *)
Ours(content) == content = "ours"
Installed == hook # "none"
(* What read_text(errors="replace") makes of a hook: one that is not UTF-8 *)
(* is read, and so written beside ours, with other characters in it.       *)
ReadAsText(script) == IF script \in Lossy THEN "changed" ELSE script
AsHeWroteIt(script) == script \in {theirs, ReadAsText(theirs)}

-----------------------------------------------------------------------------

(* install: refused over a hook that is not ours, unless forced.           *)
Install == \E force \in BOOLEAN :
    /\ at = "idle" /\ spent.installs < MaxInstalls
    /\ at' = IF ~Installed \/ Ours(hook) THEN "truncate" ELSE IF force THEN "keep" ELSE "idle"
    /\ spent' = [spent EXCEPT !.installs = @ + 1, !.retried = @ \/ (spent.died /\ force)]
    /\ UNCHANGED <<hook, copy, enabled, theirs>>
(* Keep the file beside the new one, then write ours where it was.         *)
KeepTruncate == at = "keep" /\ copy' = "half" /\ at' = "copy" /\ UNCHANGED <<hook, enabled, theirs, spent>>
KeepCopy_AfterWriting == at = "copy" /\ copy' = "ours" /\ at' = "truncate" /\ UNCHANGED <<hook, enabled, theirs, spent>>
KeepCopy == at = "copy" /\ copy' = ReadAsText(hook) /\ at' = "truncate" /\ UNCHANGED <<hook, enabled, theirs, spent>>
Truncate == at = "truncate" /\ hook' = "half" /\ at' = "write"
            /\ enabled' = (enabled /\ Installed) /\ UNCHANGED <<copy, theirs, spent>>
WriteOurs == at = "write" /\ hook' = "ours" /\ at' = "chmod" /\ UNCHANGED <<copy, enabled, theirs, spent>>
MakeExecutable == /\ at \in {"chmod", "chmod back"} /\ enabled' = TRUE
                  /\ at' = IF at = "chmod" THEN "idle" ELSE "unlink copy"
                  /\ UNCHANGED <<hook, copy, theirs, spent>>

(* uninstall: only ours; what was kept is put back.  Half a copy may end   *)
(* within a character: the strict reading then raises, before the write.   *)
Uninstall ==
    /\ at = "idle" /\ spent.installs < MaxInstalls
    /\ at' = IF Installed /\ Ours(hook) THEN "unlink" ELSE "idle"
    /\ spent' = [spent EXCEPT !.installs = @ + 1]
    /\ UNCHANGED <<hook, copy, enabled, theirs>>
Unlink == /\ at = "unlink" /\ hook' = "none" /\ enabled' = FALSE
          /\ at' = IF copy = "none" THEN "idle" ELSE "restore"
          /\ UNCHANGED <<copy, theirs, spent>>
Restore == /\ at = "restore"
           /\ \/ hook' = "half" /\ at' = "put back"
              \/ copy = "half" /\ hook' = hook /\ at' = "idle"
           /\ UNCHANGED <<copy, enabled, theirs, spent>>
PutBack == at = "put back" /\ hook' = copy /\ at' = "chmod back" /\ UNCHANGED <<copy, enabled, theirs, spent>>
UnlinkCopy == at = "unlink copy" /\ copy' = "none" /\ at' = "idle" /\ UNCHANGED <<hook, enabled, theirs, spent>>

Die == at # "idle" /\ ~spent.died /\ at' = "idle" /\ spent' = [spent EXCEPT !.died = TRUE]
       /\ UNCHANGED <<hook, copy, enabled, theirs>>
(* The user puts a hook there, deletes what is there, or turns it on or    *)
(* off; when it is ours that he deletes, his own is still the one we keep. *)
Edit ==
    /\ at = "idle" /\ spent.edits < MaxHookEdits
    /\ \/ \E h \in UserHooks : hook' = h /\ theirs' = h /\ enabled' = TRUE
       \/ Installed /\ hook' = "none" /\ enabled' = FALSE
          /\ theirs' = IF AsHeWroteIt(hook) THEN "none" ELSE theirs
       \/ Installed /\ enabled' = ~enabled /\ UNCHANGED <<hook, theirs>>
    /\ spent' = [spent EXCEPT !.edits = @ + 1]
    /\ UNCHANGED <<copy, at>>

Next == \/ Install \/ KeepTruncate \/ KeepCopy \/ Truncate \/ WriteOurs \/ MakeExecutable
        \/ Uninstall \/ Unlink \/ Restore \/ PutBack \/ UnlinkCopy \/ Die \/ Edit

-----------------------------------------------------------------------------

(* The user's hook is always in its place or beside it, whole, also while  *)
(* a command is under way and when it dies, until a forced install is run  *)
(* again after one that died: that one copies half a file over the copy.   *)
(* A hook that is not UTF-8 is kept only as what reading it left           *)
(* (watch/hooks.py:22-24, the existing file is preserved).                 *)
HookKept ==
    \/ theirs = "none" \/ AsHeWroteIt(hook) \/ copy = ReadAsText(theirs)
    \/ spent.died /\ spent.retried
(* Git never finds something to run that is neither the user's, as he      *)
(* wrote it or as it was read, nor ours, unless a command died: half a     *)
(* script runs only while one is writing.                                  *)
RunsWhole == (at = "idle" /\ ~spent.died /\ enabled) =>
    hook \in UserHooks \cup {ReadAsText(script) : script \in UserHooks} \cup {"ours"}
=============================================================================
