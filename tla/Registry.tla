------------------------------ MODULE Registry ------------------------------
(***************************************************************************)
(* The registry of watched repositories (watch/registry.py): one JSON      *)
(* file, read whole when a command or a watcher starts and written whole,  *)
(* in place, by add and remove.                                            *)
(***************************************************************************)
EXTENDS Naturals, FiniteSets

CONSTANTS Clients,       \* the processes that run registry commands
          RepoNames,     \* names of repositories
          Missing,       \* those whose path does not exist
          MaxRegistryCommands

VARIABLES registry,  \* the file: its names, and whether all of it is there
          client,    \* the command of each process
          agreed,    \* what the commands that succeeded add up to
          trouble,   \* whether two commands overlapped, or one died saving
          commands
regVars == <<registry, client, agreed, trouble, commands>>

Quiet == [at |-> "idle", op |-> "none", name |-> "none", entries |-> {}]
Init == /\ registry = [whole |-> TRUE, names |-> {}] /\ agreed = {} /\ trouble = FALSE /\ commands = 0
        /\ client = [c \in Clients |-> Quiet]

(* A file that does not parse is an error, never an empty registry.        *)
Load(c) == \E op \in {"add", "remove"}, name \in RepoNames :
    /\ client[c].at = "idle" /\ commands < MaxRegistryCommands
    /\ commands' = commands + 1
    /\ client' = [client EXCEPT ![c] =
          IF ~registry.whole THEN Quiet
          ELSE [at |-> "change", op |-> op, name |-> name, entries |-> registry.names]]
    /\ trouble' = (trouble \/ \E d \in Clients \ {c} : client[d].at # "idle")
    /\ UNCHANGED <<registry, agreed>>
(* add refuses a name that is taken and a path that is not there, remove a *)
(* name that is not.                                                       *)
Refused(k) == IF k.op = "add" THEN k.name \in k.entries \/ k.name \in Missing
              ELSE k.name \notin k.entries
Changed_OnlyAdds(k) == k.entries \cup {k.name}
Changed(k) == IF k.op = "add" THEN k.entries \cup {k.name} ELSE k.entries \ {k.name}
Change(c) ==
    /\ client[c].at = "change"
    /\ client' = [client EXCEPT ![c] =
          IF Refused(@) THEN Quiet
          ELSE [@ EXCEPT !.at = "truncate", !.entries = Changed(client[c])]]
    /\ UNCHANGED <<registry, agreed, trouble, commands>>
(* write_text: the file is cut to nothing first.                           *)
Truncate(c) ==
    /\ client[c].at = "truncate" /\ registry' = [whole |-> FALSE, names |-> {}]
    /\ client' = [client EXCEPT ![c].at = "save"]
    /\ UNCHANGED <<agreed, trouble, commands>>
Save(c) ==
    /\ client[c].at = "save" /\ registry' = [whole |-> TRUE, names |-> client[c].entries]
    /\ agreed' = IF client[c].op = "add" THEN agreed \cup {client[c].name} ELSE agreed \ {client[c].name}
    /\ client' = [client EXCEPT ![c] = Quiet]
    /\ UNCHANGED <<trouble, commands>>
Die(c) ==
    /\ client[c].at \in {"change", "truncate", "save"} /\ ~trouble
    /\ trouble' = (client[c].at = "save")
    /\ client' = [client EXCEPT ![c] = Quiet]
    /\ UNCHANGED <<registry, agreed, commands>>

Next == \E c \in Clients : Load(c) \/ Change(c) \/ Truncate(c) \/ Save(c) \/ Die(c)

-----------------------------------------------------------------------------

(* The file says what the commands that succeeded add up to, whatever was  *)
(* refused or died before it wrote, as long as no two overlapped; two that *)
(* do can lose one's change (watch/registry.py:70).                        *)
RegistryAccounts == (~trouble /\ \A c \in Clients : client[c].at # "save") =>
    registry = [whole |-> TRUE, names |-> agreed]
(* A name whose path did not exist is never in it, whoever overlaps.       *)
OnlyExisting == registry.names \cap Missing = {}
=============================================================================
