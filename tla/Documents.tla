----------------------------- MODULE Documents ------------------------------
(***************************************************************************)
(* Document ingest (ingest/base.py) and the vector index over its chunks   *)
(* (search/vector_index.py).  A document is a version of a source; here it *)
(* has one chunk, so a vector is identified by its document.  An ingest is *)
(* one BEGIN IMMEDIATE transaction per file, after the file was read; a    *)
(* re-index reads the chunks, deletes the vectors, embeds the chunks batch *)
(* by batch and writes the vectors of a batch, every row a transaction of  *)
(* its own (the connection is in autocommit mode).                         *)
(***************************************************************************)
EXTENDS Naturals, Sequences, FiniteSets, SequencesExt

CONSTANTS Workers,    \* processes
          Sources,    \* files that are ingested, by their uri
          Contents,   \* what a file may hold
          MaxEdits,   \* bound on the edits of the files
          MaxJobs,    \* bound on the commands that are run
          BatchSize   \* chunks embedded per statement

VARIABLES files,    \* the content of each file, NoContent when it cannot be read
          docs,     \* table documents: [src, content, version, prior]
          vectors,  \* table chunk_embeddings, for the model in use
          lock,     \* the process inside BEGIN IMMEDIATE ... COMMIT
          job,      \* what each process is doing and remembers
          edits, jobs
vars == <<files, docs, vectors, lock, job, edits, jobs>>

NoContent == "unreadable"
Nobody == "nobody"
Idle == [at |-> "idle", todo |-> <<>>, content |-> NoContent, prior |-> 0,
         rows |-> <<>>, batch |-> {}, next |-> 1, alone |-> TRUE, search |-> FALSE, found |-> {}]

Init == /\ files \in [Sources -> Contents]
        /\ docs = {} /\ vectors = {} /\ lock = Nobody
        /\ job = [p \in Workers |-> Idle]
        /\ edits = 0 /\ jobs = 0

Edit(s, c) == /\ edits < MaxEdits /\ files[s] # c
              /\ files' = [files EXCEPT ![s] = c] /\ edits' = edits + 1
              /\ UNCHANGED <<docs, vectors, lock, job, jobs>>

Becomes(p, j) == job' = [job EXCEPT ![p] = j]
Starts(p, j) == job[p] = Idle /\ jobs < MaxJobs /\ jobs' = jobs + 1
                /\ Becomes(p, j) /\ UNCHANGED <<files, docs, vectors, lock, edits>>

(* ingest_path: the files of a directory, one after the other.  A dry run  *)
(* reads every file and stores nothing.                                    *)
IngestPath(p) == \E todo \in {SetToSeq(S) : S \in SUBSET Sources \ {{}}} :
    Starts(p, [Idle EXCEPT !.at = "read", !.todo = todo])
NextFile(j) == IF Len(j.todo) <= 1 THEN Idle ELSE [j EXCEPT !.at = "read", !.todo = Tail(@)]
ReadFile(p) ==
    LET j == job[p]
        c == files[Head(j.todo)]
    IN  /\ j.at = "read"
        /\ Becomes(p, IF c = NoContent THEN NextFile(j) ELSE [j EXCEPT !.at = "begin", !.content = c])
        /\ UNCHANGED <<files, docs, vectors, lock, edits, jobs>>

Latest(s) == {d.version : d \in {x \in docs : x.src = s}} \cup {0}
Highest(S) == CHOOSE n \in S : \A m \in S : m <= n
Writable(p) == lock \in {Nobody, p}
Stored(s, c) == \E d \in docs : d.src = s /\ d.content = c

(* Inside the transaction: content that any version of the source already  *)
(* has ends it early; otherwise the new version follows the highest.       *)
Begin_Deferred(p) ==
    LET j == job[p]
        s == Head(j.todo)
    IN  /\ j.at = "begin"
        /\ IF Stored(s, j.content) THEN Becomes(p, NextFile(j))
           ELSE Becomes(p, [j EXCEPT !.at = "insert", !.prior = Highest(Latest(s))])
        /\ UNCHANGED <<files, docs, vectors, lock, edits, jobs>>
Begin(p) ==
    LET j == job[p]
        s == Head(j.todo)
    IN  /\ j.at = "begin" /\ lock = Nobody
        /\ IF Stored(s, j.content)
           THEN Becomes(p, NextFile(j)) /\ UNCHANGED lock
           ELSE Becomes(p, [j EXCEPT !.at = "insert", !.prior = Highest(Latest(s))]) /\ lock' = p
        /\ UNCHANGED <<files, docs, vectors, edits, jobs>>
Commit(p) ==
    LET j == job[p]
    IN  /\ j.at = "insert"
        /\ docs' = docs \cup {[src |-> Head(j.todo), content |-> j.content,
                               version |-> j.prior + 1, prior |-> j.prior]}
        /\ lock' = Nobody /\ Becomes(p, NextFile(j))
        /\ UNCHANGED <<files, vectors, edits, jobs>>

Indexing(p) == \/ job[p].at \in {"purge", "embed", "indexed"}
               \/ job[p].at = "query" /\ job[p].search
(* reindex, asked for or on behalf of a search that finds no vector at     *)
(* all.  `alone` is not in the code: no other re-index ran meanwhile.      *)
StartIndex(p, j, search) ==
    job' = [q \in Workers |->
              IF q = p THEN [j EXCEPT !.at = "purge", !.rows = SetToSeq(docs), !.next = 1,
                                      !.alone = \A r \in Workers \ {p} : ~Indexing(r),
                                      !.search = search]
              ELSE [job[q] EXCEPT !.alone = @ /\ ~Indexing(q)]]
Reindex(p) == /\ job[p] = Idle /\ jobs < MaxJobs /\ jobs' = jobs + 1
              /\ StartIndex(p, Idle, FALSE)
              /\ UNCHANGED <<files, docs, vectors, lock, edits>>
Purge(p) == /\ job[p].at = "purge" /\ Writable(p)
            /\ vectors' = {} /\ Becomes(p, [job[p] EXCEPT !.at = "embed"])
            /\ UNCHANGED <<files, docs, lock, edits, jobs>>
Batch_OneShort(rows, from) == {rows[i] : i \in from..(from + BatchSize - 2) \cap DOMAIN rows}
Batch(rows, from) == {rows[i] : i \in from..(from + BatchSize - 1) \cap DOMAIN rows}
Embed(p) ==
    LET j == job[p]
    IN  /\ j.at = "embed" /\ j.batch = {}
        /\ Becomes(p, IF j.next > Len(j.rows) THEN [j EXCEPT !.at = "indexed"]
                      ELSE [j EXCEPT !.batch = Batch(j.rows, j.next), !.next = @ + BatchSize])
        /\ UNCHANGED <<files, docs, vectors, lock, edits, jobs>>
InsertVector(p) == \E row \in job[p].batch :
    /\ Writable(p) /\ vectors' = vectors \cup {row}
    /\ Becomes(p, [job[p] EXCEPT !.batch = @ \ {row}])
    /\ UNCHANGED <<files, docs, lock, edits, jobs>>
(* A re-index reports and ends; a search goes on to its query.             *)
IndexDone(p) ==
    /\ job[p].at = "indexed"
    /\ Becomes(p, IF job[p].search THEN [job[p] EXCEPT !.at = "query"] ELSE Idle)
    /\ UNCHANGED <<files, docs, vectors, lock, edits, jobs>>

VectorSearch(p) ==
    /\ job[p] = Idle /\ jobs < MaxJobs /\ jobs' = jobs + 1
    /\ IF vectors = {} THEN StartIndex(p, Idle, TRUE) ELSE Becomes(p, [Idle EXCEPT !.at = "query"])
    /\ UNCHANGED <<files, docs, vectors, lock, edits>>
Query(p) == /\ job[p].at = "query"
            /\ Becomes(p, [job[p] EXCEPT !.at = "answered", !.found = vectors])
            /\ UNCHANGED <<files, docs, vectors, lock, edits, jobs>>
Return(p) == /\ job[p].at = "answered" /\ Becomes(p, Idle)
             /\ UNCHANGED <<files, docs, vectors, lock, edits, jobs>>

(* The transaction of a process that dies is rolled back.                  *)
Crash(p) == /\ job[p] # Idle /\ Becomes(p, Idle)
            /\ lock' = IF lock = p THEN Nobody ELSE lock
            /\ UNCHANGED <<files, docs, vectors, edits, jobs>>

Next == \/ \E s \in Sources, c \in Contents \cup {NoContent} : Edit(s, c)
        \/ \E p \in Workers :
             \/ IngestPath(p) \/ ReadFile(p) \/ Begin(p) \/ Commit(p)
             \/ Reindex(p) \/ Purge(p) \/ Embed(p) \/ InsertVector(p) \/ IndexDone(p)
             \/ VectorSearch(p) \/ Query(p) \/ Return(p) \/ Crash(p)
Spec == Init /\ [][Next]_vars

-----------------------------------------------------------------------------

(* The versions of a source form one line without a gap, each superseding  *)
(* the one before, and no content is stored twice for a source, however    *)
(* many processes ingest it at once and wherever one of them dies.         *)
(* (ingest/base.py: the lookups are inside the transaction.)               *)
OneVersionChain ==
    \A s \in Sources :
        LET mine == {d \in docs : d.src = s}
        IN  /\ {d.version : d \in mine} = 1..Cardinality(mine)
            /\ \A d \in mine : d.prior = d.version - 1
            /\ \A d, e \in mine : d.content = e.content => d = e

(* A re-index that no other one overlapped leaves a vector for every       *)
(* document there was when it began, whatever an earlier one that died     *)
(* half-way left behind; so does a search that had to build the index.     *)
(* (search/vector_index.py reindex, vector_search.)                        *)
ReindexRepairs ==
    \A p \in Workers :
        (job[p].alone /\ job[p].rows # <<>>) =>
            /\ job[p].at \in {"indexed", "query"} => ToSet(job[p].rows) \subseteq vectors
            /\ job[p].at = "answered" => ToSet(job[p].rows) \subseteq job[p].found
=============================================================================
