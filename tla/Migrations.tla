----------------------------- MODULE Migrations -----------------------------
(***************************************************************************)
(* database.Migrate: what a gateway does to the schema before it serves.   *)
(* For each .sql file, in the order of their names, it looks the file up   *)
(* in schema_migrations and, if it is not there, runs it and records it in *)
(* one transaction.  Any error ends the process, and the container runtime *)
(* starts it again (restart: unless-stopped).  Two gateways may start at   *)
(* once, as in a rolling upgrade, the older one with fewer files.          *)
(*                                                                         *)
(* A file is its place in the order; the schema is the set of the objects  *)
(* the files create and drop.                                              *)
(***************************************************************************)
EXTENDS Integers, FiniteSets

CONSTANTS
    Gateways,   \* processes
    Release,    \* Release[g]: how many migration files g's release has
    Creates,    \* Creates[f]: objects that file f creates
    Drops,      \* Drops[f]: objects that file f drops
    Strict,     \* files whose CREATE has no IF NOT EXISTS
    MaxFaults   \* bound: crashes and failing statements

Files == DOMAIN Creates

ASSUME MigrationAssumption ==
    /\ IsFiniteSet(Files) /\ Files = 1 .. Cardinality(Files)
    /\ DOMAIN Drops = Files
    /\ Strict \subseteq Files
    /\ \A g \in Gateways : Release[g] \in Files
    /\ MaxFaults \in Nat

VARIABLES
    schema,     \* the objects of the committed schema
    versions,   \* schema_migrations: the files recorded
    pc,         \* "down", "check", "exec", "insert", "commit", "up"
    file,       \* the file at which the loop of a gateway is
    work,       \* the schema as the open transaction of a gateway has it
    faults      \* how many faults have happened

vars == <<schema, versions, pc, file, work, faults>>

InTransaction(g) == pc[g] \in {"insert", "commit"}

Init ==
    /\ schema = {} /\ versions = {} /\ faults = 0
    /\ pc = [g \in Gateways |-> "down"] /\ file = [g \in Gateways |-> 1]
    /\ work = [g \in Gateways |-> {}]

Goto(g, p) == pc' = [pc EXCEPT ![g] = p]

\* os.Exit or a crash: the open transaction is rolled back.
Down(g) ==
    /\ Goto(g, "down")
    /\ file' = [file EXCEPT ![g] = 1] /\ work' = [work EXCEPT ![g] = {}]

Last(g) == file[g] = Release[g]

\* The loop has dealt with the file at which g is.
Advance(g) ==
    IF Last(g) THEN Goto(g, "up") /\ UNCHANGED file
    ELSE Goto(g, "check") /\ file' = [file EXCEPT ![g] = @ + 1]

-----------------------------------------------------------------------------
\* main opens the database and calls Migrate; schema_migrations is there.
Start(g) ==
    /\ pc[g] = "down" /\ Goto(g, "check")
    /\ UNCHANGED <<schema, versions, file, work, faults>>

\* Mutant: every file is run on every start.
RecordedNever(g) == FALSE

Recorded(g) == file[g] \in versions

\* Mutant: the loop ends at the first file already recorded.
SkipRest(g) == Goto(g, "up") /\ UNCHANGED file

\* continue
Skip(g) == Advance(g)

\* SELECT EXISTS: a recorded file is skipped.
Check(g) ==
    /\ pc[g] = "check"
    /\ IF Recorded(g) THEN Skip(g) ELSE Goto(g, "exec") /\ UNCHANGED file
    /\ UNCHANGED <<schema, versions, work, faults>>

\* CREATE without IF NOT EXISTS fails when its objects are there.
Runs(f) == f \in Strict => Creates[f] \cap schema = {}
Result(f, objects) == (objects \cup Creates[f]) \ Drops[f]

(***************************************************************************)
(* The transaction runs the file.  Its DDL holds locks until it ends, so a *)
(* second gateway that runs the same file waits here.  (The model lets any *)
(* two files wait for each other; those of different tables commute.)      *)
(***************************************************************************)
Exec(g) ==
    /\ pc[g] = "exec" /\ \A o \in Gateways : ~InTransaction(o)
    /\ IF Runs(file[g])
       THEN /\ Goto(g, "insert") /\ UNCHANGED file
            /\ work' = [work EXCEPT ![g] = Result(file[g], schema)]
       ELSE Down(g)
    /\ UNCHANGED <<schema, versions, faults>>

\* Mutant: ON CONFLICT DO NOTHING, a gateway that lost a race goes on.
KeyFreeAlways(g) == TRUE

KeyFree(g) == file[g] \notin versions

\* INSERT INTO schema_migrations: the primary key refuses a second record.
Insert(g) ==
    /\ pc[g] = "insert"
    /\ IF KeyFree(g) THEN Goto(g, "commit") /\ UNCHANGED <<file, work>> ELSE Down(g)
    /\ UNCHANGED <<schema, versions, faults>>

\* The commit takes effect.
Committed(g) == schema' = work[g] /\ versions' = versions \cup {file[g]}

Commit(g) ==
    /\ pc[g] = "commit" /\ Committed(g) /\ Advance(g)
    /\ work' = [work EXCEPT ![g] = {}] /\ UNCHANGED faults

-----------------------------------------------------------------------------
(***************************************************************************)
(* A crash, or a statement that fails (the connection, the 30 s context):  *)
(* Migrate returns the error and main exits.  A COMMIT that fails this way *)
(* may have taken effect all the same.                                     *)
(***************************************************************************)
Fault(g) ==
    /\ faults < MaxFaults /\ pc[g] # "down"
    /\ faults' = faults + 1 /\ Down(g)
    /\ \/ UNCHANGED <<schema, versions>>
       \/ pc[g] = "commit" /\ Committed(g)

Step(g) == Start(g) \/ Check(g) \/ Exec(g) \/ Insert(g) \/ Commit(g)

Next == \E g \in Gateways : Step(g) \/ Fault(g)

(***************************************************************************)
(* Processes run on, and are restarted when they end.                      *)
(***************************************************************************)
Spec == Init /\ [][Next]_vars /\ \A g \in Gateways : WF_vars(Step(g))

-----------------------------------------------------------------------------
\* The schema after the files 1 .. n, each run once and in this order: what one
\* of them creates and neither it nor a later one drops.
SchemaAfter(n) ==
    {o \in UNION {Creates[f] : f \in 1 .. n} :
        \E f \in 1 .. n : o \in Creates[f] /\ \A k \in f .. n : o \notin Drops[k]}

(***************************************************************************)
(* The database is always where some number of files has brought it: the   *)
(* files recorded are the first n, and the schema is what running those n, *)
(* once each and in order, makes.  No crash, no failed COMMIT and no race  *)
(* of two gateways leaves a file half done, done twice or done out of turn *)
(* (an index that a later file drops does not come back).                  *)
(***************************************************************************)
SchemaIsApplied ==
    \E n \in 0 .. Cardinality(Files) :
        versions = 1 .. n /\ schema = SchemaAfter(n)

(***************************************************************************)
(* A gateway that serves has the schema of its release, or a newer one:    *)
(* every file of its release is recorded, and stays so.                    *)
(***************************************************************************)
ServesMigrated ==
    \A g \in Gateways : pc[g] = "up" => 1 .. Release[g] \subseteq versions

(***************************************************************************)
(* Every gateway comes up in the end (docs/DEPLOYMENT.md:41): the one that *)
(* loses a race ends with an error and finds the file recorded when it is  *)
(* started again.                                                          *)
(***************************************************************************)
ComesUp == \A g \in Gateways : <>[](pc[g] = "up")
=============================================================================
