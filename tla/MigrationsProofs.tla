-------------------------- MODULE MigrationsProofs --------------------------
(***************************************************************************)
(* Proofs about Migrations for any migration files and any number of       *)
(* gateways of any releases.                                               *)
(*                                                                         *)
(* The inductive invariant: the files recorded are a prefix, a gateway has *)
(* all files before the one it is at, at most one transaction is open, its *)
(* schema is what its file makes of the committed one, and once its INSERT *)
(* has succeeded its file is the first that is not recorded.               *)
(***************************************************************************)
EXTENDS Migrations, FiniteSetTheorems, TLAPS

TypeOK ==
    /\ versions \subseteq Files
    /\ pc \in [Gateways -> {"down", "check", "exec", "insert", "commit", "up"}]
    /\ file \in [Gateways -> Nat \ {0}]
    /\ work = [g \in Gateways |-> work[g]]
    /\ faults \in Nat

Reached(g) == 1 .. (file[g] - 1) \subseteq versions

Inv ==
    /\ TypeOK
    /\ SchemaIsApplied
    /\ \A g \in Gateways : file[g] <= Release[g] /\ Reached(g)
    /\ \A g, o \in Gateways : InTransaction(g) /\ InTransaction(o) => g = o
    /\ \A g \in Gateways : InTransaction(g) => work[g] = Result(file[g], schema)
    /\ \A g \in Gateways : pc[g] = "commit" => file[g] \notin versions
    /\ ServesMigrated

\* What is assumed of the constants, in the form the proofs use
LEMMA Constants ==
  /\ Cardinality(Files) \in Nat /\ Files = 1 .. Cardinality(Files)
  /\ \A g \in Gateways : Release[g] \in Nat /\ Release[g] <= Cardinality(Files)
  BY MigrationAssumption, FS_CardinalityType

-----------------------------------------------------------------------------
\* Running file n + 1 on the schema of the files 1 .. n makes that of 1 .. n + 1.
LEMMA NextSchema ==
  ASSUME NEW n \in Nat
  PROVE  Result(n + 1, SchemaAfter(n)) = SchemaAfter(n + 1)
<1>1. ASSUME NEW o \in Result(n + 1, SchemaAfter(n)) PROVE o \in SchemaAfter(n + 1)
  <2>1. CASE o \in Creates[n + 1]
    <3>1. n + 1 \in 1 .. (n + 1) /\ o \notin Drops[n + 1]
      BY <1>1 DEF Result
    <3>2. \A k \in (n + 1) .. (n + 1) : o \notin Drops[k]
      BY <3>1
    <3> QED
      BY <2>1, <3>1, <3>2 DEF SchemaAfter
  <2>2. CASE o \in SchemaAfter(n)
    <3>1. PICK f \in 1 .. n : o \in Creates[f] /\ \A k \in f .. n : o \notin Drops[k]
      BY <2>2 DEF SchemaAfter
    <3>2. f \in 1 .. (n + 1) /\ \A k \in f .. (n + 1) : k \in f .. n \/ k = n + 1
      OBVIOUS
    <3>3. o \notin Drops[n + 1]
      BY <1>1 DEF Result
    <3> QED
      BY <3>1, <3>2, <3>3 DEF SchemaAfter
  <2> QED
    BY <1>1, <2>1, <2>2 DEF Result
<1>2. ASSUME NEW o \in SchemaAfter(n + 1) PROVE o \in Result(n + 1, SchemaAfter(n))
  <2>1. PICK f \in 1 .. (n + 1) : o \in Creates[f] /\ \A k \in f .. (n + 1) : o \notin Drops[k]
    BY <1>2 DEF SchemaAfter
  <2>2. o \notin Drops[n + 1]
    BY <2>1
  <2>3. CASE f = n + 1
    BY <2>1, <2>2, <2>3 DEF Result
  <2>4. CASE f \in 1 .. n
    <3>1. \A k \in f .. n : o \notin Drops[k]
      BY <2>1, <2>4
    <3> QED
      BY <2>1, <2>2, <2>4, <3>1 DEF Result, SchemaAfter
  <2> QED
    BY <2>3, <2>4
<1> QED
  BY <1>1, <1>2

LEMMA InvInit == Init => Inv
<1> SUFFICES ASSUME Init PROVE Inv
  OBVIOUS
<1>1. SchemaIsApplied
  BY Constants DEF Init, SchemaIsApplied, SchemaAfter
<1> QED
  BY <1>1, Constants, MigrationAssumption
  DEF Init, Inv, TypeOK, Reached, InTransaction, ServesMigrated

-----------------------------------------------------------------------------
\* A gateway whose file is free to be recorded is at the first such file: its
\* commit moves the database on by one file.
LEMMA CommitApplies ==
  ASSUME Inv, NEW g \in Gateways, pc[g] = "commit", Committed(g)
  PROVE  SchemaIsApplied' /\ versions' \subseteq Files
<1>1. PICK n \in 0 .. Cardinality(Files) : versions = 1 .. n /\ schema = SchemaAfter(n)
  BY DEF Inv, SchemaIsApplied
<1>2. file[g] \in Nat \ {0} /\ file[g] <= Cardinality(Files)
  BY Constants DEF Inv, TypeOK
<1>3. file[g] = n + 1
  <2>1. file[g] \notin 1 .. n /\ 1 .. (file[g] - 1) \subseteq 1 .. n
    BY <1>1 DEF Inv, Reached
  <2>2. file[g] - 1 \in 1 .. n \/ file[g] = 1
    BY <1>2, <2>1
  <2> QED
    BY <1>1, <1>2, <2>1, <2>2, Constants
<1>4. versions' = 1 .. (n + 1)
  BY <1>1, <1>3, Constants DEF Committed
<1>5. schema' = SchemaAfter(n + 1)
  <2>1. n \in Nat
    BY <1>1, Constants
  <2>2. schema' = Result(file[g], schema)
    BY DEF Inv, InTransaction, Committed
  <2> QED
    BY <1>1, <1>3, <2>1, <2>2, NextSchema
<1>6. n + 1 \in 0 .. Cardinality(Files) /\ 1 .. (n + 1) \subseteq 1 .. Cardinality(Files)
  <2>1. n \in Nat /\ n + 1 <= Cardinality(Files) /\ Cardinality(Files) \in Nat
    BY <1>2, <1>3, Constants
  <2> QED
    BY <2>1
<1>7. \E m \in 0 .. Cardinality(Files) : versions' = 1 .. m /\ schema' = SchemaAfter(m)
  BY <1>4, <1>5, <1>6
<1> QED
  BY SMTT(60), <1>4, <1>6, <1>7, Constants DEF SchemaIsApplied, SchemaAfter, Files

\* A step of one gateway that commits nothing and leaves the others alone.
LEMMA NoCommit ==
  ASSUME Inv, NEW g \in Gateways, UNCHANGED <<schema, versions>>, faults' \in Nat,
         pc' = [pc EXCEPT ![g] = pc'[g]], file' = [file EXCEPT ![g] = file'[g]],
         work' = [work EXCEPT ![g] = work'[g]],
         pc'[g] \in {"down", "check", "exec", "insert", "commit", "up"},
         file'[g] \in Nat \ {0}, file'[g] <= Release[g],
         1 .. (file'[g] - 1) \subseteq versions,
         pc'[g] \in {"insert", "commit"} =>
            /\ InTransaction(g) \/ \A o \in Gateways : ~InTransaction(o)
            /\ work'[g] = Result(file'[g], schema),
         pc'[g] = "commit" => file'[g] \notin versions,
         pc'[g] = "up" => 1 .. Release[g] \subseteq versions
  PROVE  Inv'
<1>1. TypeOK'
  BY ZenonT(60) DEF Inv, TypeOK
<1>2. SchemaIsApplied'
  BY DEF Inv, SchemaIsApplied, SchemaAfter
<1>3. \A h \in Gateways : file'[h] <= Release[h] /\ 1 .. (file'[h] - 1) \subseteq versions
  BY DEF Inv, TypeOK, Reached
<1>4. \A h \in Gateways : pc'[h] \in {"insert", "commit"} =>
         (h = g \/ InTransaction(h)) /\ work'[h] = Result(file'[h], schema)
  BY ZenonT(60) DEF Inv, TypeOK, InTransaction
<1>5. \A h, o \in Gateways :
         pc'[h] \in {"insert", "commit"} /\ pc'[o] \in {"insert", "commit"} => h = o
  BY <1>4 DEF Inv, TypeOK, InTransaction
<1>6. \A h \in Gateways : pc'[h] = "commit" => file'[h] \notin versions
  BY DEF Inv, TypeOK
<1>7. \A h \in Gateways : pc'[h] = "up" => 1 .. Release[h] \subseteq versions
  BY DEF Inv, TypeOK, ServesMigrated
<1> QED
  BY <1>1, <1>2, <1>3, <1>4, <1>5, <1>6, <1>7
  DEF Inv, Reached, InTransaction, ServesMigrated, Result

\* The loop goes on to the next file, or ends, when this one is recorded.
LEMMA AdvanceOK ==
  ASSUME Inv, NEW g \in Gateways, Advance(g), NEW v, v = versions \cup {file[g]}
  PROVE  /\ pc' = [pc EXCEPT ![g] = pc'[g]] /\ file' = [file EXCEPT ![g] = file'[g]]
         /\ pc'[g] \in {"check", "up"}
         /\ file'[g] \in Nat \ {0} /\ file'[g] <= Release[g]
         /\ 1 .. (file'[g] - 1) \subseteq v
         /\ pc'[g] = "up" => 1 .. Release[g] \subseteq v
<1>1. /\ file[g] \in Nat \ {0} /\ file[g] <= Release[g] /\ Release[g] \in Nat
      /\ 1 .. (file[g] - 1) \subseteq versions
      /\ pc = [h \in Gateways |-> pc[h]] /\ file = [h \in Gateways |-> file[h]]
  BY Constants DEF Inv, TypeOK, Reached
<1>2. 1 .. file[g] \subseteq v
  BY <1>1
<1>3. CASE Last(g)
  BY <1>1, <1>2, <1>3 DEF Advance, Last, Goto
<1>4. CASE ~Last(g)
  BY <1>1, <1>2, <1>4 DEF Advance, Last, Goto
<1> QED
  BY <1>3, <1>4
LEMMA DownOK ==
  ASSUME Inv, NEW g \in Gateways, Down(g)
  PROVE  /\ pc' = [pc EXCEPT ![g] = pc'[g]] /\ file' = [file EXCEPT ![g] = file'[g]]
         /\ work' = [work EXCEPT ![g] = work'[g]]
         /\ pc'[g] = "down" /\ file'[g] = 1 /\ file'[g] <= Release[g]
         /\ 1 .. (file'[g] - 1) = {}
  BY Constants, MigrationAssumption DEF Inv, TypeOK, Down, Goto

LEMMA CommitOK ==
  ASSUME Inv, NEW g \in Gateways, pc[g] = "commit", Committed(g), faults' \in Nat,
         pc' = [pc EXCEPT ![g] = pc'[g]], file' = [file EXCEPT ![g] = file'[g]],
         work' = [work EXCEPT ![g] = work'[g]],
         pc'[g] \in {"down", "check", "up"},
         file'[g] \in Nat \ {0}, file'[g] <= Release[g],
         1 .. (file'[g] - 1) \subseteq versions',
         pc'[g] = "up" => 1 .. Release[g] \subseteq versions'
  PROVE  Inv'
<1>1. SchemaIsApplied' /\ versions' \subseteq Files /\ versions \subseteq versions'
  BY CommitApplies DEF Committed
<1>2. TypeOK'
  BY ZenonT(60), <1>1 DEF Inv, TypeOK, Files
<1>3. \A h \in Gateways : file'[h] <= Release[h] /\ 1 .. (file'[h] - 1) \subseteq versions'
  BY <1>1 DEF Inv, TypeOK, Reached
<1>4. \A h \in Gateways : pc'[h] \notin {"insert", "commit"}
  BY DEF Inv, TypeOK, InTransaction
<1>5. \A h \in Gateways : pc'[h] = "up" => 1 .. Release[h] \subseteq versions'
  BY <1>1 DEF Inv, TypeOK, ServesMigrated
<1> QED
  BY <1>1, <1>2, <1>3, <1>4, <1>5 DEF Inv, Reached, InTransaction, ServesMigrated

LEMMA InvNext ==
  ASSUME Inv, [Next]_vars
  PROVE  Inv'
<1>1. ASSUME NEW g \in Gateways, Start(g) PROVE Inv'
  BY ZenonT(60), <1>1, NoCommit DEF Start, Goto, Inv, TypeOK, Reached
<1>2. ASSUME NEW g \in Gateways, Check(g) PROVE Inv'
  <2>1. CASE Recorded(g)
    <3>1. versions = versions \cup {file[g]} /\ Advance(g)
      BY <1>2, <2>1 DEF Check, Recorded, Skip
    <3>2. UNCHANGED <<schema, versions, work, faults>> /\ work = [work EXCEPT ![g] = work[g]]
      BY <1>2 DEF Check, Inv, TypeOK
    <3> QED
      BY ZenonT(60), <3>1, <3>2, AdvanceOK, NoCommit DEF Inv, TypeOK
  <2>2. CASE ~Recorded(g)
    BY <1>2, <2>2, NoCommit DEF Check, Goto, Inv, TypeOK, Reached
  <2> QED
    BY <2>1, <2>2
<1>3. ASSUME NEW g \in Gateways, Exec(g) PROVE Inv'
  <2>1. CASE Runs(file[g])
    <3>1. /\ pc' = [pc EXCEPT ![g] = "insert"] /\ work' = [work EXCEPT ![g] = Result(file[g], schema)]
          /\ \A o \in Gateways : ~InTransaction(o)
          /\ UNCHANGED <<schema, versions, file, faults>>
      BY Zenon, <1>3, <2>1 DEF Exec, Goto
    <3>2. pc'[g] = "insert" /\ work'[g] = Result(file[g], schema) /\ file'[g] = file[g]
      BY Zenon, <3>1 DEF Inv, TypeOK
    <3>3. file[g] \in Nat \ {0} /\ file[g] <= Release[g] /\ 1 .. (file[g] - 1) \subseteq versions
      BY Zenon DEF Inv, TypeOK, Reached
    <3>4. file' = [file EXCEPT ![g] = file'[g]] /\ faults' \in Nat
      BY Zenon, <3>1 DEF Inv, TypeOK
    <3> QED
      BY ZenonT(60), <3>1, <3>2, <3>3, <3>4, NoCommit
  <2>2. CASE ~Runs(file[g])
    BY <1>3, <2>2, DownOK, NoCommit DEF Exec, Inv, TypeOK
  <2> QED
    BY <2>1, <2>2
<1>4. ASSUME NEW g \in Gateways, Insert(g) PROVE Inv'
  <2>1. CASE KeyFree(g)
    BY ZenonT(60), <1>4, <2>1, NoCommit DEF Insert, KeyFree, Goto, Inv, TypeOK, Reached, InTransaction
  <2>2. CASE ~KeyFree(g)
    BY <1>4, <2>2, DownOK, NoCommit DEF Insert, Inv, TypeOK
  <2> QED
    BY <2>1, <2>2
<1>5. ASSUME NEW g \in Gateways, Commit(g) PROVE Inv'
  <2>1. /\ pc[g] = "commit" /\ Committed(g) /\ Advance(g) /\ faults' \in Nat
        /\ work' = [work EXCEPT ![g] = work'[g]] /\ versions' = versions \cup {file[g]}
    BY <1>5 DEF Commit, Committed, Inv, TypeOK
  <2> QED
    BY SMTT(60), <2>1, AdvanceOK, CommitOK
<1>6. ASSUME NEW g \in Gateways, Fault(g) PROVE Inv'
  <2>1. Down(g) /\ faults' \in Nat
    BY <1>6 DEF Fault, Inv, TypeOK
  <2>2. CASE UNCHANGED <<schema, versions>>
    BY <2>1, <2>2, DownOK, NoCommit
  <2>3. CASE pc[g] = "commit" /\ Committed(g)
    BY <2>1, <2>3, DownOK, CommitOK
  <2> QED
    BY <1>6, <2>2, <2>3 DEF Fault
<1>7. CASE UNCHANGED vars
  BY SMTT(60), <1>7 DEF vars, Inv, TypeOK, SchemaIsApplied, SchemaAfter, Reached, InTransaction, Result,
     ServesMigrated
<1> QED
  BY <1>1, <1>2, <1>3, <1>4, <1>5, <1>6, <1>7 DEF Next, Step

LEMMA Invariant == Spec => []Inv
  BY InvInit, InvNext, PTL DEF Spec

-----------------------------------------------------------------------------
(***************************************************************************)
(* Whatever gateways start, race, crash or lose the answer of a COMMIT,    *)
(* Migrate leaves the schema that the first n files make, one after the    *)
(* other, and exactly these files recorded.                                *)
(***************************************************************************)
THEOREM SchemaAlwaysApplied == Spec => []SchemaIsApplied
  BY Invariant, PTL DEF Inv

(***************************************************************************)
(* main serves only once Migrate has found or made every file of its own   *)
(* release recorded, and none is ever taken back.                          *)
(***************************************************************************)
THEOREM ServesOnlyMigrated == Spec => []ServesMigrated
  BY Invariant, PTL DEF Inv
=============================================================================
