----------------------------- MODULE Migrations -----------------------------
(***************************************************************************)
(* The SQL migrator every service carries (cmd/migration/main.go; this is  *)
(* order-service's copy).  An operator runs "up", "down n" or "status" in  *)
(* a container, nothing keeps two of them from running at once, and each   *)
(* works on the versions it has read from schema_migrations at its start.  *)
(*                                                                         *)
(* One migration is one transaction: its script, and then the row of       *)
(* schema_migrations.  What a script does to the tables is left out: a     *)
(* version is in effect or not, and a script that meets tables it does not *)
(* expect may fail or not.                                                 *)
(***************************************************************************)
EXTENDS Integers, FiniteSets, FiniteSetsExt

CONSTANTS
  File,        \* versions of the files in ./migrations
  Operator,    \* runs of the migrator that may be in progress at the same time
  NoRun        \* the operator runs nothing

VARIABLES
  schema,      \* versions that are in effect in the committed tables
  recorded,    \* table schema_migrations
  running,     \* running[u]: the run u has started
  interleaved  \* runs during which another one has committed a migration

migrationVars == <<schema, recorded, running, interleaved>>

\* todo: the versions the run has still to come to.
Run == [cmd : {"up", "down"}, todo : SUBSET File, wrote : BOOLEAN]

ASSUME MigrationsAssumption ==
  /\ File \subseteq Nat
  /\ IsFiniteSet(File)
  /\ NoRun \notin Run

MigrationsInit ==
  /\ schema = {}
  /\ recorded = {}
  /\ running = [u \in Operator |-> NoRun]
  /\ interleaved = {}

-----------------------------------------------------------------------------
\* The order of the files: "up" goes through it forwards, "down" backwards.
Foremost(cmd, V) == IF cmd = "up" THEN Min(V) ELSE Max(V)

\* The versions "down steps" reverts.
MostRecent(steps) == {v \in recorded : Cardinality({w \in recorded : w > v}) < steps}

\* appliedVersions, and the versions runUp or runDown will come to.
StartRun(u, cmd, todo) ==
  /\ running[u] = NoRun
  /\ running' = [running EXCEPT ![u] = [cmd |-> cmd, todo |-> todo, wrote |-> FALSE]]
  /\ UNCHANGED <<schema, recorded, interleaved>>

RunUp(u) == StartRun(u, "up", File \ recorded)

RunDown(u, steps) == StartRun(u, "down", MostRecent(steps))

AtWork(u) == running[u] # NoRun /\ running[u].todo # {}

NextFile(u) == Foremost(running[u].cmd, running[u].todo)

ScriptCommits(u) ==
  /\ AtWork(u) /\ ~running[u].wrote
  /\ schema' = IF running[u].cmd = "up" THEN schema \cup {NextFile(u)} ELSE schema \ {NextFile(u)}
  /\ running' = [running EXCEPT ![u].wrote = TRUE]
  /\ UNCHANGED <<recorded, interleaved>>

\* exec: the script runs inside the transaction, seen by nobody else.
Script(u) ==
  /\ AtWork(u) /\ ~running[u].wrote
  /\ running' = [running EXCEPT ![u].wrote = TRUE]
  /\ UNCHANGED <<schema, recorded, interleaved>>

\* The row is written and both are committed; a version that has its row is refused.
Record(u) ==
  /\ AtWork(u) /\ running[u].wrote
  /\ running[u].cmd = "up" => NextFile(u) \notin recorded
  /\ IF running[u].cmd = "up"
       THEN /\ schema' = schema \cup {NextFile(u)}
            /\ recorded' = recorded \cup {NextFile(u)}
       ELSE /\ schema' = schema \ {NextFile(u)}
            /\ recorded' = recorded \ {NextFile(u)}
  /\ running' = [running EXCEPT ![u].todo = @ \ {NextFile(u)}, ![u].wrote = FALSE]
  /\ interleaved' = interleaved \cup {v \in Operator \ {u} : running[v] # NoRun}

\* Nothing is left to do; or a statement has failed (log.Fatalf), the run was killed or
\* has lost its connection, and what it had not committed is rolled back.
RunEnds(u) ==
  /\ running[u] # NoRun
  /\ running' = [running EXCEPT ![u] = NoRun]
  /\ interleaved' = interleaved \ {u}
  /\ UNCHANGED <<schema, recorded>>

-----------------------------------------------------------------------------
MigrationsNext ==
  \E u \in Operator :
    \/ RunUp(u)
    \/ \E steps \in 1 .. Cardinality(File) : RunDown(u, steps)
    \/ Script(u)
    \/ Record(u)
    \/ RunEnds(u)

MigrationsSpec == MigrationsInit /\ [][MigrationsNext]_migrationVars

-----------------------------------------------------------------------------
(***************************************************************************)
(* Properties.                                                             *)
(***************************************************************************)

\* The variables have their types.
MigrationsTypeOK ==
  /\ schema \subseteq File /\ recorded \subseteq File
  /\ running \in [Operator -> Run \cup {NoRun}]
  /\ interleaved \subseteq {u \in Operator : running[u] # NoRun}

\* No version is missing below one that is there.
Gapless(V) == \A v \in V, w \in File : w < v => w \in V

(***************************************************************************)
(* "up: apply all pending migrations, down: roll back the most recent":    *)
(* schema_migrations always says what is in effect, wherever a run stops,  *)
(* and the versions in effect have no gap, which a later "up" would fill   *)
(* with scripts that were written for older tables.  A gap comes only from *)
(* a run during which another one has committed a migration.               *)
(***************************************************************************)
OnlyOverlapsLeaveGaps ==
  [][/\ recorded' = schema'
     /\ Gapless(recorded) => \/ Gapless(recorded')
                             \/ \E u \in interleaved : running'[u] # running[u]]_migrationVars
=============================================================================
