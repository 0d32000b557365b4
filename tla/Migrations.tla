------------------------------- MODULE Migrations ------------------------------
(***************************************************************************)
(* The migration runner of internal/repository/db.go, on every start of a  *)
(* server.  Servers of several builds may start on one database file: one  *)
(* while another still runs, an older build after a newer one, or a build  *)
(* in which somebody edited a migration that has been applied.  Each can   *)
(* fail or be killed between any two calls of the database.                *)
(***************************************************************************)
EXTENDS Integers, Sequences

CONSTANTS
  Server,    \* processes that start on the file
  Build,     \* builds of the server
  Script,    \* contents of migration files; a checksum tells them apart
  Files,     \* the scripts of each build, in the order of their versions
  Versions,  \* how many versions the newest build has
  None

ASSUME MigrationsAssumption ==
  /\ Versions \in Nat
  /\ Files \in [Build -> Seq(Script)]
  /\ \A b \in Build : Len(Files[b]) <= Versions
  /\ None \notin Script /\ None \notin Build

Version == 1 .. Versions

Stage == {"off", "table", "read", "apply", "up"}

VARIABLES
  record,  \* table schema_migrations: the checksum recorded for a version
  schema,  \* the scripts that were committed, in the order they were
  server   \* the processes: stage, build, what they read, and the version they are at

vars == <<record, schema, server>>

Off == [at |-> "off", build |-> None, known |-> [v \in Version |-> None], next |-> 1]

Process ==
  [at : Stage, build : Build \cup {None}, known : [Version -> Script \cup {None}],
   next : 1 .. Versions + 1]

TypeOK ==
  /\ record \in [Version -> Script \cup {None}]
  /\ schema \in Seq(Script) /\ Len(schema) <= Versions
  /\ server \in [Server -> Process]

Init ==
  /\ record = [v \in Version |-> None]
  /\ schema = <<>>
  /\ server = [p \in Server |-> Off]

Start(p) ==
  /\ server[p].at = "off"
  /\ \E b \in Build : server' = [server EXCEPT ![p] = [Off EXCEPT !.at = "table", !.build = b]]
  /\ UNCHANGED <<record, schema>>

\* CREATE TABLE IF NOT EXISTS schema_migrations, which is here from the start.
CreateTable(p) ==
  /\ server[p].at = "table"
  /\ server' = [server EXCEPT ![p].at = "read"]
  /\ UNCHANGED <<record, schema>>

\* appliedMigrations: the one read on which all the decisions rest.
ReadApplied(p) ==
  /\ server[p].at = "read"
  /\ server' = [server EXCEPT ![p].at = "apply", ![p].known = record]
  /\ UNCHANGED <<record, schema>>

\* The loop of Migrate comes to the next file.
HasFile(p) == server[p].at = "apply" /\ server[p].next <= Len(Files[server[p].build])

File(p) == Files[server[p].build][server[p].next]

Prior(p) == server[p].known[server[p].next]

\* (with a bug: nobody compares the checksums)
SkipUnseen(p) ==
  /\ HasFile(p) /\ Prior(p) # None
  /\ server' = [server EXCEPT ![p].next = @ + 1]
  /\ UNCHANGED <<record, schema>>

Skip(p) ==
  /\ HasFile(p) /\ Prior(p) = File(p)
  /\ server' = [server EXCEPT ![p].next = @ + 1]
  /\ UNCHANGED <<record, schema>>

\* "was modified after it was applied": the server does not start.
Refuse(p) ==
  /\ HasFile(p) /\ Prior(p) # None /\ Prior(p) # File(p)
  /\ server' = [server EXCEPT ![p] = Off]
  /\ UNCHANGED <<record, schema>>

\* (with a bug: INSERT OR REPLACE)
ApplyAgain(p) ==
  LET v == server[p].next
  IN /\ HasFile(p) /\ Prior(p) = None
     /\ record' = [record EXCEPT ![v] = File(p)]
     /\ schema' = Append(schema, File(p))
     /\ server' = [server EXCEPT ![p].next = @ + 1]

\* applyMigration: script and record in one transaction.  If another server has applied
\* the version since the read, the INSERT meets its primary key (or the script its own
\* tables) and the transaction is rolled back.
Apply(p) ==
  LET v == server[p].next
  IN /\ HasFile(p) /\ Prior(p) = None
     /\ IF record[v] = None
        THEN /\ record' = [record EXCEPT ![v] = File(p)]
             /\ schema' = Append(schema, File(p))
             /\ server' = [server EXCEPT ![p].next = @ + 1]
        ELSE /\ server' = [server EXCEPT ![p] = Off]
             /\ UNCHANGED <<record, schema>>

Finish(p) ==
  /\ server[p].at = "apply" /\ ~HasFile(p)
  /\ server' = [server EXCEPT ![p].at = "up"]
  /\ UNCHANGED <<record, schema>>

\* A call fails and main exits, or the process is stopped or killed: a transaction that
\* was open is rolled back.
Exit(p) ==
  /\ server[p].at # "off"
  /\ server' = [server EXCEPT ![p] = Off]
  /\ UNCHANGED <<record, schema>>

Next ==
  \E p \in Server : \/ Start(p) \/ CreateTable(p) \/ ReadApplied(p)
                    \/ Skip(p) \/ Refuse(p) \/ Apply(p) \/ Finish(p) \/ Exit(p)

Spec == Init /\ [][Next]_vars

(***************************************************************************)
(* Properties.                                                             *)
(***************************************************************************)

\* The schema is made of the recorded migrations: each ran once, in the order of the
\* versions, with nothing left out, and its record has the checksum of what ran
\* (db.go:4-8, "applied in order inside individual transactions").
SchemaIsRecorded ==
  /\ Len(schema) <= Versions
  /\ \A v \in Version : record[v] = IF v <= Len(schema) THEN schema[v] ELSE None

\* A server that is up runs on a schema in which each of its files was applied as it is
\* in that server's build, whatever other servers applied while it started (db.go:6-8,
\* "a startup error rather than a silent divergence").
UpMeansMigrated ==
  \A p \in Server : server[p].at = "up" =>
    \A v \in 1 .. Len(Files[server[p].build]) :
      v <= Len(schema) /\ schema[v] = Files[server[p].build][v]
================================================================================
