--------------------------- MODULE MigrationsProofs ----------------------------
(***************************************************************************)
(* Migrations keeps its schema and its records together, for any number of *)
(* servers, builds and versions.                                           *)
(***************************************************************************)
EXTENDS Migrations, TLAPS

(***************************************************************************)
(* What a server that has read the records knows stays true: records are   *)
(* never changed, so the versions it is past are in the schema as its      *)
(* build has them.                                                         *)
(***************************************************************************)
Knows(p) ==
  LET q == server[p]
  IN /\ q.at # "off" => q.build \in Build /\ q.next <= Len(Files[q.build]) + 1
     /\ q.at = "up" => q.next = Len(Files[q.build]) + 1
     /\ \A v \in Version : q.known[v] # None => record[v] = q.known[v]
     /\ \A v \in 1 .. q.next - 1 : v <= Len(schema) /\ schema[v] = Files[q.build][v]

IInv == TypeOK /\ SchemaIsRecorded /\ \A p \in Server : Knows(p)

LEMMA InitIInv == Init => IInv
  <1> SUFFICES ASSUME Init
               PROVE  IInv
    OBVIOUS
  <1> USE MigrationsAssumption
  <1>1. Off \in Process
    BY DEF Off, Process, Stage, Version
  <1>2. TypeOK
    BY <1>1 DEF Init, TypeOK
  <1>3. SchemaIsRecorded
    BY DEF Init, SchemaIsRecorded, Version
  <1>4. ASSUME NEW p \in Server
        PROVE  Knows(p)
    BY DEF Init, Knows, Off, Version
  <1>5. QED
    BY <1>2, <1>3, <1>4 DEF IInv

\* A step of one server that leaves records and schema alone: only what that server
\* knows has to be looked at.
LEMMA Quiet ==
  ASSUME IInv, NEW p \in Server, NEW q \in Process,
         server' = [server EXCEPT ![p] = q], UNCHANGED <<record, schema>>,
         Knows(p)'
  PROVE  IInv'
  <1>1. TypeOK' /\ SchemaIsRecorded'
    BY DEF IInv, TypeOK, SchemaIsRecorded
  <1>2. ASSUME NEW r \in Server, r # p
        PROVE  Knows(r)'
    <2>1. server'[r] = server[r]
      BY <1>2 DEF IInv, TypeOK
    <2>2. QED
      BY <2>1 DEF IInv, Knows
  <1>3. QED
    BY <1>1, <1>2 DEF IInv

LEMMA OffIsQuiet ==
  ASSUME IInv, NEW p \in Server,
         server' = [server EXCEPT ![p] = Off], UNCHANGED <<record, schema>>
  PROVE  IInv'
  <1>1. Off \in Process
    BY MigrationsAssumption DEF Off, Process, Stage, Version
  <1>2. server'[p] = Off
    BY DEF IInv, TypeOK
  <1>3. Knows(p)'
    BY <1>2, MigrationsAssumption DEF Knows, Off, Version
  <1>4. QED
    BY <1>1, <1>3, Quiet

\* The heart of the matter: a version that is applied is the next one of the schema.
LEMMA ApplyIInv ==
  ASSUME IInv, NEW p \in Server, Apply(p)
  PROVE  IInv'
  <1> DEFINE b == server[p].build
             v == server[p].next
             after == [server[p] EXCEPT !.next = v + 1]
  <1> USE MigrationsAssumption
  <1>1. /\ server[p] \in Process /\ server[p].at = "apply" /\ Knows(p)
        /\ b \in Build /\ v \in 1 .. Len(Files[b]) /\ Len(Files[b]) \in Nat
        /\ Files[b] \in Seq(Script) /\ v \in Version
    BY DEF IInv, TypeOK, Apply, HasFile, Knows, Process, Version
  <1>2. Files[b][v] \in Script
    BY <1>1
  <1>3. CASE record[v] # None
    BY <1>3, OffIsQuiet DEF Apply
  <1>4. CASE record[v] = None
    <2>1. /\ record' = [record EXCEPT ![v] = Files[b][v]]
          /\ schema' = Append(schema, Files[b][v])
          /\ server' = [server EXCEPT ![p].next = @ + 1]
      BY <1>4 DEF Apply, File
    <2>2. /\ schema \in Seq(Script) /\ Len(schema) \in Nat
          /\ record \in [Version -> Script \cup {None}]
          /\ server \in [Server -> Process]
      BY DEF IInv, TypeOK
    <2>3. Len(schema) = v - 1
      <3>1. v > Len(schema)
        <4>1. v <= Len(schema) => schema[v] \in Script
          BY <1>1, <2>2
        <4>2. QED
          BY <1>1, <1>4, <2>2, <4>1 DEF IInv, SchemaIsRecorded
      <3>2. v - 1 <= Len(schema)
        <4>1. CASE v = 1
          BY <4>1, <2>2
        <4>2. CASE v > 1
          BY <4>2, <1>1 DEF Knows
        <4>3. QED
          BY <4>1, <4>2, <1>1
      <3>3. QED
        BY <1>1, <2>2, <3>1, <3>2
    <2>4. /\ schema' \in Seq(Script) /\ Len(schema') = v
          /\ schema'[v] = Files[b][v]
          /\ \A u \in 1 .. Len(schema) : schema'[u] = schema[u]
      BY <1>1, <1>2, <2>1, <2>2, <2>3
    <2>5. /\ server'[p] = after
          /\ \A r \in Server : r # p => server'[r] = server[r]
      BY <2>1, <2>2
    <2>6. TypeOK'
      <3>1. after \in Process
        <4>1. v + 1 \in 1 .. Versions + 1
          BY <1>1 DEF Version
        <4>2. QED
          BY <1>1, <4>1 DEF Process
      <3>2. server' \in [Server -> Process]
        BY <2>1, <2>2, <2>5, <3>1
      <3>3. record' \in [Version -> Script \cup {None}]
        BY <1>2, <2>1, <2>2
      <3>4. QED
        BY <1>1, <2>4, <3>2, <3>3 DEF TypeOK, Version
    <2>7. SchemaIsRecorded'
      <3> SUFFICES ASSUME NEW u \in Version
                   PROVE  record'[u] = IF u <= Len(schema') THEN schema'[u] ELSE None
        BY <1>1, <2>4 DEF SchemaIsRecorded, Version
      <3>1. record[u] = IF u <= Len(schema) THEN schema[u] ELSE None
        BY DEF IInv, SchemaIsRecorded
      <3>2. CASE u = v
        BY <3>2, <1>1, <2>1, <2>2, <2>4
      <3>3. CASE u # v
        BY <3>1, <3>3, <1>1, <2>1, <2>2, <2>3, <2>4 DEF Version
      <3>4. QED
        BY <3>2, <3>3
    <2>8. ASSUME NEW r \in Server
          PROVE  Knows(r)'
      <3>1. Knows(r) /\ server[r] \in Process
        BY <2>2 DEF IInv
      <3>2. \A u \in Version : server[r].known[u] # None => record'[u] = server[r].known[u]
        BY <3>1, <1>4, <2>1, <2>2 DEF Knows
      <3>3. \A u \in 1 .. server[r].next - 1 :
              u <= Len(schema') /\ schema'[u] = Files[server[r].build][u]
        BY <3>1, <1>1, <2>2, <2>3, <2>4 DEF Knows, Process
      <3>4. CASE r # p
        BY <3>1, <3>2, <3>3, <3>4, <2>5 DEF Knows
      <3>5. CASE r = p
        <4>1. /\ after.at = "apply" /\ after.build = b /\ after.known = server[p].known
              /\ after.next = v + 1
          BY <1>1 DEF Process
        <4>2. \A u \in 1 .. v : u <= Len(schema') /\ schema'[u] = Files[b][u]
          BY <3>3, <3>5, <1>1, <2>4
        <4>3. QED
          BY <3>1, <3>2, <3>5, <4>1, <4>2, <1>1, <2>5 DEF Knows
      <3>6. QED
        BY <3>4, <3>5
    <2>9. QED
      BY <2>6, <2>7, <2>8 DEF IInv
  <1>5. QED
    BY <1>3, <1>4

LEMMA NextIInv == IInv /\ [Next]_vars => IInv'
  <1> SUFFICES ASSUME IInv, [Next]_vars
               PROVE  IInv'
    OBVIOUS
  <1> USE MigrationsAssumption
  <1>1. CASE UNCHANGED vars
    BY <1>1 DEF vars, IInv, TypeOK, SchemaIsRecorded, Knows
  <1>2. ASSUME NEW p \in Server, Start(p)
        PROVE  IInv'
    <2>1. PICK b \in Build : server' = [server EXCEPT ![p] = [Off EXCEPT !.at = "table", !.build = b]]
      BY <1>2 DEF Start
    <2> DEFINE q == [Off EXCEPT !.at = "table", !.build = b]
    <2>2. q \in Process
      <3>1. Off \in Process /\ "table" \in Stage /\ b \in Build
        BY DEF Off, Process, Stage, Version
      <3>2. QED
        BY <3>1 DEF Process
    <2>3. server'[p] = q
      BY <2>1 DEF IInv, TypeOK
    <2>4. /\ q.at = "table" /\ q.build = b /\ q.next = 1
          /\ \A v \in Version : q.known[v] = None
      BY DEF Off
    <2>5. Len(Files[b]) \in Nat
      OBVIOUS
    <2>6. Knows(p)'
      BY <2>3, <2>4, <2>5 DEF Knows
    <2>7. QED
      BY <1>2, <2>1, <2>2, <2>6, Quiet DEF Start
  <1>3. ASSUME NEW p \in Server, CreateTable(p) \/ ReadApplied(p) \/ Skip(p) \/ Finish(p)
        PROVE  IInv'
    <2> DEFINE was == server[p]
    <2>1. /\ was \in Process /\ Knows(p) /\ record \in [Version -> Script \cup {None}]
          /\ server \in [Server -> Process]
      BY DEF IInv, TypeOK
    <2>2. was.at # "off" /\ was.build \in Build /\ Len(Files[was.build]) \in Nat
      BY <1>3, <2>1 DEF CreateTable, ReadApplied, Skip, Finish, HasFile, Knows
    <2>3. UNCHANGED <<record, schema>>
      BY <1>3 DEF CreateTable, ReadApplied, Skip, Finish
    <2>4. CASE CreateTable(p)
      <3>1. server' = [server EXCEPT ![p] = [was EXCEPT !.at = "read"]]
        BY <2>4 DEF CreateTable
      <3>2. [was EXCEPT !.at = "read"] \in Process
        BY <2>1 DEF Process, Stage
      <3>3. Knows(p)'
        BY <2>1, <2>2, <2>3, <3>1 DEF Knows, Process
      <3>4. QED
        BY <2>3, <3>1, <3>2, <3>3, Quiet
    <2>5. CASE ReadApplied(p)
      <3>1. server' = [server EXCEPT ![p] = [was EXCEPT !.at = "apply", !.known = record]]
        BY <2>5 DEF ReadApplied
      <3>2. [was EXCEPT !.at = "apply", !.known = record] \in Process
        BY <2>1 DEF Process, Stage
      <3>3. Knows(p)'
        BY <2>1, <2>2, <2>3, <3>1 DEF Knows, Process
      <3>4. QED
        BY <2>3, <3>1, <3>2, <3>3, Quiet
    <2>6. CASE Skip(p)
      <3>1. server' = [server EXCEPT ![p] = [was EXCEPT !.next = was.next + 1]]
        BY <2>6 DEF Skip
      <3>2. /\ was.at = "apply" /\ was.next \in 1 .. Len(Files[was.build])
            /\ was.known[was.next] = Files[was.build][was.next]
            /\ Files[was.build][was.next] \in Script
        BY <2>1, <2>2, <2>6 DEF Skip, HasFile, Prior, File, Process
      <3>3. was.next \in Version /\ was.next + 1 \in 1 .. Versions + 1
        BY <2>2, <3>2 DEF Version
      <3>4. [was EXCEPT !.next = was.next + 1] \in Process
        BY <2>1, <3>3 DEF Process
      <3>5. was.next <= Len(schema) /\ schema[was.next] = Files[was.build][was.next]
        <4>1. record[was.next] = Files[was.build][was.next]
          BY <2>1, <3>2, <3>3 DEF Knows
        <4>2. record[was.next] # None
          BY <3>2, <4>1
        <4>3. record[was.next] = IF was.next <= Len(schema) THEN schema[was.next] ELSE None
          BY <3>3 DEF IInv, SchemaIsRecorded
        <4>4. QED
          BY <4>1, <4>2, <4>3
      <3>6. \A v \in 1 .. was.next : v <= Len(schema) /\ schema[v] = Files[was.build][v]
        <4> SUFFICES ASSUME NEW v \in 1 .. was.next
                     PROVE  v <= Len(schema) /\ schema[v] = Files[was.build][v]
          OBVIOUS
        <4>1. CASE v = was.next
          BY <3>5, <4>1
        <4>2. CASE v # was.next
          BY <2>1, <3>2, <4>2 DEF Knows
        <4>3. QED
          BY <4>1, <4>2
      <3>7. Knows(p)'
        BY <2>1, <2>2, <2>3, <3>1, <3>2, <3>6 DEF Knows, Process
      <3>8. QED
        BY <2>3, <3>1, <3>4, <3>7, Quiet
    <2>7. CASE Finish(p)
      <3>1. server' = [server EXCEPT ![p] = [was EXCEPT !.at = "up"]]
        BY <2>7 DEF Finish
      <3>2. was.next = Len(Files[was.build]) + 1
        BY <2>1, <2>2, <2>7 DEF Finish, HasFile, Knows, Process
      <3>3. [was EXCEPT !.at = "up"] \in Process
        BY <2>1 DEF Process, Stage
      <3>4. Knows(p)'
        BY <2>1, <2>2, <2>3, <3>1, <3>2 DEF Knows, Process
      <3>5. QED
        BY <2>3, <3>1, <3>3, <3>4, Quiet
    <2>8. QED
      BY <1>3, <2>4, <2>5, <2>6, <2>7
  <1>4. ASSUME NEW p \in Server, Refuse(p) \/ Exit(p)
        PROVE  IInv'
    BY <1>4, OffIsQuiet DEF Refuse, Exit
  <1>5. QED
    BY <1>1, <1>2, <1>3, <1>4, ApplyIInv DEF Next

THEOREM Invariance == Spec => []IInv
  <1>1. QED
    BY InitIInv, NextIInv, PTL DEF Spec

(***************************************************************************)
(* The results.                                                            *)
(***************************************************************************)

\* Type correctness.
THEOREM TypeCorrect == Spec => []TypeOK
  <1>1. IInv => TypeOK
    BY DEF IInv
  <1>2. QED
    BY <1>1, Invariance, PTL

\* Schema and records agree, with every version applied once and in order: the
\* transaction of applyMigration, and the primary key of schema_migrations against
\* servers that start together.
THEOREM SchemaStaysRecorded == Spec => []SchemaIsRecorded
  <1>1. IInv => SchemaIsRecorded
    BY DEF IInv
  <1>2. QED
    BY <1>1, Invariance, PTL

\* No server comes up on a schema that its own build did not make or accept.
THEOREM UpIsMigrated == Spec => []UpMeansMigrated
  <1>1. IInv => UpMeansMigrated
    <2> SUFFICES ASSUME IInv, NEW p \in Server, server[p].at = "up",
                        NEW v \in 1 .. Len(Files[server[p].build])
                 PROVE  v <= Len(schema) /\ schema[v] = Files[server[p].build][v]
      BY DEF UpMeansMigrated
    <2>1. Knows(p) /\ server[p].build \in Build
      BY DEF IInv, Knows
    <2>2. server[p].next - 1 = Len(Files[server[p].build])
      BY <2>1, MigrationsAssumption DEF Knows
    <2>3. QED
      BY <2>1, <2>2 DEF Knows
  <1>2. QED
    BY <1>1, Invariance, PTL
================================================================================
