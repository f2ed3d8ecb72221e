--------------------------- MODULE StartupProofs ---------------------------
(***************************************************************************)
(* Theorems of Startup, for any number of processes, whatever options they *)
(* are started with, any migrations and any number of crashes and faults.  *)
(***************************************************************************)
EXTENDS Startup, TLAPS

(***************************************************************************)
(* What a process has achieved by where it is.  It has listed what is      *)
(* missing, and what it no longer has to apply is there; it turns to the   *)
(* auth database with the data database complete, and to the secret with   *)
(* both.                                                                   *)
(***************************************************************************)
Prepared(r) ==
    /\ r.pc = "migrate" =>
          Migrations(r.database) \ r.pending \subseteq applied[r.database]
    /\ r.pc = "build" => r.pending = {}
    /\ r.pc = "build" \/ r.database = "auth" =>
          applied["data"] = Migrations("data")
    /\ r.pc \in {"load_secret", "store_secret", "bind", "serving"} =>
          r.database = "auth" /\ applied["auth"] = Migrations("auth")

(* The secret a process goes on with is the one on file, once there is one. *)
HasSecret(r) ==
    /\ r.pc = "store_secret" => r.secret # None
    /\ r.pc \in {"bind", "serving"} => r.secret = stored /\ stored # None

(* Migrations are applied in order. *)
InOrder == \A d \in Databases : \A v \in applied[d] : 1..v \subseteq applied[d]

(* The inductive invariant. *)
StartupInv ==
    /\ TypeOK
    /\ \A p \in Processes : Prepared(process[p]) /\ HasSecret(process[p])
    /\ InOrder
    /\ OneSigningSecret

USE DEF db

-----------------------------------------------------------------------------
(* A migration is a number. *)
LEMMA MigrationsType == \A d \in Databases : Migrations(d) \subseteq Nat
BY StartupAssumption DEF Migrations

(* A process that is down has no claim to make. *)
LEMMA DownInv ==
    ASSUME StartupInv, NEW error_id \in
             {None, "PANIC", "DB_CONNECTION_FAILED", "DB_MIGRATION_FAILED",
              "DB_UNKNOWN", "IO_ERROR"}
    PROVE  /\ Down(error_id) \in Process
           /\ Down(error_id).pending \subseteq Migrations(Down(error_id).database)
           /\ Prepared(Down(error_id)) /\ HasSecret(Down(error_id))
BY DEF Down, Process, Databases, Prepared, HasSecret

(* A step of one process that leaves the tables alone keeps the invariant  *)
(* if what becomes of the process does.                                    *)
LEMMA ProcessStep ==
    ASSUME StartupInv, NEW p \in Processes, NEW r \in Process,
           process' = [process EXCEPT ![p] = r], UNCHANGED <<applied, stored>>,
           r.pending \subseteq Migrations(r.database), Prepared(r), HasSecret(r),
           drawn' \subseteq Secrets, mishaps' \in 0..MaxMishaps,
           \A s \in served' : s \in served \/ (s \in Secrets /\ s = stored)
    PROVE  StartupInv'
<1>1. /\ process' \in [Processes -> Process] /\ process'[p] = r
      /\ \A o \in Processes \ {p} : process'[o] = process[o]
  BY DEF StartupInv, TypeOK
<1>2. \A o \in Processes : Prepared(process[o])' /\ HasSecret(process[o])'
  BY <1>1 DEF StartupInv, Prepared, HasSecret, db, Migrations
<1>3. TypeOK'
  BY <1>1 DEF StartupInv, TypeOK, db, Migrations
<1>4. InOrder' /\ OneSigningSecret'
  BY DEF StartupInv, InOrder, OneSigningSecret, db
<1> QED
  BY <1>2, <1>3, <1>4 DEF StartupInv

(* A process that ends, for whatever reason. *)
LEMMA ExitStep ==
    ASSUME StartupInv, NEW p \in Processes,
           NEW error_id \in
             {None, "PANIC", "DB_CONNECTION_FAILED", "DB_MIGRATION_FAILED",
              "DB_UNKNOWN", "IO_ERROR"},
           Exit(p, error_id), UNCHANGED <<db, drawn, served>>,
           mishaps' \in 0..MaxMishaps
    PROVE  StartupInv'
<1> DEFINE r == Down(error_id)
<1>1. /\ r \in Process /\ r.pending \subseteq Migrations(r.database)
      /\ Prepared(r) /\ HasSecret(r)
  BY DownInv
<1>2. process' = [process EXCEPT ![p] = r]
  BY DEF Exit
<1>3. drawn' \subseteq Secrets /\ served' = served /\ UNCHANGED <<applied, stored>>
  BY DEF StartupInv, TypeOK
<1> HIDE DEF r
<1> QED
  BY <1>1, <1>2, <1>3, ProcessStep

(* The first statements of a process: nothing is claimed of the data       *)
(* database until its migrations have been listed.                         *)
LEMMA PreparationStep ==
    ASSUME StartupInv, NEW p \in Processes,
           Launch(p) \/ Connect(p) \/ ListMigrations(p) \/ Build(p)
    PROVE  StartupInv'
<1> DEFINE r == process[p]
<1>0. /\ r \in Process /\ r.pending \subseteq Migrations(r.database)
      /\ Prepared(r) /\ HasSecret(r) /\ process \in [Processes -> Process]
      /\ drawn \subseteq Secrets /\ mishaps \in 0..MaxMishaps
  BY DEF StartupInv, TypeOK
<1>1. CASE Launch(p)
  <2>1. PICK options \in Options[p] :
           process' = [process EXCEPT ![p] =
                         [Down(None) EXCEPT !.pc = "connect", !.options = options]]
    BY <1>1 DEF Launch
  <2> DEFINE n == [Down(None) EXCEPT !.pc = "connect", !.options = options]
  <2>2. n \in Process /\ n.pending \subseteq Migrations(n.database)
    BY StartupAssumption DEF Down, Process, Databases
  <2>3. Prepared(n) /\ HasSecret(n)
    BY DEF Down, Prepared, HasSecret
  <2>4. process' = [process EXCEPT ![p] = n]
    BY <2>1
  <2> HIDE DEF n
  <2> QED
    BY <1>0, <1>1, <2>2, <2>3, <2>4, ProcessStep DEF Launch
<1>2. CASE Connect(p)
  <2> DEFINE n == [r EXCEPT !.pc = "list_migrations"]
  <2>1. n \in Process /\ n.pending \subseteq Migrations(n.database)
    BY <1>0 DEF Process
  <2>2. Prepared(n) /\ HasSecret(n)
    BY <1>0, <1>2 DEF Prepared, HasSecret, Process
  <2>3. process' = [process EXCEPT ![p] = n]
    BY <1>0, <1>2 DEF Connect, Goto
  <2> HIDE DEF n
  <2> QED
    BY <1>0, <1>2, <2>1, <2>2, <2>3, ProcessStep DEF Connect
<1>3. CASE ListMigrations(p)
  <2> DEFINE missing == Migrations(r.database) \ applied[r.database]
             n == [r EXCEPT !.pc = "migrate", !.pending = missing]
  <2>1. n \in Process /\ n.pending \subseteq Migrations(n.database)
    BY <1>0, MigrationsType DEF Process
  <2>2. Prepared(n) /\ HasSecret(n)
    BY <1>0, <1>3 DEF Prepared, HasSecret, Process
  <2>3. process' = [process EXCEPT ![p] = n]
    BY <1>0, <1>3 DEF ListMigrations
  <2> HIDE DEF n
  <2> QED
    BY <1>0, <1>3, <2>1, <2>2, <2>3, ProcessStep DEF ListMigrations
<1>4. CASE Build(p)
  <2>1. CASE Exit(p, "PANIC")
    BY <1>0, <1>4, <2>1, ExitStep DEF Build
  <2>2. CASE process' = [process EXCEPT ![p].pc = "connect",
                                        ![p].database = "auth"]
    <3> DEFINE n == [r EXCEPT !.pc = "connect", !.database = "auth"]
    <3>1. n \in Process /\ n.pending \subseteq Migrations(n.database)
      BY <1>0, <1>4 DEF Build, Process, Prepared, Databases
    <3>2. Prepared(n) /\ HasSecret(n)
      BY <1>0, <1>4 DEF Build, Prepared, HasSecret, Process
    <3>3. process' = [process EXCEPT ![p] = n]
      BY <1>0, <2>2
    <3> HIDE DEF n
    <3> QED
      BY <1>0, <1>4, <3>1, <3>2, <3>3, ProcessStep DEF Build
  <2> QED
    BY <1>4, <2>1, <2>2 DEF Build
<1> QED
  BY <1>1, <1>2, <1>3, <1>4

(* A process that finds nothing missing has its database complete, however *)
(* many other processes migrate it at the same time...                     *)
LEMMA MigratedStep ==
    ASSUME StartupInv, NEW p \in Processes, process[p].pc = "migrate",
           process[p].pending = {}, Migrated(p),
           UNCHANGED <<applied, stored, drawn, served, mishaps>>
    PROVE  StartupInv'
<1> DEFINE r == process[p]
           next == IF r.database = "data" THEN "build" ELSE "load_secret"
           n == [r EXCEPT !.pc = next]
<1>0. /\ r \in Process /\ r.pending = {} /\ Prepared(r) /\ HasSecret(r)
      /\ process \in [Processes -> Process] /\ r.database \in Databases
      /\ applied[r.database] \subseteq Migrations(r.database)
  BY DEF StartupInv, TypeOK, Process
<1>1. n \in Process /\ n.pending \subseteq Migrations(n.database)
  BY <1>0 DEF Process
<1>2. applied[r.database] = Migrations(r.database)
  BY <1>0 DEF Prepared
<1>3. Prepared(n) /\ HasSecret(n)
  BY <1>0, <1>2 DEF Prepared, HasSecret, Process, Databases
<1>4. process' = [process EXCEPT ![p] = n]
  BY DEF Migrated, Goto
<1>5. /\ drawn' \subseteq Secrets /\ mishaps' \in 0..MaxMishaps
      /\ UNCHANGED <<applied, stored, served>>
  BY DEF StartupInv, TypeOK
<1> HIDE DEF n
<1> QED
  BY <1>1, <1>3, <1>4, <1>5, ProcessStep

(* ... because whoever applies a migration applies the first one missing.  *)
LEMMA ApplyStep ==
    ASSUME StartupInv, NEW p \in Processes, process[p].pc = "migrate",
           NEW v \in process[p].pending, \A w \in process[p].pending : v <= w,
           applied' = [applied EXCEPT ![process[p].database] = @ \cup {v}],
           process' = [process EXCEPT ![p].pending = @ \ {v}],
           UNCHANGED <<stored, drawn, served, mishaps>>
    PROVE  StartupInv'
<1> DEFINE r == process[p]
           d == r.database
           n == [r EXCEPT !.pending = @ \ {v}]
<1>0. /\ r \in Process /\ d \in Databases /\ Prepared(r) /\ HasSecret(r)
      /\ r.pending \subseteq Migrations(d)
      /\ process \in [Processes -> Process]
      /\ applied \in [Databases -> SUBSET Nat]
      /\ \A e \in Databases : applied[e] \subseteq Migrations(e)
  BY DEF StartupInv, TypeOK, Process
<1>1. v \in Migrations(d) /\ Migrations(d) \subseteq Nat
  BY <1>0, MigrationsType
<1>2. /\ applied' \in [Databases -> SUBSET Nat]
      /\ applied'[d] = applied[d] \cup {v}
      /\ \A e \in Databases \ {d} : applied'[e] = applied[e]
      /\ \A e \in Databases : applied[e] \subseteq applied'[e]
      /\ \A e \in Databases : applied'[e] \subseteq Migrations(e)
  BY <1>0, <1>1
<1>3. /\ n \in Process /\ n.pending \subseteq Migrations(n.database)
      /\ process' = [process EXCEPT ![p] = n]
  BY <1>0 DEF Process
<1>4. /\ process' \in [Processes -> Process] /\ process'[p] = n
      /\ \A o \in Processes \ {p} : process'[o] = process[o]
  BY <1>0, <1>3
<1>5. TypeOK'
  <2>1. \A o \in Processes :
           process'[o].pending \subseteq Migrations(process'[o].database)
    BY <1>3, <1>4 DEF StartupInv, TypeOK
  <2> QED
    BY <1>2, <1>4, <2>1 DEF StartupInv, TypeOK, Migrations
<1>6. Prepared(process[p])' /\ HasSecret(process[p])'
  <2>1. n.pc = "migrate" /\ n.database = d /\ n.pending = r.pending \ {v}
    BY <1>0 DEF Process
  <2>2. Migrations(d) \ n.pending \subseteq applied'[d]
    BY <1>0, <1>2, <2>1 DEF Prepared
  <2>3. d = "auth" => applied["data"]' = Migrations("data")
    BY <1>0, <1>2, <2>1 DEF Prepared, Databases
  <2> QED
    BY <1>4, <2>1, <2>2, <2>3 DEF Prepared, HasSecret, Migrations
<1>7. ASSUME NEW o \in Processes \ {p}
      PROVE  Prepared(process[o])' /\ HasSecret(process[o])'
  <2> DEFINE q == process[o]
  <2>1. /\ Prepared(q) /\ HasSecret(q) /\ process'[o] = q
        /\ q.database \in Databases /\ "data" \in Databases
        /\ "auth" \in Databases
    BY <1>4 DEF StartupInv, TypeOK, Process, Databases
  <2>2. \A e \in Databases : applied[e] = Migrations(e) =>
                              applied'[e] = Migrations(e)
    BY <1>2
  <2> QED
    BY <1>2, <2>1, <2>2 DEF Prepared, HasSecret, Migrations
<1>8. InOrder'
  <2>1. 1..v \subseteq applied'[d]
    <3> SUFFICES ASSUME NEW w \in 1..v PROVE w \in applied'[d]
      OBVIOUS
    <3>1. w = v \/ w \notin r.pending
      BY <1>0, <1>1
    <3>2. w \in Migrations(d)
      BY <1>0, <1>1, StartupAssumption DEF Migrations
    <3>3. Migrations(d) \ r.pending \subseteq applied[d]
      BY <1>0 DEF Prepared
    <3> QED
      BY <1>2, <3>1, <3>2, <3>3
  <2> QED
    BY <1>2, <2>1 DEF StartupInv, InOrder
<1>9. OneSigningSecret'
  BY DEF StartupInv, OneSigningSecret
<1> QED
  BY <1>4, <1>5, <1>6, <1>7, <1>8, <1>9 DEF StartupInv

(* The migrator as a whole; who loses a race for a migration exits.        *)
LEMMA MigrateStep ==
    ASSUME StartupInv, NEW p \in Processes, Migrate(p)
    PROVE  StartupInv'
<1>1. mishaps' \in 0..MaxMishaps
  BY DEF Migrate, StartupInv, TypeOK
<1>2. CASE /\ process[p].pending = {} /\ Migrated(p) /\ UNCHANGED applied
  BY <1>2, MigratedStep DEF Migrate
<1>3. ASSUME NEW v \in process[p].pending,
             \A w \in process[p].pending : v <= w,
             applied' = [applied EXCEPT ![process[p].database] = @ \cup {v}],
             process' = [process EXCEPT ![p].pending = @ \ {v}]
      PROVE  StartupInv'
  BY <1>3, ApplyStep DEF Migrate
<1>4. CASE MigrationConflict(p) /\ UNCHANGED applied
  BY <1>1, <1>4, ExitStep DEF Migrate, MigrationConflict
<1> QED
  BY <1>2, <1>3, <1>4 DEF Migrate

(* The secret on file is used; if there is none, one is drawn.             *)
LEMMA LoadStep ==
    ASSUME StartupInv, NEW p \in Processes, LoadSecret(p)
    PROVE  StartupInv'
<1> DEFINE r == process[p]
           bound == [r EXCEPT !.pc = "bind", !.secret = stored]
           storing(s) == [r EXCEPT !.pc = "store_secret", !.secret = s]
<1>0. /\ r \in Process /\ r.pc = "load_secret" /\ Prepared(r)
      /\ r.pending \subseteq Migrations(r.database)
      /\ process \in [Processes -> Process] /\ stored \in Secrets \cup {None}
      /\ drawn \subseteq Secrets /\ mishaps' \in 0..MaxMishaps
      /\ UNCHANGED <<applied, stored, served>>
  BY DEF LoadSecret, StartupInv, TypeOK
<1>1. CASE /\ stored # None /\ UNCHANGED drawn
           /\ process' = [process EXCEPT ![p] = bound]
  <2>1. bound \in Process /\ bound.pending \subseteq Migrations(bound.database)
    BY <1>0 DEF Process
  <2>2. Prepared(bound) /\ HasSecret(bound)
    BY <1>0, <1>1 DEF Prepared, HasSecret, Process
  <2> HIDE DEF bound
  <2> QED
    BY <1>0, <1>1, <2>1, <2>2, ProcessStep
<1>2. ASSUME NEW s \in Secrets \ drawn, drawn' = drawn \cup {s},
             process' = [process EXCEPT ![p] = storing(s)]
      PROVE  StartupInv'
  <2> DEFINE n == storing(s)
  <2>1. n \in Process /\ n.pending \subseteq Migrations(n.database)
    BY <1>0 DEF Process
  <2>2. Prepared(n) /\ HasSecret(n)
    BY <1>0, StartupAssumption DEF Prepared, HasSecret, Process
  <2>3. process' = [process EXCEPT ![p] = n] /\ drawn' \subseteq Secrets
    BY <1>0, <1>2
  <2> HIDE DEF n
  <2> QED
    BY <1>0, <2>1, <2>2, <2>3, ProcessStep
<1> QED
  BY <1>0, <1>1, <1>2 DEF LoadSecret, Found

(* Whoever stores its secret first finds that nobody has got past that     *)
(* point yet; whoever comes later exits, and loses only its own secret.    *)
LEMMA StoreStep ==
    ASSUME StartupInv, NEW p \in Processes, StoreSecret(p)
    PROVE  StartupInv'
<1> DEFINE r == process[p]
           n == [r EXCEPT !.pc = "bind"]
<1>0. /\ r \in Process /\ r.pc = "store_secret" /\ Prepared(r) /\ HasSecret(r)
      /\ process \in [Processes -> Process]
      /\ mishaps' \in 0..MaxMishaps /\ UNCHANGED <<applied, drawn, served, mishaps>>
  BY DEF StoreSecret, StartupInv, TypeOK
<1>1. CASE Exit(p, "DB_UNKNOWN") /\ UNCHANGED stored
  BY <1>0, <1>1, ExitStep
<1>2. CASE /\ stored = None /\ stored' = r.secret
           /\ process' = [process EXCEPT ![p] = n]
  <2>1. r.secret # None /\ r.secret \in Secrets
    BY <1>0 DEF HasSecret, Process
  <2>2. n \in Process /\ n.pc = "bind" /\ n.secret = r.secret
        /\ n.pending = r.pending /\ n.database = r.database
    BY <1>0 DEF Process
  <2>3. /\ process' \in [Processes -> Process] /\ process'[p] = n
        /\ \A o \in Processes \ {p} : process'[o] = process[o]
    BY <1>0, <1>2, <2>2
  <2>4. \A o \in Processes \ {p} : process[o].pc \notin {"bind", "serving"}
    BY <1>2 DEF StartupInv, HasSecret
  <2>5. served = {}
    BY <1>2, StartupAssumption DEF StartupInv, TypeOK, OneSigningSecret
  <2>6. TypeOK'
    <3>1. \A o \in Processes :
             process'[o].pending \subseteq Migrations(process'[o].database)
      BY <2>2, <2>3 DEF StartupInv, TypeOK
    <3> QED
      BY <1>0, <1>2, <2>1, <2>3, <3>1 DEF StartupInv, TypeOK, Migrations
  <2>7. Prepared(process[p])' /\ HasSecret(process[p])'
    BY <1>0, <1>2, <2>1, <2>2, <2>3 DEF Prepared, HasSecret, Migrations
  <2>8. \A o \in Processes \ {p} : Prepared(process[o])' /\ HasSecret(process[o])'
    BY <1>0, <2>3, <2>4 DEF StartupInv, Prepared, HasSecret, Migrations
  <2>9. InOrder' /\ OneSigningSecret'
    BY <1>0, <2>5 DEF StartupInv, InOrder, OneSigningSecret
  <2> QED
    BY <2>3, <2>6, <2>7, <2>8, <2>9 DEF StartupInv
<1> QED
  BY <1>0, <1>1, <1>2 DEF StoreSecret, CanStore, Goto

(* The listener is bound, or the process exits. *)
LEMMA BindStep ==
    ASSUME StartupInv, NEW p \in Processes, Bind(p)
    PROVE  StartupInv'
<1> DEFINE r == process[p]
           n == [r EXCEPT !.pc = "serving"]
<1>0. /\ r \in Process /\ r.pc = "bind" /\ Prepared(r) /\ HasSecret(r)
      /\ r.pending \subseteq Migrations(r.database)
      /\ process \in [Processes -> Process]
      /\ drawn' \subseteq Secrets /\ mishaps' \in 0..MaxMishaps
      /\ UNCHANGED <<applied, stored, drawn>>
  BY DEF Bind, StartupInv, TypeOK
<1>1. CASE /\ Exit(p, "PANIC") \/ Exit(p, "IO_ERROR")
           /\ UNCHANGED served
  BY <1>0, <1>1, ExitStep
<1>2. CASE /\ process' = [process EXCEPT ![p] = n]
           /\ served' = served \cup {r.secret}
  <2>1. n \in Process /\ n.pending \subseteq Migrations(n.database)
    BY <1>0 DEF Process
  <2>2. Prepared(n) /\ HasSecret(n)
    BY <1>0 DEF Prepared, HasSecret, Process
  <2>3. \A s \in served' : s \in served \/ (s \in Secrets /\ s = stored)
    BY <1>0, <1>2 DEF HasSecret, Process
  <2> HIDE DEF n
  <2> QED
    BY <1>0, <1>2, <2>1, <2>2, <2>3, ProcessStep
<1> QED
  BY <1>0, <1>1, <1>2 DEF Bind, Goto

-----------------------------------------------------------------------------
(* Every step of every process, a crash or a fault of it included, keeps   *)
(* the invariant.                                                          *)
LEMMA StartupStep == StartupInv /\ [Next]_vars => StartupInv'
<1> SUFFICES ASSUME StartupInv, [Next]_vars PROVE StartupInv'
  OBVIOUS
<1>1. ASSUME NEW p \in Processes, Step(p) PROVE StartupInv'
  BY <1>1, PreparationStep, MigrateStep, LoadStep, StoreStep, BindStep DEF Step
<1>2. ASSUME NEW p \in Processes, Crash(p) \/ Fail(p) PROVE StartupInv'
  <2>1. mishaps' \in 0..MaxMishaps
    BY <1>2, StartupAssumption DEF Crash, Fail, StartupInv, TypeOK
  <2>2. \A pc : Failure(pc) \subseteq {"DB_CONNECTION_FAILED",
                                        "DB_MIGRATION_FAILED", "DB_UNKNOWN"}
    BY DEF Failure
  <2> QED
    BY <1>2, <2>1, <2>2, ExitStep DEF Crash, Fail
<1>3. CASE UNCHANGED vars
  BY <1>3 DEF vars, StartupInv, TypeOK, Prepared, HasSecret, InOrder,
              OneSigningSecret, Migrations
<1> QED
  BY <1>1, <1>2, <1>3 DEF Next

(* Crashes, restarts and races to migrate and to store the secret keep the *)
(* inductive invariant: what main and serve have done by each await.       *)
THEOREM StartupInvariant == Spec => []StartupInv
<1>1. Init => StartupInv
  <2> SUFFICES ASSUME Init PROVE StartupInv
    OBVIOUS
  <2>1. /\ Down(None) \in Process
        /\ Down(None).pending \subseteq Migrations(Down(None).database)
    BY DEF Down, Process, Databases
  <2>2. TypeOK
    BY <2>1, StartupAssumption DEF Init, TypeOK, Databases, Migrations
  <2>3. \A p \in Processes : Prepared(process[p]) /\ HasSecret(process[p])
    BY DEF Init, Down, Prepared, HasSecret
  <2>4. InOrder /\ OneSigningSecret
    BY DEF Init, InOrder, OneSigningSecret, Databases
  <2> QED
    BY <2>2, <2>3, <2>4 DEF StartupInv
<1> QED
  BY <1>1, StartupStep, PTL DEF Spec

(* The tables, the processes and what they end with have their types.      *)
THEOREM StartupTypes == Spec => []TypeOK
<1>1. StartupInv => TypeOK
  BY DEF StartupInv
<1> QED
  BY <1>1, StartupInvariant, PTL

(* Every process that ever serves signs and verifies with the secret that  *)
(* load_or_create finds on file, however many start at once or crash.      *)
THEOREM OneSecret == Spec => []OneSigningSecret
<1>1. StartupInv => OneSigningSecret
  BY DEF StartupInv
<1> QED
  BY <1>1, StartupInvariant, PTL

(* No process serves before both databases have all their migrations, and  *)
(* the migrations that are there are always the first ones.                *)
THEOREM CompleteSchema == Spec => []ServesCompleteSchema
<1>1. StartupInv => ServesCompleteSchema
  BY DEF StartupInv, Prepared, InOrder, ServesCompleteSchema, Databases
<1> QED
  BY <1>1, StartupInvariant, PTL

-----------------------------------------------------------------------------
(***************************************************************************)
(* What starting servers promises about the databases.                     *)
(***************************************************************************)

(* Whoever applies a migration applies the one after those that are there, *)
(* even if other processes have migrated since it listed what is missing.  *)
LEMMA NextMigration ==
    ASSUME StartupInv, NEW p \in Processes, process[p].pc = "migrate",
           NEW v \in process[p].pending, \A w \in process[p].pending : v <= w,
           v \notin applied[process[p].database]
    PROVE  /\ v \in Migrations(process[p].database)
           /\ applied[process[p].database] = 1..(v - 1)
<1> DEFINE d == process[p].database
<1>1. /\ d \in Databases /\ v \in Migrations(d) /\ Migrations(d) \subseteq Nat
      /\ process[p].pending \subseteq Migrations(d)
      /\ applied[d] \subseteq Migrations(d)
  BY MigrationsType DEF StartupInv, TypeOK, Process
<1>2. ASSUME NEW w \in 1..(v - 1) PROVE w \in applied[d]
  <2>1. w \in Migrations(d) /\ w \notin process[p].pending
    BY <1>1, StartupAssumption DEF Migrations
  <2>2. Migrations(d) \ process[p].pending \subseteq applied[d]
    BY DEF StartupInv, Prepared
  <2> QED
    BY <2>1, <2>2
<1>3. ASSUME NEW w \in applied[d] PROVE w \in 1..(v - 1)
  <2>1. v \in Nat /\ w \in Nat /\ v \in 1..Last[d] /\ w \in 1..Last[d]
        /\ Last[d] \in Nat
    BY <1>1, StartupAssumption DEF Migrations
  <2>2. 1..w \subseteq applied[d]
    BY <1>1 DEF StartupInv, InOrder
  <2>3. ~ (v <= w)
    BY <2>1, <2>2
  <2> QED
    BY <2>1, <2>3
<1> QED
  BY <1>1, <1>2, <1>3

(* A migration that is applied is the next of its database, the data       *)
(* database's before the auth database's. *)
LEMMA MigrateImplements ==
    ASSUME StartupInv, NEW p \in Processes, Migrate(p)
    PROVE  \/ Persistent!Migrate("data") \/ Persistent!Migrate("auth")
           \/ UNCHANGED <<applied, stored, served>>
<1> DEFINE d == process[p].database
<1>1. CASE UNCHANGED applied
  BY <1>1 DEF Migrate
<1>2. ASSUME NEW v \in process[p].pending,
             \A w \in process[p].pending : v <= w, v \notin applied[d],
             applied' = [applied EXCEPT ![d] = @ \cup {v}]
      PROVE  Persistent!Migrate(d) /\ d \in {"data", "auth"}
  <2>1. process[p].pc = "migrate" /\ UNCHANGED <<stored, served>>
    BY DEF Migrate
  <2>2. v \in Migrations(d) /\ applied[d] = 1..(v - 1)
    BY <1>2, <2>1, NextMigration
  <2>3. d \in {"data", "auth"} /\ (d = "auth" => Persistent!Complete("data"))
    BY DEF StartupInv, TypeOK, Process, Databases, Prepared, Migrations,
           Persistent!Complete
  <2>4. v \in 1..Last[d] /\ Last[d] \in Nat
    BY <2>2, <2>3, StartupAssumption DEF Migrations, Databases
  <2>5. applied[d] \cup {v} = 1..v
    BY <2>2, <2>4
  <2>6. applied' = [applied EXCEPT ![d] = 1..v]
    BY <1>2, <2>5
  <2> HIDE DEF d
  <2> QED
    BY <2>1, <2>2, <2>3, <2>4, <2>6 DEF Persistent!Migrate
<1> QED
  BY <1>1, <1>2 DEF Migrate

(* A process that stores a secret, or serves, has migrated both databases, *)
(* and the secret it stores is the first.                                  *)
LEMMA SecretImplements ==
    ASSUME StartupInv, NEW p \in Processes, StoreSecret(p) \/ Bind(p)
    PROVE  \/ Persistent!SetSecret \/ Persistent!Serve
           \/ UNCHANGED <<applied, stored, served>>
<1>1. /\ Prepared(process[p]) /\ HasSecret(process[p])
      /\ process[p].secret \in Secrets \cup {None}
      /\ UNCHANGED applied
  BY DEF StartupInv, TypeOK, Process, StoreSecret, Bind
<1>2. process[p].pc \in {"store_secret", "bind"}
  BY DEF StoreSecret, Bind
<1>3. Persistent!Complete("data") /\ Persistent!Complete("auth")
  BY <1>1, <1>2 DEF Prepared, Migrations, Persistent!Complete
<1>4. CASE StoreSecret(p)
  BY <1>1, <1>3, <1>4
     DEF StoreSecret, CanStore, HasSecret, Persistent!SetSecret
<1>5. CASE Bind(p)
  BY <1>1, <1>3, <1>5 DEF Bind, HasSecret, Persistent!Serve
<1> QED
  BY <1>4, <1>5

(* Every step of a process is a step of DatabaseLifecycle or changes       *)
(* nothing that outlives the process.                                      *)
LEMMA StepImplements ==
    StartupInv /\ [Next]_vars => [Persistent!Next]_<<applied, stored, served>>
<1> SUFFICES ASSUME StartupInv, [Next]_vars
             PROVE  Persistent!Next \/ UNCHANGED <<applied, stored, served>>
  OBVIOUS
<1>1. ASSUME NEW p \in Processes,
             \/ Launch(p) \/ Connect(p) \/ ListMigrations(p) \/ Build(p)
             \/ LoadSecret(p) \/ Crash(p) \/ Fail(p)
      PROVE  UNCHANGED <<applied, stored, served>>
  BY <1>1 DEF Launch, Connect, ListMigrations, Build, LoadSecret, Crash, Fail
<1>2. ASSUME NEW p \in Processes, Migrate(p) \/ StoreSecret(p) \/ Bind(p)
      PROVE  Persistent!Next \/ UNCHANGED <<applied, stored, served>>
  BY <1>2, MigrateImplements, SecretImplements DEF Persistent!Next
<1>3. CASE UNCHANGED vars
  BY <1>3 DEF vars
<1> QED
  BY <1>1, <1>2, <1>3 DEF Next, Step

(* main and serve, run by any number of processes that crash, fail, race   *)
(* and start again, implement DatabaseLifecycle: migrations only go        *)
(* forward and in order, the secret is set once and for good, and nothing  *)
(* is served before that or under another.                                 *)
THEOREM DatabasesOnlyGoForward == Spec => ImplementsDatabaseLifecycle
<1>1. Init => Persistent!Init
  BY DEF Init, Persistent!Init, Databases
<1> QED
  BY <1>1, StartupInvariant, StepImplements, PTL
     DEF Spec, ImplementsDatabaseLifecycle, Persistent!Spec

=============================================================================
