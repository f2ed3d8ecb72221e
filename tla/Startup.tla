------------------------------ MODULE Startup ------------------------------
(***************************************************************************)
(* The consumer's main (src/consumer/src/main.rs) and ServerBuilder::serve *)
(* (src/src/server.rs) of processes that share their databases: connect to *)
(* the data database and migrate it, then the auth database, load or       *)
(* generate the signing secret, bind, serve.  An error or a panic ends the *)
(* process and its supervisor starts it again (restart: unless-stopped);   *)
(* it may also crash at any point, serving included.  Each SQL statement   *)
(* or migration is one action.                                             *)
(***************************************************************************)
EXTENDS Integers, FiniteSets

CONSTANTS
    Processes,   \* processes that use the databases
    Options,     \* the sets of builder options each may be started with
    Addr,        \* the address each binds, if it sets one
    Secrets,     \* 32 random bytes, never drawn twice
    None,        \* no value
    Last,        \* the migrations of each database are 1..Last[database]
    MaxMishaps   \* bound on crashes and database faults together

Databases == {"data", "auth"}

RequiredOptions == {"routes", "auth_database_url", "addr"}

ASSUME StartupAssumption ==
    /\ Options \in [Processes -> SUBSET SUBSET RequiredOptions]
    /\ \A p \in Processes : Options[p] # {}
    /\ None \notin Secrets
    /\ Last \in [Databases -> Nat] /\ MaxMishaps \in Nat

VARIABLES
    applied,  \* table _sqlx_migrations of each database
    stored,   \* the row signing_secret of table auth_config, or None
    process,  \* where each process is
    drawn,    \* the secrets generated so far
    served,   \* history: the secrets processes have served under
    mishaps   \* crashes and faults so far

db == <<applied, stored>>
vars == <<applied, stored, process, drawn, served, mishaps>>

Migrations(d) == 1..Last[d]

Process ==
    [pc : {"down", "connect", "list_migrations", "migrate", "build",
           "load_secret", "store_secret", "bind", "serving"},
     options  : SUBSET RequiredOptions,
     database : Databases,  \* the one it is preparing
     pending  : SUBSET Nat,
     secret   : Secrets \cup {None},
     exit     : {None, "PANIC", "DB_CONNECTION_FAILED", "DB_MIGRATION_FAILED",
                 "DB_UNKNOWN", "IO_ERROR"}]

Down(exit) ==
    [pc |-> "down", options |-> {}, database |-> "data", pending |-> {},
     secret |-> None, exit |-> exit]

Exit(p, error_id) == process' = [process EXCEPT ![p] = Down(error_id)]

Goto(p, step) == process' = [process EXCEPT ![p].pc = step]

-----------------------------------------------------------------------------
(* main takes the data database first...                                   *)
Launch(p) ==
    /\ process[p].pc = "down"
    /\ \E options \in Options[p] :
          process' = [process EXCEPT ![p] =
                         [Down(None) EXCEPT !.pc = "connect", !.options = options]]
    /\ UNCHANGED <<db, drawn, served, mishaps>>

Connect(p) ==
    /\ process[p].pc = "connect"
    /\ Goto(p, "list_migrations")
    /\ UNCHANGED <<db, drawn, served, mishaps>>

(* The migrator reads which migrations are applied, then applies the       *)
(* others in order, each in a transaction that also inserts its version,   *)
(* a primary key.                                                          *)
ListMigrations(p) ==
    /\ process[p].pc = "list_migrations"
    /\ LET d == process[p].database IN
       process' = [process EXCEPT ![p].pc = "migrate",
                                  ![p].pending = Migrations(d) \ applied[d]]
    /\ UNCHANGED <<db, drawn, served, mishaps>>

Migrated(p) == Goto(p, IF process[p].database = "data" THEN "build" ELSE "load_secret")

(* Faulty: whoever finds a migration applied takes it that all are. *)
FaultyMigrationConflict(p) == Migrated(p)
MigrationConflict(p) == Exit(p, "DB_MIGRATION_FAILED")

Migrate(p) ==
    /\ process[p].pc = "migrate"
    /\ \/ /\ process[p].pending = {}
          /\ Migrated(p)
          /\ UNCHANGED applied
       \/ \E v \in process[p].pending :
             LET d == process[p].database IN
             /\ \A w \in process[p].pending : v <= w
             /\ \/ /\ v \notin applied[d]
                   /\ applied' = [applied EXCEPT ![d] = @ \cup {v}]
                   /\ process' = [process EXCEPT ![p].pending = @ \ {v}]
                \/ /\ v \in applied[d]
                   /\ MigrationConflict(p)
                   /\ UNCHANGED applied
    /\ UNCHANGED <<stored, drawn, served, mishaps>>

(* ... then build() unwraps two of its required options before it turns to *)
(* the auth database...                                                    *)
Build(p) ==
    /\ process[p].pc = "build"
    /\ \/ /\ {"routes", "auth_database_url"} \subseteq process[p].options
          /\ process' = [process EXCEPT ![p].pc = "connect",
                                        ![p].database = "auth"]
       \/ /\ ~ ({"routes", "auth_database_url"} \subseteq process[p].options)
          /\ Exit(p, "PANIC")
    /\ UNCHANGED <<db, drawn, served, mishaps>>

(* SELECT value ...; if there is none, a secret is drawn.  Faulty: it is   *)
(* drawn in any case.                                                      *)
FaultyFound(p) == None
Found(p) == stored

LoadSecret(p) ==
    /\ process[p].pc = "load_secret"
    /\ \/ /\ Found(p) # None
          /\ process' = [process EXCEPT ![p].pc = "bind", ![p].secret = Found(p)]
          /\ UNCHANGED drawn
       \/ /\ Found(p) = None
          /\ \E s \in Secrets \ drawn :
                /\ process' = [process EXCEPT ![p].pc = "store_secret",
                                              ![p].secret = s]
                /\ drawn' = drawn \cup {s}
    /\ UNCHANGED <<db, served, mishaps>>

(* INSERT INTO auth_config; PRIMARY KEY (key).  Faulty: OR REPLACE. *)
FaultyCanStore(p) == TRUE
CanStore(p) == stored = None

StoreSecret(p) ==
    /\ process[p].pc = "store_secret"
    /\ \/ /\ CanStore(p)
          /\ stored' = process[p].secret
          /\ Goto(p, "bind")
       \/ /\ ~ CanStore(p)
          /\ Exit(p, "DB_UNKNOWN")
          /\ UNCHANGED stored
    /\ UNCHANGED <<applied, drawn, served, mishaps>>

(* ... and the third only now; then the listener is bound. *)
InUse(addr) ==
    \E o \in Processes : process[o].pc = "serving" /\ Addr[o] = addr

Bind(p) ==
    /\ process[p].pc = "bind"
    /\ \/ /\ "addr" \notin process[p].options
          /\ Exit(p, "PANIC")
          /\ UNCHANGED served
       \/ /\ "addr" \in process[p].options /\ InUse(Addr[p])
          /\ Exit(p, "IO_ERROR")
          /\ UNCHANGED served
       \/ /\ "addr" \in process[p].options /\ ~ InUse(Addr[p])
          /\ Goto(p, "serving")
          /\ served' = served \cup {process[p].secret}
    /\ UNCHANGED <<db, drawn, mishaps>>

Crash(p) ==
    /\ process[p].pc # "down" /\ mishaps < MaxMishaps
    /\ Exit(p, None)
    /\ mishaps' = mishaps + 1
    /\ UNCHANGED <<db, drawn, served>>

(* Each await fails with an error of its own; the faulty variant gives one *)
(* of a request.                                                           *)
FaultyFailure(pc) ==
    IF pc = "load_secret" THEN {"DB_CONSUME_REFRESH_TOKEN_FAILED"} ELSE {}
Failure(pc) ==
    CASE pc = "connect" -> {"DB_CONNECTION_FAILED"}
      [] pc \in {"list_migrations", "migrate"} -> {"DB_MIGRATION_FAILED"}
      [] pc \in {"load_secret", "store_secret"} -> {"DB_UNKNOWN"}
      [] OTHER -> {}

Fail(p) ==
    /\ mishaps < MaxMishaps
    /\ \E e \in Failure(process[p].pc) : Exit(p, e)
    /\ mishaps' = mishaps + 1
    /\ UNCHANGED <<db, drawn, served>>

-----------------------------------------------------------------------------
Init ==
    /\ applied = [d \in Databases |-> {}] /\ stored = None
    /\ process = [p \in Processes |-> Down(None)]
    /\ drawn = {} /\ served = {}
    /\ mishaps = 0

Step(p) ==
    \/ Launch(p) \/ Connect(p) \/ ListMigrations(p) \/ Migrate(p)
    \/ Build(p) \/ LoadSecret(p) \/ StoreSecret(p) \/ Bind(p)

Next == \E p \in Processes : Step(p) \/ Crash(p) \/ Fail(p)

Spec == Init /\ [][Next]_vars

(* The runtime runs a process that can go on and the supervisor starts one *)
(* that is down; crashes and faults need not happen.                       *)
FairSpec == Spec /\ \A p \in Processes : WF_vars(Step(p))

-----------------------------------------------------------------------------
(* The tables, the processes and what they end with have their types. *)
TypeOK ==
    /\ applied \in [Databases -> SUBSET Nat]
    /\ \A d \in Databases : applied[d] \subseteq Migrations(d)
    /\ stored \in Secrets \cup {None}
    /\ process \in [Processes -> Process]
    /\ \A p \in Processes :
          process[p].pending \subseteq Migrations(process[p].database)
    /\ drawn \subseteq Secrets /\ served \subseteq Secrets
    /\ mishaps \in 0..MaxMishaps

(***************************************************************************)
(* Every process that ever serves signs and verifies with the secret on    *)
(* file: tokens outlive restarts and are good at every process, however    *)
(* many start on a new database at once or die between generating the      *)
(* secret and storing it.                                                  *)
(***************************************************************************)
OneSigningSecret == \A s \in served : s = stored

(***************************************************************************)
(* No process serves on schemas that are only partly there, although       *)
(* several migrate at the same time and any may stop half-way; and the     *)
(* migrations that are there are always the first ones.                    *)
(***************************************************************************)
ServesCompleteSchema ==
    /\ \A p \in Processes : process[p].pc = "serving" =>
                            \A d \in Databases : applied[d] = Migrations(d)
    /\ \A d \in Databases : \A v \in applied[d] : 1..v \subseteq applied[d]

(***************************************************************************)
(* The processes implement DatabaseLifecycle: no race, crash or fault lets *)
(* a process skip a migration, apply one out of order or to the wrong      *)
(* database, replace a secret that is stored, even one that nobody has     *)
(* served under yet, or serve under another.                               *)
(***************************************************************************)
Persistent ==
    INSTANCE DatabaseLifecycle WITH schema <- applied, secret <- stored

ImplementsDatabaseLifecycle == Persistent!Spec

(***************************************************************************)
(* Losing a race to migrate or to store the secret ends a process, but     *)
(* only until it is started again: once mishaps stop, every process whose  *)
(* options are set and whose address is its own serves for good.           *)
(***************************************************************************)
ConfiguredProcessesServe ==
    \A p \in Processes :
        /\ Options[p] = {RequiredOptions}
        /\ \A o \in Processes \ {p} : Addr[o] # Addr[p]
        => <>[](process[p].pc = "serving")

=============================================================================
