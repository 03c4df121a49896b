-------------------------------- MODULE Startup --------------------------------
(***************************************************************************)
(* The life of a controller process: Open and migrate of                   *)
(* internal/store/store.go, New, bootstrap and Run of                      *)
(* internal/server/server.go, runServer of cmd/whatsnewdock/main.go.       *)
(*                                                                         *)
(* A start takes the database as it finds it: none, one of an older        *)
(* release, or one on which an earlier start stopped half way.  Statements *)
(* of the base schema are committed one by one, a migration with its       *)
(* record.  A statement that fails ends the process, as a kill does, and   *)
(* whoever runs it (a restart policy) starts it again.                     *)
(***************************************************************************)
EXTENDS Naturals, Sequences

CONSTANT MaxCrashes      \* bound: starts cut short in a row

NoRow == "none"          \* the servers table has no row of the local host

(* The migrations, in the order in which they are applied. *)
Versions == 1..5
Order == <<1, 2, 3, 5, 4>>
Adds == << <<"kind", "docker_host", "tls_ca", "tls_cert", "tls_key">>,
           <<"systemd_unit", "managed">>,
           <<"name_custom">>,
           <<"swarm_role", "swarm_services", "swarm_service_id", "swarm_service_name",
             "swarm_task_id", "swarm_node_id">>,
           <<"agent_version", "agent_image", "agent_digest">> >>
Added(v) == {Adds[v][i] : i \in 1..Len(Adds[v])}
Columns == UNION {Added(v) : v \in Versions}

(* The tables they change, in the order in which the schema creates them.  *)
Tables == <<"servers", "containers">>
OfContainers == Added(2) \cup {"swarm_service_id", "swarm_service_name", "swarm_task_id", "swarm_node_id"}
ColumnsOf(t) == IF t = "containers" THEN OfContainers ELSE Columns \ OfContainers

VARIABLES tables, columns, recorded,  \* the database: tables, their added columns, schema_migrations
          kind,                       \* the kind stored with the row of the local host
          accounts,                   \* whether there is an account
          stage, at, col,             \* how far the process is
          tx,                         \* the columns added by the open transaction
          crashes

database == <<tables, columns, recorded, kind, accounts>>
startup == <<database, stage, at, col, tx, crashes>>

Starting == {"schema", "migrate", "alter", "local", "admin", "listen"}
Ready == {"local", "admin", "listen", "serve", "unheard"}

(* A database of an older release: what its migrations were, and perhaps a *)
(* column that was added by hand.                                          *)
Releases == {{}, {1}, {1, 2}, {1, 2, 3}, {1, 2, 3, 4}, {1, 2, 3, 5}, Versions}

StartupInit ==
    /\ \/ tables = {} /\ columns = {} /\ recorded = {} /\ kind = NoRow /\ accounts = FALSE
       \/ /\ tables = {"servers", "containers"}
          /\ recorded \in Releases
          /\ \E extra \in {{}, {"kind", "managed"}} :
               columns = extra \cup UNION {Added(v) : v \in recorded}
          /\ kind \in {NoRow, "agent"} \cup (IF 1 \in recorded THEN {"local"} ELSE {})
          /\ accounts \in BOOLEAN
    /\ stage = "off" /\ at = 1 /\ col = 1 /\ tx = {} /\ crashes = 0

GoOn(next, i, c) == stage' = next /\ at' = i /\ col' = c

Start ==
    /\ stage = "off"
    /\ GoOn("schema", 1, 1)
    /\ UNCHANGED <<database, tx, crashes>>

(* CREATE TABLE IF NOT EXISTS: a new table has every column, an old one    *)
(* stays as it is.                                                         *)
CreateTable ==
    /\ stage = "schema"
    /\ LET t == Tables[at] IN
         /\ tables' = tables \cup {t}
         /\ columns' = IF t \in tables THEN columns ELSE columns \cup ColumnsOf(t)
    /\ IF at < Len(Tables) THEN GoOn("schema", at + 1, 1) ELSE GoOn("migrate", 1, 1)
    /\ UNCHANGED <<recorded, kind, accounts, tx, crashes>>

(* Faulty variant of Migrate: the version is recorded first, by itself.    *)
Migrate_RecordsFirst ==
    /\ stage = "migrate"
    /\ IF at > Len(Order) THEN GoOn("local", 1, 1)
       ELSE IF Order[at] \in recorded THEN GoOn("migrate", at + 1, 1)
       ELSE GoOn("alter", at, 1)
    /\ recorded' = IF at > Len(Order) THEN recorded ELSE recorded \cup {Order[at]}
    /\ UNCHANGED <<tables, columns, kind, accounts, tx, crashes>>
Migrate ==
    /\ stage = "migrate"
    /\ IF at > Len(Order) THEN GoOn("local", 1, 1)
       ELSE IF Order[at] \in recorded THEN GoOn("migrate", at + 1, 1)
       ELSE GoOn("alter", at, 1)
    /\ UNCHANGED <<database, tx, crashes>>

(* Faulty variant of AddColumn: it does not look whether there is one; the *)
(* statement fails, and the process with it.                               *)
AddColumn_Blindly ==
    /\ stage = "alter" /\ col <= Len(Adds[Order[at]])
    /\ LET c == Adds[Order[at]][col] IN
         IF c \in columns THEN GoOn("off", 1, 1) /\ tx' = {}
         ELSE GoOn("alter", at, col + 1) /\ tx' = tx \cup {c}
    /\ UNCHANGED <<database, crashes>>
AddColumn ==
    /\ stage = "alter" /\ col <= Len(Adds[Order[at]])
    /\ LET c == Adds[Order[at]][col] IN tx' = IF c \in columns THEN tx ELSE tx \cup {c}
    /\ GoOn("alter", at, col + 1)
    /\ UNCHANGED <<database, crashes>>

(* The first migration also sets the kind of the local row. *)
Commit ==
    /\ stage = "alter" /\ col > Len(Adds[Order[at]])
    /\ columns' = columns \cup tx /\ tx' = {}
    /\ recorded' = recorded \cup {Order[at]}
    /\ kind' = IF Order[at] = 1 /\ kind # NoRow THEN "local" ELSE kind
    /\ GoOn("migrate", at + 1, 1)
    /\ UNCHANGED <<tables, accounts, crashes>>

(* ensureLocalServer; a local engine is configured. *)
EnsureLocal ==
    /\ stage = "local"
    /\ kind' = IF kind = NoRow THEN "local" ELSE kind
    /\ GoOn("admin", 1, 1)
    /\ UNCHANGED <<tables, columns, recorded, accounts, tx, crashes>>

EnsureAdmin ==
    /\ stage = "admin"
    /\ accounts' = TRUE
    /\ GoOn("listen", 1, 1)
    /\ UNCHANGED <<tables, columns, recorded, kind, tx, crashes>>

(* Run.  A listener that fails leaves a process that waits for its loops,  *)
(* which wait for a signal.                                                *)
Listen ==
    /\ stage = "listen"
    /\ \E s \in {"serve", "unheard"} : GoOn(s, 1, 1)
    /\ crashes' = 0
    /\ UNCHANGED <<database, tx>>

Stop ==
    /\ stage \in {"serve", "unheard"}
    /\ GoOn("off", 1, 1)
    /\ UNCHANGED <<database, tx, crashes>>

Crash ==
    /\ stage \in Starting /\ crashes < MaxCrashes
    /\ crashes' = crashes + 1
    /\ tx' = {} /\ GoOn("off", 1, 1)
    /\ UNCHANGED database

(* An update is taken back, and the release before the first migration     *)
(* runs on the database.  A table that it makes has no added column, and   *)
(* the row that it makes has the column's default.                         *)
Older ==
    /\ stage = "off"
    /\ tables' = {"servers", "containers"}
    /\ kind' = IF kind = NoRow THEN "agent" ELSE kind
    /\ accounts' = TRUE
    /\ UNCHANGED <<columns, recorded, stage, at, col, tx, crashes>>

Step == Start \/ CreateTable \/ Migrate \/ AddColumn \/ Commit \/ EnsureLocal \/ EnsureAdmin \/ Listen

StartupNext == Step \/ Stop \/ Crash \/ Older

StartupSpec == StartupInit /\ [][StartupNext]_startup /\ WF_startup(Step)

----------------------------------------------------------------------------
(* Properties.                                                             *)

StartupType ==
    /\ tables \subseteq {"servers", "containers"}
    /\ columns \subseteq Columns /\ tx \subseteq Columns
    /\ recorded \subseteq Versions
    /\ kind \in {NoRow, "agent", "local"} /\ accounts \in BOOLEAN
    /\ stage \in Starting \cup {"off", "serve", "unheard"}
    /\ at \in 1..(Len(Order) + 1) /\ col \in 1..7
    /\ crashes \in 0..MaxCrashes

(* A process that got past Open can read and write every row: whatever     *)
(* release made the database and wherever earlier starts were cut short,   *)
(* every column is there and no migration is left.                         *)
SchemaReady == stage \in Ready => columns = Columns /\ recorded = Versions

(* A start that was cut short, or that found an odd database, does not     *)
(* keep later ones from getting through to the listener, and then there is *)
(* an account.  That the listener itself fails is not the database's doing: *)
(* such a process is through its start as well, but serves nobody.         *)
StartsUp == stage = "off" ~> stage \in {"serve", "unheard"} /\ accounts
=============================================================================
