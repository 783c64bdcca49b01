----------------------------- MODULE Deployment -----------------------------
(***************************************************************************)
(* Instances of the service, and the commands `migrate` and `verify-chain`,*)
(* around one Postgres database.  Each instance opens it when it starts,   *)
(* which applies the pending migrations, and ingests into its own memory   *)
(* when that fails.  All of them migrate without a lock or a transaction   *)
(* around a version's two statements.  A failed insert of one event is a   *)
(* subject of Ingest and left out here.                                    *)
(***************************************************************************)
EXTENDS Naturals, FiniteSets

CONSTANTS
    Instances,   \* instances of the service
    Commands,    \* commands an operator runs
    Versions,    \* migrations, in the order of their versions: 1
    Events,      \* events that arrive
    MaxFaults,   \* bound: failed calls
    MaxCrashes,  \* bound: processes that die
    MaxCommands  \* bound: runs of commands

ASSUME DeploymentAssumption ==
    /\ Instances \cap Commands = {}
    /\ Versions \in Nat \ {0}
    /\ {MaxFaults, MaxCrashes, MaxCommands} \subseteq Nat

VARIABLES
    schema,      \* whether schema_migrations is there
    recorded,    \* the versions it holds
    tables,      \* the versions whose tables are there; audit_events is of the first
    rows,        \* events in audit_events
    run,         \* process -> [pc, up, at]: where its Up or Down is; or off, or serving
    stores,      \* instance -> the stores it was built with: postgres or memory
    memory,      \* instance -> events in its own memory
    consumed,    \* events whose offset is committed
    faults, crashes, commands,
    \* history
    reverted,    \* a Down was started
    torn,        \* the versions whose last migration was left between its two
                 \* statements
    mixed,       \* an Up and a Down ran at once
    collided     \* a CREATE TABLE failed because another process was at it too

databaseVars == <<schema, recorded, tables, rows>>
eventVars == <<memory, consumed>>
boundVars == <<faults, crashes, commands>>
historyVars == <<reverted, torn, mixed, collided>>
vars == <<databaseVars, run, stores, eventVars, boundVars, historyVars>>

Processes == Instances \cup Commands

Off == [pc |-> "off", up |-> TRUE, at |-> 0]

Migrating(p) == run[p].pc \notin {"off", "serving"}

Serving(i) == run[i].pc = "serving"

Goto(p, l) == run' = [run EXCEPT ![p].pc = l]

Fault == faults < MaxFaults /\ faults' = faults + 1

-----------------------------------------------------------------------------
Init ==
    /\ schema = FALSE /\ recorded = {} /\ tables = {} /\ rows = {}
    /\ run = [p \in Processes |-> Off]
    /\ stores = [i \in Instances |-> "memory"]
    /\ memory = [i \in Instances |-> {}]
    /\ consumed = {}
    /\ faults = 0 /\ crashes = 0 /\ commands = 0
    /\ reverted = FALSE /\ torn = {} /\ mixed = FALSE /\ collided = FALSE

(* A process connects.  Only `migrate --down` does not begin with Up.      *)
Begin(p, up) ==
    /\ run[p].pc = "off"
    /\ run' = [run EXCEPT ![p] = [pc |-> IF up THEN "create" ELSE "query", up |-> up,
                                  at |-> IF up THEN 1 ELSE Versions]]
    /\ reverted' = (reverted \/ ~up)
    /\ mixed' = (mixed \/ \E q \in Processes : Migrating(q) /\ run[q].up # up)
    /\ UNCHANGED <<databaseVars, stores, eventVars, faults, crashes, torn, collided>>

StartInstance(i) == Begin(i, TRUE) /\ UNCHANGED commands

StartCommand(c, up) ==
    /\ commands < MaxCommands
    /\ commands' = commands + 1
    /\ Begin(c, up)

-----------------------------------------------------------------------------
(* Up and Down.  Down goes through the versions the other way.             *)

(* Mutant of Statements: Up records a version before it applies it. *)
RecordFirst(up) == IF up THEN <<"record", "apply">> ELSE <<"revert", "erase">>

(* The statements of one version, in order. *)
Statements(up) == IF up THEN <<"apply", "record">> ELSE <<"revert", "erase">>

(* A command ends; an instance serves. *)
After(p) == IF p \in Instances THEN [Off EXCEPT !.pc = "serving"] ELSE Off

Wired(p, kind) == IF p \in Instances THEN [stores EXCEPT ![p] = kind] ELSE stores

(* Up, or Down, has returned nil: an instance serves from Postgres.        *)
Return(p) ==
    /\ run' = [run EXCEPT ![p] = After(p)]
    /\ stores' = Wired(p, "postgres")

NextVersion(p) ==
    IF run[p].at = (IF run[p].up THEN Versions ELSE 1)
    THEN Return(p)
    ELSE /\ run' = [run EXCEPT ![p].pc = "query", ![p].at = IF run[p].up THEN @ + 1 ELSE @ - 1]
         /\ UNCHANGED stores

(* An error ends the command.  An instance serves nevertheless, from       *)
(* stores in its memory.                                                   *)
GiveUp(p) ==
    /\ run' = [run EXCEPT ![p] = After(p)]
    /\ stores' = Wired(p, "memory")

(* CREATE TABLE IF NOT EXISTS schema_migrations. *)
Create(p) ==
    /\ run[p].pc = "create"
    /\ schema' = TRUE
    /\ Goto(p, "query")
    /\ UNCHANGED <<recorded, tables, rows, stores, eventVars, boundVars, historyVars>>

(* Whether the version is recorded decides.  Down does not create          *)
(* schema_migrations: without it the query fails.                          *)
Query(p) ==
    /\ run[p].pc = "query"
    /\ IF ~schema THEN GiveUp(p)
       ELSE IF run[p].up = (run[p].at \in recorded) THEN NextVersion(p)
       ELSE Goto(p, Statements(run[p].up)[1]) /\ UNCHANGED stores
    /\ UNCHANGED <<databaseVars, eventVars, boundVars, historyVars>>

(* What the statement process p is at does to the database.  The script of *)
(* a version is one implicit transaction.                                  *)
Effect(p) ==
    LET l == run[p].pc
        v == run[p].at
    IN  /\ tables' = CASE l = "apply" -> tables \cup {v} [] l = "revert" -> tables \ {v} [] OTHER -> tables
        /\ rows' = IF l = "revert" /\ v = 1 THEN {} ELSE rows
        /\ schema' = IF l = "create" THEN TRUE ELSE schema

(* Mutant of Recording: Down leaves the version where it is. *)
RecordingKept(p) == IF run[p].pc = "record" THEN recorded \cup {run[p].at} ELSE recorded

Recording(p) ==
    CASE run[p].pc = "record" -> recorded \cup {run[p].at}
      [] run[p].pc = "erase" -> recorded \ {run[p].at}
      [] OTHER -> recorded

AtStatement(p) == run[p].pc \in {"apply", "record", "revert", "erase"}

(* Which of its two statements. *)
AtFirst(p) == AtStatement(p) /\ run[p].pc = Statements(run[p].up)[1]

Between(p) == AtStatement(p) /\ ~AtFirst(p)

(* A version is torn when a process leaves it half way, until another one  *)
(* executes its second statement.                                          *)
Tear(p, half) == torn' = IF half THEN torn \cup {run[p].at} ELSE torn

Mend(p) == torn' = IF Between(p) THEN torn \ {run[p].at} ELSE torn

Execute(p) ==
    /\ AtStatement(p)
    /\ Effect(p)
    /\ recorded' = Recording(p)
    /\ IF AtFirst(p) THEN Goto(p, Statements(run[p].up)[2]) /\ UNCHANGED stores
       ELSE NextVersion(p)
    /\ Mend(p)
    /\ UNCHANGED <<eventVars, boundVars, reverted, mixed, collided>>

(* Process p creates a table while q is about to, and q's statement fails  *)
(* on the catalog's unique index: IF NOT EXISTS does not protect it.       *)
Collide(p, q) ==
    /\ run[p].pc = run[q].pc
    /\ \/ run[p].pc = "create" /\ ~schema
       \/ run[p].pc = "apply" /\ run[p].at = run[q].at /\ run[p].at \notin tables
    /\ schema' = TRUE
    /\ tables' = IF run[p].pc = "apply" THEN tables \cup {run[p].at} ELSE tables
    /\ run' = [run EXCEPT ![p].pc = IF @ = "create" THEN "query" ELSE "record",
                          ![q] = After(q)]
    /\ stores' = Wired(q, "memory")
    /\ collided' = TRUE
    /\ UNCHANGED <<recorded, rows, eventVars, boundVars, reverted, torn, mixed>>

(* Mutant of AfterError: the error of a statement is dropped. *)
ErrorDropped(p) == IF AtFirst(p) THEN Goto(p, Statements(run[p].up)[2]) /\ UNCHANGED stores ELSE GiveUp(p)

(* Mutant of AfterError: the process ends when it cannot open the database. *)
Fatal(p) == run' = [run EXCEPT ![p] = Off] /\ UNCHANGED stores

AfterError(p) == GiveUp(p)

(* A call fails before it took effect: connecting, or any statement.       *)
CallFails(p) ==
    /\ Migrating(p)
    /\ Fault
    /\ AfterError(p)
    /\ Tear(p, Between(p))
    /\ UNCHANGED <<databaseVars, eventVars, crashes, commands, reverted, mixed, collided>>

(* A statement took effect and its reply is lost. *)
ReplyLost(p) ==
    /\ run[p].pc = "create" \/ AtStatement(p)
    /\ Fault
    /\ Effect(p)
    /\ recorded' = Recording(p)
    /\ AfterError(p)
    /\ IF AtFirst(p) THEN Tear(p, TRUE) ELSE Mend(p)
    /\ UNCHANGED <<eventVars, crashes, commands, reverted, mixed, collided>>

(* A process dies: an instance with its memory, a migration where it is.   *)
Crash(p) ==
    /\ run[p].pc # "off"
    /\ crashes < MaxCrashes
    /\ crashes' = crashes + 1
    /\ run' = [run EXCEPT ![p] = Off]
    /\ memory' = IF p \in Instances THEN [memory EXCEPT ![p] = {}] ELSE memory
    /\ Tear(p, Between(p))
    /\ UNCHANGED <<databaseVars, stores, consumed, faults, commands, reverted, mixed, collided>>

MigrateStep(p) == Create(p) \/ Query(p) \/ Execute(p)

-----------------------------------------------------------------------------
(* An instance ingests an event into the stores it has.  Its offset is     *)
(* committed all the same when the table is not there.                     *)
Consume(i, e) ==
    /\ Serving(i)
    /\ e \notin consumed
    /\ consumed' = consumed \cup {e}
    /\ IF stores[i] = "memory"
       THEN memory' = [memory EXCEPT ![i] = @ \cup {e}] /\ UNCHANGED rows
       ELSE rows' = (IF 1 \in tables THEN rows \cup {e} ELSE rows) /\ UNCHANGED memory
    /\ UNCHANGED <<schema, recorded, tables, run, stores, boundVars, historyVars>>

Next ==
    \/ \E i \in Instances : StartInstance(i) \/ \E e \in Events : Consume(i, e)
    \/ \E c \in Commands, up \in BOOLEAN : StartCommand(c, up)
    \/ \E p \in Processes : MigrateStep(p) \/ CallFails(p) \/ ReplyLost(p) \/ Crash(p)
    \/ \E p, q \in Processes : p # q /\ Collide(p, q)

DeploymentSpec == Init /\ [][Next]_vars

(* A process that migrates goes on: its calls return or fail. *)
DeploymentFairSpec == DeploymentSpec /\ \A p \in Processes : WF_vars(MigrateStep(p))

-----------------------------------------------------------------------------
(* An instance serves from Postgres only when every table is there,        *)
(* whoever migrated at the same time, died or failed between a version's   *)
(* two statements; unless somebody runs Down.                              *)
ServesOnSchema ==
    ~reverted => \A i \in Instances :
        Serving(i) /\ stores[i] = "postgres" => tables = 1..Versions

(* When nobody migrates, a version is recorded exactly when its tables are *)
(* there, whatever order Ups ran in, or Downs, unless its last migration   *)
(* was left between its two statements: the next Up that finds a version   *)
(* without its record, and the next Down that finds one without its        *)
(* tables, puts it right.  An Up and a Down that ran at once are left out. *)
Settled ==
    ~mixed /\ (\A p \in Processes : ~Migrating(p)) =>
        \A v \in 1..Versions \ torn : v \in recorded <=> v \in tables

(* All instances show one log with every event consumed, however often     *)
(* they die and start again, when no call fails, no two processes create a *)
(* table at the same moment and nobody runs Down.                          *)
Shown(i) == IF stores[i] = "memory" THEN memory[i] ELSE rows

OneLog ==
    faults = 0 /\ ~collided /\ ~reverted =>
        \A i \in Instances : Serving(i) => Shown(i) = consumed

(* An instance that starts comes to serve, whether the database answers or *)
(* not, or dies.                                                           *)
Boots ==
    \A i \in Instances : Migrating(i) ~> Serving(i) \/ (run[i].pc = "off" /\ crashes > 0)
=============================================================================
