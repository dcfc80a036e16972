--------------------------------- MODULE Install --------------------------------
(***************************************************************************)
(* A database from its first revision on: docker-compose runs              *)
(* `alembic upgrade head` before the program, and the commands of app/cli  *)
(* provision what it finds. Provisioning starts on a database that one     *)
(* upgrade has brought to the last revision and that nothing has touched   *)
(* since; the alembic commands run while nothing is provisioned.           *)
(***************************************************************************)
EXTENDS Provisioning

CONSTANTS Orders, Moments, MaxCommands, MaxTampering
VARIABLES
    db, txn, commands, failed, tampered, when,
    phase       \* "migrating" or "provisioning"

M == INSTANCE Migrations

\* None is neither a moment nor the name of a schema object.
ASSUME MigrationsAssumption ==
    /\ MaxCommands \in Nat /\ MaxTampering \in Nat /\ None \notin Moments
    /\ \A o \in M!OfKind("create", M!LastRevision) : o.what # None

migration == <<db, txn, commands, failed, tampered, when>>
everything == <<migration, phase, vars>>

InstallInit == M!Init /\ Init /\ phase = "migrating"

Migrate == phase = "migrating" /\ M!Next /\ UNCHANGED <<vars, phase>>

\* One upgrade from an empty database to the last revision, and nothing since.
Deploy ==
    /\ phase = "migrating" /\ M!Idle
    /\ commands = 1 /\ db.rev = M!LastRevision /\ tampered = 0
    /\ \A o \in Orders : db.orders[o] = "none"
    /\ phase' = "provisioning"
    /\ UNCHANGED <<migration, vars>>

Provision == phase = "provisioning" /\ Next /\ UNCHANGED <<migration, phase>>

InstallNext == Migrate \/ Deploy \/ Provision

\* A command goes on until it ends or is killed, and the operator runs the seed
\* again while anything is missing: as long as one of these can happen, some one
\* does. Nothing is promised of the migrations.
SeedGoesOn == phase = "provisioning" /\ JobStep("seed") /\ UNCHANGED <<migration, phase>>
BootGoesOn == phase = "provisioning" /\ (\E b \in Boots : BootStep(b)) /\ UNCHANGED <<migration, phase>>
SeedAgain ==
    phase = "provisioning" /\ ~Complete /\ Start("seed") /\ UNCHANGED <<migration, phase>>

Fairness == WF_vars(SeedGoesOn \/ BootGoesOn \/ SeedAgain)

InstallSpec == InstallInit /\ [][InstallNext]_everything /\ Fairness

--------------------------------------------------------------------------------
\* Every downgrade undoes its upgrade to the last object: whatever commands ran,
\* failed or crashed, the database has exactly the schema of its revision, no
\* table, type or function left over, and admin the whole catalog of its codes.
SchemaOfRevision == phase = "migrating" => M!SchemaOfRevision

\* From every database the program can have left behind, every upgrade and every
\* downgrade goes through, a second time as well as the first.
MigrationsSucceed == phase = "migrating" => M!MigrationsSucceed

\* Shipped orders keep the time of their shipment through every migration, and no
\* event that the program does not know is left for a replay to fail on.
HistoryKept == phase = "migrating" => M!HistoryKept

\* Run again after every kill, the seed gets to the whole of its data, with the
\* stock it wanted, unless an obstacle is put in its way.
SeedConverges == []<>(phase = "migrating" \/ Complete \/ Obstacle)
================================================================================
