----------------------------- MODULE Migrations -----------------------------
(***************************************************************************)
(* The schema migration a start of the panel runs (internal/db/migrate.go, *)
(* steps.go).  A database with no mapped table is built at HEAD, one with  *)
(* no stamp is adopted at 1, and any other runs the steps above its stamp. *)
(* The statements outside of the steps commit one by one; a step and its   *)
(* stamp commit together.  A start may die anywhere, and the environment   *)
(* may be edited before the next one.                                      *)
(*                                                                         *)
(* Steps that only add a column or a table are the identity here: on every *)
(* path reconcileColumns and createExtraTables add all of them.            *)
(***************************************************************************)
EXTENDS Naturals, Sequences, FiniteSets

CONSTANTS
    Environments, \* what the .env may say of the owner
    Legacy,       \* databases an older release left
    MaxUserId     \* bound: the ids of users

Head32 == 32
UserIds == 1 .. MaxUserId

Environment == [owner : {"", "admin", "boss"}, hash : BOOLEAN, keys : BOOLEAN]
Admin == [name : {"admin", "boss"}, owner : BOOLEAN, password : BOOLEAN]

MigDatabase ==
    [version : 0 .. Head32 + 1,
     tables : 0 .. 2,         \* none, the first of the mapped ones, all
     extra : BOOLEAN,         \* the tables outside of the mapped schema
     columns : BOOLEAN,       \* every mapped column
     ownerIndex : BOOLEAN,    \* uq_admins_owner
     settings : BOOLEAN,      \* the settings row
     admins : UNION {[1 .. n -> Admin] : n \in 0 .. 3},  \* by id
     ownerColumn : BOOLEAN,   \* users.owner, which step 24 drops
     users : SUBSET UserIds,
     sequence : 0 .. MaxUserId, \* sqlite_sequence
     automatic : BOOLEAN,     \* users.id is AUTOINCREMENT
     snapshots : SUBSET UserIds, \* undo snapshots, whose JSON is valid
     secret : {"none", "plain", "fernet", "v2"}, \* a node key
     oldSessions : BOOLEAN]   \* sessions that are not the owner's

ASSUME MigrationAssumption ==
    /\ MaxUserId \in Nat \ {0}
    /\ Environments \subseteq Environment /\ Legacy \subseteq MigDatabase

VARIABLES
    database,
    dotenv,    \* the environment of the next start
    migration, \* the statements left of the running one
    given,     \* history: ids of users that lived or can be restored
    origin     \* history: what the first start found, in which environment

migVars == <<database, dotenv, migration, given, origin>>

MigIdle == [at |-> "down", todo |-> <<>>, env |-> dotenv]

EmptyDatabase ==
    [version |-> 0, tables |-> 0, extra |-> FALSE, columns |-> FALSE,
     ownerIndex |-> FALSE, settings |-> FALSE, admins |-> <<>>,
     ownerColumn |-> FALSE, users |-> {}, sequence |-> 0, automatic |-> TRUE,
     snapshots |-> {}, secret |-> "none", oldSessions |-> FALSE]

MigInit ==
    /\ database \in Legacy \cup {EmptyDatabase}
    /\ dotenv \in Environments
    /\ migration = MigIdle
    /\ given = database.users \cup database.snapshots
    /\ origin = [built |-> database = EmptyDatabase, env |-> dotenv, edited |-> FALSE]

Largest(S) == CHOOSE m \in S \cup {0} : \A i \in S : i <= m

-----------------------------------------------------------------------------
(* The statements, as functions of the database.                           *)

IsOwner(d, i) == d.admins[i].owner
Owners(d) == {i \in DOMAIN d.admins : IsOwner(d, i)}
Named(d, name) == {i \in DOMAIN d.admins : d.admins[i].name = name}

\* What a release leaves: its mapped tables, a name once among the admins
\* (mappedUniques, migrate.go:329-333), one owner where the index is, and what the
\* steps up to its stamp do for the secrets, the sessions and the ids
\* (steps.go:196-211, 344-420).
ASSUME LegacyAssumption ==
    /\ Environments # {}
    /\ \A d \in Legacy :
          /\ d.tables > 0
          /\ \A i, j \in DOMAIN d.admins : d.admins[i].name = d.admins[j].name => i = j
          /\ d.ownerIndex => Cardinality(Owners(d)) <= 1
          /\ d.version >= 27 => d.secret # "plain"
          /\ d.version >= 28 => ~d.oldSessions
          /\ d.version >= 29 => d.automatic
          /\ d.automatic => \A i \in d.users \cup d.snapshots : i <= d.sequence
          /\ d.automatic /\ d.version < 12 /\ d.users = {} => d.sequence < MaxUserId

\* The partial unique index refuses a second owner.
Refused(d) == d.ownerIndex /\ Cardinality(Owners(d)) > 1

AddAdmin(d, name, pw) ==
    [d EXCEPT !.admins = Append(@, [name |-> name, owner |-> TRUE, password |-> pw])]

SeedOwner(d, env) ==
    LET name == IF env.owner = "" THEN "admin" ELSE env.owner IN
    IF Named(d, name) # {} THEN d ELSE AddAdmin(d, name, FALSE)

\* A first user, unless the table still has its legacy column.
SeedFirstUser(d) ==
    IF d.ownerColumn \/ d.users # {} THEN d
    ELSE LET id == IF d.automatic THEN d.sequence + 1 ELSE 1 IN
         [d EXCEPT !.users = {id}, !.sequence = IF d.automatic THEN id ELSE @]

\* Mutant: only a missing row is filled in.
ImportIfMissing(d, env) ==
    IF env.owner = "" \/ ~env.hash \/ Named(d, env.owner) # {} THEN d
    ELSE AddAdmin(d, env.owner, TRUE)

ImportOwner(d, env) ==
    IF env.owner = "" \/ ~env.hash THEN d
    ELSE IF Named(d, env.owner) = {} THEN AddAdmin(d, env.owner, TRUE)
    ELSE [d EXCEPT !.admins = [i \in DOMAIN @ |->
             IF @[i].name = env.owner THEN [@[i] EXCEPT !.password = TRUE] ELSE @[i]]]

DecryptSecrets(d, env) ==
    [d EXCEPT !.secret = IF @ = "fernet" /\ env.keys THEN "plain" ELSE @]

\* What a prefix "enc:" marks is left alone, readable or not.
EncryptSecrets(d) == [d EXCEPT !.secret = IF @ = "plain" THEN "v2" ELSE @]

MarkOwner(d, env) ==
    [d EXCEPT !.admins = [i \in DOMAIN @ |->
        IF @[i].name = env.owner THEN [@[i] EXCEPT !.owner = TRUE] ELSE @[i]]]

\* Of several owners the first stays, then the index can be made.
UniqueOwner(d) ==
    [d EXCEPT !.ownerIndex = TRUE,
              !.admins = [i \in DOMAIN @ |->
                  [@[i] EXCEPT !.owner = IsOwner(d, i) /\ \A j \in Owners(d) : i <= j]]]

\* Mutant: the sequence starts from the live rows alone.
RebuildFromLive(d) ==
    [d EXCEPT !.automatic = TRUE, !.sequence = Largest(d.users)]

RebuildUsers(d) ==
    [d EXCEPT !.automatic = TRUE, !.sequence = Largest(d.users \cup d.snapshots)]

Step(n, d, env) ==
    CASE n = 12 -> SeedFirstUser(SeedOwner(d, env))
      [] n = 14 -> DecryptSecrets(d, env)
      [] n = 16 -> ImportOwner(d, env)
      [] n = 22 -> MarkOwner(d, env)
      [] n = 24 -> [MarkOwner(d, env) EXCEPT !.ownerColumn = FALSE]
      [] n = 26 -> UniqueOwner(d)
      [] n = 27 -> EncryptSecrets(d)
      [] n = 28 -> [d EXCEPT !.oldSessions = FALSE]
      [] n = 29 -> RebuildUsers(d)
      [] OTHER -> d

-----------------------------------------------------------------------------
(* A start.                                                                *)

Steps(from) == [i \in 1 .. Head32 - from |-> "step"]

FreshBuild ==
    <<"table", "tables", "extra", "columns", "index", "settings", "owner",
      "first_user", "credential", "stamp_head">>
Adoption == <<"tables", "extra", "columns", "settings", "stamp_one">>

\* Mutant: the indices come with the tables.
IndicesFirst(from) ==
    <<"tables", "columns", "index">> \o Steps(from) \o <<"extra", "settings">>

\* The indices come after the step that leaves one owner.
UpgradePath(from) ==
    <<"tables", "columns">> \o Steps(from) \o <<"index", "extra", "settings">>

\* Migrate reads the stamp and the tables, and chooses the path.
MigStart ==
    /\ migration.at = "down"
    /\ migration' =
          [at |-> IF database.version > Head32 THEN "refused" ELSE "running",
           env |-> dotenv,
           todo |-> IF database.tables = 0 THEN FreshBuild
                    ELSE IF database.version > Head32 THEN <<>>
                    ELSE IF database.version = 0 THEN Adoption \o UpgradePath(1)
                    ELSE UpgradePath(database.version)]
    /\ UNCHANGED <<database, dotenv, given, origin>>

\* The next statement commits.
Runs(statement, d) ==
    /\ migration.at = "running"
    /\ migration.todo # <<>> /\ Head(migration.todo) = statement
    /\ ~Refused(d)
    /\ database' = d
    /\ migration' = [migration EXCEPT !.todo = Tail(@)]
    /\ given' = given \cup d.users
    /\ UNCHANGED <<dotenv, origin>>

MigFirstTable == Runs("table", [database EXCEPT !.tables = 1])
MigTables == Runs("tables", [database EXCEPT !.tables = 2])
MigExtra == Runs("extra", [database EXCEPT !.extra = TRUE])
MigColumns == Runs("columns", [database EXCEPT !.columns = TRUE])
MigIndex == Runs("index", [database EXCEPT !.ownerIndex = TRUE])
MigSettings == Runs("settings", [database EXCEPT !.settings = TRUE])
MigOwner == Runs("owner", SeedOwner(database, migration.env))
MigFirstUser == Runs("first_user", SeedFirstUser(database))
MigCredential == Runs("credential", ImportOwner(database, migration.env))
MigStampHead == Runs("stamp_head", [database EXCEPT !.version = Head32])
MigStampOne == Runs("stamp_one", [database EXCEPT !.version = 1])

MigStep ==
    LET n == database.version + 1 IN
    Runs("step", [Step(n, database, migration.env) EXCEPT !.version = n])

\* A statement the index refuses: the step is rolled back, the start ends, and
\* systemd starts the panel again.
MigFails ==
    /\ migration.at = "running" /\ migration.todo # <<>>
    /\ LET what == Head(migration.todo)
           n == database.version + 1 IN
       Refused(CASE what = "index" -> [database EXCEPT !.ownerIndex = TRUE]
                 [] what = "owner" -> SeedOwner(database, migration.env)
                 [] what = "credential" -> ImportOwner(database, migration.env)
                 [] what = "step" -> Step(n, database, migration.env)
                 [] OTHER -> database)
    /\ migration' = MigIdle
    /\ UNCHANGED <<database, dotenv, given, origin>>

\* A statement fails for another reason, such as a secret that cannot be
\* encrypted or a full disk: the step, or the start, ends in the same way.
MigBreaks ==
    /\ migration.at = "running" /\ migration.todo # <<>>
    /\ migration' = MigIdle
    /\ UNCHANGED <<database, dotenv, given, origin>>

MigDone ==
    /\ migration.at = "running" /\ migration.todo = <<>>
    /\ migration' = [migration EXCEPT !.at = "up"]
    /\ UNCHANGED <<database, dotenv, given, origin>>

MigKilled ==
    /\ migration.at # "down"
    /\ migration' = MigIdle
    /\ UNCHANGED <<database, dotenv, given, origin>>

\* The installer or the operator rewrites the .env.
MigEnvironment ==
    /\ migration.at = "down"
    /\ dotenv' \in Environments \ {dotenv}
    /\ migration' = [migration EXCEPT !.env = dotenv']
    /\ origin' = [origin EXCEPT !.edited = TRUE]
    /\ UNCHANGED <<database, given>>

-----------------------------------------------------------------------------
(* The panel that serves afterwards.                                       *)

NextId == database.sequence + 1

MigUserCreated ==
    /\ migration.at = "up" /\ NextId \in UserIds
    /\ database' = [database EXCEPT !.users = @ \cup {NextId}, !.sequence = NextId]
    /\ given' = given \cup {NextId}
    /\ UNCHANGED <<dotenv, migration, origin>>

\* The snapshot goes with its retention; the id stays given.
MigUserDeleted ==
    /\ migration.at = "up"
    /\ \E i \in database.users :
          \E kept \in {{}, {i}} :
             database' = [database EXCEPT !.users = @ \ {i}, !.snapshots = @ \cup kept]
    /\ UNCHANGED <<dotenv, migration, given, origin>>

MigWork ==
    \/ MigStart \/ MigFirstTable \/ MigTables \/ MigExtra \/ MigColumns \/ MigIndex
    \/ MigSettings \/ MigOwner \/ MigFirstUser \/ MigCredential \/ MigStampHead
    \/ MigStampOne \/ MigStep \/ MigFails \/ MigDone

MigNext ==
    \/ MigWork \/ MigBreaks \/ MigKilled \/ MigEnvironment
    \/ MigUserCreated \/ MigUserDeleted

\* systemd starts the panel until it stays up (Restart=on-failure, three seconds later).
MigFairness == WF_migVars(MigWork)

MigSpec == MigInit /\ [][MigNext]_migVars /\ MigFairness

MigTypeOK ==
    /\ database \in MigDatabase
    /\ dotenv \in Environments
    /\ migration.at \in {"down", "running", "refused", "up"}
    /\ migration.env \in Environments
    /\ given \subseteq UserIds
    /\ origin \in [built : BOOLEAN, env : Environments, edited : BOOLEAN]

-----------------------------------------------------------------------------
(* Properties.                                                             *)

\* Whatever interrupted the starts before it, a panel that is up serves a whole
\* schema with at most one owner, no secret in the clear and no session of the
\* retired roles; and a database it built itself, in an environment nobody
\* edited, has the owner that environment names, with its imported password
\* (migrate.go:38-164: "Idempotent").
MigratedWhole ==
    migration.at = "up" =>
        /\ database.version = Head32 /\ database.tables = 2
        /\ database.extra /\ database.columns /\ database.ownerIndex
        /\ database.settings /\ database.automatic
        /\ Cardinality(Owners(database)) <= 1
        /\ database.secret # "plain" /\ ~database.oldSessions
        /\ origin.built /\ ~origin.edited =>
              \E i \in Owners(database) :
                 /\ origin.env.owner # "" => database.admins[i].name = origin.env.owner
                 /\ origin.env.owner # "" /\ origin.env.hash => database.admins[i].password

\* An id that belongs to a live user or one that can be restored is never given
\* to another (steps.go:399-403: "seeding only from live MAX(id) would reissue
\* that ID, and stale node CNs keyed by numeric ID would then resolve to the
\* new account").
UserIdsNotReissued == [][MigUserCreated => NextId \notin given]_migVars

\* If the environment is left alone, and the starts are no longer killed or
\* broken off by an error that is not the schema's, one of them comes up, or
\* the database is from a newer release.
MigrationEnds ==
    <>[][MigWork]_migVars /\ [](~origin.edited) =>
        <>[](migration.at \in {"up", "refused"})
=============================================================================
