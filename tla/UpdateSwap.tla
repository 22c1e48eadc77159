----------------------------- MODULE UpdateSwap -----------------------------
(***************************************************************************)
(* `ovmanager update` (internal/cli/update.go): the release tree is        *)
(* replaced by renames, an in-tree data directory is carried into the new  *)
(* tree, the candidate is verified, and a candidate that fails is swapped  *)
(* back over a database that is restored when its schema moved on.  The    *)
(* panel serves and writes whenever its service is up; the updater or the  *)
(* host may die between any two steps, and the command may be run again.   *)
(*                                                                         *)
(* A place of the disk holds a release tree and the data directory in it.  *)
(* A dev install keeps DATA_DIR inside the tree, a release install outside *)
(* of every tree ("outer").                                                *)
(***************************************************************************)
EXTENDS Integers

CONSTANTS
    Releases,    \* releases that can be installed
    SchemaOf,    \* the schema version each of them migrates to
    MaxUpdates,  \* bound: runs of the command
    MaxUpdWrites \* bound: transactions committed by the panel

ASSUME UpdateAssumption ==
    /\ Releases \subseteq Nat \ {0}
    /\ SchemaOf \in [Releases -> Nat \ {0}]
    /\ MaxUpdates \in Nat /\ MaxUpdWrites \in Nat

VARIABLES
    inTree,   \* DATA_DIR lies inside the install tree
    at,       \* what each place of the disk holds
    service,  \* the release that serves, 0 when the service is down
    upd,      \* the running `ovmanager update`
    updRuns, updWrites,  \* history: runs begun, transactions committed
    promised, \* writes acknowledged outside of an update's window
    broken    \* an update was killed, or a rename back failed

updVars == <<inTree, at, service, upd, updRuns, updWrites, promised, broken>>

Places == {"install", "previous", "stage", "outer"}
Absent == -1   \* no such directory
Shell  == 0    \* a directory that holds no release, only data

UpdWrites == 1 .. MaxUpdWrites
Schemas == {0} \cup {SchemaOf[r] : r \in Releases}
Database == [schema : Schemas, writes : SUBSET UpdWrites]
NoDatabase == [schema |-> 0, writes |-> {}]

Phases == {"none", "preflight", "staging", "activating", "verifying",
           "failing_over", "failed_over", "recovery_required", "committed"}

Data == [db : Database, copies : SUBSET Database, phase : Phases,
         marker : BOOLEAN]
NoData == [db |-> NoDatabase, copies |-> {}, phase |-> "none", marker |-> FALSE]
Gone == [tree |-> Absent, data |-> NoData]

Updater == [pc : {"idle", "preflight", "safe", "staged", "paused", "cleared",
                  "moved", "placed", "carrying", "carried", "verifying",
                  "failing", "aside", "back", "restored", "verified"},
            from : Releases \cup {Absent, Shell},
            target : Releases \cup {0},
            candidate : Releases \cup {0},
            safety : Database]
NoUpdater == [pc |-> "idle", from |-> Absent, target |-> 0, candidate |-> 0,
              safety |-> NoDatabase]

UpdTypeOK ==
    /\ inTree \in BOOLEAN
    /\ at \in [Places -> [tree : Releases \cup {Absent, Shell}, data : Data]]
    /\ service \in Releases \cup {0}
    /\ upd \in Updater
    /\ updRuns \in 0 .. MaxUpdates /\ updWrites \in 0 .. MaxUpdWrites
    /\ promised \subseteq UpdWrites
    /\ broken \in BOOLEAN

\* CaptureDataDir.
DataPlace == IF inTree THEN "install" ELSE "outer"

\* A first release over its own database, nothing acknowledged yet.
UpdInit ==
    \E r \in Releases :
       /\ inTree \in BOOLEAN
       /\ at = [p \in Places |->
                  [tree |-> IF p = "install" THEN r ELSE Absent,
                   data |-> IF p = DataPlace
                            THEN [NoData EXCEPT !.db.schema = SchemaOf[r]]
                            ELSE NoData]]
       /\ service = r
       /\ upd = NoUpdater
       /\ updRuns = 0 /\ updWrites = 0 /\ promised = {} /\ broken = FALSE

-----------------------------------------------------------------------------
(* The disk.                                                               *)

RenameTree(x, a, b) == [x EXCEPT ![b] = x[a], ![a] = Gone]

\* writeUpdateState: it makes the data directory, and with an absent install
\* tree a directory that holds nothing else.
Journal(x, phase) ==
    [x EXCEPT ![DataPlace] =
        [tree |-> IF inTree /\ @.tree = Absent THEN Shell ELSE @.tree,
         data |-> [@.data EXCEPT !.phase = phase]]]

Marker(x, on) == [x EXCEPT ![DataPlace].data.marker = on]

LiveDb(x) == x[DataPlace].data.db

SetDb(x, db) == [x EXCEPT ![DataPlace].data.db = db]

\* dirHasEntries.
HasEntries(x, p) == x[p].data # NoData

\* Mutant: the data directory is moved out of the previous tree.
MovedData(x) ==
    [x EXCEPT !.install.data = x.previous.data, !.previous.data = NoData]

\* copyTree.
CopiedData(x) == [x EXCEPT !.install.data = x.previous.data]

\* systemctl restart: a release migrates the database it finds, refuses one of
\* a later schema, and may fail before or after that.
Launch(x) ==
    LET r == x.install.tree IN
    {<<0, x>>} \cup
    IF r \in Releases /\ LiveDb(x).schema <= SchemaOf[r]
    THEN LET y == SetDb(x, [LiveDb(x) EXCEPT !.schema = SchemaOf[r]])
         IN  {<<0, y>>, <<r, y>>}
    ELSE {}

History == <<inTree, updRuns, updWrites, promised>>
Enter(pc) == upd' = [upd EXCEPT !.pc = pc]

EndUpdate(x, phase) ==
    /\ upd' = NoUpdater
    /\ at' = Journal(x, phase)

-----------------------------------------------------------------------------
(* runUpdate.                                                              *)

\* Mutant: an absent install tree is not recovered.
NotRecovered == {at}

\* A crash between the two renames has left the previous tree alone.
Recovered ==
    IF at.install.tree # Absent THEN {at}
    ELSE IF at.previous.tree = Absent THEN {}
    ELSE {Marker(RenameTree(at, "previous", "install"), FALSE)}

\* The command resolves its target.  A pinned or built tree may report another
\* version than the one asked for.
UpdBegin ==
    /\ upd.pc = "idle" /\ updRuns < MaxUpdates
    /\ updRuns' = updRuns + 1
    /\ \E x \in Recovered, target \in Releases, candidate \in Releases :
          /\ at' = Journal(x, "preflight")
          /\ upd' = [NoUpdater EXCEPT !.pc = "preflight",
                        !.from = x.install.tree,
                        !.target = target, !.candidate = candidate]
    /\ UNCHANGED <<inTree, service, updWrites, promised, broken>>

\* The mandatory copy of the live database.
UpdBackup ==
    /\ upd.pc = "preflight"
    /\ LiveDb(at) # NoDatabase
    /\ at' = Journal([at EXCEPT ![DataPlace].data.copies = @ \cup {LiveDb(at)}],
                     "staging")
    /\ upd' = [upd EXCEPT !.pc = "safe", !.safety = LiveDb(at)]
    /\ UNCHANGED <<History, service, broken>>

\* No copy, no stage directory or no release to fetch: nothing was replaced.
UpdGivesUp ==
    /\ upd.pc \in {"preflight", "safe"}
    /\ upd' = NoUpdater
    /\ UNCHANGED <<History, at, service, broken>>

\* stageRelease: the release and the .env, never a data directory.
UpdStage ==
    /\ upd.pc = "safe"
    /\ at' = [at EXCEPT !.stage = [tree |-> upd.candidate, data |-> NoData]]
    /\ Enter("staged")
    /\ UNCHANGED <<History, service, broken>>

UpdPause ==
    /\ upd.pc = "staged"
    /\ at' = Marker(Journal(at, "activating"), TRUE)
    /\ service' = 0
    /\ Enter("paused")
    /\ UNCHANGED <<History, broken>>

UpdClearPrevious ==
    /\ upd.pc = "paused"
    /\ at' = [at EXCEPT !.previous = Gone]
    /\ Enter("cleared")
    /\ UNCHANGED <<History, service, broken>>

UpdMoveOut ==
    /\ upd.pc = "cleared"
    /\ \/ at' = RenameTree(at, "install", "previous") /\ Enter("moved")
       \/ EndUpdate(Marker(at, FALSE), "failed_over")
    /\ UNCHANGED <<History, service, broken>>

\* When the stage cannot be moved in, the previous tree is moved back; an
\* error of that is ignored.
UpdMoveIn ==
    /\ upd.pc = "moved"
    /\ \/ /\ at' = RenameTree(at, "stage", "install")
          /\ Enter("placed") /\ UNCHANGED broken
       \/ /\ EndUpdate(Marker(RenameTree(at, "previous", "install"), FALSE),
                       "failed_over")
          /\ UNCHANGED broken
       \/ EndUpdate(Marker(at, FALSE), "failed_over") /\ broken' = TRUE
    /\ UNCHANGED <<History, service>>

\* MigrateDataIfInTree: there is something to carry, and the new tree has none.
Carries == inTree /\ HasEntries(at, "previous") /\ ~HasEntries(at, "install")

\* The walk comes to the backups before the database.
UpdCarry ==
    /\ upd.pc = "placed" /\ Carries
    /\ at' = [at EXCEPT !.install.data.copies = at.previous.data.copies]
    /\ Enter("carrying")
    /\ UNCHANGED <<History, service, broken>>

UpdCarried ==
    /\ \/ upd.pc = "placed" /\ ~Carries /\ UNCHANGED at
       \/ upd.pc = "carrying" /\ at' = CopiedData(at)
    /\ Enter("carried")
    /\ UNCHANGED <<History, service, broken>>

\* The copy fails: the trees are swapped back, or cannot be.
UpdCarryFails ==
    /\ upd.pc \in {"placed", "carrying"} /\ inTree
    /\ LET x == RenameTree(at, "install", "stage") IN
       \/ \E end \in Launch([RenameTree(x, "previous", "install")
                             EXCEPT !.stage = Gone]) :
             /\ service' = end[1]
             /\ EndUpdate(Marker(end[2], FALSE), "failed_over")
             /\ UNCHANGED broken
       \/ /\ EndUpdate(x, "recovery_required")
          /\ broken' = TRUE /\ UNCHANGED service
    /\ UNCHANGED History

UpdRestart ==
    /\ upd.pc = "carried"
    /\ \E end \in Launch(at) :
          service' = end[1] /\ at' = Journal(end[2], "verifying")
    /\ Enter("verifying")
    /\ UNCHANGED <<History, broken>>

\* Mutant: any answer will do.
AnyAnswer == service # 0

\* The candidate answers, and reports the version that was asked for.
TargetAnswers == service # 0 /\ service = upd.target

UpdVerified ==
    /\ upd.pc = "verifying" /\ TargetAnswers
    /\ Enter("verified")
    /\ UNCHANGED <<History, at, service, broken>>

\* No answer in time, or of another version.
UpdFailsOver ==
    /\ upd.pc = "verifying"
    /\ at' = Journal(at, "failing_over")
    /\ service' = 0
    /\ Enter("failing")
    /\ UNCHANGED <<History, broken>>

UpdPutAside ==
    /\ upd.pc = "failing"
    /\ at' = RenameTree(at, "install", "stage")
    /\ Enter("aside")
    /\ UNCHANGED <<History, service, broken>>

UpdPutBack ==
    /\ upd.pc = "aside"
    /\ \/ /\ at' = RenameTree(at, "previous", "install")
          /\ Enter("back") /\ UNCHANGED broken
       \/ EndUpdate(at, "recovery_required") /\ broken' = TRUE
    /\ UNCHANGED <<History, service>>

\* dbRestoreNeeded.
RestoreNeeded == LiveDb(at).schema # upd.safety.schema

\* restoreUpdateDatabase: the safety copy is renamed over the live database.
UpdRestoreDb ==
    /\ upd.pc = "back"
    /\ \/ /\ at' = IF RestoreNeeded THEN SetDb(at, upd.safety) ELSE at
          /\ Enter("restored")
       \/ RestoreNeeded /\ EndUpdate(at, "recovery_required")
    /\ UNCHANGED <<History, service, broken>>

\* The previous release answers in time, or the panel needs attention.
UpdFailedOver ==
    /\ upd.pc = "restored"
    /\ \E end \in Launch(at) :
          /\ service' = end[1]
          /\ \/ end[1] # 0 /\ EndUpdate(Marker(end[2], FALSE), "failed_over")
             \/ EndUpdate(end[2], "recovery_required")
    /\ UNCHANGED <<History, broken>>

\* The marker goes, and the service is restarted once more.
UpdCommit ==
    /\ upd.pc = "verified"
    /\ \E end \in Launch(at) :
          /\ service' = end[1]
          /\ \/ end[1] # 0 /\ EndUpdate(Marker(end[2], FALSE), "committed")
             \/ EndUpdate(Marker(end[2], TRUE), "recovery_required")
    /\ UNCHANGED <<History, broken>>

-----------------------------------------------------------------------------
(* The panel's service, and what goes wrong around it.                     *)

\* The updater is killed, alone or with the host.
UpdKilled ==
    /\ upd.pc # "idle"
    /\ upd' = NoUpdater
    /\ service' \in {service, 0}
    /\ broken' = TRUE
    /\ UNCHANGED <<History, at>>

\* systemd starts the unit: at boot, or for an operator.
PanelStarts ==
    /\ upd.pc = "idle" /\ service = 0
    /\ \E end \in Launch(at) : service' = end[1] /\ at' = end[2]
    /\ UNCHANGED <<History, upd, broken>>

PanelStops ==
    /\ service # 0
    /\ service' = 0
    /\ UNCHANGED <<History, at, upd, broken>>

\* Between the safety copy and the end of the command a failover may restore a
\* database without the write.
InWindow == upd.pc \notin {"idle", "preflight"}

PanelWrites ==
    /\ service # 0 /\ updWrites < MaxUpdWrites
    /\ LET w == updWrites + 1 IN
       /\ updWrites' = w
       /\ at' = SetDb(at, [LiveDb(at) EXCEPT !.writes = @ \cup {w}])
       /\ promised' = IF InWindow THEN promised ELSE promised \cup {w}
    /\ UNCHANGED <<inTree, service, upd, updRuns, broken>>

UpdNext ==
    \/ UpdBegin \/ UpdBackup \/ UpdGivesUp \/ UpdStage \/ UpdPause
    \/ UpdClearPrevious \/ UpdMoveOut \/ UpdMoveIn
    \/ UpdCarry \/ UpdCarried \/ UpdCarryFails
    \/ UpdRestart \/ UpdVerified \/ UpdFailsOver \/ UpdPutAside \/ UpdPutBack
    \/ UpdRestoreDb \/ UpdFailedOver \/ UpdCommit
    \/ UpdKilled \/ PanelStarts \/ PanelStops \/ PanelWrites

UpdSpec == UpdInit /\ [][UpdNext]_updVars

-----------------------------------------------------------------------------
(* Properties.                                                             *)

\* Whatever fails and wherever the command is killed, the disk still holds a
\* release that the next run can serve or recover, and outside of an update's
\* window every write acknowledged before one is in the live database: across
\* any number of runs when DATA_DIR is outside of the tree, and for an in-tree
\* one as long as no run was killed (update.go:66-68, 183-199, 238-245).
UpdateKeepsAll ==
    /\ \E p \in {"install", "previous"} : at[p].tree \in Releases
    /\ upd.pc = "idle" /\ ~(inTree /\ broken) => promised \subseteq LiveDb(at).writes

Ends(phase) == upd.pc # "idle" /\ upd'.pc = "idle"
               /\ at'[DataPlace].data.phase = phase

\* A run ends "committed" only with the requested release answering over its
\* own schema, and "failed_over" only with the release from before the run in
\* place over a database as the run found it or as that release migrates it,
\* unless the tree could not be moved back (update.go:314-373).
UpdateEndsAsReported ==
    [][/\ Ends("committed") => /\ service' = upd.target
                               /\ at'.install.tree = upd.target
       /\ Ends("failed_over") /\ ~broken' =>
             /\ at'.install.tree = upd.from
             /\ upd.from \in Releases =>
                   LiveDb(at').schema \in
                       {upd.safety.schema, SchemaOf[upd.from]}]_updVars

\* update.go:287: the data directory is carried "so the panel keeps its
\* database, claim key, node certs and backups across the swap"; and the command
\* "recovers an interrupted one first" (root.go:331).  Every acknowledged write
\* would then be in some data directory, live or saved.
InTreeDataKept ==
    promised \subseteq
        UNION {at[p].data.db.writes : p \in Places}
        \cup UNION {db.writes : db \in UNION {at[p].data.copies : p \in Places}}
=============================================================================
