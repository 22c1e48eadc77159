-------------------------- MODULE DatabaseRestore ---------------------------
(***************************************************************************)
(* Replacing the live database of a running panel (atomicDBRestore and     *)
(* activateDatabase in internal/panel/maintenance.go): the safety copy,    *)
(* the drain, the swap of the file under the pool, verification and        *)
(* rollback, against requests and workers that hold the pool or one of its *)
(* connections, and against a crash between any two steps.                 *)
(*                                                                         *)
(* A database is the set of writes it holds.  SQLite keeps it in two files *)
(* under the live name: the main file, and the write-ahead log beside it   *)
(* with what no checkpoint has moved into the main file yet.               *)
(***************************************************************************)
EXTENDS Naturals, FiniteSets

CONSTANTS
    Clients,     \* what uses the database: requests and background workers
    Tracked,     \* the clients that TrackActive counts: the requests
    MaxWrites,   \* bound: transactions committed
    MaxRestores, \* bound: restores begun
    KeepCopies   \* the pre-restore copies that are kept (10)

ASSUME ConstantsAssumption ==
    /\ Tracked \subseteq Clients
    /\ MaxWrites \in Nat /\ MaxRestores \in Nat /\ KeepCopies \in Nat \ {0}

VARIABLES
    \* the data directory
    main,     \* the main file under the live name
    log,      \* the write-ahead log under the live name
    ours,     \* the log belongs to the main file beside it
    copies,   \* the pre-restore copies in the backup directory
    \* the panel's memory
    pool,     \* the published pool
    restore,  \* the restore under way, which holds maintenanceLock
    client,   \* what each client is doing
    warned,   \* a restore has ended with data_safe = false
    \* history
    writes,   \* number of transactions committed
    begun,    \* number of restores begun
    acked,    \* acknowledged over the published pool
    promised, \* those of acked whose restore had no safety copy under way
    retired   \* those that were nowhere but in copies that were pruned

diskVars == <<main, log, ours, copies>>
histVars == <<writes, begun, acked, promised, retired>>
vars == <<diskVars, pool, restore, client, warned, histVars>>

Writes == 1 .. MaxWrites

\* A pre-restore copy: of which restore, and what it holds.
Copy == [of : 0 .. MaxRestores, holds : SUBSET Writes]
AllOf(S) == UNION {x.holds : x \in S}

\* "restore" activates the candidate, "rollback" the copy made before it.
Restore == [pc : {"idle", "staged", "saved", "draining", "closed", "bare",
                  "renamed", "verify", "failing"},
            phase : {"restore", "rollback"},
            file : SUBSET Writes,      \* what is staged for the live name
            rollback : SUBSET Writes]  \* rollbackDB

NoRestore == [pc |-> "idle", phase |-> "restore", file |-> {}, rollback |-> {}]

\* A holder has read Svc.DB(); a worker has a connection of the pool it read.
\* The handle is stale once another pool is published, the connection is an
\* orphan once its log has no name any more.
Client == [pc : {"idle", "arrived", "holding", "working"},
           stale : BOOLEAN, orphan : BOOLEAN]

Idle == [pc |-> "idle", stale |-> FALSE, orphan |-> FALSE]

TypeOK ==
    /\ main \subseteq Writes /\ log \subseteq Writes /\ ours \in BOOLEAN
    /\ copies \subseteq Copy
    /\ pool \in {"open", "closed"}
    /\ restore \in Restore
    /\ client \in [Clients -> Client]
    /\ warned \in BOOLEAN
    /\ writes \in 0 .. MaxWrites /\ begun \in 0 .. MaxRestores
    /\ acked \subseteq Writes /\ promised \subseteq Writes /\ retired \subseteq Writes

Init ==
    /\ main = {} /\ log = {} /\ ours = TRUE /\ copies = {}
    /\ pool = "open"
    /\ restore = NoRestore
    /\ client = [c \in Clients |-> Idle]
    /\ warned = FALSE
    /\ writes = 0 /\ begun = 0 /\ acked = {} /\ promised = {} /\ retired = {}

\* What opening the live name finds.
Live == main \cup log

Step(pc) == restore' = [restore EXCEPT !.pc = pc]
Connected == {c \in Clients : client[c].pc = "working" /\ ~client[c].orphan}

\* Mutant: the main file is copied, without what a checkpoint has left behind.
MainOnly == IF Connected = {} THEN Live ELSE main

\* VACUUM INTO reads through the log.
Snapshot == Live

\* Mutant: the temporary file is used although the copy failed: what is in it
\* is none of the writes.
Unfilled == {0}

\* The rollback copy is made from the safety copy.
RollbackCopy == Snapshot

-----------------------------------------------------------------------------
(* Requests and workers.                                                   *)

Become(c, r) == client' = [client EXCEPT ![c] = r]

\* A request is counted; a worker's tick begins.
Arrive(c) ==
    /\ client[c].pc = "idle"
    /\ Become(c, [Idle EXCEPT !.pc = "arrived"])
    /\ UNCHANGED <<diskVars, pool, restore, warned, histVars>>

\* Svc.DB(): whatever pool is published, closed or not.
TakeHandle(c) ==
    /\ client[c].pc = "arrived"
    /\ Become(c, [Idle EXCEPT !.pc = "holding"])
    /\ UNCHANGED <<diskVars, pool, restore, warned, histVars>>

Usable(c) == pool = "open" /\ ~client[c].stale

Connect(c) ==
    /\ client[c].pc = "holding" /\ Usable(c)
    /\ Become(c, [client[c] EXCEPT !.pc = "working"])
    /\ UNCHANGED <<diskVars, pool, restore, warned, histVars>>

\* From the safety copy to the end of the restore.
Replacing == restore.pc \notin {"idle", "staged"}

\* A transaction commits: the client is told so, whatever has become of the
\* files the connection has open.
Commit(c) ==
    /\ client[c].pc = "working"
    /\ writes < MaxWrites
    /\ LET w == writes + 1 IN
       /\ writes' = w
       /\ log' = IF client[c].orphan THEN log ELSE log \cup {w}
       /\ acked' = IF client[c].stale THEN acked ELSE acked \cup {w}
       /\ promised' = IF Usable(c) /\ ~Replacing THEN promised \cup {w}
                                                 ELSE promised
    /\ UNCHANGED <<main, ours, copies, pool, restore, client, warned, begun, retired>>

\* The connection is given back.  A closed pool closes it, and the last one to
\* close moves the log into the main file.
Release(c) ==
    /\ client[c].pc = "working"
    /\ Become(c, [client[c] EXCEPT !.pc = "holding", !.orphan = FALSE])
    /\ IF pool = "closed" /\ Connected = {c}
       THEN main' = Live /\ log' = {}
       ELSE UNCHANGED <<main, log>>
    /\ UNCHANGED <<ours, copies, pool, restore, warned, histVars>>

\* The client is done, or is told "database is closed".
Leave(c) ==
    /\ client[c].pc \in {"arrived", "holding"}
    /\ Become(c, Idle)
    /\ UNCHANGED <<diskVars, pool, restore, warned, histVars>>

-----------------------------------------------------------------------------
(* atomicDBRestore.                                                        *)

\* maintenanceLock; the candidate is an upload of another installation's
\* database, empty here, or a copy of the backup directory.  It is copied,
\* checked, and refused unless its schema is the live one's.
BeginRestore ==
    /\ restore.pc = "idle"
    /\ begun < MaxRestores /\ begun' = begun + 1
    /\ \E source \in {{}} \cup {x.holds : x \in copies} :
          restore' = [NoRestore EXCEPT !.pc = "staged", !.file = source]
    /\ UNCHANGED <<diskVars, pool, client, warned, writes, acked, promised, retired>>

\* An error before anything was replaced: the old pool still serves.
GiveUp ==
    /\ restore.pc \in {"staged", "saved"}
    /\ restore' = NoRestore
    /\ UNCHANGED <<diskVars, pool, client, warned, histVars>>

\* The n copies made last.
Newest(n) == {x \in copies : Cardinality({y \in copies : y.of >= x.of}) <= n}

\* createPanelBackup: a checkpoint, which gives way to connections that are
\* in use, then a snapshot that is verified, and the oldest copies are pruned; and
\* the rollback copy of it.
SafetyCopy ==
    /\ restore.pc = "staged"
    /\ pool = "open"
    /\ copies' = Newest(KeepCopies - 1) \cup {[of |-> begun, holds |-> Snapshot]}
    /\ retired' = retired \cup (AllOf(copies) \ (Live \cup AllOf(copies')))
    /\ restore' = [restore EXCEPT !.pc = "saved", !.rollback = RollbackCopy]
    /\ \/ main' = Live /\ log' = {}
       \/ Connected # {} /\ UNCHANGED <<main, log>>
    /\ UNCHANGED <<ours, pool, client, warned, writes, begun, acked, promised>>

\* activateDatabase: the file is staged beside the live one.
StageCandidate ==
    /\ restore.pc = "saved"
    /\ Step("draining")
    /\ UNCHANGED <<diskVars, pool, client, warned, histVars>>

Drained == \A c \in Tracked : client[c].pc = "idle"

\* Mutant: the wait for the requests has no deadline.
UntilDrained == Drained

\* The wait for the requests ends when there are none or after ten seconds,
\* which may be over before any request has ended.
TimeIsUp == TRUE
StopWaiting == Drained \/ TimeIsUp

\* The pool is closed.  Connections in use stay open until they are given
\* back; when there is none, closing moves the log into the main file.
ClosePool ==
    /\ restore.pc = "draining"
    /\ StopWaiting
    /\ pool' = "closed"
    /\ IF Connected = {} THEN main' = Live /\ log' = {}
                         ELSE UNCHANGED <<main, log>>
    /\ Step("closed")
    /\ UNCHANGED <<ours, copies, client, warned, histVars>>

\* Mutant: the -wal file is left where it is.
SidecarLeft == log

\* removeSQLiteSidecars.
SidecarRemoved == {}

RemoveSidecars ==
    /\ restore.pc = "closed"
    /\ log' = SidecarRemoved
    /\ client' = [c \in Clients |->
                    IF c \in Connected THEN [client[c] EXCEPT !.orphan = TRUE]
                                       ELSE client[c]]
    /\ Step("bare")
    /\ UNCHANGED <<main, ours, copies, pool, warned, histVars>>

\* commitStaged.  A log that is still there is now beside another file.
Rename ==
    /\ restore.pc = "bare"
    /\ main' = restore.file
    /\ ours' = (log = {})
    /\ Step("renamed")
    /\ UNCHANGED <<log, copies, pool, client, warned, histVars>>

\* DBSwap: every handle read before is of a pool that is closed.
Publish ==
    /\ pool' = "open"
    /\ client' = [c \in Clients |->
                    IF client[c].pc \in {"holding", "working"}
                    THEN [client[c] EXCEPT !.stale = TRUE] ELSE client[c]]

\* The rollback failed too, or could not begin: data_safe = false.
Unsafe == restore' = NoRestore /\ warned' = TRUE

\* Mutant: the caller is told that the old pool still serves.
EndsThere == restore' = NoRestore /\ UNCHANGED warned

\* disturbed = true: the panel is left without a pool, the caller rolls back.
Disturbed ==
    IF restore.phase = "restore" THEN Step("failing") /\ UNCHANGED warned
                                 ELSE Unsafe

\* The rename fails: the untouched file is opened again, and the restore ends
\* as it would have before the swap; or it cannot be opened either.
RenameFails ==
    /\ restore.pc = "bare"
    /\ \/ /\ Publish
          /\ IF restore.phase = "restore"
             THEN restore' = NoRestore /\ UNCHANGED warned
             ELSE Unsafe
       \/ Disturbed /\ UNCHANGED <<pool, client>>
    /\ UNCHANGED <<diskVars, histVars>>

\* The sidecars are removed again, the file is opened and published.
OpenLive ==
    /\ restore.pc = "renamed"
    /\ log' = {} /\ ours' = TRUE
    /\ Publish
    /\ IF restore.phase = "restore" THEN Step("verify")
                                    ELSE restore' = NoRestore
    /\ UNCHANGED <<main, copies, warned, histVars>>

OpenFails ==
    /\ restore.pc = "renamed"
    /\ log' = {} /\ ours' = TRUE
    /\ Disturbed
    /\ UNCHANGED <<main, copies, pool, client, histVars>>

Verified ==
    /\ restore.pc = "verify"
    /\ restore' = NoRestore
    /\ UNCHANGED <<diskVars, pool, client, warned, histVars>>

VerifyFails ==
    /\ restore.pc = "verify"
    /\ Step("failing")
    /\ UNCHANGED <<diskVars, pool, client, warned, histVars>>

\* fail: activateDatabase again, with the rollback copy.
RollBack ==
    /\ restore.pc = "failing"
    /\ restore' = [restore EXCEPT !.pc = "draining", !.phase = "rollback",
                                  !.file = restore.rollback]
    /\ UNCHANGED <<diskVars, pool, client, warned, histVars>>

RollBackFails ==
    /\ restore.pc = "failing"
    /\ Unsafe
    /\ UNCHANGED <<diskVars, pool, client, histVars>>

\* The process dies and is started again: it opens the live name.
PanelRestart ==
    /\ pool' = "open"
    /\ restore' = NoRestore
    /\ client' = [c \in Clients |-> Idle]
    /\ warned' = FALSE
    /\ UNCHANGED <<diskVars, histVars>>

-----------------------------------------------------------------------------

RestoreSteps ==
    \/ GiveUp \/ SafetyCopy \/ StageCandidate \/ ClosePool \/ RemoveSidecars
    \/ Rename \/ RenameFails \/ OpenLive \/ OpenFails \/ Verified \/ VerifyFails
    \/ RollBack \/ RollBackFails

ClientSteps(c) ==
    \/ Arrive(c) \/ TakeHandle(c) \/ Connect(c) \/ Commit(c) \/ Release(c)
    \/ Leave(c)

Next ==
    \/ \E c \in Clients : ClientSteps(c)
    \/ BeginRestore
    \/ RestoreSteps
    \/ PanelRestart

Spec == Init /\ [][Next]_vars

\* A restore's steps are file operations and a wait with a deadline.  Requests
\* and workers may be stuck for ever.
FairSpec == Spec /\ WF_vars(RestoreSteps)

-----------------------------------------------------------------------------
(* Properties.                                                             *)

\* No log of one database ever lies beside the main file of another, where the
\* next start would recover it into that file: the pool is closed and the
\* sidecars are removed before the rename (maintenance.go:482-487).
NoForeignLog == ours

Saved == AllOf(copies)
Owed == promised \ retired

\* A write acknowledged while no restore was replacing the database is found
\* in the live database or in a pre-restore copy, whatever restores, rollbacks
\* and crashes follow (atomicDBRestore's order of safety copy and activation), until
\* the last copy that holds it is pruned (maintenance.go:134-146).
AcknowledgedKept == Owed \subseteq Live \cup Saved

\* When no restore is under way, requests find an open pool, unless a restore
\* has ended saying that the data is not safe (activateDatabase's result, and
\* fail, which rolls back on it).
PanelServes == restore.pc = "idle" /\ ~warned => pool = "open"

\* A restore ends, even if a request it waits for never does, such as one
\* that itself waits for maintenanceLock (the deadline of the drain).
RestoreEnds == restore.pc # "idle" ~> restore.pc = "idle"

\* The wiki on backups: writes are refused until the swap has finished, and the
\* database being replaced is kept.  Every acknowledged write would then be in
\* the live database or in a copy of a replaced one.
FallbackComplete == acked \subseteq Live \cup Saved
=============================================================================
