-------------------------- MODULE RevocationQueue ---------------------------
(***************************************************************************)
(* The queue of pending_user_revocations over several accounts and nodes   *)
(* (internal/node/revocations.go, DeleteAccount in internal/users): how    *)
(* deletions enqueue jobs, which jobs a bounded pass takes, which user a   *)
(* job's id means after undo and restore have handed out new ids, and what *)
(* the policy pushes that outlive a deletion leave behind.                 *)
(***************************************************************************)
EXTENDS Integers, FiniteSets

CONSTANTS
    Nodes,      \* ids of the VPN nodes, ordered as the query orders them
    Accounts,   \* uuids of the accounts
    Limit,      \* jobs a pass takes at most
    MaxId,      \* bound: ids handed out in the users table
    MaxSecond,  \* bound: the panel's clock, in seconds of created_at
    Flaky,      \* bound: the nodes that stop answering and start again
    Removable,  \* bound: the nodes that are deleted and restored, or whose row
                \* cannot be loaded at times
    MaxPushes   \* bound: policy pushes under way at a time

ASSUME ConstantsAssumption ==
    /\ Nodes \subseteq Int
    /\ Flaky \subseteq Nodes /\ Removable \subseteq Nodes
    /\ Limit \in Nat \ {0} /\ MaxId \in Nat /\ MaxSecond \in Nat
    /\ MaxPushes \in Nat

VARIABLES
    \* the panel's database
    id,         \* users.id of each account, NoId without a row
    lastId,     \* sqlite_sequence of users: the last id handed out
    undo,       \* accounts with a deleted_users snapshot
    registered, \* rows of the nodes table
    jobs,       \* rows of pending_user_revocations
    \* the panel's memory and clock
    batch,      \* the jobs the pass under way has yet to work on
    now,        \* the current second
    calls,      \* policy pushes under way: <<node, user id>>
    \* the nodes
    up,         \* nodes that answer
    unreadable, \* nodes whose row is there and cannot be loaded
    acct,       \* accounts on the nodes: <<node, user id>>
    \* history
    revived     \* accounts a push created for a user that was gone, job and all

dbVars   == <<id, lastId, undo, registered, jobs>>
pushVars == <<calls, revived>>
nodeVars == <<up, unreadable, acct>>
vars == <<dbVars, batch, now, pushVars, nodeVars>>

NoId == 0
Ids == 1 .. MaxId
Job == [at : 0 .. MaxSecond, node : Nodes, user : Ids]

TypeOK ==
    /\ id \in [Accounts -> Ids \cup {NoId}]
    /\ lastId \in 0 .. MaxId
    /\ undo \subseteq Accounts
    /\ registered \subseteq Nodes
    /\ jobs \subseteq Job
    /\ batch \subseteq Job
    /\ now \in 0 .. MaxSecond
    /\ up \subseteq Nodes
    /\ unreadable \subseteq Nodes
    /\ acct \subseteq Nodes \X Ids
    /\ calls \subseteq Nodes \X Ids
    /\ revived \subseteq Nodes \X Ids

Init ==
    /\ id = [a \in Accounts |-> NoId]
    /\ lastId = 0
    /\ undo = {}
    /\ registered = Nodes
    /\ jobs = {}
    /\ batch = {}
    /\ now = 0
    /\ up = Nodes
    /\ unreadable = {}
    /\ acct = {}
    /\ calls = {}
    /\ revived = {}

Live == {id[a] : a \in {b \in Accounts : id[b] # NoId}}

-----------------------------------------------------------------------------
(* Accounts.                                                               *)

\* Mutant: a plain INTEGER PRIMARY KEY hands out one more than the largest.
LargestPlusOne == CHOOSE i \in Ids \cup {MaxId + 1} :
    /\ i - 1 \in Live \cup {0}
    /\ \A j \in Live : j < i

\* AUTOINCREMENT never hands an id out twice.
NextId == lastId + 1

\* A row for the account: a new user, or the snapshot of a deleted one.
InsertRow(a) ==
    /\ id[a] = NoId
    /\ NextId \in Ids
    /\ id' = [id EXCEPT ![a] = NextId]
    /\ lastId' = IF NextId > lastId THEN NextId ELSE lastId

CreateUser(a) ==
    /\ a \notin undo
    /\ InsertRow(a)
    /\ UNCHANGED <<undo, registered, jobs, batch, now, pushVars, nodeVars>>

\* Handler.restore: the row comes back under a new id; the snapshot goes in a
\* statement of its own, which a crash may keep.
RestoreUser(a) ==
    /\ a \in undo
    /\ InsertRow(a)
    /\ undo' \in {undo, undo \ {a}}
    /\ UNCHANGED <<registered, jobs, batch, now, pushVars, nodeVars>>

\* The undo window closes, or a restore finds the account in place.
ForgetSnapshot(a) ==
    /\ a \in undo
    /\ undo' = undo \ {a}
    /\ UNCHANGED <<id, lastId, registered, jobs, batch, now, pushVars, nodeVars>>

\* Mutant: only nodes that answer get a job.
AnsweringNodes == registered \cap up

\* Every row of nodes gets a job, whatever its status.
Indebted == registered

\* Mutant: an account already deleted is deleted again.
NotChecked(a) == TRUE

\* The DELETE of the transaction finds the row.
Deletes(a) == id[a] # NoId

\* DeleteAccount, one transaction.  The cleanup deletes the last user too.
DeleteUser(a, keepOne) ==
    /\ Deletes(a)
    /\ keepOne => Cardinality(Live) > 1
    /\ id' = [id EXCEPT ![a] = NoId]
    /\ undo' = undo \cup {a}
    /\ jobs' = jobs \cup {[at |-> now, node |-> n, user |-> id[a]] : n \in Indebted}
    /\ UNCHANGED <<lastId, registered, batch, now, pushVars, nodeVars>>

\* GetNodeByID gives a node: its row is there, the query of it succeeds and the
\* key decrypts.
Loadable(n) == n \in registered \ unreadable

-----------------------------------------------------------------------------
(* Policy pushes: the user is read once, the calls go out in chunks, and   *)
(* nobody cancels a call the fan-out deadline or a restart has overtaken.  *)

PushUser(n, a) ==
    /\ Loadable(n)
    /\ id[a] # NoId
    /\ Cardinality(calls) < MaxPushes
    /\ calls' = calls \cup {<<n, id[a]>>}
    /\ UNCHANGED <<dbVars, batch, now, revived, nodeVars>>

\* No job says that the node owes the deletion of the user.
Unowed(n, i) == \A j \in jobs : <<j.node, j.user>> # <<n, i>>

\* The node creates the account, whether or not the user is still there.
PushLands(n, i) ==
    /\ <<n, i>> \in calls
    /\ n \in up
    /\ calls' = calls \ {<<n, i>>}
    /\ acct' = acct \cup {<<n, i>>}
    /\ revived' = IF i \notin Live /\ Unowed(n, i) THEN revived \cup {<<n, i>>}
                                                  ELSE revived
    /\ UNCHANGED <<dbVars, batch, now, up, unreadable>>

PushLost(n, i) ==
    /\ <<n, i>> \in calls
    /\ calls' = calls \ {<<n, i>>}
    /\ UNCHANGED <<dbVars, batch, now, revived, nodeVars>>

-----------------------------------------------------------------------------
(* ProcessPendingRevocations.                                              *)

\* ORDER BY created_at, node_id, user_id.
Before(j, k) ==
    \/ j.at < k.at
    \/ j.at = k.at /\ j.node < k.node
    \/ j.at = k.at /\ j.node = k.node /\ j.user < k.user

FirstOf(S) == CHOOSE j \in S : \A k \in S \ {j} : Before(j, k)

\* The first Limit jobs.
Taken == {j \in jobs : Cardinality({k \in jobs : Before(k, j)}) < Limit}

\* Without jobs the call does nothing; while a pass is under way TryLock fails
\* and another caller does nothing either.
StartPass ==
    /\ batch = {}
    /\ jobs # {}
    /\ batch' = Taken
    /\ UNCHANGED <<dbVars, now, pushVars, nodeVars>>

Done(j) == batch' = batch \ {j}

\* No node to ask, for whatever reason: the job is dropped.
DropJob ==
    /\ batch # {}
    /\ LET j == FirstOf(batch)
       IN  /\ ~Loadable(j.node)
           /\ jobs' = {k \in jobs : <<k.node, k.user>> # <<j.node, j.user>>}
           /\ Done(j)
    /\ UNCHANGED <<id, lastId, undo, registered, now, pushVars, nodeVars>>

\* Mutant: the outcome of the call does not matter.
Whatever(j) == TRUE
Acknowledges(j) == j.node \in up

\* The node deletes the account and says so.
Acknowledged ==
    /\ batch # {}
    /\ LET j == FirstOf(batch)
       IN  /\ Loadable(j.node)
           /\ Acknowledges(j)
           /\ acct' = IF j.node \in up THEN acct \ {<<j.node, j.user>>} ELSE acct
           /\ jobs' = {k \in jobs : <<k.node, k.user>> # <<j.node, j.user>>}
           /\ Done(j)
    /\ UNCHANGED <<id, lastId, undo, registered, now, pushVars, up, unreadable>>

\* Mutant: a pass ends at the first node that fails it.
GivesUp(j) == {}
AfterFailure(j) == batch \ {j}

\* The node does not answer, or not in time: the job is kept, in its place.
Failed ==
    /\ batch # {}
    /\ LET j == FirstOf(batch)
       IN  /\ Loadable(j.node)
           /\ \/ j.node \notin up /\ UNCHANGED acct
              \/ j.node \in Flaky /\ acct' = acct \ {<<j.node, j.user>>}
           /\ batch' = AfterFailure(j)
    /\ UNCHANGED <<dbVars, now, pushVars, up, unreadable>>

-----------------------------------------------------------------------------
(* Nodes, failures and time.                                               *)

\* DeleteNodeHandler: a crash may come between the row and its jobs.
DeleteNode(n) ==
    /\ n \in registered
    /\ registered' = registered \ {n}
    /\ unreadable' = unreadable \ {n}
    /\ jobs' \in {jobs, {j \in jobs : j.node # n}}
    /\ UNCHANGED <<id, lastId, undo, batch, now, pushVars, up, acct>>

RestoreNode(n) ==
    /\ n \notin registered
    /\ registered' = registered \cup {n}
    /\ UNCHANGED <<id, lastId, undo, jobs, batch, now, pushVars, nodeVars>>

NodeDown(n) ==
    /\ up' = up \ {n}
    /\ UNCHANGED <<dbVars, batch, now, pushVars, unreadable, acct>>

NodeUp(n) ==
    /\ up' = up \cup {n}
    /\ UNCHANGED <<dbVars, batch, now, pushVars, unreadable, acct>>

\* Queries of the row start to fail, or the key it was encrypted with is lost ...
Unreadable(n) ==
    /\ n \in registered
    /\ unreadable' = unreadable \cup {n}
    /\ UNCHANGED <<dbVars, batch, now, pushVars, up, acct>>

\* ... and it can be loaded again.
ReadableAgain(n) ==
    /\ unreadable' = unreadable \ {n}
    /\ UNCHANGED <<dbVars, batch, now, pushVars, up, acct>>

\* Calls under way may still reach their nodes.
PanelRestart == batch' = {} /\ UNCHANGED <<dbVars, now, pushVars, nodeVars>>

Tick ==
    /\ now < MaxSecond
    /\ now' = now + 1
    /\ UNCHANGED <<dbVars, batch, pushVars, nodeVars>>

-----------------------------------------------------------------------------
PassStep == StartPass \/ DropJob \/ Acknowledged \/ Failed

AccountStep == \E a \in Accounts :
    \/ CreateUser(a) \/ RestoreUser(a) \/ ForgetSnapshot(a)
    \/ \E keepOne \in BOOLEAN : DeleteUser(a, keepOne)

PushStep == \E n \in Nodes :
    \/ \E a \in Accounts : PushUser(n, a)
    \/ \E i \in Ids : PushLands(n, i) \/ PushLost(n, i)

NodeStep ==
    \/ \E n \in Flaky : NodeDown(n) \/ NodeUp(n)
    \/ \E n \in Removable : \/ DeleteNode(n) \/ RestoreNode(n)
                            \/ Unreadable(n) \/ ReadableAgain(n)

Next == PassStep \/ AccountStep \/ PushStep \/ NodeStep \/ Tick \/ PanelRestart

Spec == Init /\ [][Next]_vars

\* The worker calls on every tick and every call returns; in the end the panel
\* stays up.  Accounts and nodes may change for ever.
FairSpec ==
    /\ Spec
    /\ WF_vars(PassStep)
    /\ <>[][PassStep \/ AccountStep \/ PushStep \/ NodeStep \/ Tick]_vars

-----------------------------------------------------------------------------
(* Properties.                                                             *)

\* A revocation never hits a user that exists: not after an undo brought the
\* account back, not from a batch read long ago, because a restored or new user
\* has an id no job was ever written for (migrate.go:366-370, handler.go:531).
LiveUsersSafe == \A j \in jobs \cup batch : j.user \notin Live

\* A job ends when the node has lost the account, or cannot be asked.
JobsEndDelivered ==
    [][\A j \in jobs : j \in jobs' \/ <<j.node, j.user>> \notin acct'
                                   \/ ~Loadable(j.node)']_vars

\* Deletions leave no account behind: one of a user that no longer exists, on a
\* node whose row was always there and could always be loaded, has its job.
\* Excepted are the accounts of a push that landed when the job was already done,
\* which nothing removes (user_policy.go:200-206, fanout.go:116-159).
DeletedAreOwed ==
    \A n \in Nodes \ Removable : \A i \in Ids \ Live :
       <<n, i>> \in acct \ revived => \E j \in jobs : j.node = n /\ j.user = i

\* "The revocation worker delivers the durable pending jobs on the next tick"
\* (users/models.go:178-180): a node that always answers has its jobs delivered,
\* whatever the other nodes do.
ReachableDelivered ==
    \A n \in Nodes \ Flaky : []<>(\A j \in jobs : j.node # n)
=============================================================================
