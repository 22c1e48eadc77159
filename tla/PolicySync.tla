----------------------------- MODULE PolicySync -----------------------------
(***************************************************************************)
(* How one user's effective policy reaches the nodes, and how the account  *)
(* leaves them again (internal/node/user_policy.go, revocations.go and the *)
(* profile downloads of management.go).                                    *)
(*                                                                         *)
(* A policy is abstracted to whether the user may connect: "on" or "off".  *)
(* A call to a node is three things that may come apart: the pass that     *)
(* waits for it, the node that applies it and the answer.  A pass stops    *)
(* waiting at the fan-out deadline without cancelling the call, which then *)
(* lands whenever it lands.                                                *)
(***************************************************************************)
EXTENDS Integers, FiniteSets

CONSTANTS
    Nodes,      \* the VPN nodes that ever were in the nodes table
    Passes,     \* the callers of reconcilePolicyUsers
    NoPass,     \* policySyncLock is free
    NoNode,     \* no revocation call is under way
    Removable   \* bound: the nodes an administrator ever deletes

ASSUME ConstantsAssumption ==
    /\ NoPass \notin Passes
    /\ NoNode \notin Nodes
    /\ Removable \subseteq Nodes

VARIABLES
    \* the panel's database
    row,        \* effective policy of the users row, "absent" once deleted
    hash,       \* push_hash: the policy each node is on record for, or "none"
    registered, \* active nodes in the nodes table
    pending,    \* nodes with a pending_user_revocations row for the user
    \* the panel's memory
    lock,       \* who holds policySyncLock
    pass,       \* the reconcilePolicyUsers call of each caller
    fetch,      \* the profile download under way for each node
    revoking,   \* the node whose DELETE call is under way
    \* the nodes and the network
    acct,       \* the account on each node
    late,       \* policy calls nobody waits for any more: <<node, policy>>
    \* history
    doubt,      \* nodes on which something push_hash cannot know happened
    strays      \* nodes whose job for the deleted user is none or was dropped:
                \* unknown at the deletion, removed since, not to be loaded when
                \* their job came up, or reached by a call once it was done

dbVars   == <<row, hash, registered, pending>>
memVars  == <<lock, pass, fetch, revoking>>
nodeVars == <<acct, late>>
histVars == <<doubt, strays>>
vars == <<dbVars, memVars, nodeVars, histVars>>

Policies == {"on", "off"}

Pass == [pc : {"idle", "pushing"},
         want : Policies,             \* the policy it loaded
         waiting : SUBSET Nodes,      \* calls it waits for
         ok : SUBSET Nodes]           \* calls a node acknowledged

\* A profile download pushes the policy it read.
Fetch == [pc : {"idle", "pushing"}, want : Policies]

IdlePass  == [pc |-> "idle", want |-> "off", waiting |-> {}, ok |-> {}]
IdleFetch == [pc |-> "idle", want |-> "off"]

TypeOK ==
    /\ row \in Policies \cup {"absent"}
    /\ hash \in [Nodes -> Policies \cup {"none"}]
    /\ registered \subseteq Nodes
    /\ pending \subseteq Nodes
    /\ lock \in Passes \cup {NoPass}
    /\ pass \in [Passes -> Pass]
    /\ fetch \in [Nodes -> Fetch]
    /\ revoking \in Nodes \cup {NoNode}
    /\ acct \in [Nodes -> Policies \cup {"absent"}]
    /\ late \subseteq Nodes \X Policies
    /\ doubt \subseteq Nodes
    /\ strays \subseteq Nodes

\* The user has just been created; no node knows the account yet.
Init ==
    /\ row = "on"
    /\ hash = [n \in Nodes |-> "none"]
    /\ registered = Nodes
    /\ pending = {}
    /\ lock = NoPass
    /\ pass = [p \in Passes |-> IdlePass]
    /\ fetch = [n \in Nodes |-> IdleFetch]
    /\ revoking = NoNode
    /\ acct = [n \in Nodes |-> "absent"]
    /\ late = {}
    /\ doubt = {}
    /\ strays = {}

-----------------------------------------------------------------------------
(* The node's side of PUT /sync/user: it creates the account or changes it. *)

Applies(n, policy) == acct' = [acct EXCEPT ![n] = policy]

\* A policy that lands on a deleted user's account has no job to undo it,
\* unless one is still to come.
Strayed(n) == strays' = IF row = "absent" /\ n \notin pending
                        THEN strays \cup {n} ELSE strays

-----------------------------------------------------------------------------
(* reconcilePolicyUsers.                                                   *)

\* Mutant: a user whose row is gone is worked on all the same.
FoundAnyway == TRUE

\* The users row is there to be loaded.
Found == row # "absent"

\* Mutant: force does not override the recorded hash.
OnlyChanged(force) == {n \in registered : hash[n] # row}

\* The jobs of a pass: every active node, or only those whose recorded hash
\* is not that of the policy wanted now.
Jobs(force) == {n \in registered : force \/ hash[n] # row}

\* Mutant: the pass does not serialise.
NoLock == TRUE
LockFree == lock = NoPass

\* Rows and nodes are loaded inside the lock.  Without users, nodes or jobs
\* the call returns at once.
BeginPass(p, force) ==
    /\ LockFree
    /\ pass[p].pc = "idle"
    /\ Found
    /\ Jobs(force) # {}
    /\ lock' = p
    /\ pass' = [pass EXCEPT ![p] = [pc |-> "pushing", want |-> row,
                                    waiting |-> Jobs(force), ok |-> {}]]
    /\ UNCHANGED <<dbVars, fetch, revoking, nodeVars, histVars>>

StopWaiting(p, n, acknowledged) ==
    pass' = [pass EXCEPT ![p].waiting = @ \ {n},
                         ![p].ok = @ \cup acknowledged]

Awaits(p, n) == pass[p].pc = "pushing" /\ n \in pass[p].waiting

\* The node applies the policy and says so in time.
PushAnswered(p, n) ==
    /\ Awaits(p, n)
    /\ Applies(n, pass[p].want)
    /\ StopWaiting(p, n, {n})
    /\ doubt' = doubt \ {n}
    /\ Strayed(n)
    /\ UNCHANGED <<dbVars, lock, fetch, revoking, late>>

\* No success in time: refused, unreachable, or applied with the answer lost.
PushFails(p, n) ==
    /\ Awaits(p, n)
    /\ StopWaiting(p, n, {})
    /\ \/ /\ UNCHANGED <<acct, doubt, strays>>
       \/ /\ Applies(n, pass[p].want)
          /\ doubt' = doubt \cup {n}
          /\ Strayed(n)
    /\ UNCHANGED <<dbVars, lock, fetch, revoking, late>>

\* The fan-out deadline: the call is not cancelled.
PushExpires(p, n) ==
    /\ Awaits(p, n)
    /\ StopWaiting(p, n, {})
    /\ late' = late \cup {<<n, pass[p].want>>}
    /\ UNCHANGED <<dbVars, lock, fetch, revoking, acct, histVars>>

\* Mutant: every job is recorded, acknowledged or not.
Attempted(p) == registered
Acknowledged(p) == pass[p].ok

\* The hashes of acknowledged calls are merged into node_usage with one guarded
\* write.  A concurrent writer makes it miss; a miss is not retried.  The row
\* of a deleted user is not found.
Merge(p) ==
    /\ pass[p].pc = "pushing"
    /\ pass[p].waiting = {}
    /\ \/ /\ row # "absent"
          /\ hash' = [n \in Nodes |-> IF n \in Acknowledged(p) THEN pass[p].want
                                                              ELSE hash[n]]
          /\ UNCHANGED doubt
       \/ /\ doubt' = doubt \cup pass[p].ok
          /\ UNCHANGED hash
    /\ pass' = [pass EXCEPT ![p] = IdlePass]
    /\ lock' = NoPass
    /\ UNCHANGED <<row, registered, pending, fetch, revoking, nodeVars, strays>>

\* An overtaken call reaches its node after all, or never does.
LateLands(n, policy) ==
    /\ <<n, policy>> \in late
    /\ late' = late \ {<<n, policy>>}
    /\ Applies(n, policy)
    /\ doubt' = doubt \cup {n}
    /\ Strayed(n)
    /\ UNCHANGED <<dbVars, memVars>>

LateDies(n, policy) ==
    /\ <<n, policy>> \in late
    /\ late' = late \ {<<n, policy>>}
    /\ UNCHANGED <<dbVars, memVars, acct, histVars>>

-----------------------------------------------------------------------------
(* Profile downloads: pushDesiredPolicy with neither policySyncLock nor    *)
(* push_hash, then the profile.                                            *)

BeginFetch(n) ==
    /\ n \in registered
    /\ fetch[n].pc = "idle"
    /\ Found
    /\ fetch' = [fetch EXCEPT ![n] = [pc |-> "pushing", want |-> row]]
    /\ UNCHANGED <<dbVars, lock, pass, revoking, nodeVars, histVars>>

\* The outcome is ignored: the profile is fetched either way, which changes
\* nothing.
FetchPush(n) ==
    /\ fetch[n].pc = "pushing"
    /\ fetch' = [fetch EXCEPT ![n] = IdleFetch]
    /\ \/ /\ Applies(n, fetch[n].want)
          /\ doubt' = doubt \cup {n}
          /\ Strayed(n)
          /\ UNCHANGED late
       \/ UNCHANGED <<acct, late, histVars>>
       \/ /\ late' = late \cup {<<n, fetch[n].want>>}
          /\ UNCHANGED <<acct, histVars>>
    /\ UNCHANGED <<dbVars, lock, pass, revoking>>

-----------------------------------------------------------------------------
(* Changes of the desired state.                                           *)

\* An edit, an expiry, an exhausted quota, a usage reset or an extension.
ChangePolicy ==
    /\ row # "absent"
    /\ row' \in Policies \ {row}
    /\ UNCHANGED <<hash, registered, pending, memVars, nodeVars, histVars>>

\* DeleteAccount: the row and one job per registered node, in one transaction.
DeleteUser ==
    /\ row # "absent"
    /\ row' = "absent"
    /\ hash' = [n \in Nodes |-> "none"]
    /\ pending' = registered
    /\ strays' = Nodes \ registered
    /\ UNCHANGED <<registered, memVars, nodeVars, doubt>>

\* DeleteNodeHandler: row, jobs and hashes go in statements of their own; the
\* errors of all but the first are ignored and a crash may come before them.
DeleteNode(n) ==
    /\ n \in registered
    /\ registered' = registered \ {n}
    /\ pending' \in {pending, pending \ {n}}
    /\ hash' \in {hash, [hash EXCEPT ![n] = "none"]}
    /\ strays' = IF row = "absent" THEN strays \cup {n} ELSE strays
    /\ UNCHANGED <<row, memVars, nodeVars, doubt>>

\* RestoreNodeHandler brings back the nodes row and nothing else.
RestoreNode(n) ==
    /\ n \notin registered
    /\ registered' = registered \cup {n}
    /\ UNCHANGED <<row, hash, pending, memVars, nodeVars, histVars>>

\* The node is reinstalled, or another machine takes over the address or id.
RebuildNode(n) ==
    /\ acct[n] # "absent"
    /\ Applies(n, "absent")
    /\ doubt' = doubt \cup {n}
    /\ UNCHANGED <<dbVars, memVars, late, strays>>

-----------------------------------------------------------------------------
(* ProcessPendingRevocations, one job at a time under its own mutex.       *)

\* The node of the job is loaded from the table.
BeginRevocation(n) ==
    /\ revoking = NoNode
    /\ n \in pending \cap registered
    /\ revoking' = n
    /\ UNCHANGED <<dbVars, lock, pass, fetch, nodeVars, histVars>>

\* GetNodeByID gives nothing and the job is dropped: the node is gone, or is
\* there but the query of its row or the decryption of its key failed.
RevocationDropped(n) ==
    /\ revoking = NoNode
    /\ n \in pending
    /\ pending' = pending \ {n}
    /\ strays' = strays \cup {n}
    /\ UNCHANGED <<row, hash, registered, memVars, nodeVars, doubt>>

RevocationAnswered(n) ==
    /\ revoking = n
    /\ Applies(n, "absent")
    /\ pending' = pending \ {n}
    /\ revoking' = NoNode
    /\ UNCHANGED <<row, hash, registered, lock, pass, fetch, late, histVars>>

\* Mutant: a failed call drops its job.
JobsWithout(n) == pending \ {n}
JobsAfterFailure(n) == pending

\* Refused, unreachable, or applied with the answer lost: the job is kept.
RevocationFails(n) ==
    /\ revoking = n
    /\ \/ UNCHANGED acct
       \/ Applies(n, "absent")
    /\ pending' = JobsAfterFailure(n)
    /\ revoking' = NoNode
    /\ UNCHANGED <<row, hash, registered, lock, pass, fetch, late, histVars>>

\* The panel stops and starts.  Calls under way may still reach their nodes.
PanelRestart ==
    /\ lock' = NoPass
    /\ pass' = [p \in Passes |-> IdlePass]
    /\ fetch' = [n \in Nodes |-> IdleFetch]
    /\ revoking' = NoNode
    /\ late' = late
         \cup {c \in Nodes \X Policies :
                 \/ \E p \in Passes : Awaits(p, c[1]) /\ pass[p].want = c[2]
                 \/ fetch[c[1]].pc = "pushing" /\ fetch[c[1]].want = c[2]}
    /\ doubt' = doubt \cup UNION {pass[p].ok : p \in Passes}
    /\ UNCHANGED <<dbVars, acct, strays>>

-----------------------------------------------------------------------------
PassStep ==
    \E p \in Passes :
       \/ \E force \in BOOLEAN : BeginPass(p, force)
       \/ \E n \in Nodes : PushAnswered(p, n) \/ PushFails(p, n) \/ PushExpires(p, n)
       \/ Merge(p)

LateStep == \E n \in Nodes, policy \in Policies :
               LateLands(n, policy) \/ LateDies(n, policy)

FetchStep == \E n \in Nodes : BeginFetch(n) \/ FetchPush(n)

RevocationStep == \E n \in Nodes :
    \/ BeginRevocation(n) \/ RevocationDropped(n)
    \/ RevocationAnswered(n) \/ RevocationFails(n)

\* What people and failures do.
Disturbance ==
    \/ ChangePolicy \/ DeleteUser \/ PanelRestart
    \/ \E n \in Removable : DeleteNode(n) \/ RestoreNode(n) \/ RebuildNode(n)

Next == PassStep \/ LateStep \/ FetchStep \/ RevocationStep \/ Disturbance

Spec == Init /\ [][Next]_vars

(***************************************************************************)
(* Fairness.  The worker forces a full pass every ten minutes and retries  *)
(* revocations on every tick; waiting ends at a deadline; a call on the    *)
(* network lands or dies; a node that is asked again and again answers in  *)
(* time once.  Disturbances stop.                                          *)
(***************************************************************************)
FairSpec ==
    /\ Spec
    /\ WF_vars(\E p \in Passes : BeginPass(p, TRUE))
    /\ \A p \in Passes : WF_vars(Merge(p))
    /\ \A p \in Passes, n \in Nodes :
          /\ WF_vars(PushFails(p, n) \/ PushExpires(p, n))
          /\ SF_vars(PushAnswered(p, n))
    /\ \A n \in Nodes, policy \in Policies :
          WF_vars(LateLands(n, policy) \/ LateDies(n, policy))
    /\ \A n \in Nodes :
          /\ WF_vars(FetchPush(n))
          /\ SF_vars(BeginRevocation(n) \/ RevocationDropped(n))
          /\ WF_vars(RevocationFails(n))
          /\ SF_vars(RevocationAnswered(n))
    /\ <>[][PassStep \/ LateStep \/ FetchStep \/ RevocationStep]_vars

-----------------------------------------------------------------------------
(* Properties.                                                             *)

\* A recorded hash tells the truth: but for the nodes in doubt - a late call or
\* a download landed, an answer or a merge was lost, the node was rebuilt - what
\* push_hash says is what the node has, so the pass that skips on it
\* (user_policy.go:169) skips rightly.
HashTrusted ==
    \A n \in registered \ doubt :
       (hash[n] # "none" /\ \A p \in Passes : n \notin pass[p].ok)
       => acct[n] = hash[n]

\* A deleted user's account is owed a revocation until a node acknowledged it:
\* failed calls, restarts and deletions in any order never drop the job of a
\* registered node that still has the account (revocations.go:78-92).  Excepted
\* are the strays; that a node which could not be loaded becomes one, although
\* it is registered, is what revocations.go:71-76 does.
RevocationOwed ==
    row = "absent" =>
       \A n \in registered \ strays : acct[n] # "absent" => n \in pending

\* Whatever calls were lost, overtaken or forgotten, every active node ends up
\* with the policy the panel wants: the forced pass of the worker
\* (traffic_worker.go:83-90) repairs what the hashes hide.
PolicyConverges ==
    <>[](row # "absent" => \A n \in registered : acct[n] = row)

\* A deleted user ends up on no registered node it is owed a revocation for:
\* on none but the strays, whose jobs are gone.
DeletionConverges ==
    <>[](row = "absent" => \A n \in registered \ strays : acct[n] = "absent")

=============================================================================
