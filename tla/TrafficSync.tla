---------------------------- MODULE TrafficSync ----------------------------
(***************************************************************************)
(* The traffic accounting pass of the panel (internal/node/traffic.go and  *)
(* internal/billing/ledger.go) for one users row, together with every      *)
(* other writer of the two columns it owns, used and node_usage: the usage *)
(* reset, the policy reconciler's push-hash merge and the node delete.     *)
(*                                                                         *)
(* Rows of different users are written by separate guarded statements, so  *)
(* one row carries every interleaving.  The nodes are external: they are   *)
(* modelled by the cumulative counters the pass reads from them.  Variables*)
(* under "history" exist only to state properties.                         *)
(***************************************************************************)
EXTENDS Integers, FiniteSets

CONSTANTS
    Nodes,      \* the VPN nodes that ever were in the nodes table
    Passes,     \* the callers of SyncTraffic: the worker tick, the manual sync
    NoPass,     \* trafficSyncLock is free
    Hashes,     \* contents of node_usage.push_hash, opaque to this component
    Removable,  \* bound: the nodes an administrator ever deletes
    HistoryErrors, \* whether the daily history statement may fail
    MaxBytes,   \* bound: bytes a node ever carries for the user
    MaxRuns,    \* bound: lives of a node's counter (1 + number of resets)
    MaxTries    \* attempts of the guarded write (3 in the code)

ASSUME ConstantsAssumption ==
    /\ NoPass \notin Passes
    /\ Hashes # {}
    /\ Removable \subseteq Nodes
    /\ HistoryErrors \in BOOLEAN
    /\ MaxBytes \in Nat
    /\ MaxRuns \in Nat \ {0}
    /\ MaxTries \in Nat \ {0}

VARIABLES
    \* the nodes
    sent,       \* bytes the node has carried for the user since ever
    start,      \* the value of sent at which the node's counter last began at 0
    run,        \* which life of the counter this is: the epoch a node reports
    aware,      \* whether the node reports epochs (older releases do not)
    \* the panel's database
    active,     \* nodes in the nodes table
    row,        \* [used, usage]: the users row, usage being node_usage
    daily,      \* sum of the user's user_traffic_daily rows
    \* the panel's memory
    lock,       \* who holds trafficSyncLock
    pass,       \* the SyncTraffic call of each caller
    cleanup,    \* deleted nodes whose entries are still to be removed
    \* history
    charged,    \* bytes ever charged, by node they came from
    lifetime,   \* bytes ever charged
    since,      \* bytes charged since used was last reset
    mark        \* sent at the last reset, while its marker is in the row

nodeVars  == <<sent, start, run, aware>>
histVars  == <<charged, lifetime, since, mark>>
vars == <<nodeVars, active, row, daily, lock, pass, cleanup, histVars>>

NoBaseline == -1    \* node_usage has no entry for the node
NoEpoch    == 0     \* __epochs has no entry for the node, or it reports none

(***************************************************************************)
(* node_usage: one baseline per node, and the reserved keys __epochs,      *)
(* __reseed and push_hash.                                                 *)
(***************************************************************************)
Usage == [base : [Nodes -> Nat \cup {NoBaseline}],
          epoch : [Nodes -> 0 .. MaxRuns],
          reseed : BOOLEAN,
          push : Hashes]

Row == [used : Nat, usage : Usage]

\* What a node answered: its counter and its epoch.  carried is history, the
\* position in sent that the counter stood for.
Answer == [total : Nat, epoch : 0 .. MaxRuns, carried : Nat]

Pass == [pc : {"idle", "polling", "charging", "missed"},
         nodes : SUBSET Nodes,           \* the active nodes it loaded
         got : SUBSET Nodes,             \* those that answered usably
         poll : [Nodes -> Answer],
         read : Row,                     \* the row its write is guarded by
         work : Usage,                   \* the node_usage it will store
         todo : SUBSET Nodes,            \* contributions not yet applied
         due : [Nodes -> Nat],           \* charge by node
         delta : Nat,                    \* charge
         tries : Nat]

NoAnswer == [total |-> 0, epoch |-> NoEpoch, carried |-> 0]
EmptyUsage(h) == [base |-> [n \in Nodes |-> NoBaseline],
                  epoch |-> [n \in Nodes |-> NoEpoch],
                  reseed |-> FALSE, push |-> h]
AnyHash == CHOOSE h \in Hashes : TRUE
EmptyRow == [used |-> 0, usage |-> EmptyUsage(AnyHash)]
IdlePass == [pc |-> "idle", nodes |-> {}, got |-> {},
             poll |-> [n \in Nodes |-> NoAnswer],
             read |-> EmptyRow, work |-> EmptyRow.usage, todo |-> {},
             due |-> [n \in Nodes |-> 0], delta |-> 0, tries |-> 0]

Counter(n) == sent[n] - start[n]
ReportedEpoch(n) == IF aware[n] THEN run[n] ELSE NoEpoch

TypeOK ==
    /\ sent \in [Nodes -> Nat]
    /\ start \in [Nodes -> Nat]
    /\ \A n \in Nodes : start[n] <= sent[n]
    /\ run \in [Nodes -> 1 .. MaxRuns]
    /\ aware \in [Nodes -> BOOLEAN]
    /\ active \subseteq Nodes
    /\ row \in Row
    /\ daily \in Nat
    /\ lock \in Passes \cup {NoPass}
    /\ pass \in [Passes -> Pass]
    /\ cleanup \subseteq Nodes
    /\ charged \in [Nodes -> Nat]
    /\ lifetime \in Nat
    /\ since \in Nat
    /\ mark \in [Nodes -> Nat]

Init ==
    /\ sent = [n \in Nodes |-> 0]
    /\ start = [n \in Nodes |-> 0]
    /\ run = [n \in Nodes |-> 1]
    /\ aware \in [Nodes -> BOOLEAN]
    /\ active = Nodes
    /\ row = EmptyRow
    /\ daily = 0
    /\ lock = NoPass
    /\ pass = [p \in Passes |-> IdlePass]
    /\ cleanup = {}
    /\ charged = [n \in Nodes |-> 0]
    /\ lifetime = 0
    /\ since = 0
    /\ mark = [n \in Nodes |-> 0]

-----------------------------------------------------------------------------
(* The nodes.                                                              *)

\* The user moves a byte through node n.
Move(n) ==
    /\ sent[n] < MaxBytes
    /\ sent' = [sent EXCEPT ![n] = @ + 1]
    /\ UNCHANGED <<start, run, aware, active, row, daily, lock, pass, cleanup, histVars>>

\* The node is rebuilt or loses its counters: they begin again at 0.
CounterReset(n) ==
    /\ run[n] < MaxRuns
    /\ run' = [run EXCEPT ![n] = @ + 1]
    /\ start' = [start EXCEPT ![n] = sent[n]]
    /\ UNCHANGED <<sent, aware, active, row, daily, lock, pass, cleanup, histVars>>

\* The node is upgraded to a release that reports epochs.
ReportEpochs(n) ==
    /\ ~aware[n]
    /\ aware' = [aware EXCEPT ![n] = TRUE]
    /\ UNCHANGED <<sent, start, run, active, row, daily, lock, pass, cleanup, histVars>>

-----------------------------------------------------------------------------
(* The accounting pass.                                                    *)

Become(p, rec) == pass' = [pass EXCEPT ![p] = rec]

\* Mutant: a return that leaves trafficSyncLock held.
ReturnLocked(p) == Become(p, IdlePass) /\ UNCHANGED lock

\* SyncTraffic returns: the deferred unlock.
Return(p) == /\ Become(p, IdlePass)
             /\ lock' = NoPass

\* Mutant: the mutex is given back once the answers are gathered.
NarrowLock == \A p \in Passes : pass[p].pc # "polling"
LockFree == lock = NoPass

\* The lock is taken before the nodes and the rows are loaded, and held until
\* the pass returns.
StartPass(p) ==
    /\ LockFree
    /\ pass[p].pc = "idle"
    /\ lock' = p
    /\ Become(p, [IdlePass EXCEPT !.pc = "polling", !.nodes = active,
                                  !.read = row])
    /\ UNCHANGED <<nodeVars, active, row, daily, cleanup, histVars>>

\* One node's GetUsage answers before the fan-out deadline.  An error, a
\* malformed or null totals, a negative total and an ambiguous key leave the
\* node out of the contributions: the node is then never in got.
NodeAnswers(p, n) ==
    /\ pass[p].pc = "polling"
    /\ n \in pass[p].nodes \ pass[p].got
    /\ Become(p, [pass[p] EXCEPT
                    !.got = @ \cup {n},
                    !.poll[n] = [total |-> Counter(n),
                                 epoch |-> ReportedEpoch(n),
                                 carried |-> sent[n]]])
    /\ UNCHANGED <<nodeVars, active, row, daily, lock, cleanup, histVars>>

\* The node_usage an attempt begins from: the reseed marker drops every
\* baseline, and the epochs of the nodes that are not in this pass.
Reseeded(usage, contributing) ==
    IF usage.reseed
    THEN [usage EXCEPT !.base = [n \in Nodes |-> NoBaseline],
                       !.epoch = [n \in Nodes |-> IF n \in contributing
                                                  THEN usage.epoch[n]
                                                  ELSE NoEpoch],
                       !.reseed = FALSE]
    ELSE usage

\* An attempt of applyTrafficUser starts on the row r.
Attempt(p, r) ==
    Become(p, [pass[p] EXCEPT !.pc = "charging",
                              !.read = r,
                              !.work = Reseeded(r.usage, pass[p].got),
                              !.todo = pass[p].got,
                              !.due = [n \in Nodes |-> 0],
                              !.delta = 0,
                              !.tries = @ + 1])

\* GatherNodes returns, at the last answer or at the deadline.  The first
\* attempt uses the row loaded before the nodes were asked.
Gather(p) ==
    /\ pass[p].pc = "polling"
    /\ IF pass[p].got = {} THEN Return(p)
                           ELSE Attempt(p, pass[p].read) /\ UNCHANGED lock
    /\ UNCHANGED <<nodeVars, active, row, daily, cleanup, histVars>>

\* Mutant: the plain difference.
RawDelta(current, previous, explicitReset) == current - previous
\* Mutant: a shrinking total lowers the baseline.
LoweredBaseline(current, previous, explicitReset) == current

\* ComputeTotalDelta: what to bill for a counter, and the baseline to keep.  An
\* unexplained decrease bills nothing and holds the baseline.
TotalDelta(current, previous, explicitReset) ==
    IF explicitReset \/ current < previous THEN 0 ELSE current - previous
HeldBaseline(current, previous, explicitReset) ==
    IF ~explicitReset /\ current < previous THEN previous ELSE current

\* Mutant: an absent baseline counts as 0, so that seeding bills.
BillFromZero(q, prev, fresh) ==
    TotalDelta(q.total, IF prev = NoBaseline THEN 0 ELSE prev, fresh)

\* What one answer bills, and the baseline it leaves: an absent one is seeded.
Bill(q, prev, fresh) ==
    IF prev = NoBaseline THEN 0 ELSE TotalDelta(q.total, prev, fresh)
Baseline(q, prev, fresh) ==
    IF prev = NoBaseline THEN q.total ELSE HeldBaseline(q.total, prev, fresh)

\* One iteration of the loop over the contributions.  A node that names another
\* epoch than the stored one has begun a new counter; the first epoch it names
\* is adopted without a reset.
ChargeNode(p, n) ==
    LET q      == pass[p].poll[n]
        prev   == pass[p].work.base[n]
        stored == pass[p].work.epoch[n]
        fresh  == q.epoch # NoEpoch /\ stored # NoEpoch /\ q.epoch # stored
    IN  /\ pass[p].pc = "charging"
        /\ n \in pass[p].todo
        /\ Become(p, [pass[p] EXCEPT
                        !.todo = @ \ {n},
                        !.due[n] = Bill(q, prev, fresh),
                        !.delta = @ + Bill(q, prev, fresh),
                        !.work.base[n] = Baseline(q, prev, fresh),
                        !.work.epoch[n] = IF q.epoch = NoEpoch THEN stored
                                                               ELSE q.epoch])
        /\ UNCHANGED <<nodeVars, active, row, daily, lock, cleanup, histVars>>

Charged(p) == pass[p].pc = "charging" /\ pass[p].todo = {}

\* Nothing was seeded, billed or adopted: no statement is sent.
NothingToStore(p) ==
    /\ Charged(p)
    /\ pass[p].work = pass[p].read.usage
    /\ Return(p)
    /\ UNCHANGED <<nodeVars, active, row, daily, cleanup, histVars>>

\* Mutant: an unconditional UPDATE.
RowUnchecked(p) == TRUE

\* The guard of ApplyUserTraffic: both columns still hold what was read.
RowUnmoved(p) == row = pass[p].read

\* ApplyUserTraffic finds the row as it was read: row and daily history are
\* written in one transaction.  The history statement's error is ignored.
Commit(p) ==
    /\ Charged(p)
    /\ pass[p].work # pass[p].read.usage
    /\ RowUnmoved(p)
    /\ row' = [used |-> pass[p].read.used + pass[p].delta,
               usage |-> pass[p].work]
    /\ \/ daily' = daily + pass[p].delta
       \/ HistoryErrors /\ daily' = daily
    /\ charged' = [n \in Nodes |-> charged[n] + pass[p].due[n]]
    /\ lifetime' = lifetime + pass[p].delta
    /\ since' = since + pass[p].delta
    /\ mark' = IF pass[p].read.usage.reseed THEN [n \in Nodes |-> 0] ELSE mark
    /\ Return(p)
    /\ UNCHANGED <<nodeVars, active, cleanup>>

\* An attempt that wrote nothing: the next one, or, after the last, the user is
\* left for the next pass.
Missed(p) ==
    IF pass[p].tries < MaxTries
    THEN Become(p, [pass[p] EXCEPT !.pc = "missed"]) /\ UNCHANGED lock
    ELSE Return(p)

\* The row moved: ApplyUserTraffic returns before the history statement.
Miss(p) ==
    /\ Charged(p)
    /\ pass[p].work # pass[p].read.usage
    /\ ~RowUnmoved(p)
    /\ Missed(p)
    /\ UNCHANGED <<nodeVars, active, row, daily, cleanup, histVars>>

\* A later attempt re-reads the row but keeps the answers of the nodes.
Reread(p) ==
    /\ pass[p].pc = "missed"
    /\ Attempt(p, row)
    /\ UNCHANGED <<nodeVars, active, row, daily, lock, cleanup, histVars>>

\* Mutant: the history statement does not run in the transaction.
KeptHistory(p) == daily + pass[p].delta
\* A COMMIT that fails takes the history row back with the usage.
RolledBackHistory(p) == daily

\* The UPDATE fails and counts as a miss; or Begin, the re-read or Commit fails
\* and the user is left for the next pass.
DatabaseError(p) ==
    /\ \/ Charged(p) /\ pass[p].work # pass[p].read.usage /\ Missed(p)
       \/ (Charged(p) \/ pass[p].pc = "missed") /\ Return(p)
    /\ daily' = RolledBackHistory(p)
    /\ UNCHANGED <<nodeVars, active, row, cleanup, histVars>>

-----------------------------------------------------------------------------
(* The other writers of the row.                                           *)

\* resetUsage and usageResetAll: a read, then a write guarded by both columns,
\* retried on a miss.  The guard makes the read and the write one step; a try
\* that misses, and the refusal after the third, change nothing.
ResetUsage ==
    /\ row' = [used |-> 0, usage |-> [row.usage EXCEPT !.reseed = TRUE]]
    /\ since' = 0
    /\ mark' = sent
    /\ UNCHANGED <<nodeVars, active, daily, lock, pass, cleanup,
                   charged, lifetime>>

\* reconcilePolicyUsers merges the hashes it pushed: a read, then one write
\* guarded by node_usage, so again one step; a miss is dropped.
MergePushHashes ==
    /\ \E h \in Hashes : row' = [row EXCEPT !.usage.push = h]
    /\ UNCHANGED <<nodeVars, active, daily, lock, pass, cleanup, histVars>>

\* DeleteNodeHandler: the nodes row goes first, the entries it left in
\* node_usage in statements of their own.  __epochs keeps its entry.
DeleteNode(n) ==
    /\ n \in active
    /\ active' = active \ {n}
    /\ cleanup' = cleanup \cup {n}
    /\ UNCHANGED <<nodeVars, row, daily, lock, pass, histVars>>

RemoveBaseline(n) ==
    /\ n \in cleanup
    /\ cleanup' = cleanup \ {n}
    /\ \E h \in Hashes :
          row' = [row EXCEPT !.usage.base[n] = NoBaseline, !.usage.push = h]
    /\ UNCHANGED <<nodeVars, active, daily, lock, pass,
                   histVars>>

\* RestoreNodeHandler: the same id comes back, its baselines do not.
RestoreNode(n) ==
    /\ n \notin active
    /\ active' = active \cup {n}
    /\ UNCHANGED <<nodeVars, row, daily, lock, pass, cleanup, histVars>>

\* The panel stops and starts: what was in memory is gone.
PanelRestart ==
    /\ lock' = NoPass
    /\ pass' = [p \in Passes |-> IdlePass]
    /\ cleanup' = {}
    /\ UNCHANGED <<nodeVars, active, row, daily, histVars>>

-----------------------------------------------------------------------------
NodeStep == \E n \in Nodes : Move(n) \/ CounterReset(n) \/ ReportEpochs(n)

PassStep(p) ==
    \/ StartPass(p)
    \/ \E n \in Nodes : NodeAnswers(p, n) \/ ChargeNode(p, n)
    \/ Gather(p)
    \/ NothingToStore(p)
    \/ Commit(p)
    \/ Miss(p)
    \/ Reread(p)
    \/ DatabaseError(p)

WriterStep ==
    \/ ResetUsage
    \/ MergePushHashes
    \/ \E n \in Removable : DeleteNode(n) \/ RemoveBaseline(n) \/ RestoreNode(n)

Next == NodeStep \/ (\E p \in Passes : PassStep(p)) \/ WriterStep \/ PanelRestart

Spec == Init /\ [][Next]_vars

(***************************************************************************)
(* Fairness.  The worker's ticker starts a pass over and over and a pass   *)
(* never blocks: GatherNodes returns at its deadline and the rest is local *)
(* or a statement.  A node that is asked again and again answers in time   *)
(* once.  The people and the failures that disturb a pass may do so        *)
(* arbitrarily often, but stop in the end.                                 *)
(***************************************************************************)
PassProgress(p) ==
    \/ Gather(p) \/ NothingToStore(p) \/ Commit(p) \/ Miss(p) \/ Reread(p)
    \/ \E n \in Nodes : ChargeNode(p, n)

\* Neither a writer nor a failure: a pass at work, or traffic.
Undisturbed ==
    \/ NodeStep
    \/ \E p \in Passes : \/ StartPass(p) \/ PassProgress(p)
                         \/ \E n \in Nodes : NodeAnswers(p, n)

FairSpec ==
    /\ Spec
    /\ WF_vars(\E p \in Passes : StartPass(p))
    /\ \A p \in Passes : WF_vars(PassProgress(p))
    /\ \A p \in Passes, n \in Nodes : SF_vars(NodeAnswers(p, n))
    /\ <>[][Undisturbed]_vars

-----------------------------------------------------------------------------
(* Properties.                                                             *)

\* No byte is billed twice: what node n was ever charged for never exceeds
\* what it carried, whatever resets, retries, restarts and node removals
\* happen.  The comment above trafficSyncLock (traffic.go:50-52) names the
\* hazard: an older snapshot applied after a newer one bills bytes again.
NoOvercharge == \A n \in Nodes : charged[n] <= sent[n]

\* users.used is exactly what was charged since the last reset: no charge is
\* lost to, or resurrected by, a writer that worked from a stale row.
UsedMatchesCharges == row.used = since

\* The daily history never holds bytes that were not charged: an attempt that
\* missed or could not be committed leaves nothing in user_traffic_daily.  It
\* may hold fewer only where its own statement failed (ledger.go:344-346).
HistoryWithinCharges ==
    /\ daily <= lifetime
    /\ ~HistoryErrors => daily = lifetime

\* A baseline never moves back unless the node's epoch moved or the row was
\* reset: a shrinking total holds the baseline (ledger.go:316-328), and no
\* stale writer puts an older one back.
BaselineHolds ==
    [][\A n \in Nodes :
          LET b == row.usage.base[n]
              c == row'.usage.base[n]
          IN  (b # NoBaseline /\ c # NoBaseline /\ c < b)
              => \/ row.usage.reseed
                 \/ row'.usage.epoch[n] # row.usage.epoch[n]]_row

\* A usage reset forgives everything carried before it: the pass that consumes
\* the marker seeds baselines that cover the traffic up to the reset
\* (traffic.go:226-228, "rather than billing its pre-reset traffic").
ResetForgives ==
    [][row.usage.reseed /\ ~row'.usage.reseed
       => \A n \in Nodes :
             row'.usage.base[n] # NoBaseline
             => start[n] + row'.usage.base[n] >= mark[n]]_row

\* Whatever went wrong on the way, the ledger catches up: in the end no active
\* node's counter stands above its baseline, so nothing countable stays
\* unbilled.  (A baseline above the counter is a held one.)
CatchesUp ==
    <>[](\A n \in active : row.usage.base[n] >= Counter(n))

-----------------------------------------------------------------------------
(***************************************************************************)
(* Why NoOvercharge holds.  A charge is safe because the row never claims  *)
(* less than what was charged (Supported), because an answer a pass holds  *)
(* is at least as new as every charge (AnswerSound) - nobody else charges  *)
(* while it holds the lock - and because what it is about to store follows *)
(* from the row it read and its answers (Accounted).                       *)
(***************************************************************************)
LockHeld == \A p \in Passes : pass[p].pc # "idle" => lock = p

Supported(n) ==
    /\ charged[n] <= sent[n]
    /\ row.usage.base[n] # NoBaseline
       => charged[n] <= start[n] + row.usage.base[n]

AnswerSound(p, n) ==
    LET q == pass[p].poll[n]
        b == row.usage.base[n]
    IN  /\ charged[n] <= q.carried
        /\ q.carried <= sent[n]
        /\ q.carried <= start[n] + q.total
        /\ (b # NoBaseline /\ b <= q.total)
           => charged[n] + (q.total - b) <= q.carried

Accounted(p, n) ==
    LET q == pass[p].poll[n]
        b == pass[p].read.usage.base[n]
        w == pass[p].work.base[n]
        d == pass[p].due[n]
    IN  \/ /\ d = 0
           /\ w \in {b, NoBaseline}
        \/ /\ d = 0
           /\ n \in pass[p].got
           /\ w = q.total
        \/ /\ n \in pass[p].got
           /\ b # NoBaseline
           /\ b <= q.total
           /\ d = q.total - b
           /\ w = q.total

\* A node still to be charged has its baseline as the attempt found it.
Untouched(p, n) ==
    /\ n \in pass[p].got
    /\ pass[p].due[n] = 0
    /\ pass[p].work.base[n] \in {pass[p].read.usage.base[n], NoBaseline}

LedgerInv ==
    /\ LockHeld
    /\ \A n \in Nodes : Supported(n)
    /\ \A p \in Passes : pass[p].pc # "idle" =>
          \A n \in pass[p].got : AnswerSound(p, n)
    /\ \A p \in Passes : pass[p].pc = "charging" =>
          /\ \A n \in Nodes : Accounted(p, n)
          /\ \A n \in pass[p].todo : Untouched(p, n)

-----------------------------------------------------------------------------
(***************************************************************************)
(* Why BaselineHolds holds.  What an attempt stores for a node is no lower *)
(* than what it read, unless the row was reset or the node's epoch moved   *)
(* (HeldBack); a node it has yet to charge is as it was read (AsRead).     *)
(***************************************************************************)
HeldBack(p, n) ==
    LET r == pass[p].read.usage
        w == pass[p].work
    IN  \/ r.reseed
        \/ r.base[n] = NoBaseline
        \/ w.epoch[n] # r.epoch[n]
        \/ r.base[n] <= w.base[n]

AsRead(p, n) ==
    \/ pass[p].read.usage.reseed
    \/ /\ pass[p].work.base[n] = pass[p].read.usage.base[n]
       /\ pass[p].work.epoch[n] = pass[p].read.usage.epoch[n]

HeldInv ==
    \A p \in Passes : pass[p].pc = "charging" =>
       /\ \A n \in Nodes : HeldBack(p, n)
       /\ \A n \in pass[p].todo : AsRead(p, n)
=============================================================================
