---------------------------- MODULE AlertDelivery ----------------------------
(***************************************************************************)
(* From a condition to the owner's Telegram (internal/telemetry: alerts.go *)
(* and CollectMetrics in handler.go).  A pass probes the nodes, tells the  *)
(* owner of one that went down or came back, records an event when the     *)
(* threshold condition changed, promotes the events not yet delivered, and *)
(* prunes.  The live worker's pass and one the owner asks for may run side *)
(* by side: the maps of the node alerts have a mutex, which is not held    *)
(* while a message is sent, and the promotion has none.                    *)
(*                                                                         *)
(* One node and one kind of threshold stand for all of them, and of a      *)
(* behaviour one of the two changes (topic): they share the bot and the    *)
(* order of a pass, and nothing else.                                      *)
(***************************************************************************)
EXTENDS Naturals, Sequences, FiniteSetsExt

CONSTANTS
    Worker,       \* the pass of the live worker
    Collectors,   \* it, and the passes POST /metrics/collect starts
    Conditions,   \* signatures of a group of threshold items
    Clear,        \* the signature of no item
    AlertBatch,   \* LIMIT of promoteEvents
    MaxEvents,    \* bound: the audit rows of the kind
    MaxAsked,     \* bound: passes the owner asks for
    MaxRestarts   \* bound: restarts of the panel

ASSUME AlertAssumption ==
    /\ Worker \in Collectors /\ Clear \notin Conditions
    /\ AlertBatch \in Nat \ {0} /\ MaxEvents \in Nat
    /\ MaxAsked \in Nat /\ MaxRestarts \in Nat

VARIABLES
    \* the world
    topic,       \* bound: what changes in this behaviour
    condition,   \* the signature of the threshold items now
    node,        \* whether the node answers
    bot,         \* whether a message sent is answered with ok
    \* the database
    events,      \* the audit_logs rows of the kind, in the order of their ids
    delivered,   \* the keys in delivered
    \* the panel's memory
    known,       \* nodeState
    alerted,     \* alertedDownSet
    cooling,     \* lastDownAlert is less than the cooldown ago
    pass,        \* the passes under way
    \* history
    received,    \* the events whose message reached the owner
    told,        \* what the last message that arrived said of the node
    asked,       \* passes the owner asked for
    restarts

alertWorld == <<topic, condition, node, bot>>
alertDb == <<events, delivered>>
alertMem == <<known, alerted, cooling>>
alertSeen == <<received, told>>
alertVars == <<alertWorld, alertDb, alertMem, pass, alertSeen, asked, restarts>>

\* An event with a condition has a key of its own: its place in the table.
AuditRow == [signature : Conditions \cup {Clear}, promoted : BOOLEAN, kept : BOOLEAN]
EventIds == 1 .. MaxEvents

PassState ==
    [pc : {"idle", "nodes", "send", "items", "record", "query", "promote", "deliver",
           "stamp", "prune"},
     row : {"up", "down", "none"},       \* the node's row of the snapshot
     tells : {"up", "down"},             \* what the message says of the node
     item : Conditions \cup {Clear},     \* thresholdItems
     todo : SUBSET EventIds,             \* what is left of the batch read
     full : BOOLEAN,                     \* the batch reached its limit
     after : 0 .. MaxEvents]             \* lastID

AlertTypeOK ==
    /\ topic \in {"node", "threshold"} /\ condition \in Conditions \cup {Clear}
    /\ node \in {"answers", "refuses", "silent"}
    /\ bot \in {"works", "fails"}
    /\ events \in Seq(AuditRow) /\ Len(events) <= MaxEvents
    /\ delivered \subseteq EventIds
    /\ known \in {"up", "down", "none"} /\ alerted \in BOOLEAN /\ cooling \in BOOLEAN
    /\ pass \in [Collectors -> PassState]
    /\ received \subseteq EventIds /\ told \in {"none", "up", "down"}
    /\ asked \in 0 .. MaxAsked /\ restarts \in 0 .. MaxRestarts

NoPass == [pc |-> "idle", row |-> "none", tells |-> "up", item |-> Clear, todo |-> {},
           full |-> FALSE, after |-> 0]

AlertInit ==
    /\ topic \in {"node", "threshold"}
    /\ condition = Clear /\ node = "answers" /\ bot \in {"works", "fails"}
    /\ events = <<>> /\ delivered = {}
    /\ known = "none" /\ alerted = FALSE /\ cooling = FALSE
    /\ pass = [c \in Collectors |-> NoPass]
    /\ received = {} /\ told = "none" /\ asked = 0 /\ restarts = 0

Enrolled(e) == e \in DOMAIN events /\ events[e].signature # Clear
Room == Len(events) < MaxEvents

Passes(c, pc) == pass' = [pass EXCEPT ![c].pc = pc]

-----------------------------------------------------------------------------
(* CollectMetrics and the node alerts.                                     *)

\* A node that refuses gives a row that says so.  One that keeps silent uses up
\* the fan-out deadline and gives none.
ProbeRow == CASE node = "answers" -> "up" [] node = "refuses" -> "down"
             [] node = "silent" -> "none"

Collect(c) ==
    /\ pass[c].pc = "idle"
    /\ pass' = [pass EXCEPT ![c] = [NoPass EXCEPT !.pc = "nodes", !.row = ProbeRow]]
    /\ c # Worker => asked < MaxAsked
    /\ asked' = IF c = Worker THEN asked ELSE asked + 1
    /\ UNCHANGED <<alertWorld, alertDb, alertMem, alertSeen, restarts>>

\* Under the mutex: the state is taken down, and what to tell is decided from
\* the maps as they are now; the set loses a node that is back in a second
\* section, which is one step with the first (two passes that overlap may both
\* tell of it).  node.up and node.down rows carry no key and are left out.
NodeChecked(c) ==
    LET row == pass[c].row
        tells == /\ known # "none"
                 /\ \/ row = "down" /\ ~alerted /\ ~cooling
                    \/ row = "up" /\ alerted IN
    /\ pass[c].pc = "nodes"
    /\ IF row = "none" THEN UNCHANGED <<known, alerted>>
       ELSE known' = row /\ alerted' = (alerted /\ ~(row = "up" /\ known # "none"))
    /\ pass' = [pass EXCEPT ![c].row = "none",
                            ![c].tells = IF tells THEN row ELSE pass[c].tells,
                            ![c].pc = IF tells THEN "send" ELSE "items"]
    /\ UNCHANGED <<alertWorld, alertDb, cooling, alertSeen, asked, restarts>>

\* sendTelegram: ok, or a message that is lost, or one whose answer is.
Heard(ok) == IF ok THEN bot = "works" ELSE bot = "fails"

\* A message that was refused is not repeated when the node came back, and is by
\* the next pass while it is down.
NodeSent(c) ==
    /\ pass[c].pc = "send"
    /\ \E ok, arrives \in BOOLEAN :
          /\ Heard(ok) /\ (ok => arrives)
          /\ LET down == pass[c].tells = "down" IN
             /\ alerted' = (alerted \/ (down /\ ok))
             /\ cooling' = (cooling \/ (down /\ ok))
             /\ told' = IF arrives THEN pass[c].tells ELSE told
    /\ pass' = [pass EXCEPT ![c].pc = "items", ![c].tells = "up"]
    /\ UNCHANGED <<alertWorld, alertDb, known, received, asked, restarts>>

\* A message takes seconds, the cooldown half an hour.
CooldownEnds ==
    /\ cooling /\ \A c \in Collectors : pass[c].pc # "send"
    /\ cooling' = FALSE
    /\ UNCHANGED <<alertWorld, alertDb, known, alerted, pass, alertSeen, asked,
                   restarts>>

-----------------------------------------------------------------------------
(* Threshold alerts.                                                       *)

ItemsRead(c) ==
    /\ pass[c].pc = "items"
    /\ pass' = [pass EXCEPT ![c].pc = "record", ![c].item = condition]
    /\ UNCHANGED <<alertWorld, alertDb, alertMem, alertSeen, asked, restarts>>

\* lastEventMeta: the newest row of the kind there is.
LastSignature ==
    LET kept == {e \in DOMAIN events : events[e].kept} IN
    IF kept = {} THEN Clear ELSE events[Max(kept)].signature

\* Another pass may record the same between this one's reading and its row, and
\* the owner hears of it twice; here the two are one step, as two keys differ.
EventRecorded(c) ==
    /\ pass[c].pc = "record"
    /\ events' = IF pass[c].item # LastSignature /\ Room
                 THEN Append(events, [signature |-> pass[c].item, promoted |-> FALSE,
                                      kept |-> TRUE])
                 ELSE events
    /\ pass' = [pass EXCEPT ![c].pc = "query", ![c].item = Clear]
    /\ UNCHANGED <<alertWorld, delivered, alertMem, alertSeen, asked, restarts>>

-----------------------------------------------------------------------------
(* promoteEvents.                                                          *)

Pending(after) ==
    {e \in DOMAIN events : /\ events[e].kept /\ ~events[e].promoted /\ Enrolled(e)
                          /\ e > after /\ e \notin delivered}

\* The lowest ids up to the limit.
Batch(after) ==
    {e \in Pending(after) :
        Cardinality({d \in Pending(after) : d <= e}) <= AlertBatch}

\* Mutant: the scan goes on where the last pass ended.
FromTheLast(c) == Len(events)

\* lastID starts at 0 in every pass: what failed is tried again.
ScanFrom(c) == pass[c].after

Queried(c) ==
    LET batch == Batch(ScanFrom(c)) IN
    /\ pass[c].pc = "query"
    /\ pass' = [pass EXCEPT
          ![c].pc = "promote", ![c].todo = batch,
          ![c].full = (Cardinality(batch) = AlertBatch),
          ![c].after = IF batch = {} THEN pass[c].after ELSE Max(batch)]
    /\ UNCHANGED <<alertWorld, alertDb, alertMem, alertSeen, asked, restarts>>

\* A full batch is followed by another.
BatchDone(c) ==
    /\ pass[c].pc = "promote" /\ pass[c].todo = {}
    /\ IF pass[c].full THEN Passes(c, "query")
       ELSE pass' = [pass EXCEPT ![c] = [NoPass EXCEPT !.pc = "prune"]]
    /\ UNCHANGED <<alertWorld, alertDb, alertMem, alertSeen, asked, restarts>>

\* The rows are sent in the order of their ids.
Foremost(c) == Min(pass[c].todo)
Rest(c) == pass[c].todo \ {Foremost(c)}

\* Mutant: what was sent is put on record whether or not it arrived.
DeliveredAnyway(ok) == TRUE

\* A message that was refused stays pending.
CountsAsSent(ok) == ok

EventSent(c) ==
    /\ pass[c].pc = "promote" /\ pass[c].todo # {}
    /\ \E ok, arrives \in BOOLEAN :
          /\ Heard(ok) /\ (ok => arrives)
          /\ received' = IF arrives THEN received \cup {Foremost(c)} ELSE received
          /\ pass' = IF CountsAsSent(ok) THEN [pass EXCEPT ![c].pc = "deliver"]
                     ELSE [pass EXCEPT ![c].todo = Rest(c)]
    /\ UNCHANGED <<alertWorld, alertDb, alertMem, told, asked, restarts>>

\* INSERT OR IGNORE INTO delivered,
EventDelivered(c) ==
    /\ pass[c].pc = "deliver"
    /\ delivered' = delivered \cup {Foremost(c)}
    /\ Passes(c, "stamp")
    /\ UNCHANGED <<alertWorld, events, alertMem, alertSeen, asked, restarts>>

\* and then promoted = 1.
EventStamped(c) ==
    /\ pass[c].pc = "stamp"
    /\ events' = [events EXCEPT ![Foremost(c)].promoted = TRUE]
    /\ pass' = [pass EXCEPT ![c].pc = "promote", ![c].todo = Rest(c)]
    /\ UNCHANGED <<alertWorld, delivered, alertMem, alertSeen, asked, restarts>>

\* Mutant: age alone decides.
OldEnough(e) == TRUE

\* PruneAuditLogs: old rows go that were delivered or have no key.
Prunable(e) == ~Enrolled(e) \/ e \in delivered

Pruned(c) ==
    /\ pass[c].pc = "prune"
    /\ \E old \in 0 .. Len(events) :
          events' = [e \in DOMAIN events |->
             [events[e] EXCEPT !.kept = events[e].kept /\ ~(e <= old /\ Prunable(e))]]
    /\ pass' = [pass EXCEPT ![c] = NoPass]
    /\ UNCHANGED <<alertWorld, delivered, alertMem, alertSeen, asked, restarts>>

-----------------------------------------------------------------------------
(* The world, and restarts.                                                *)

ConditionChanges ==
    /\ topic = "threshold" /\ Room
    /\ condition' \in Conditions \cup {Clear}
    /\ UNCHANGED <<topic, node, bot, alertDb, alertMem, pass, alertSeen, asked, restarts>>

NodeChanges ==
    /\ topic = "node"
    /\ node' \in {"answers", "refuses", "silent"}
    /\ UNCHANGED <<topic, condition, bot, alertDb, alertMem, pass, alertSeen, asked,
                   restarts>>

\* The network, the token, the chat and the switch.
BotChanges ==
    /\ bot' \in {"works", "fails"}
    /\ UNCHANGED <<topic, condition, node, alertDb, alertMem, pass, alertSeen, asked,
                   restarts>>

AlertPanelRestarts ==
    /\ restarts < MaxRestarts /\ restarts' = restarts + 1
    /\ known' = "none" /\ alerted' = FALSE /\ cooling' = FALSE
    /\ pass' = [c \in Collectors |-> NoPass]
    /\ UNCHANGED <<alertWorld, alertDb, alertSeen, asked>>

PassMoves(c) ==
    \/ NodeChecked(c) \/ NodeSent(c) \/ ItemsRead(c) \/ EventRecorded(c) \/ Queried(c)
    \/ BatchDone(c) \/ EventSent(c) \/ EventDelivered(c) \/ EventStamped(c) \/ Pruned(c)

AlertNext ==
    \/ \E c \in Collectors : Collect(c) \/ PassMoves(c)
    \/ CooldownEnds \/ ConditionChanges \/ NodeChanges \/ BotChanges
    \/ AlertPanelRestarts

\* The worker ticks, a pass that began goes on, the cooldown ends.
AlertFairness ==
    /\ WF_alertVars(Collect(Worker))
    /\ \A c \in Collectors : WF_alertVars(PassMoves(c))
    /\ WF_alertVars(CooldownEnds)

AlertSpec == AlertInit /\ [][AlertNext]_alertVars /\ AlertFairness

-----------------------------------------------------------------------------
(* Properties.                                                             *)

\* No enrolled event is pruned, or passed over by later scans, before the owner has
\* received it (alerts.go:48-51: "an undelivered alert is never dropped").
NoEventLost ==
    \A e \in DOMAIN events :
        Enrolled(e) /\ (~events[e].kept \/ events[e].promoted \/ e \in delivered)
            => e \in received

\* Once Telegram goes on working, every enrolled event reaches the owner,
\* whatever failed, asked, restarted or was pruned before (alerts.go:128-160).
EventsReachOwner ==
    <>[](bot = "works") =>
        \A e \in EventIds : [](Enrolled(e) => <>(e \in received))

\* The last the owner hears of a node that goes on refusing is that it is down, if
\* no two passes overlapped (alerts.go:290-322).
OneAtATime == \A c, d \in Collectors : {pass[c].pc, pass[d].pc} \cap {"idle"} = {} => c = d
OutageIsTold ==
    <>[](bot = "works") /\ <>[](node = "refuses") /\ []OneAtATime => <>[](told = "down")

OwnerIsTold == []NoEventLost /\ EventsReachOwner /\ OutageIsTold
=============================================================================
