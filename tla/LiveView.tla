------------------------------ MODULE LiveView ------------------------------
(***************************************************************************)
(* What a browser shows of the nodes (internal/telemetry: stream.go, the   *)
(* collector in handler.go; internal/panel/live_worker.go).  The live      *)
(* worker polls the nodes, keeps one that just stopped answering as online *)
(* for a grace period, replaces the snapshot, and publishes a "nodes"      *)
(* event when it changed.  The event says nothing but that: each browser   *)
(* that holds the stream open fetches again what it shows.  A queue that   *)
(* is full loses its oldest event, in two steps that another publisher and *)
(* the reader come between.                                                *)
(*                                                                         *)
(* A tick is the ticker's interval (PollSeconds), the windows are in       *)
(* ticks.  A poll is over before the next tick and stamps the snapshot     *)
(* when it ends, so that at the k-th tick from there less than k intervals *)
(* have gone by.                                                           *)
(***************************************************************************)
EXTENDS Naturals, Sequences, SequencesExt, FiniteSets

CONSTANTS
    NodeNames,   \* names of nodes, in the order of the alphabet
    Browsers,
    Writers,     \* handlers that publish a change of the users or of the nodes
    QueueCap,    \* the depth of a subscriber's queue (100)
    SnapshotCap, \* SnapshotMaxNodes
    IdleTicks,   \* idlePollSeconds, in ticks (10)
    MaxChanges   \* bound: changes of the registry and of who answers

ASSUME LiveAssumption ==
    /\ NodeNames \subseteq Nat /\ QueueCap \in Nat \ {0} /\ SnapshotCap \in Nat \ {0}
    /\ IdleTicks \in Nat \ {0} /\ MaxChanges \in Nat

VARIABLES
    registered,  \* the nodes with status = 1
    answering,   \* the nodes that answer
    shown,       \* snap.nodes
    grace,       \* graceUntil
    age,         \* ticks since lastPoll
    poll,        \* the collector's pass
    subs,        \* the bus: who is subscribed
    queue,       \* a subscriber's channel
    publishing,  \* Publish calls under way
    fetching,    \* a browser has yet to fetch what it shows
    view,        \* what a browser shows of the nodes
    overflowed,  \* history: an event of the browser's was dropped
    misled,      \* history: a swap of nodes went by it unannounced
    unanswered,      \* history: polls in a row a node gave no answer to, up to 2
    changes

liveView == <<registered, answering, shown, grace, age, poll, subs, queue, publishing,
              fetching, view, overflowed, misled, unanswered, changes>>

Statuses == {"none", "up", "down"}
Topics == {"nodes", "users"}
Collector == "collector"
Publishers == Writers \cup {Collector}
Quiet == [topic |-> "users", to |-> {}, drop |-> {}]
Unseen == [fresh |-> FALSE, nodes |-> [n \in NodeNames |-> "none"]]
Resting == [pc |-> "idle", asked |-> {}, online |-> {}]

LiveTypeOK ==
    /\ registered \subseteq NodeNames /\ answering \subseteq NodeNames
    /\ shown \in [NodeNames -> Statuses]
    /\ grace \in [NodeNames -> {"none", "running", "over"}]
    /\ age \in 0 .. IdleTicks + 1
    /\ poll \in [pc : {"idle", "gathered", "nodes", "users"}, asked : SUBSET NodeNames,
                online : SUBSET NodeNames]
    /\ subs \subseteq Browsers /\ fetching \subseteq Browsers
    /\ queue \in [Browsers -> Seq(Topics)] /\ \A b \in Browsers : Len(queue[b]) <= QueueCap
    /\ view \in [Browsers -> [fresh : BOOLEAN, nodes : [NodeNames -> Statuses]]]
    /\ publishing \in [Publishers ->
          [topic : Topics, to : SUBSET Browsers,
           drop : SUBSET Browsers]]    \* the one whose oldest event was taken out
    /\ overflowed \subseteq Browsers /\ misled \subseteq Browsers
    /\ unanswered \in [NodeNames -> 0 .. 2] /\ changes \in 0 .. MaxChanges

LiveInit ==
    /\ registered \in SUBSET NodeNames /\ answering = registered
    /\ shown = [n \in NodeNames |-> "none"] /\ grace = [n \in NodeNames |-> "none"]
    /\ age = IdleTicks + 1   \* never polled: due, and not fresh
    /\ poll = Resting
    /\ subs = {} /\ queue = [b \in Browsers |-> <<>>]
    /\ publishing = [p \in Publishers |-> Quiet]
    /\ fetching = {} /\ view = [b \in Browsers |-> Unseen]
    /\ overflowed = {} /\ misled = {}
    /\ unanswered = [n \in NodeNames |-> 0] /\ changes = 0

busVars == <<subs, queue, publishing, overflowed>>
pageVars == <<fetching, view, misled>>
worldVars == <<registered, answering, changes>>
pollVars == <<shown, grace, age, poll, unanswered>>

-----------------------------------------------------------------------------
(* The bus.                                                                *)

\* Publish copies the subscribers under the lock and sends without it,
PublishTo(p, topic) ==
    publishing' = [publishing EXCEPT ![p] =
                      IF subs = {} THEN Quiet ELSE [topic |-> topic, to |-> subs, drop |-> {}]]

Busy(p) == publishing[p].to # {}

\* to one after the other, in any order.
AtHand(p, b) == b \in publishing[p].to /\ publishing[p].drop \subseteq {b}
Sent(p, b) ==
    LET call == publishing[p] IN
    [publishing EXCEPT ![p] = IF call.to = {b} THEN Quiet
                              ELSE [topic |-> call.topic, to |-> call.to \ {b}, drop |-> {}]]

\* Mutant: off by one.
RoomForOneMore(b) == Len(queue[b]) <= QueueCap

HasRoom(b) == Len(queue[b]) < QueueCap

\* A send that finds room, at the first try or after a drop.
Sends(p, b) ==
    /\ AtHand(p, b) /\ HasRoom(b)
    /\ queue' = [queue EXCEPT ![b] = Append(queue[b], publishing[p].topic)]
    /\ publishing' = Sent(p, b)
    /\ UNCHANGED <<worldVars, pollVars, pageVars, subs, overflowed>>

\* The first try found the queue full: the oldest event goes.
DropsOldest(p, b) ==
    /\ AtHand(p, b) /\ publishing[p].drop = {} /\ ~HasRoom(b)
    /\ queue' = [queue EXCEPT ![b] = Tail(queue[b])]
    /\ publishing' = [publishing EXCEPT ![p].drop = {b}]
    /\ overflowed' = overflowed \cup {b}
    /\ UNCHANGED <<worldVars, pollVars, pageVars, subs>>

\* The second try found it full again: another publisher was faster, and it is
\* the new event that is lost.
DropsNewest(p, b) ==
    /\ AtHand(p, b) /\ publishing[p].drop = {b} /\ ~HasRoom(b)
    /\ publishing' = Sent(p, b)
    /\ UNCHANGED <<worldVars, pollVars, pageVars, subs, queue, overflowed>>

\* A handler that committed a change of a user or of a node.
HandlerPublishes(p) ==
    /\ ~Busy(p) /\ subs # {}
    /\ \E topic \in Topics : PublishTo(p, topic)
    /\ UNCHANGED <<worldVars, pollVars, pageVars, subs, queue, overflowed>>

-----------------------------------------------------------------------------
(* CollectLiveSnapshot.                                                    *)

\* At the k-th tick the window has gone by when it is less than k.
PollDue(k) == k > IF subs = {} THEN IdleTicks ELSE 1

\* A tick that is not due only makes the snapshot older.
TickSkips ==
    /\ poll.pc = "idle" /\ age <= IdleTicks /\ ~PollDue(age + 1)
    /\ age' = age + 1
    /\ UNCHANGED <<worldVars, busVars, pageVars, shown, grace, poll, unanswered>>

\* The registry is read, the nodes are asked.  A node whose call the deadline
\* overtook counts as one that did not answer.
TickPolls ==
    /\ poll.pc = "idle" /\ (age > IdleTicks \/ PollDue(age + 1))
    /\ age' = IF age > IdleTicks THEN age ELSE age + 1
    /\ poll' = [pc |-> "gathered", asked |-> registered,
                online |-> registered \cap answering]
    /\ unanswered' = [n \in NodeNames |-> IF n \in poll'.online THEN 0
                                  ELSE IF unanswered[n] = 2 THEN 2 ELSE unanswered[n] + 1]
    /\ UNCHANGED <<worldVars, busVars, pageVars, shown, grace>>

\* applyGrace, for a node of this poll or of the snapshot.  A node that is in
\* neither keeps what is left of its grace.
GraceOf(n) == IF grace[n] = "none" /\ shown[n] = "up" THEN "running" ELSE grace[n]
Concerned(n) == n \in poll.asked \/ shown[n] # "none"

Graced(n) ==
    IF ~Concerned(n) THEN "none"
    ELSE IF n \in poll.online \/ GraceOf(n) = "running" THEN "up" ELSE "down"

GraceLeft(n) ==
    CASE ~Concerned(n) -> grace[n]
      [] n \in poll.online -> "none"
      [] OTHER -> IF GraceOf(n) = "over" THEN "none" ELSE GraceOf(n)

Named(f) == {n \in NodeNames : f[n] # "none"}

\* updateSnapshot keeps the first names up to the cap, nodes that are gone from
\* the registry among them.
Trimmed(f) ==
    LET kept == {n \in Named(f) : Cardinality({m \in Named(f) : m <= n}) <= SnapshotCap} IN
    [n \in NodeNames |-> IF n \in kept THEN f[n] ELSE "none"]

\* Mutant: a change is one of which nodes there are.
NamesDiffer(new) == Named(new) # Named(shown)

\* sameBools: how many nodes there are, and for each of the new ones whether it is
\* up; one that was not there reads as down.
NodesChanged(new) ==
    \/ Cardinality(Named(new)) # Cardinality(Named(shown))
    \/ \E n \in Named(new) : (new[n] = "up") # (shown[n] = "up")

\* As many nodes went as came, and those that came are down.
Swapped(new) ==
    /\ Named(new) # Named(shown)
    /\ Cardinality(Named(new)) = Cardinality(Named(shown))
    /\ \A n \in Named(new) :
          new[n] = IF n \in Named(shown) THEN shown[n] ELSE "down"

\* An empty registry empties the snapshot and leaves the grace alone.
UpdateSnapshot ==
    LET new == Trimmed([n \in NodeNames |-> IF poll.asked = {} THEN "none" ELSE Graced(n)]) IN
    /\ poll.pc = "gathered"
    /\ shown' = new /\ age' = 0
    /\ grace' = IF poll.asked = {} THEN grace ELSE [n \in NodeNames |-> GraceLeft(n)]
    /\ \E countsChanged \in BOOLEAN :
          poll' = [Resting EXCEPT !.pc = IF NodesChanged(new) THEN "nodes"
                                         ELSE IF countsChanged THEN "users" ELSE "idle"]
    /\ misled' = IF Swapped(new) THEN misled \cup subs ELSE misled
    /\ UNCHANGED <<worldVars, busVars, fetching, view, unanswered>>

\* First "nodes", then, when the counts changed too, "users".
CollectorPublishes ==
    /\ poll.pc \in Topics /\ ~Busy(Collector)
    /\ PublishTo(Collector, poll.pc)
    /\ \E countsChanged \in BOOLEAN :
          poll' = [Resting EXCEPT !.pc =
                      IF poll.pc = "nodes" /\ countsChanged THEN "users" ELSE "idle"]
    /\ UNCHANGED <<worldVars, shown, grace, age, unanswered, subs, queue, overflowed, pageVars>>

-----------------------------------------------------------------------------
(* The stream and the browser.                                             *)

\* StreamHandler subscribes and then sends "ready", on which all is fetched.
Connects(b) ==
    /\ b \notin subs
    /\ subs' = subs \cup {b} /\ queue' = [queue EXCEPT ![b] = <<>>]
    /\ fetching' = fetching \cup {b} /\ overflowed' = overflowed \ {b}
    /\ UNCHANGED <<worldVars, pollVars, publishing, view, misled>>

\* The request ends, or a write fails.  A call that copied the subscribers before
\* still sends to the channel, which nobody reads.
Leaves(b) ==
    /\ b \in subs
    /\ subs' = subs \ {b} /\ queue' = [queue EXCEPT ![b] = <<>>]
    /\ publishing' = [p \in Publishers |->
          IF publishing[p].to = {b} THEN Quiet
          ELSE [topic |-> publishing[p].topic, to |-> publishing[p].to \ {b},
                drop |-> publishing[p].drop \ {b}]]
    /\ fetching' = fetching \ {b} /\ view' = [view EXCEPT ![b] = Unseen]
    /\ overflowed' = overflowed \ {b} /\ misled' = misled \ {b}
    /\ UNCHANGED <<worldVars, pollVars>>

\* An event of another topic leaves the nodes on the page alone.
Receives(b) ==
    /\ queue[b] # <<>>
    /\ queue' = [queue EXCEPT ![b] = Tail(queue[b])]
    /\ fetching' = IF Head(queue[b]) = "nodes" THEN fetching \cup {b} ELSE fetching
    /\ UNCHANGED <<worldVars, pollVars, subs, publishing, overflowed, view, misled>>

\* SnapshotFresh: no more than the idle window since the last poll.  In the tick
\* that completes the window both answers occur.
Fresh == IF age < IdleTicks THEN {TRUE} ELSE IF age = IdleTicks THEN BOOLEAN ELSE {FALSE}

Fetches(b) ==
    /\ b \in fetching
    /\ \E f \in Fresh :
          view' = [view EXCEPT ![b] = IF f THEN [fresh |-> TRUE, nodes |-> shown] ELSE Unseen]
    /\ fetching' = fetching \ {b} /\ misled' = misled \ {b}
    /\ UNCHANGED <<worldVars, pollVars, busVars>>

-----------------------------------------------------------------------------
(* The world.                                                              *)

Changes == changes < MaxChanges /\ changes' = changes + 1

RegistryChanges ==
    /\ Changes
    /\ \E n \in NodeNames : registered' = IF n \in registered THEN registered \ {n}
                                      ELSE registered \cup {n}
    /\ UNCHANGED <<answering, pollVars, busVars, pageVars>>

AnswersChange ==
    /\ Changes
    /\ \E n \in NodeNames : answering' = IF n \in answering THEN answering \ {n}
                                     ELSE answering \cup {n}
    /\ UNCHANGED <<registered, pollVars, busVars, pageVars>>

\* The grace is shorter than the window, unless the environment shortens that.
GraceEnds(n) ==
    /\ grace[n] = "running" /\ poll.pc = "idle"
    /\ grace' = [grace EXCEPT ![n] = "over"]
    /\ UNCHANGED <<worldVars, busVars, pageVars, shown, age, poll, unanswered>>

LiveNext ==
    \/ TickSkips \/ TickPolls \/ UpdateSnapshot \/ CollectorPublishes
    \/ \E p \in Publishers, b \in Browsers :
          Sends(p, b) \/ DropsOldest(p, b) \/ DropsNewest(p, b)
    \/ \E p \in Writers : HandlerPublishes(p)
    \/ \E b \in Browsers : Connects(b) \/ Leaves(b) \/ Receives(b) \/ Fetches(b)
    \/ RegistryChanges \/ AnswersChange \/ \E n \in NodeNames : GraceEnds(n)

LiveSpec == LiveInit /\ [][LiveNext]_liveView

-----------------------------------------------------------------------------
(* Properties.                                                             *)

\* Nothing about the nodes is on its way to b.
Settled(b) ==
    /\ b \in subs \ fetching
    /\ \A i \in DOMAIN queue[b] : queue[b][i] # "nodes"
    /\ \A p \in Publishers : publishing[p].topic = "nodes" => b \notin publishing[p].to
    /\ poll.pc # "nodes"

\* A browser for which nothing is on its way, and whose queue never overflowed,
\* shows as online every node that is online in the snapshot, and but for a swap
\* of nodes the publisher cannot tell (stream.go:410-420) it shows the nodes as the
\* snapshot has them, whatever connected, published and polled in between; one
\* that fetched while the snapshot was too old shows that (stream.go:75-98,
\* handler.go:685-692).
WatchersSeeNodes ==
    \A b \in Browsers : Settled(b) /\ b \notin overflowed /\ view[b].fresh =>
        /\ \A n \in NodeNames : shown[n] = "up" => view[b].nodes[n] = "up"
        /\ b \notin misled => view[b].nodes = shown

\* And a node turns from online to offline only when the last two polls had no
\* answer of it (handler.go:696-725).
NodesShownTruly ==
    [][/\ WatchersSeeNodes'
       /\ \A n \in NodeNames :
             shown[n] = "up" /\ shown'[n] = "down" => unanswered[n] = 2]_liveView
=============================================================================
