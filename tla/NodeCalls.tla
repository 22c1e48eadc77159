------------------------------ MODULE NodeCalls ------------------------------
(***************************************************************************)
(* The nodes table, its undo window and the calls to the nodes             *)
(* (internal/node: management.go, routes.go, connection.go, client.go):    *)
(* a caller reads a row, takes the registry's client for it or builds one  *)
(* outside the lock, and calls; meanwhile rows are edited, re-pinned,      *)
(* deleted and restored, and ids are used again.                           *)
(*                                                                         *)
(* A place stands for address, port and key; a certificate for the PEM the *)
(* row pins and the node shows.                                            *)
(***************************************************************************)
EXTENDS Naturals, FiniteSets, FiniteSetsExt

CONSTANTS
    Ids,         \* 1 .. the bound on node ids
    Places,      \* where nodes are
    Certs,       \* certificates nodes show
    Vouched,     \* those an authority of the system vouches for
    NoPin,       \* a row of before pins
    Fallback,    \* NODE_TLS_INSECURE_FALLBACK
    NodeCallers, \* bound: the requests and workers calling at once
    MaxEdits     \* bound: administrative changes

ASSUME NodeAssumption ==
    /\ IsFiniteSet(Ids) /\ Ids = 1 .. Cardinality(Ids) /\ 1 \in Ids
    /\ Places # {} /\ Certs # {} /\ Vouched \subseteq Certs
    /\ NoPin \notin Certs /\ Fallback \in BOOLEAN /\ MaxEdits \in Nat

VARIABLES
    nodes,     \* the nodes rows
    snapshot,  \* the deleted_nodes rows
    shows,     \* the certificate of the node at each place
    registry,  \* connections
    alarmed,   \* unverifiedNodes
    call,      \* the callers
    repin,     \* the re-pin under way
    edits,     \* counts administrative changes
    taken      \* history: the answer a caller took last

nodeCallVars == <<nodes, snapshot, shows, registry, alarmed, call, repin, edits, taken>>
nodeRows == <<nodes, snapshot, repin, edits>>

NodeRow == [place : Places, pin : Certs \cup {NoPin}]
NoNodeRow == [pin |-> NoPin]
Health == {"unknown", "healthy", "broken"}
Connection == [to : NodeRow, health : Health]
NoConnection == [health |-> "unknown"]

\* "save" and "keep" are before the row of an edit is written, with and without a
\* new pin; "apply" is over the client the edit builds for itself.
Calling == [pc : {"none", "get", "build", "call", "save", "keep", "apply"}, id : Ids,
            read : NodeRow, client : NodeRow]

NodeTypeOK ==
    /\ nodes \in [Ids -> NodeRow \cup {NoNodeRow}]
    /\ snapshot \in [Ids -> NodeRow \cup {NoNodeRow}]
    /\ shows \in [Places -> Certs]
    /\ registry \in [Ids -> Connection \cup {NoConnection}]
    /\ alarmed \subseteq Ids
    /\ call \in [NodeCallers -> Calling]
    /\ repin \in [id : Ids \cup {0}, pin : Certs]
    /\ edits \in 0 .. MaxEdits
    /\ taken \subseteq [id : Ids \cup {0}, read : NodeRow, place : Places, shown : Certs]

Known == {i \in Ids : nodes[i] # NoNodeRow}
NotRepinning == [id |-> 0, pin |-> CHOOSE c \in Certs : TRUE]
AnyRow == CHOOSE r \in NodeRow : TRUE
NoCall == [pc |-> "none", id |-> 1, read |-> AnyRow, client |-> AnyRow]

\* One node, pinned or of a release without pins; which place it has and which
\* certificate shows there are no more than names.
NodeInit ==
    /\ shows \in [Places -> Certs] /\ shows[AnyRow.place] = NotRepinning.pin
    /\ \E pin \in {NotRepinning.pin, NoPin} :
          nodes = [i \in Ids |-> IF i = 1 THEN [place |-> AnyRow.place, pin |-> pin]
                                          ELSE NoNodeRow]
    /\ snapshot = [i \in Ids |-> NoNodeRow]
    /\ registry = [i \in Ids |-> NoConnection]
    /\ alarmed = {} /\ taken = {} /\ edits = 0
    /\ call = [c \in NodeCallers |-> NoCall]
    /\ repin = NotRepinning

-----------------------------------------------------------------------------
(* TLS.                                                                    *)

\* A pin fails closed; without one the authorities of the system decide,
Verified(client) ==
    LET cert == shows[client.place] IN
    IF client.pin # NoPin THEN client.pin = cert ELSE cert \in Vouched

\* and where they do not vouch, the fallback.
Handshake(client) == Verified(client) \/ (client.pin = NoPin /\ Fallback)

-----------------------------------------------------------------------------
(* The administrator.                                                      *)

Edit == edits < MaxEdits /\ edits' = edits + 1

\* SQLite gives a new row the id after the largest one there is.
NextNodeId == IF Known = {} THEN 1 ELSE Max(Known) + 1

\* The certificate comes with the request, its fingerprint confirmed, and the
\* node must answer over it.
NodeAdd(p, c) ==
    /\ Edit
    /\ NextNodeId \in Ids
    /\ c = shows[p]
    /\ nodes' = [nodes EXCEPT ![NextNodeId] = [place |-> p, pin |-> c]]
    /\ UNCHANGED <<snapshot, shows, registry, alarmed, call, repin, taken>>

\* UpdateNodeHandler reads the row; without a certificate in the request the pin
\* of its client is the one it read.
NodeEdits(c, i, p, pins) ==
    LET pin == IF pins = {} THEN nodes[i].pin ELSE CHOOSE k \in pins : TRUE
        row == [place |-> p, pin |-> pin] IN
    /\ Edit
    /\ call[c].pc = "none" /\ i \in Known
    /\ pins \subseteq Certs /\ Cardinality(pins) <= 1
    /\ call' = [call EXCEPT ![c] = [pc |-> IF pins = {} THEN "keep" ELSE "save",
                                   id |-> i, read |-> row, client |-> row]]
    /\ UNCHANGED <<nodes, snapshot, shows, registry, alarmed, repin, taken>>

\* It saves first, in whatever row has the id by then, and tries the node
\* afterwards: two calls over a client of its own, for which one stands.
NodeSaves(c) ==
    LET i == call[c].id
        pin == IF call[c].pc = "save" THEN call[c].read.pin ELSE nodes[i].pin IN
    /\ call[c].pc \in {"save", "keep"}
    /\ nodes' = IF i \in Known
                THEN [nodes EXCEPT ![i] = [place |-> call[c].read.place, pin |-> pin]]
                ELSE nodes
    /\ call' = [call EXCEPT ![c].pc = "apply"]
    /\ UNCHANGED <<snapshot, shows, registry, alarmed, repin, edits, taken>>

\* handleRepin fetches what the node of the row it read shows, has it confirmed,
NodeRepinFetches(i) ==
    /\ Edit
    /\ i \in Known /\ repin = NotRepinning
    /\ repin' = [id |-> i, pin |-> shows[nodes[i].place]]
    /\ UNCHANGED <<nodes, snapshot, shows, registry, alarmed, call, taken>>

\* and writes the column of whatever row has that id by then.
NodeRepins ==
    /\ repin # NotRepinning
    /\ nodes' = IF repin.id \in Known THEN [nodes EXCEPT ![repin.id].pin = repin.pin]
                                      ELSE nodes
    /\ repin' = NotRepinning
    /\ UNCHANGED <<snapshot, shows, registry, alarmed, call, edits, taken>>

\* A row that cannot be read is deleted without a snapshot.
NodeDelete(i) ==
    /\ Edit
    /\ i \in Known
    /\ snapshot' \in {[snapshot EXCEPT ![i] = nodes[i]], snapshot}
    /\ nodes' = [nodes EXCEPT ![i] = NoNodeRow]
    /\ registry' = [registry EXCEPT ![i] = NoConnection]
    /\ UNCHANGED <<shows, alarmed, call, repin, taken>>

\* A snapshot whose id another row has by now is dropped.
NodeRestore(i) ==
    /\ snapshot[i] # NoNodeRow
    /\ nodes' = IF i \in Known THEN nodes ELSE [nodes EXCEPT ![i] = snapshot[i]]
    /\ snapshot' = [snapshot EXCEPT ![i] = NoNodeRow]
    /\ UNCHANGED <<shows, registry, alarmed, call, repin, edits, taken>>

NodeWindowEnds(i) ==
    /\ snapshot[i] # NoNodeRow
    /\ snapshot' = [snapshot EXCEPT ![i] = NoNodeRow]
    /\ UNCHANGED <<nodes, shows, registry, alarmed, call, repin, edits, taken>>

-----------------------------------------------------------------------------
(* Calls.                                                                  *)

NodeReads(c, i) ==
    /\ call[c].pc = "none" /\ i \in Known
    /\ call' = [call EXCEPT ![c] = [@ EXCEPT !.pc = "get", !.id = i, !.read = nodes[i]]]
    /\ UNCHANGED <<nodeRows, shows, registry, alarmed, taken>>

\* Mutant: the id alone decides.
OfThisNode(i, row) == registry[i] # NoConnection

\* The entry was built from the same address, port, key and pin.
Serves(i, row) == registry[i] # NoConnection /\ registry[i].to = row

\* The first look, under the lock.
NodeLooks(c) ==
    /\ call[c].pc = "get"
    /\ call' = IF Serves(call[c].id, call[c].read)
               THEN [call EXCEPT ![c].pc = "call", ![c].client = registry[call[c].id].to]
               ELSE [call EXCEPT ![c].pc = "build"]
    /\ UNCHANGED <<nodeRows, shows, registry, alarmed, taken>>

\* The client was built outside the lock: the second look takes the entry
\* another caller made meanwhile, or replaces it.
NodeInstalls(c) ==
    LET i == call[c].id  row == call[c].read IN
    /\ call[c].pc = "build"
    /\ registry' = IF Serves(i, row) THEN registry
                   ELSE [registry EXCEPT ![i] =
                           [to |-> row, health |-> "unknown"]]
    /\ call' = [call EXCEPT ![c].pc = "call", ![c].client = registry'[i].to]
    /\ UNCHANGED <<nodeRows, shows, alarmed, taken>>

\* Record: by id, on whatever entry there is.
Recorded(i, ok) ==
    IF registry[i] = NoConnection THEN registry
    ELSE [registry EXCEPT ![i].health = IF ok THEN "healthy" ELSE "broken"]

\* A client that is not of the registry has the id 0: neither its outcome nor
\* that it went on unverified is put on record.
NodeAnswers(c) ==
    LET own == call[c].pc = "apply"
        i == call[c].id
        client == call[c].client IN
    /\ call[c].pc \in {"call", "apply"}
    /\ Handshake(client)
    /\ taken' = {[id |-> IF own THEN 0 ELSE i, read |-> call[c].read,
                  place |-> client.place, shown |-> shows[client.place]]}
    /\ alarmed' = IF own \/ Verified(client) THEN alarmed ELSE alarmed \cup {i}
    /\ registry' = IF own THEN registry ELSE Recorded(i, TRUE)
    /\ call' = [call EXCEPT ![c] = NoCall]
    /\ UNCHANGED <<nodeRows, shows>>

\* No answer, or one the client refuses.
NodeFails(c) ==
    /\ call[c].pc \in {"call", "apply"}
    /\ registry' = IF call[c].pc = "apply" THEN registry
                   ELSE Recorded(call[c].id, FALSE)
    /\ call' = [call EXCEPT ![c] = NoCall]
    /\ UNCHANGED <<nodeRows, shows, alarmed, taken>>

\* The node renews its certificate, or another host answers at its place.
NodeCertChanges(p, c) ==
    /\ Edit
    /\ c # shows[p]
    /\ shows' = [shows EXCEPT ![p] = c]
    /\ UNCHANGED <<nodes, snapshot, registry, alarmed, call, repin, taken>>

NodeNext ==
    \/ \E p \in Places, c \in Certs : NodeAdd(p, c) \/ NodeCertChanges(p, c)
    \/ \E i \in Ids :
          NodeRepinFetches(i) \/ NodeDelete(i) \/ NodeRestore(i) \/ NodeWindowEnds(i)
    \/ NodeRepins
    \/ \E c \in NodeCallers :
          \/ NodeSaves(c)
          \/ NodeLooks(c) \/ NodeInstalls(c) \/ NodeAnswers(c) \/ NodeFails(c)
          \/ \E i \in Ids :
                \/ NodeReads(c, i)
                \/ \E p \in Places, pins \in SUBSET Certs : NodeEdits(c, i, p, pins)

NodeSpec == NodeInit /\ [][NodeNext]_nodeCallVars

-----------------------------------------------------------------------------
(* Properties.                                                             *)

\* Every answer a caller takes for a node came from the place, and was secured
\* by the certificate, of the row the caller read or the edit it made, however
\* rows, ids and shared clients changed while it ran (connection.go:77-106).
\* Without a pin an authority vouched for the certificate, or it came through the
\* fallback and that was put on record, except for the client an edit builds for
\* itself (client.go:39-42, management.go:536).
AnswersArePinned ==
    \A a \in taken :
        /\ a.place = a.read.place
        /\ IF a.read.pin # NoPin THEN a.shown = a.read.pin
           ELSE a.shown \in Vouched \/ (Fallback /\ a.id \in alarmed \cup {0})
=============================================================================
