------------------------- MODULE PanelProcessProofs -------------------------
(***************************************************************************)
(* Theorems about the node calls for any ids, places, certificates and     *)
(* callers, about the alerts for any collectors and bounds, and about the  *)
(* live view for any nodes, browsers and queues; and what the theorems     *)
(* about the five parts say of the panel in which they run side by side:   *)
(* every behaviour of PanelProcess is one of each part.                    *)
(***************************************************************************)
EXTENDS PanelProcess, UserAccountsProofs, OwnerAccessProofs, WellFoundedInduction, TLAPS

-----------------------------------------------------------------------------
(* Node calls: the types are kept, and every answer that is taken for a    *)
(* node was secured by the row its caller read.                            *)

LEMMA RowsOfNodes == NoNodeRow \notin NodeRow /\ NoConnection \notin Connection
BY DEF NoNodeRow, NodeRow, NoConnection, Connection

LEMMA Defaults == /\ AnyRow \in NodeRow /\ NotRepinning.pin \in Certs
                  /\ NotRepinning \in [id : Ids \cup {0}, pin : Certs]
                  /\ NoCall \in Calling
<1>1. NodeRow # {}
  <2>1. PICK p \in Places, c \in Certs : TRUE
    BY NodeAssumption
  <2>2. [place |-> p, pin |-> c] \in NodeRow
    BY DEF NodeRow
  <2>3. QED
    BY <2>2
<1>2. AnyRow \in NodeRow
  BY <1>1 DEF AnyRow
<1>3. (CHOOSE c \in Certs : TRUE) \in Certs
  BY NodeAssumption
<1>4. QED
  BY <1>2, <1>3, NodeAssumption DEF NotRepinning, NoCall, Calling

-----------------------------------------------------------------------------
(* Types.                                                                  *)

LEMMA NodeInitType == NodeInit => NodeTypeOK
<1> SUFFICES ASSUME NodeInit
             PROVE  NodeTypeOK
  OBVIOUS
<1>1. PICK pin \in Certs \cup {NoPin} :
         nodes = [i \in Ids |-> IF i = 1 THEN [place |-> AnyRow.place, pin |-> pin]
                                         ELSE NoNodeRow]
  BY Defaults DEF NodeInit
<1>2. [place |-> AnyRow.place, pin |-> pin] \in NodeRow
  BY Defaults DEF NodeRow
<1>3. nodes \in [Ids -> NodeRow \cup {NoNodeRow}]
  BY <1>1, <1>2
<1>4. edits \in 0 .. MaxEdits
  BY NodeAssumption DEF NodeInit
<1>5. QED
  BY <1>3, <1>4, Defaults DEF NodeInit, NodeTypeOK

\* An administrative change counts itself.
LEMMA EditCounts == NodeTypeOK /\ Edit => edits' \in 0 .. MaxEdits
BY NodeAssumption DEF NodeTypeOK, Edit

\* The administrator's steps, the undo window and the certificates.
LEMMA AdminType ==
    ASSUME NodeTypeOK,
           \/ \E p \in Places, c \in Certs : NodeAdd(p, c) \/ NodeCertChanges(p, c)
           \/ \E i \in Ids : NodeRepinFetches(i) \/ NodeDelete(i) \/ NodeRestore(i)
                           \/ NodeWindowEnds(i)
           \/ NodeRepins
    PROVE  NodeTypeOK'
<1> USE DEF NodeTypeOK
<1>1. ASSUME NEW p \in Places, NEW c \in Certs, NodeAdd(p, c)
      PROVE  NodeTypeOK'
  <2>1. [place |-> p, pin |-> c] \in NodeRow
    BY DEF NodeRow
  <2>2. QED
    BY <1>1, <2>1, EditCounts DEF NodeAdd
<1>2. ASSUME NEW p \in Places, NEW c \in Certs, NodeCertChanges(p, c)
      PROVE  NodeTypeOK'
  BY <1>2, EditCounts DEF NodeCertChanges
<1>3. ASSUME NEW i \in Ids, NodeRepinFetches(i)
      PROVE  NodeTypeOK'
  <2>1. nodes[i].place \in Places
    BY <1>3 DEF NodeRepinFetches, Known, NodeRow
  <2>2. QED
    BY <1>3, <2>1, EditCounts DEF NodeRepinFetches
<1>4. ASSUME NEW i \in Ids, NodeDelete(i)
      PROVE  NodeTypeOK'
  BY <1>4, EditCounts DEF NodeDelete
<1>5. ASSUME NEW i \in Ids, NodeRestore(i)
      PROVE  NodeTypeOK'
  BY <1>5 DEF NodeRestore
<1>6. ASSUME NEW i \in Ids, NodeWindowEnds(i)
      PROVE  NodeTypeOK'
  BY <1>6 DEF NodeWindowEnds
<1>7. CASE NodeRepins
  <2>1. CASE repin.id \notin Known
    BY <1>7, <2>1, Defaults DEF NodeRepins
  <2>2. CASE repin.id \in Known
    <3> DEFINE row == [nodes[repin.id] EXCEPT !.pin = repin.pin]
    <3>1. nodes[repin.id] \in NodeRow /\ repin.id \in Ids
      BY <2>2 DEF Known
    <3>2. row \in NodeRow
      BY <3>1 DEF NodeRow
    <3>3. nodes' = [nodes EXCEPT ![repin.id] = row]
      BY <1>7, <2>2 DEF NodeRepins
    <3> HIDE DEF row
    <3>4. QED
      BY <1>7, <3>1, <3>2, <3>3, Defaults DEF NodeRepins
  <2>3. QED
    BY <2>1, <2>2
<1>8. QED
  BY <1>1, <1>2, <1>3, <1>4, <1>5, <1>6, <1>7

\* An entry of the registry serves rows of its own.
LEMMA ServesRow ==
    ASSUME NodeTypeOK, NEW i \in Ids, registry[i] # NoConnection
    PROVE  registry[i] \in Connection /\ registry[i].to \in NodeRow
BY DEF NodeTypeOK, Connection

LEMMA RecordedType ==
    ASSUME NodeTypeOK, NEW i \in Ids, NEW ok \in BOOLEAN
    PROVE  Recorded(i, ok) \in [Ids -> Connection \cup {NoConnection}]
<1>1. CASE registry[i] = NoConnection
  BY <1>1 DEF Recorded, NodeTypeOK
<1>2. CASE registry[i] # NoConnection
  <2> DEFINE health == IF ok THEN "healthy" ELSE "broken"
             entry == [registry[i] EXCEPT !.health = health]
  <2>1. health \in Health
    BY DEF Health
  <2> HIDE DEF health
  <2>2. entry \in Connection
    BY <1>2, <2>1, ServesRow DEF Connection
  <2>3. Recorded(i, ok) = [registry EXCEPT ![i] = entry]
    BY <1>2 DEF Recorded, health
  <2> HIDE DEF entry
  <2>4. QED
    BY <2>2, <2>3 DEF NodeTypeOK
<1>3. QED
  BY <1>1, <1>2

-----------------------------------------------------------------------------
(* Calls.                                                                  *)

\* A client was built for the row its caller read, whoever built it.
ClientsMatch ==
    \A c \in NodeCallers : call[c].pc \in {"call", "save", "keep", "apply"}
                              => call[c].client = call[c].read

PinInv == NodeTypeOK /\ ClientsMatch /\ AnswersArePinned

\* A step that only moves one caller.
LEMMA CallerMoves ==
    ASSUME PinInv, NEW c \in NodeCallers, NEW r \in Calling,
           call' = [call EXCEPT ![c] = r],
           r.pc \in {"call", "save", "keep", "apply"} => r.client = r.read,
           UNCHANGED <<nodes, snapshot, repin, edits, shows, alarmed, taken>>,
           registry' \in [Ids -> Connection \cup {NoConnection}]
    PROVE  PinInv'
<1>1. \A d \in NodeCallers : call'[d] = IF d = c THEN r ELSE call[d]
  BY DEF PinInv, NodeTypeOK
<1>2. NodeTypeOK'
  BY DEF PinInv, NodeTypeOK
<1>3. ClientsMatch'
  BY <1>1 DEF PinInv, ClientsMatch
<1>4. QED
  BY <1>2, <1>3 DEF PinInv, AnswersArePinned

LEMMA CallStep ==
    ASSUME PinInv, NEW c \in NodeCallers,
           \/ \E i \in Ids : NodeReads(c, i)
           \/ NodeLooks(c) \/ NodeInstalls(c) \/ NodeFails(c)
    PROVE  PinInv'
<1> USE DEF nodeRows
<1>1. call[c] \in Calling /\ call[c].id \in Ids /\ call[c].read \in NodeRow
  BY DEF PinInv, NodeTypeOK, Calling
<1>2. registry \in [Ids -> Connection \cup {NoConnection}]
      /\ call \in [NodeCallers -> Calling]
  BY DEF PinInv, NodeTypeOK
<1>3. ASSUME NEW i \in Ids, NodeReads(c, i)
      PROVE  PinInv'
  <2> DEFINE r == [call[c] EXCEPT !.pc = "get", !.id = i, !.read = nodes[i]]
  <2>1. nodes[i] \in NodeRow
    BY <1>3 DEF NodeReads, Known, PinInv, NodeTypeOK
  <2>2. r \in Calling /\ r.pc = "get"
    BY <1>1, <2>1 DEF Calling
  <2>3. call' = [call EXCEPT ![c] = r]
    BY <1>3 DEF NodeReads
  <2> HIDE DEF r
  <2>4. QED
    BY <1>2, <1>3, <2>2, <2>3, CallerMoves DEF NodeReads
<1>4. CASE NodeLooks(c)
  <2>1. UNCHANGED <<nodes, snapshot, repin, edits, shows, registry, alarmed, taken>>
    BY <1>4 DEF NodeLooks
  <2>2. CASE Serves(call[c].id, call[c].read)
    <3> DEFINE r == [call[c] EXCEPT !.pc = "call", !.client = registry[call[c].id].to]
    <3>1. registry[call[c].id].to = call[c].read
      BY <2>2 DEF Serves
    <3>2. r \in Calling /\ r.client = r.read
      BY <1>1, <3>1 DEF Calling
    <3>3. call' = [call EXCEPT ![c] = r]
      BY <1>2, <1>4, <2>2 DEF NodeLooks
    <3> HIDE DEF r
    <3>4. QED
      BY <1>2, <2>1, <3>2, <3>3, CallerMoves
  <2>3. CASE ~Serves(call[c].id, call[c].read)
    <3> DEFINE r == [call[c] EXCEPT !.pc = "build"]
    <3>1. r \in Calling /\ r.pc = "build"
      BY <1>1 DEF Calling
    <3>2. call' = [call EXCEPT ![c] = r]
      BY <1>2, <1>4, <2>3 DEF NodeLooks
    <3> HIDE DEF r
    <3>3. QED
      BY <1>2, <2>1, <3>1, <3>2, CallerMoves
  <2>4. QED
    BY <2>2, <2>3
<1>5. CASE NodeInstalls(c)
  <2> DEFINE i == call[c].id
             row == call[c].read
             entry == [to |-> row, health |-> "unknown"]
             to == registry'[i].to
             r == [call[c] EXCEPT !.pc = "call", !.client = to]
  <2>1. entry \in Connection /\ entry.to = row
    BY <1>1 DEF Connection, Health
  <2>2. registry' = IF Serves(i, row) THEN registry ELSE [registry EXCEPT ![i] = entry]
    BY <1>5 DEF NodeInstalls
  <2>3. call' = [call EXCEPT ![c] = r]
    <3>1. call' = [call EXCEPT ![c].pc = "call", ![c].client = to]
      BY <1>5 DEF NodeInstalls
    <3> HIDE DEF to
    <3>2. QED
      BY <1>2, <3>1
  <2> HIDE DEF entry
  <2>4. registry' \in [Ids -> Connection \cup {NoConnection}]
    BY <1>1, <1>2, <2>1, <2>2
  <2>5. registry'[i].to = row
    BY <1>1, <1>2, <2>1, <2>2 DEF Serves
  <2>6. r \in Calling /\ r.client = r.read
    BY <1>1, <2>5 DEF Calling
  <2> HIDE DEF r
  <2>7. QED
    BY <1>5, <2>3, <2>4, <2>6, CallerMoves DEF NodeInstalls
<1>6. CASE NodeFails(c)
  <2>1. NoCall.pc = "none"
    BY DEF NoCall
  <2>2. registry' \in [Ids -> Connection \cup {NoConnection}]
    <3>1. Recorded(call[c].id, FALSE) \in [Ids -> Connection \cup {NoConnection}]
      BY <1>1, RecordedType DEF PinInv
    <3>2. registry' \in {registry, Recorded(call[c].id, FALSE)}
      BY <1>6 DEF NodeFails
    <3>3. QED
      BY <1>2, <3>1, <3>2
  <2>3. QED
    BY <1>6, <2>1, <2>2, Defaults, CallerMoves DEF NodeFails
<1>7. QED
  BY <1>3, <1>4, <1>5, <1>6

\* An edit of a row, over a client of its own.
LEMMA EditStep ==
    ASSUME PinInv, NEW c \in NodeCallers, NEW i \in Ids, NEW p \in Places,
           NEW pins \in SUBSET Certs, NodeEdits(c, i, p, pins)
    PROVE  PinInv'
<1> DEFINE pin == IF pins = {} THEN nodes[i].pin ELSE CHOOSE k \in pins : TRUE
           row == [place |-> p, pin |-> pin]
           pc == IF pins = {} THEN "keep" ELSE "save"
           r == [pc |-> pc, id |-> i, read |-> row, client |-> row]
<1>1. nodes[i] \in NodeRow
  BY DEF NodeEdits, Known, PinInv, NodeTypeOK
<1>2. pin \in Certs \cup {NoPin}
  BY <1>1 DEF NodeRow
<1>3. pc \in {"keep", "save"}
  OBVIOUS
<1>4. call' = [call EXCEPT ![c] = r]
  BY DEF NodeEdits
<1> HIDE DEF pin, pc
<1>5. row \in NodeRow
  BY <1>2 DEF NodeRow
<1>6. r \in Calling /\ r.client = r.read /\ r.pc = pc
  BY <1>3, <1>5 DEF Calling
<1> HIDE DEF r
<1>7. edits' \in 0 .. MaxEdits
  BY EditCounts DEF NodeEdits, PinInv
<1>8. UNCHANGED <<nodes, snapshot, shows, registry, alarmed, repin, taken>>
  BY DEF NodeEdits
<1>9. NodeTypeOK'
  BY <1>4, <1>6, <1>7, <1>8 DEF PinInv, NodeTypeOK
<1>10. \A d \in NodeCallers : call'[d] = IF d = c THEN r ELSE call[d]
  BY <1>4 DEF PinInv, NodeTypeOK
<1>11. ClientsMatch'
  BY <1>6, <1>10 DEF PinInv, ClientsMatch
<1>12. QED
  BY <1>8, <1>9, <1>11 DEF PinInv, AnswersArePinned

LEMMA SaveStep ==
    ASSUME PinInv, NEW c \in NodeCallers, NodeSaves(c)
    PROVE  PinInv'
<1> DEFINE i == call[c].id
           pin == IF call[c].pc = "save" THEN call[c].read.pin ELSE nodes[i].pin
           row == [place |-> call[c].read.place, pin |-> pin]
           r == [call[c] EXCEPT !.pc = "apply"]
<1>1. /\ call[c] \in Calling /\ call[c].pc \in {"save", "keep"}
      /\ call[c].client = call[c].read
  BY DEF PinInv, NodeTypeOK, ClientsMatch, NodeSaves
<1>2. i \in Ids /\ call[c].read \in NodeRow
  BY <1>1 DEF Calling
<1>3. r \in Calling /\ r.client = r.read
  BY <1>1 DEF Calling
<1>4. call' = [call EXCEPT ![c] = r]
  BY DEF NodeSaves, PinInv, NodeTypeOK
<1>5. nodes' \in [Ids -> NodeRow \cup {NoNodeRow}]
  <2>1. CASE i \notin Known
    BY <2>1 DEF NodeSaves, PinInv, NodeTypeOK
  <2>2. CASE i \in Known
    <3>1. nodes[i] \in NodeRow
      BY <2>2 DEF Known, PinInv, NodeTypeOK
    <3>2. pin \in Certs \cup {NoPin}
      BY <1>2, <3>1 DEF NodeRow
    <3>3. nodes' = [nodes EXCEPT ![i] = row]
      BY <2>2 DEF NodeSaves
    <3> HIDE DEF pin
    <3>4. row \in NodeRow
      BY <1>2, <3>2 DEF NodeRow
    <3> HIDE DEF row
    <3>5. QED
      BY <1>2, <3>3, <3>4 DEF PinInv, NodeTypeOK
  <2>3. QED
    BY <2>1, <2>2
<1>6. UNCHANGED <<snapshot, shows, registry, alarmed, repin, edits, taken>>
  BY DEF NodeSaves
<1> HIDE DEF r
<1>7. NodeTypeOK'
  BY <1>3, <1>4, <1>5, <1>6 DEF PinInv, NodeTypeOK
<1>8. \A d \in NodeCallers : call'[d] = IF d = c THEN r ELSE call[d]
  BY <1>4 DEF PinInv, NodeTypeOK
<1>9. ClientsMatch'
  BY <1>3, <1>8 DEF PinInv, ClientsMatch
<1>10. QED
  BY <1>6, <1>7, <1>9 DEF PinInv, AnswersArePinned

\* An answer passes the handshake of a client of the row that was read.
LEMMA AnswerStep ==
    ASSUME PinInv, NEW c \in NodeCallers, NodeAnswers(c)
    PROVE  PinInv'
<1> DEFINE own == call[c].pc = "apply"
           i == call[c].id
           id == IF own THEN 0 ELSE i
           client == call[c].client
           a == [id |-> id, read |-> call[c].read, place |-> client.place,
                 shown |-> shows[client.place]]
<1>1. /\ call[c].pc \in {"call", "apply"} /\ Handshake(client) /\ taken' = {a}
      /\ alarmed' = IF own \/ Verified(client) THEN alarmed ELSE alarmed \cup {i}
      /\ registry' = IF own THEN registry ELSE Recorded(i, TRUE)
      /\ call' = [call EXCEPT ![c] = NoCall]
      /\ UNCHANGED <<nodes, snapshot, repin, edits, shows>>
  BY DEF NodeAnswers, nodeRows
<1>2. /\ i \in Ids /\ id \in Ids \cup {0} /\ call[c].read \in NodeRow
      /\ client = call[c].read /\ client.place \in Places
  BY <1>1 DEF PinInv, NodeTypeOK, ClientsMatch, Calling, NodeRow
<1>3. a \in [id : Ids \cup {0}, read : NodeRow, place : Places, shown : Certs]
  BY <1>2 DEF PinInv, NodeTypeOK
<1>4. registry' \in [Ids -> Connection \cup {NoConnection}]
  <2>1. Recorded(i, TRUE) \in [Ids -> Connection \cup {NoConnection}]
    BY <1>2, RecordedType DEF PinInv
  <2>2. QED
    BY <1>1, <2>1 DEF PinInv, NodeTypeOK
<1>5. alarmed' \subseteq Ids
  BY <1>1, <1>2 DEF PinInv, NodeTypeOK
<1>6. /\ a.place = a.read.place
      /\ IF a.read.pin # NoPin THEN a.shown = a.read.pin
         ELSE a.shown \in Vouched \/ (Fallback /\ a.id \in alarmed' \cup {0})
  <2>1. CASE client.pin # NoPin
    BY <1>1, <1>2, <2>1 DEF Handshake, Verified
  <2>2. CASE client.pin = NoPin /\ Verified(client)
    BY <1>2, <2>2 DEF Verified
  <2>3. CASE client.pin = NoPin /\ ~Verified(client)
    <3>1. Fallback
      BY <1>1, <2>3 DEF Handshake
    <3>2. a.id \in alarmed' \cup {0}
      BY <1>1, <2>3
    <3>3. QED
      BY <1>2, <2>3, <3>1, <3>2
  <2>4. QED
    BY <2>1, <2>2, <2>3
<1> HIDE DEF a
<1>7. NodeTypeOK'
  BY <1>1, <1>3, <1>4, <1>5, Defaults DEF PinInv, NodeTypeOK
<1>8. ClientsMatch'
  BY <1>1 DEF PinInv, NodeTypeOK, ClientsMatch, NoCall
<1>9. AnswersArePinned'
  BY <1>1, <1>6 DEF AnswersArePinned
<1>10. QED
  BY <1>7, <1>8, <1>9 DEF PinInv

LEMMA PinStep == PinInv /\ [NodeNext]_nodeCallVars => PinInv'
<1> SUFFICES ASSUME PinInv, [NodeNext]_nodeCallVars
             PROVE  PinInv'
  OBVIOUS
<1>1. CASE UNCHANGED nodeCallVars
  BY <1>1 DEF nodeCallVars, PinInv, NodeTypeOK, ClientsMatch, AnswersArePinned
<1> DEFINE Admin == \/ \E p \in Places, c \in Certs : NodeAdd(p, c) \/ NodeCertChanges(p, c)
                    \/ \E i \in Ids : NodeRepinFetches(i) \/ NodeDelete(i) \/ NodeRestore(i)
                                    \/ NodeWindowEnds(i)
                    \/ NodeRepins
<1>2. CASE Admin
  <2>1. NodeTypeOK'
    BY <1>2, AdminType DEF PinInv
  <2>2. UNCHANGED <<alarmed, call, taken>>
    BY <1>2 DEF NodeAdd, NodeCertChanges, NodeRepinFetches, NodeDelete,
                NodeRestore, NodeWindowEnds, NodeRepins
  <2>3. QED
    BY <2>1, <2>2 DEF PinInv, ClientsMatch, AnswersArePinned
<1>3. ASSUME NEW c \in NodeCallers,
             \/ NodeSaves(c)
             \/ NodeLooks(c) \/ NodeInstalls(c) \/ NodeAnswers(c) \/ NodeFails(c)
             \/ \E i \in Ids :
                   \/ NodeReads(c, i)
                   \/ \E p \in Places, pins \in SUBSET Certs : NodeEdits(c, i, p, pins)
      PROVE  PinInv'
  BY <1>3, CallStep, AnswerStep, SaveStep, EditStep
<1>4. QED
  BY <1>1, <1>2, <1>3 DEF NodeNext

LEMMA PinAlways == NodeSpec => []PinInv
<1>1. NodeInit => PinInv
  <2> SUFFICES ASSUME NodeInit
               PROVE  PinInv
    OBVIOUS
  <2>1. \A c \in NodeCallers : call[c].pc = "none"
    BY DEF NodeInit, NoCall
  <2>2. taken = {}
    BY DEF NodeInit
  <2>3. QED
    BY <2>1, <2>2, NodeInitType DEF PinInv, ClientsMatch, AnswersArePinned
<1>2. QED
  BY <1>1, PinStep, PTL DEF NodeSpec

\* Rows, snapshots, clients and calls keep their types.
THEOREM NodeTypeCorrect == NodeSpec => []NodeTypeOK
<1>1. PinInv => NodeTypeOK
  BY DEF PinInv
<1>2. QED
  BY <1>1, PinAlways, PTL

\* Whatever is edited, pinned anew, deleted, restored or replaced while a call
\* runs, an answer that is taken was secured by the row its caller read, or by an
\* authority of the system, or went through the fallback on record; but for the
\* client an edit builds, whose fallback is not recorded.
THEOREM AnswersPinned == NodeSpec => []AnswersArePinned
<1>1. PinInv => AnswersArePinned
  BY DEF PinInv
<1>2. QED
  BY <1>1, PinAlways, PTL

-----------------------------------------------------------------------------
(* Alerts: no event is put aside before the owner has it.                  *)

\* An event that is marked as delivered, or that a pass is about to mark, reached
\* the owner.
MarksEarned ==
    /\ delivered \subseteq received
    /\ \A c \in Collectors :
          pass[c].pc \in {"deliver", "stamp"} =>
             pass[c].todo # {} /\ Foremost(c) \in received

AlertInv == AlertTypeOK /\ MarksEarned /\ NoEventLost

LEMMA LowestAndHighest ==
    ASSUME NEW S \in SUBSET EventIds, S # {}
    PROVE  Min(S) \in S /\ Max(S) \in S
<1>1. MaxEvents \in Nat /\ S \subseteq Nat /\ \A x \in S : x <= MaxEvents
  BY AlertAssumption DEF EventIds
<1>2. ASSUME NEW T \in SUBSET Nat, T # {}
      PROVE  \E x \in T : \A y \in T : x <= y
  <2>1. IsWellFoundedOn(OpToRel(<, Nat), Nat)
    BY NatLessThanWellFounded
  <2>2. \E x \in T : \A y \in T : ~ (<<y, x>> \in OpToRel(<, Nat))
    BY <1>2, <2>1, WFMin
  <2>3. PICK x \in T : \A y \in T : ~ (y < x)
    BY <1>2, <2>2 DEF OpToRel
  <2>4. \A y \in T : x <= y
    BY <1>2, <2>3
  <2>5. QED
    BY <2>4
<1>3. Min(S) \in S
  <2>1. \E x \in S : \A y \in S : x <= y
    BY <1>1, <1>2
  <2>2. QED
    BY <2>1, Zenon DEF Min
<1>4. Max(S) \in S
  <2> DEFINE T == {k \in Nat : \E x \in S : k + x = MaxEvents}
  <2>1. \A x \in S : MaxEvents - x \in T
    BY <1>1
  <2>2. T \in SUBSET Nat /\ T # {}
    BY <2>1
  <2>3. PICK t \in T : \A u \in T : t <= u
    <3> HIDE DEF T
    <3>1. QED
      BY <1>2, <2>2
  <2>4. PICK x \in S : t + x = MaxEvents
    BY <2>3
  <2>5. \A y \in S : t <= MaxEvents - y
    BY <2>1, <2>3
  <2>6. \A y \in S : x >= y
    BY <1>1, <2>3, <2>4, <2>5
  <2>7. QED
    BY <2>4, <2>6, Zenon DEF Max
<1>5. QED
  BY <1>3, <1>4

LEMMA PassTakes ==
    ASSUME AlertTypeOK, NEW c \in Collectors, NEW r \in PassState,
           pass' = [pass EXCEPT ![c] = r]
    PROVE  /\ pass' \in [Collectors -> PassState] /\ pass'[c] = r
           /\ \A d \in Collectors : d # c => pass'[d] = pass[d]
BY DEF AlertTypeOK

\* A pass that holds no marked row after its step, and no step of the rows.
LEMMA QuietStep ==
    ASSUME AlertInv, NEW c \in Collectors, NEW r \in PassState,
           pass' = [pass EXCEPT ![c] = r], r.pc \notin {"deliver", "stamp"},
           UNCHANGED <<alertDb, received>>
    PROVE  /\ pass' \in [Collectors -> PassState] /\ MarksEarned' /\ NoEventLost'
<1>1. /\ pass' \in [Collectors -> PassState] /\ pass'[c] = r
      /\ \A d \in Collectors : d # c => pass'[d] = pass[d]
  BY PassTakes DEF AlertInv
<1>2. MarksEarned'
  BY <1>1 DEF AlertInv, MarksEarned, Foremost, alertDb
<1>3. NoEventLost'
  BY DEF AlertInv, NoEventLost, Enrolled, alertDb
<1>4. QED
  BY <1>1, <1>2, <1>3

LEMMA NoPassTypes == NoPass \in PassState
BY AlertAssumption DEF NoPass, PassState, EventIds

-----------------------------------------------------------------------------
\* The steps before and between the messages.
LEMMA CollectStep ==
    ASSUME AlertInv, NEW c \in Collectors, Collect(c)
    PROVE  AlertInv'
<1> DEFINE r == [NoPass EXCEPT !.pc = "nodes", !.row = ProbeRow]
<1>1. /\ pass' = [pass EXCEPT ![c] = r]
      /\ UNCHANGED <<alertWorld, alertDb, alertMem, alertSeen, restarts>>
  BY DEF Collect
<1>2. ProbeRow \in {"up", "down", "none"}
  BY DEF ProbeRow, AlertInv, AlertTypeOK
<1>3. r \in PassState /\ r.pc = "nodes"
  BY <1>2, NoPassTypes DEF PassState
<1>4. asked' \in 0 .. MaxAsked
  <2>1. asked \in 0 .. MaxAsked /\ MaxAsked \in Nat
    BY AlertAssumption DEF AlertInv, AlertTypeOK
  <2>2. QED
    BY <2>1 DEF Collect
<1> HIDE DEF r
<1>5. pass' \in [Collectors -> PassState] /\ MarksEarned' /\ NoEventLost'
  BY <1>1, <1>3, QuietStep DEF alertSeen
<1>6. QED
  BY <1>1, <1>4, <1>5 DEF AlertInv, AlertTypeOK, alertWorld, alertDb, alertMem, alertSeen

LEMMA MessageStep ==
    ASSUME AlertInv, NEW c \in Collectors,
           NodeChecked(c) \/ NodeSent(c) \/ ItemsRead(c)
    PROVE  AlertInv'
<1>1. pass[c] \in PassState
  BY DEF AlertInv, AlertTypeOK
<1>2. /\ known' \in {"up", "down", "none"} /\ alerted' \in BOOLEAN /\ cooling' \in BOOLEAN
      /\ told' \in {"none", "up", "down"}
      /\ UNCHANGED <<alertWorld, alertDb, received, asked, restarts>>
  <2>1. CASE NodeChecked(c)
    BY <1>1, <2>1, Zenon
    DEF NodeChecked, AlertInv, AlertTypeOK, PassState, alertWorld, alertDb, alertMem,
        alertSeen
  <2>2. CASE NodeSent(c)
    BY <1>1, <2>2 DEF NodeSent, AlertInv, AlertTypeOK, PassState
  <2>3. CASE ItemsRead(c)
    BY <2>3 DEF ItemsRead, AlertInv, AlertTypeOK, alertMem, alertSeen
  <2>4. QED
    BY <2>1, <2>2, <2>3
<1>3. PICK r \in PassState : /\ pass' = [pass EXCEPT ![c] = r]
                             /\ r.pc \notin {"deliver", "stamp"}
  <2>1. CASE NodeChecked(c)
    <3> DEFINE row == pass[c].row
               tells == /\ known # "none"
                        /\ \/ row = "down" /\ ~alerted /\ ~cooling
                           \/ row = "up" /\ alerted
               tell == IF tells THEN row ELSE pass[c].tells
               pc == IF tells THEN "send" ELSE "items"
               s == [pass[c] EXCEPT !.row = "none", !.tells = tell, !.pc = pc]
    <3>1. pass' = [pass EXCEPT ![c].row = "none", ![c].tells = tell, ![c].pc = pc]
      BY <2>1 DEF NodeChecked
    <3>2. tell \in {"up", "down"} /\ pc \in {"send", "items"}
      <4>1. pass[c].tells \in {"up", "down"}
        BY <1>1 DEF PassState
      <4>2. QED
        BY <4>1
    <3> HIDE DEF tell, pc
    <3>3. pass' = [pass EXCEPT ![c] = s]
      BY <3>1 DEF AlertInv, AlertTypeOK
    <3>4. s \in PassState /\ s.pc \notin {"deliver", "stamp"}
      BY <1>1, <3>2 DEF PassState
    <3>5. QED
      BY <3>3, <3>4
  <2>2. CASE NodeSent(c)
    <3> DEFINE s == [pass[c] EXCEPT !.pc = "items", !.tells = "up"]
    <3>1. pass' = [pass EXCEPT ![c].pc = "items", ![c].tells = "up"]
      BY <2>2 DEF NodeSent
    <3>2. pass' = [pass EXCEPT ![c] = s]
      BY <3>1 DEF AlertInv, AlertTypeOK
    <3>3. s \in PassState /\ s.pc \notin {"deliver", "stamp"}
      BY <1>1 DEF PassState
    <3>4. QED
      BY <3>2, <3>3
  <2>3. CASE ItemsRead(c)
    <3> DEFINE s == [pass[c] EXCEPT !.pc = "record", !.item = condition]
    <3>1. pass' = [pass EXCEPT ![c].pc = "record", ![c].item = condition]
      BY <2>3 DEF ItemsRead
    <3>2. pass' = [pass EXCEPT ![c] = s]
      BY <3>1 DEF AlertInv, AlertTypeOK
    <3>3. s \in PassState /\ s.pc \notin {"deliver", "stamp"}
      BY <1>1 DEF PassState, AlertInv, AlertTypeOK
    <3>4. QED
      BY <3>2, <3>3
  <2>4. QED
    BY <2>1, <2>2, <2>3
<1>4. pass' \in [Collectors -> PassState] /\ MarksEarned' /\ NoEventLost'
  BY <1>2, <1>3, QuietStep
<1>5. QED
  BY <1>2, <1>4 DEF AlertInv, AlertTypeOK, alertWorld, alertDb

LEMMA RecordedStep ==
    ASSUME AlertInv, NEW c \in Collectors, EventRecorded(c)
    PROVE  AlertInv'
<1> DEFINE s == [pass[c] EXCEPT !.pc = "query", !.item = Clear]
           row == [signature |-> pass[c].item, promoted |-> FALSE, kept |-> TRUE]
<1>1. /\ pass' = [pass EXCEPT ![c].pc = "query", ![c].item = Clear]
      /\ events' = events \/ (Len(events) < MaxEvents /\ events' = Append(events, row))
      /\ UNCHANGED <<alertWorld, delivered, alertMem, alertSeen, asked, restarts>>
  BY DEF EventRecorded, Room
<1>2. pass' = [pass EXCEPT ![c] = s]
  BY <1>1 DEF AlertInv, AlertTypeOK
<1>3. /\ pass[c] \in PassState /\ pass[c].item \in Conditions \cup {Clear}
      /\ events \in Seq(AuditRow) /\ Len(events) <= MaxEvents
  BY DEF AlertInv, AlertTypeOK, PassState
<1>4. s \in PassState /\ s.pc \notin {"deliver", "stamp"}
  BY <1>3 DEF PassState
<1>5. row \in AuditRow
  BY <1>3 DEF AuditRow
<1> HIDE DEF s
<1>6. /\ pass' \in [Collectors -> PassState] /\ pass'[c] = s
      /\ \A d \in Collectors : d # c => pass'[d] = pass[d]
  BY <1>2, <1>4, PassTakes DEF AlertInv
<1>7. MarksEarned'
  BY <1>1, <1>4, <1>6 DEF AlertInv, MarksEarned, Foremost, alertSeen
<1>8. /\ events' \in Seq(AuditRow) /\ Len(events') <= MaxEvents
      /\ \A e \in DOMAIN events' : \/ e \in DOMAIN events /\ events'[e] = events[e]
                                   \/ events'[e] = row
  <2>1. CASE events' = events
    BY <1>3, <2>1
  <2>2. CASE Len(events) < MaxEvents /\ events' = Append(events, row)
    <3>1. /\ events' \in Seq(AuditRow) /\ Len(events') = Len(events) + 1
          /\ \A e \in 1 .. Len(events) : events'[e] = events[e]
          /\ events'[Len(events) + 1] = row
      BY <1>3, <1>5, <2>2
    <3>2. DOMAIN events' = 1 .. Len(events) + 1 /\ DOMAIN events = 1 .. Len(events)
          /\ Len(events) \in Nat
      BY <1>3, <3>1
    <3>3. MaxEvents \in Nat
      BY AlertAssumption
    <3>4. QED
      BY <2>2, <3>1, <3>2, <3>3
  <2>3. QED
    BY <1>1, <2>1, <2>2
<1>9. NoEventLost'
  <2>1. ASSUME NEW e \in DOMAIN events', Enrolled(e)',
               ~events'[e].kept \/ events'[e].promoted \/ e \in delivered'
        PROVE  e \in received'
    <3>1. CASE e \in DOMAIN events /\ events'[e] = events[e]
      BY <1>1, <2>1, <3>1 DEF AlertInv, NoEventLost, Enrolled, alertSeen
    <3>2. CASE events'[e] = row
      BY <1>1, <2>1, <3>2 DEF AlertInv, MarksEarned, alertSeen
    <3>3. QED
      BY <1>8, <3>1, <3>2
  <2>2. QED
    BY <2>1 DEF NoEventLost
<1>10. QED
  BY <1>1, <1>6, <1>7, <1>8, <1>9
  DEF AlertInv, AlertTypeOK, alertWorld, alertMem, alertSeen

-----------------------------------------------------------------------------
\* The promotion.
LEMMA QueriedStep ==
    ASSUME AlertInv, NEW c \in Collectors, Queried(c)
    PROVE  AlertInv'
<1> DEFINE batch == Batch(ScanFrom(c))
           full == Cardinality(batch) = AlertBatch
           after == IF batch = {} THEN pass[c].after ELSE Max(batch)
           s == [pass[c] EXCEPT !.pc = "promote", !.todo = batch, !.full = full,
                                !.after = after]
<1>1. /\ pass' = [pass EXCEPT ![c].pc = "promote", ![c].todo = batch, ![c].full = full,
                              ![c].after = after]
      /\ UNCHANGED <<alertWorld, alertDb, alertMem, alertSeen, asked, restarts>>
  BY DEF Queried
<1>2. pass[c] \in PassState /\ MaxEvents \in Nat /\ events \in Seq(AuditRow)
      /\ Len(events) <= MaxEvents
  BY AlertAssumption DEF AlertInv, AlertTypeOK
<1>3. batch \in SUBSET EventIds
  <2>1. DOMAIN events \subseteq EventIds
    <3>1. DOMAIN events = 1 .. Len(events) /\ Len(events) \in Nat
      BY <1>2
    <3>2. QED
      BY <1>2, <3>1 DEF EventIds
  <2>2. batch \subseteq DOMAIN events
    BY DEF Batch, Pending
  <2>3. QED
    BY <2>1, <2>2
<1> HIDE DEF batch
<1>4. after \in 0 .. MaxEvents
  <2>1. CASE batch = {}
    BY <1>2, <2>1 DEF PassState
  <2>2. CASE batch # {}
    <3>1. Max(batch) \in 1 .. MaxEvents
      BY <1>3, <2>2, LowestAndHighest DEF EventIds
    <3>2. QED
      BY <1>2, <2>2, <3>1
  <2>3. QED
    BY <2>1, <2>2
<1>5. full \in BOOLEAN
  OBVIOUS
<1> HIDE DEF full, after
<1>6. pass' = [pass EXCEPT ![c] = s]
  BY <1>1 DEF AlertInv, AlertTypeOK
<1>7. s \in PassState /\ s.pc = "promote"
  BY <1>2, <1>3, <1>4, <1>5 DEF PassState
<1> HIDE DEF s
<1>8. pass' \in [Collectors -> PassState] /\ MarksEarned' /\ NoEventLost'
  BY <1>1, <1>6, <1>7, QuietStep DEF alertSeen
<1>9. QED
  BY <1>1, <1>8 DEF AlertInv, AlertTypeOK, alertWorld, alertDb, alertMem, alertSeen

LEMMA BatchDoneStep ==
    ASSUME AlertInv, NEW c \in Collectors, BatchDone(c)
    PROVE  AlertInv'
<1>1. /\ UNCHANGED <<alertWorld, alertDb, alertMem, alertSeen, asked, restarts>>
      /\ \/ pass' = [pass EXCEPT ![c].pc = "query"]
         \/ pass' = [pass EXCEPT ![c] = [NoPass EXCEPT !.pc = "prune"]]
  BY DEF BatchDone, Passes
<1>2. PICK r \in PassState : /\ pass' = [pass EXCEPT ![c] = r]
                             /\ r.pc \notin {"deliver", "stamp"}
  <2>1. CASE pass' = [pass EXCEPT ![c].pc = "query"]
    <3> DEFINE s == [pass[c] EXCEPT !.pc = "query"]
    <3>1. pass' = [pass EXCEPT ![c] = s]
      BY <2>1 DEF AlertInv, AlertTypeOK
    <3>2. s \in PassState /\ s.pc = "query"
      BY DEF AlertInv, AlertTypeOK, PassState
    <3>3. QED
      BY <3>1, <3>2
  <2>2. CASE pass' = [pass EXCEPT ![c] = [NoPass EXCEPT !.pc = "prune"]]
    <3>1. /\ [NoPass EXCEPT !.pc = "prune"] \in PassState
          /\ [NoPass EXCEPT !.pc = "prune"].pc = "prune"
      BY NoPassTypes DEF PassState
    <3>2. QED
      BY <2>2, <3>1
  <2>3. QED
    BY <1>1, <2>1, <2>2
<1>3. pass' \in [Collectors -> PassState] /\ MarksEarned' /\ NoEventLost'
  BY <1>1, <1>2, QuietStep DEF alertSeen
<1>4. QED
  BY <1>1, <1>3 DEF AlertInv, AlertTypeOK, alertWorld, alertDb, alertMem, alertSeen

LEMMA SentStep ==
    ASSUME AlertInv, NEW c \in Collectors, EventSent(c)
    PROVE  AlertInv'
<1> DEFINE e == Foremost(c)
<1>1. /\ pass[c].todo # {}
      /\ UNCHANGED <<alertWorld, alertDb, alertMem, told, asked, restarts>>
  BY DEF EventSent
<1>2. pass[c] \in PassState /\ pass[c].todo \in SUBSET EventIds
  BY DEF AlertInv, AlertTypeOK, PassState
<1>3. e \in EventIds
  BY <1>1, <1>2, LowestAndHighest DEF Foremost
<1>4. /\ received' = received \/ received' = received \cup {e}
      /\ \/ pass' = [pass EXCEPT ![c].pc = "deliver"] /\ e \in received'
         \/ pass' = [pass EXCEPT ![c].todo = Rest(c)] /\ pass[c].pc = "promote"
  BY DEF EventSent, CountsAsSent
<1>5. received' \in SUBSET EventIds /\ received \subseteq received'
  BY <1>3, <1>4 DEF AlertInv, AlertTypeOK
<1>6. PICK r \in PassState : /\ pass' = [pass EXCEPT ![c] = r]
                             /\ r.pc \in {"deliver", "stamp"} =>
                                   r.todo = pass[c].todo /\ e \in received'
  <2>1. CASE pass' = [pass EXCEPT ![c].pc = "deliver"] /\ e \in received'
    <3> DEFINE s == [pass[c] EXCEPT !.pc = "deliver"]
    <3>1. pass' = [pass EXCEPT ![c] = s]
      BY <2>1 DEF AlertInv, AlertTypeOK
    <3>2. s \in PassState /\ s.todo = pass[c].todo
      BY <1>2 DEF PassState
    <3>3. QED
      BY <2>1, <3>1, <3>2
  <2>2. CASE pass' = [pass EXCEPT ![c].todo = Rest(c)] /\ pass[c].pc = "promote"
    <3> DEFINE s == [pass[c] EXCEPT !.todo = Rest(c)]
    <3>1. pass' = [pass EXCEPT ![c] = s]
      BY <2>2 DEF AlertInv, AlertTypeOK
    <3>2. s \in PassState /\ s.pc = "promote"
      BY <1>2, <2>2 DEF PassState, Rest
    <3>3. QED
      BY <3>1, <3>2
  <2>3. QED
    BY <1>4, <2>1, <2>2
<1>7. /\ pass' \in [Collectors -> PassState] /\ pass'[c] = r
      /\ \A d \in Collectors : d # c => pass'[d] = pass[d]
  BY <1>6, PassTakes DEF AlertInv
<1>8. MarksEarned'
  <2>1. delivered' \subseteq received'
    BY <1>1, <1>5 DEF AlertInv, MarksEarned, alertDb
  <2>2. ASSUME NEW d \in Collectors, pass'[d].pc \in {"deliver", "stamp"}
        PROVE  pass'[d].todo # {} /\ Min(pass'[d].todo) \in received'
    <3>1. CASE d = c
      BY <1>1, <1>6, <1>7, <2>2, <3>1 DEF Foremost
    <3>2. CASE d # c
      BY <1>5, <1>7, <2>2, <3>2 DEF AlertInv, MarksEarned, Foremost
    <3>3. QED
      BY <3>1, <3>2
  <2>3. QED
    BY <2>1, <2>2 DEF MarksEarned, Foremost
<1>9. NoEventLost'
  BY <1>1, <1>5 DEF AlertInv, NoEventLost, Enrolled, alertDb
<1>10. QED
  BY <1>1, <1>5, <1>7, <1>8, <1>9 DEF AlertInv, AlertTypeOK, alertWorld, alertDb, alertMem

LEMMA DeliveredStep ==
    ASSUME AlertInv, NEW c \in Collectors, EventDelivered(c)
    PROVE  AlertInv'
<1> DEFINE s == [pass[c] EXCEPT !.pc = "stamp"]
<1>1. /\ pass[c].pc = "deliver" /\ delivered' = delivered \cup {Foremost(c)}
      /\ pass' = [pass EXCEPT ![c].pc = "stamp"]
      /\ UNCHANGED <<alertWorld, events, alertMem, alertSeen, asked, restarts>>
  BY DEF EventDelivered, Passes
<1>2. pass' = [pass EXCEPT ![c] = s]
  BY <1>1 DEF AlertInv, AlertTypeOK
<1>3. pass[c].todo # {} /\ Foremost(c) \in received
  BY <1>1 DEF AlertInv, MarksEarned
<1>4. s \in PassState /\ s.todo = pass[c].todo
  BY DEF AlertInv, AlertTypeOK, PassState
<1> HIDE DEF s
<1>5. /\ pass' \in [Collectors -> PassState] /\ pass'[c] = s
      /\ \A d \in Collectors : d # c => pass'[d] = pass[d]
  BY <1>2, <1>4, PassTakes DEF AlertInv
<1>6. delivered' \subseteq received /\ delivered' \subseteq EventIds
  BY <1>1, <1>3 DEF AlertInv, AlertTypeOK, MarksEarned
<1>7. MarksEarned'
  BY <1>1, <1>3, <1>4, <1>5, <1>6 DEF AlertInv, MarksEarned, Foremost, alertSeen
<1>8. NoEventLost'
  BY <1>1, <1>6 DEF AlertInv, NoEventLost, Enrolled, alertSeen
<1>9. QED
  BY <1>1, <1>5, <1>6, <1>7, <1>8 DEF AlertInv, AlertTypeOK, alertWorld, alertMem, alertSeen

LEMMA StampedStep ==
    ASSUME AlertInv, NEW c \in Collectors, EventStamped(c)
    PROVE  AlertInv'
<1> DEFINE e == Foremost(c)
           s == [pass[c] EXCEPT !.pc = "promote", !.todo = Rest(c)]
<1>1. /\ pass[c].pc = "stamp" /\ events' = [events EXCEPT ![e].promoted = TRUE]
      /\ pass' = [pass EXCEPT ![c].pc = "promote", ![c].todo = Rest(c)]
      /\ UNCHANGED <<alertWorld, delivered, alertMem, alertSeen, asked, restarts>>
  BY DEF EventStamped
<1>2. pass' = [pass EXCEPT ![c] = s]
  BY <1>1 DEF AlertInv, AlertTypeOK
<1>3. e \in received
  BY <1>1 DEF AlertInv, MarksEarned
<1>4. s \in PassState /\ s.pc = "promote"
  BY DEF AlertInv, AlertTypeOK, PassState, Rest
<1> HIDE DEF s, e
<1>5. /\ pass' \in [Collectors -> PassState] /\ pass'[c] = s
      /\ \A d \in Collectors : d # c => pass'[d] = pass[d]
  BY <1>2, <1>4, PassTakes DEF AlertInv
<1>6. MarksEarned'
  BY <1>1, <1>4, <1>5 DEF AlertInv, MarksEarned, Foremost, alertSeen
<1>7. /\ events \in [1 .. Len(events) -> AuditRow] /\ Len(events) \in Nat
      /\ Len(events) <= MaxEvents
  BY DEF AlertInv, AlertTypeOK
<1>8. /\ events' \in [1 .. Len(events) -> AuditRow]
      /\ \A x \in DOMAIN events : /\ events'[x].signature = events[x].signature
                                  /\ events'[x].kept = events[x].kept
                                  /\ x # e => events'[x] = events[x]
  <2>1. \A x \in 1 .. Len(events) : [events[x] EXCEPT !.promoted = TRUE] \in AuditRow
    BY <1>7 DEF AuditRow
  <2>2. QED
    BY <1>1, <1>7, <2>1 DEF AuditRow
<1>9. /\ events' \in Seq(AuditRow) /\ Len(events') = Len(events)
      /\ DOMAIN events' = DOMAIN events
  BY <1>7, <1>8
<1>10. NoEventLost'
  BY <1>1, <1>3, <1>8, <1>9 DEF AlertInv, NoEventLost, Enrolled, alertSeen
<1>11. QED
  BY <1>1, <1>5, <1>6, <1>7, <1>9, <1>10
  DEF AlertInv, AlertTypeOK, alertWorld, alertMem, alertSeen

LEMMA PrunedStep ==
    ASSUME AlertInv, NEW c \in Collectors, Pruned(c)
    PROVE  AlertInv'
<1>1. PICK old \in 0 .. Len(events) :
         events' = [e \in DOMAIN events |->
            [events[e] EXCEPT !.kept = events[e].kept /\ ~(e <= old /\ Prunable(e))]]
  BY DEF Pruned
<1>2. /\ pass' = [pass EXCEPT ![c] = NoPass]
      /\ UNCHANGED <<alertWorld, delivered, alertMem, alertSeen, asked, restarts>>
  BY DEF Pruned
<1>3. /\ pass' \in [Collectors -> PassState] /\ pass'[c] = NoPass
      /\ \A d \in Collectors : d # c => pass'[d] = pass[d]
  BY <1>2, NoPassTypes, PassTakes DEF AlertInv
<1>4. MarksEarned'
  BY <1>2, <1>3 DEF AlertInv, MarksEarned, Foremost, alertSeen, NoPass
<1>5. /\ events \in [1 .. Len(events) -> AuditRow] /\ Len(events) \in Nat
      /\ Len(events) <= MaxEvents /\ DOMAIN events = 1 .. Len(events)
  BY DEF AlertInv, AlertTypeOK
<1>6. ASSUME NEW x \in DOMAIN events
      PROVE  /\ events'[x] \in AuditRow /\ events'[x].signature = events[x].signature
             /\ events'[x].promoted = events[x].promoted
             /\ ~events'[x].kept => ~events[x].kept \/ Prunable(x)
  <2> DEFINE keep == events[x].kept /\ ~(x <= old /\ Prunable(x))
  <2>1. /\ events'[x] = [events[x] EXCEPT !.kept = keep] /\ events[x] \in AuditRow
        /\ keep \in BOOLEAN
    BY <1>1, <1>5
  <2>2. ~keep => ~events[x].kept \/ Prunable(x)
    OBVIOUS
  <2> HIDE DEF keep
  <2>3. QED
    BY <2>1, <2>2 DEF AuditRow
<1>7. /\ events' \in [1 .. Len(events) -> AuditRow]
      /\ DOMAIN events' = DOMAIN events
  BY <1>1, <1>5, <1>6
<1>8. events' \in Seq(AuditRow) /\ Len(events') = Len(events)
  BY <1>5, <1>7
<1>9. NoEventLost'
  <2>1. ASSUME NEW x \in DOMAIN events, Enrolled(x)',
               ~events'[x].kept \/ events'[x].promoted \/ x \in delivered
        PROVE  x \in received
    <3>1. Enrolled(x)
      BY <1>6, <2>1 DEF Enrolled
    <3>2. ~events[x].kept \/ events[x].promoted \/ x \in delivered
      BY <1>6, <2>1, <3>1 DEF Prunable
    <3>3. QED
      BY <3>1, <3>2 DEF AlertInv, NoEventLost
  <2>2. QED
    BY <1>2, <1>7, <2>1 DEF NoEventLost, alertSeen
<1>10. QED
  BY <1>2, <1>3, <1>4, <1>5, <1>8, <1>9
  DEF AlertInv, AlertTypeOK, alertWorld, alertMem, alertSeen

-----------------------------------------------------------------------------
\* The world, and restarts.
LEMMA SurroundingsStep ==
    ASSUME AlertInv, CooldownEnds \/ ConditionChanges \/ NodeChanges \/ BotChanges
    PROVE  AlertInv'
<1>1. UNCHANGED <<topic, alertDb, known, alerted, pass, alertSeen, asked, restarts>>
  BY DEF CooldownEnds, ConditionChanges, NodeChanges, BotChanges, alertWorld, alertMem
<1>2. /\ condition' \in Conditions \cup {Clear}
      /\ node' \in {"answers", "refuses", "silent"}
      /\ bot' \in {"works", "fails"} /\ cooling' \in BOOLEAN
  BY DEF CooldownEnds, ConditionChanges, NodeChanges, BotChanges, alertWorld, alertMem,
         AlertInv, AlertTypeOK
<1>3. AlertTypeOK'
  BY <1>1, <1>2 DEF AlertInv, AlertTypeOK, alertDb, alertSeen
<1>4. MarksEarned' /\ NoEventLost'
  BY <1>1 DEF AlertInv, MarksEarned, Foremost, NoEventLost, Enrolled, alertDb, alertSeen
<1>5. QED
  BY <1>3, <1>4 DEF AlertInv

LEMMA RestartStep == AlertInv /\ AlertPanelRestarts => AlertInv'
<1> SUFFICES ASSUME AlertInv, AlertPanelRestarts
             PROVE  AlertInv'
  OBVIOUS
<1>1. /\ pass' = [c \in Collectors |-> NoPass]
      /\ known' = "none" /\ alerted' = FALSE /\ cooling' = FALSE
      /\ UNCHANGED <<alertWorld, alertDb, alertSeen, asked>>
  BY DEF AlertPanelRestarts
<1>2. restarts' \in 0 .. MaxRestarts
  <2>1. restarts \in 0 .. MaxRestarts /\ MaxRestarts \in Nat
    BY AlertAssumption DEF AlertInv, AlertTypeOK
  <2>2. QED
    BY <2>1 DEF AlertPanelRestarts
<1>3. AlertTypeOK'
  BY <1>1, <1>2, NoPassTypes DEF AlertInv, AlertTypeOK, alertWorld, alertDb, alertSeen
<1>4. MarksEarned'
  BY <1>1 DEF AlertInv, MarksEarned, NoPass, alertDb, alertSeen
<1>5. NoEventLost'
  BY <1>1 DEF AlertInv, NoEventLost, Enrolled, alertDb, alertSeen
<1>6. QED
  BY <1>3, <1>4, <1>5 DEF AlertInv

LEMMA AlertStep == AlertInv /\ [AlertNext]_alertVars => AlertInv'
<1> SUFFICES ASSUME AlertInv, [AlertNext]_alertVars
             PROVE  AlertInv'
  OBVIOUS
<1>1. CASE UNCHANGED alertVars
  <2>1. AlertTypeOK'
    BY <1>1 DEF AlertInv, AlertTypeOK, alertVars, alertWorld, alertDb, alertMem, alertSeen
  <2>2. MarksEarned' /\ NoEventLost'
    BY <1>1 DEF AlertInv, MarksEarned, Foremost, NoEventLost, Enrolled, alertVars, alertDb,
                alertSeen
  <2>3. QED
    BY <2>1, <2>2 DEF AlertInv
<1>2. ASSUME NEW c \in Collectors, Collect(c) \/ PassMoves(c)
      PROVE  AlertInv'
  BY <1>2, CollectStep, MessageStep, RecordedStep, QueriedStep, BatchDoneStep, SentStep,
     DeliveredStep, StampedStep, PrunedStep DEF PassMoves
<1>3. CASE CooldownEnds \/ ConditionChanges \/ NodeChanges \/ BotChanges
  BY <1>3, SurroundingsStep
<1>4. CASE AlertPanelRestarts
  BY <1>4, RestartStep
<1>5. QED
  BY <1>1, <1>2, <1>3, <1>4 DEF AlertNext

LEMMA AlertStart == AlertInit => AlertInv
<1> SUFFICES ASSUME AlertInit
             PROVE  AlertInv
  OBVIOUS
<1>1. <<>> \in Seq(AuditRow) /\ Len(<<>>) <= MaxEvents
  BY AlertAssumption
<1>2. AlertTypeOK
  <2>1. /\ events \in Seq(AuditRow) /\ Len(events) <= MaxEvents
        /\ asked \in 0 .. MaxAsked /\ restarts \in 0 .. MaxRestarts
    BY <1>1, AlertAssumption DEF AlertInit
  <2>2. pass \in [Collectors -> PassState]
    BY NoPassTypes DEF AlertInit
  <2>3. /\ topic \in {"node", "threshold"} /\ condition \in Conditions \cup {Clear}
        /\ node \in {"answers", "refuses", "silent"} /\ bot \in {"works", "fails"}
        /\ delivered = {} /\ received = {} /\ known = "none" /\ told = "none"
    BY DEF AlertInit
  <2>4. alerted \in BOOLEAN /\ cooling \in BOOLEAN
    BY DEF AlertInit
  <2>5. QED
    BY <2>1, <2>2, <2>3, <2>4 DEF AlertTypeOK
<1>3. MarksEarned
  BY DEF AlertInit, MarksEarned, NoPass
<1>4. NoEventLost
  BY DEF AlertInit, NoEventLost
<1>5. QED
  BY <1>2, <1>3, <1>4 DEF AlertInv

LEMMA AlertAlways == AlertInit /\ [][AlertNext]_alertVars => []AlertInv
BY AlertStart, AlertStep, PTL

-----------------------------------------------------------------------------
(* Live view: the nodes' states are on their way to every browser that     *)
(* does not show them.                                                     *)

\* A "nodes" event waits in the queue.
Queued(q) == \E i \in DOMAIN q : q[i] = "nodes"

\* What will make b fetch again.
Awaits(b) ==
    \/ b \notin subs \/ b \in fetching \/ Queued(queue[b]) \/ poll.pc = "nodes"
    \/ \E p \in Publishers : publishing[p].topic = "nodes" /\ b \in publishing[p].to

\* A call sends only to browsers that are still there, and has taken an event
\* out only of queues that count as overflowed.
CallsInOrder ==
    \A p \in Publishers : /\ publishing[p].to \subseteq subs
                          /\ publishing[p].drop \subseteq publishing[p].to \cap overflowed

\* Its page is of no snapshot, or agrees with this one as far as it was told.
InView(b) ==
    \/ ~view[b].fresh
    \/ /\ \A n \in NodeNames : shown[n] = "up" => view[b].nodes[n] = "up"
       /\ b \in misled \/ view[b].nodes = shown

Shows == \A b \in Browsers : Awaits(b) \/ b \in overflowed \/ InView(b)

\* A node on its grace missed the last poll; one that a poll just missed again
\* missed two.
GraceEarned ==
    \A n \in NodeNames :
        /\ poll.pc = "gathered" /\ n \notin poll.online => unanswered[n] >= 1
        /\ shown[n] = "up" /\ grace[n] # "none" =>
              /\ poll.pc # "gathered" => unanswered[n] >= 1
              /\ poll.pc = "gathered" /\ n \notin poll.online => unanswered[n] = 2

LiveInv == LiveTypeOK /\ CallsInOrder /\ Shows /\ GraceEarned

LEMMA SeenIsShown == LiveTypeOK => (WatchersSeeNodes <=> Shows)
BY Zenon DEF LiveTypeOK, WatchersSeeNodes, Settled, Shows, InView, Awaits, Queued

LEMMA Appended ==
    ASSUME NEW q \in Seq(Topics), NEW t \in Topics
    PROVE  /\ Append(q, t) \in Seq(Topics) /\ Len(Append(q, t)) = Len(q) + 1
           /\ Queued(Append(q, t)) <=> Queued(q) \/ t = "nodes"
<1>1. /\ Append(q, t) \in Seq(Topics) /\ Len(Append(q, t)) = Len(q) + 1
      /\ \A i \in 1 .. Len(q) : Append(q, t)[i] = q[i]
      /\ Append(q, t)[Len(q) + 1] = t
  OBVIOUS
<1>2. DOMAIN Append(q, t) = 1 .. Len(q) + 1 /\ DOMAIN q = 1 .. Len(q) /\ Len(q) \in Nat
  BY <1>1
<1>3. ASSUME Queued(Append(q, t)) PROVE Queued(q) \/ t = "nodes"
  <2>1. PICK i \in 1 .. Len(q) + 1 : Append(q, t)[i] = "nodes"
    BY <1>2, <1>3 DEF Queued
  <2>2. CASE i = Len(q) + 1
    BY <1>1, <2>1, <2>2
  <2>3. CASE i # Len(q) + 1
    <3>1. i \in 1 .. Len(q)
      BY <1>2, <2>3
    <3>2. QED
      BY <1>1, <1>2, <2>1, <3>1 DEF Queued
  <2>4. QED
    BY <2>2, <2>3
<1>4. ASSUME Queued(q) PROVE Queued(Append(q, t))
  <2>1. PICK i \in 1 .. Len(q) : q[i] = "nodes"
    BY <1>2, <1>4 DEF Queued
  <2>2. i \in DOMAIN Append(q, t) /\ Append(q, t)[i] = "nodes"
    BY <1>1, <1>2, <2>1
  <2>3. QED
    BY <2>2 DEF Queued
<1>5. ASSUME t = "nodes" PROVE Queued(Append(q, t))
  <2>1. Len(q) + 1 \in DOMAIN Append(q, t) /\ Append(q, t)[Len(q) + 1] = "nodes"
    BY <1>1, <1>2, <1>5
  <2>2. QED
    BY <2>1 DEF Queued
<1>6. QED
  BY <1>1, <1>3, <1>4, <1>5

LEMMA Taken ==
    ASSUME NEW q \in Seq(Topics), q # <<>>
    PROVE  /\ Tail(q) \in Seq(Topics) /\ Len(Tail(q)) = Len(q) - 1
           /\ Queued(q) /\ Head(q) # "nodes" => Queued(Tail(q))
<1>1. /\ Tail(q) \in Seq(Topics) /\ Len(Tail(q)) = Len(q) - 1 /\ Len(q) \in Nat \ {0}
      /\ \A i \in 1 .. Len(q) - 1 : Tail(q)[i] = q[i + 1]
      /\ Head(q) = q[1]
  OBVIOUS
<1>2. DOMAIN Tail(q) = 1 .. Len(q) - 1 /\ DOMAIN q = 1 .. Len(q)
  BY <1>1
<1>3. ASSUME Queued(q), Head(q) # "nodes" PROVE Queued(Tail(q))
  <2>1. PICK i \in 1 .. Len(q) : q[i] = "nodes"
    BY <1>2, <1>3 DEF Queued
  <2>2. i # 1
    BY <1>1, <1>3, <2>1
  <2>3. i - 1 \in 1 .. Len(q) - 1 /\ (i - 1) + 1 = i
    BY <1>1, <2>2
  <2>4. Tail(q)[i - 1] = "nodes"
    BY <1>1, <2>1, <2>3
  <2>5. QED
    BY <1>2, <2>3, <2>4 DEF Queued
<1>4. QED
  BY <1>1, <1>3

-----------------------------------------------------------------------------
\* What the page needs of a step that leaves snapshot and pages alone.
LEMMA StillShown ==
    ASSUME Shows, UNCHANGED <<shown, view, misled>>,
           \A b \in Browsers : b \in overflowed => Awaits(b)' \/ b \in overflowed',
           \A b \in Browsers : Awaits(b) => Awaits(b)' \/ b \in overflowed'
    PROVE  Shows'
BY Zenon DEF Shows, InView

\* The grace needs nothing of a step of the bus or of a page.
LEMMA StillEarned ==
    ASSUME GraceEarned, UNCHANGED <<shown, grace, poll, unanswered>>
    PROVE  GraceEarned'
BY DEF GraceEarned

LEMMA SendTypes ==
    ASSUME LiveTypeOK, CallsInOrder, NEW p \in Publishers, NEW b \in Browsers,
           AtHand(p, b), publishing' = Sent(p, b), UNCHANGED <<subs, overflowed>>
    PROVE  /\ publishing' \in [Publishers -> [topic : Topics, to : SUBSET Browsers,
                                               drop : SUBSET Browsers]]
           /\ CallsInOrder'
           /\ \A d \in Browsers, r \in Publishers :
                 publishing[r].topic = "nodes" /\ d \in publishing[r].to =>
                    \/ publishing'[r].topic = "nodes" /\ d \in publishing'[r].to
                    \/ r = p /\ d = b
<1> DEFINE Call == [topic : Topics, to : SUBSET Browsers, drop : SUBSET Browsers]
           sent == publishing[p]
           less == [topic |-> sent.topic, to |-> sent.to \ {b}, drop |-> {}]
           left == IF sent.to = {b} THEN Quiet ELSE less
<1>1. publishing \in [Publishers -> Call] /\ sent \in Call
  BY DEF LiveTypeOK
<1>2. less \in Call /\ Quiet \in Call
  BY <1>1 DEF Quiet, Topics
<1>3. /\ left \in Call /\ left.to = sent.to \ {b} /\ left.drop = {}
      /\ left.to # {} => left.topic = sent.topic
  BY <1>1, <1>2 DEF Quiet, AtHand
<1>4. publishing' = [publishing EXCEPT ![p] = left]
  BY DEF Sent
<1> HIDE DEF left
<1>5. /\ publishing' \in [Publishers -> Call] /\ publishing'[p] = left
      /\ \A r \in Publishers : r # p => publishing'[r] = publishing[r]
  BY <1>1, <1>3, <1>4
<1>6. CallsInOrder'
  BY <1>3, <1>5 DEF CallsInOrder
<1>7. QED
  BY <1>3, <1>5, <1>6

LEMMA SendsStep ==
    ASSUME LiveInv, NEW p \in Publishers, NEW b \in Browsers, Sends(p, b)
    PROVE  LiveInv'
<1> DEFINE q == Append(queue[b], publishing[p].topic)
<1>1. /\ AtHand(p, b) /\ Len(queue[b]) < QueueCap
      /\ queue' = [queue EXCEPT ![b] = q]
      /\ publishing' = Sent(p, b)
      /\ UNCHANGED <<registered, answering, changes, shown, grace, age, poll, unanswered,
                     fetching, view, misled, subs, overflowed>>
  BY DEF Sends, HasRoom, worldVars, pollVars, pageVars
<1>2. /\ publishing[p].topic \in Topics /\ queue[b] \in Seq(Topics)
      /\ queue \in [Browsers -> Seq(Topics)]
  BY DEF LiveInv, LiveTypeOK
<1>3. /\ q \in Seq(Topics) /\ Len(q) <= QueueCap
      /\ Queued(q) <=> Queued(queue[b]) \/ publishing[p].topic = "nodes"
  <2>1. Len(queue[b]) \in Nat /\ QueueCap \in Nat
    BY <1>2, LiveAssumption
  <2>2. QED
    BY <1>1, <1>2, <2>1, Appended
<1> HIDE DEF q
<1>4. /\ queue' \in [Browsers -> Seq(Topics)] /\ queue'[b] = q
      /\ \A d \in Browsers : d # b => queue'[d] = queue[d]
  BY <1>1, <1>2, <1>3
<1>5. LiveTypeOK' /\ CallsInOrder'
  BY <1>1, <1>3, <1>4, SendTypes DEF LiveInv, LiveTypeOK
<1>6. ASSUME NEW d \in Browsers, Awaits(d) PROVE Awaits(d)'
  <2>1. ASSUME NEW r \in Publishers, publishing[r].topic = "nodes", d \in publishing[r].to
        PROVE  Awaits(d)'
    <3>1. CASE publishing'[r].topic = "nodes" /\ d \in publishing'[r].to
      BY <3>1 DEF Awaits
    <3>2. CASE r = p /\ d = b
      BY <1>3, <1>4, <2>1, <3>2 DEF Awaits
    <3>3. QED
      BY <1>1, <2>1, <3>1, <3>2, SendTypes DEF LiveInv
  <2>2. Queued(queue[d]) => Queued(queue'[d])
    BY <1>3, <1>4
  <2>3. QED
    BY <1>1, <1>6, <2>1, <2>2 DEF Awaits
<1>7. Shows' /\ GraceEarned'
  BY <1>1, <1>6, StillShown, StillEarned DEF LiveInv
<1>8. QED
  BY <1>5, <1>7 DEF LiveInv

LEMMA DropsNewestStep ==
    ASSUME LiveInv, NEW p \in Publishers, NEW b \in Browsers, DropsNewest(p, b)
    PROVE  LiveInv'
<1>1. /\ AtHand(p, b) /\ publishing[p].drop = {b}
      /\ publishing' = Sent(p, b)
      /\ UNCHANGED <<registered, answering, changes, shown, grace, age, poll, unanswered,
                     fetching, view, misled, subs, overflowed, queue>>
  BY DEF DropsNewest, worldVars, pollVars, pageVars
<1>2. LiveTypeOK' /\ CallsInOrder'
  BY <1>1, SendTypes DEF LiveInv, LiveTypeOK
<1>3. b \in overflowed'
  BY <1>1 DEF LiveInv, CallsInOrder
<1>4. ASSUME NEW d \in Browsers, Awaits(d) PROVE Awaits(d)' \/ d \in overflowed'
  <2>1. ASSUME NEW r \in Publishers, publishing[r].topic = "nodes", d \in publishing[r].to
        PROVE  Awaits(d)' \/ d \in overflowed'
    <3>1. CASE publishing'[r].topic = "nodes" /\ d \in publishing'[r].to
      BY <3>1 DEF Awaits
    <3>2. CASE r = p /\ d = b
      BY <1>3, <3>2
    <3>3. QED
      BY <1>1, <2>1, <3>1, <3>2, SendTypes DEF LiveInv
  <2>2. QED
    BY <1>1, <1>4, <2>1 DEF Awaits
<1>5. Shows' /\ GraceEarned'
  BY <1>1, <1>4, StillShown, StillEarned DEF LiveInv
<1>6. QED
  BY <1>2, <1>5 DEF LiveInv

LEMMA DropsOldestStep ==
    ASSUME LiveInv, NEW p \in Publishers, NEW b \in Browsers, DropsOldest(p, b)
    PROVE  LiveInv'
<1> DEFINE q == Tail(queue[b])
           Call == [topic : Topics, to : SUBSET Browsers, drop : SUBSET Browsers]
<1>1. /\ AtHand(p, b) /\ ~(Len(queue[b]) < QueueCap)
      /\ queue' = [queue EXCEPT ![b] = q]
      /\ publishing' = [publishing EXCEPT ![p].drop = {b}]
      /\ overflowed' = overflowed \cup {b}
      /\ UNCHANGED <<registered, answering, changes, shown, grace, age, poll, unanswered,
                     fetching, view, misled, subs>>
  BY DEF DropsOldest, HasRoom, worldVars, pollVars, pageVars
<1>2. /\ queue[b] \in Seq(Topics) /\ queue \in [Browsers -> Seq(Topics)]
      /\ publishing \in [Publishers -> Call] /\ b \in publishing[p].to
      /\ Len(queue[b]) <= QueueCap
  BY <1>1 DEF LiveInv, LiveTypeOK, AtHand
<1>3. q \in Seq(Topics) /\ Len(q) <= QueueCap
  <2>1. Len(queue[b]) \in Nat /\ QueueCap \in Nat /\ QueueCap # 0
    BY <1>2, LiveAssumption
  <2>2. queue[b] # <<>>
    BY <1>1, <1>2, <2>1
  <2>3. QED
    BY <1>2, <2>1, <2>2, Taken
<1> HIDE DEF q
<1>4. /\ queue' \in [Browsers -> Seq(Topics)] /\ queue'[b] = q
      /\ \A d \in Browsers : d # b => queue'[d] = queue[d]
  BY <1>1, <1>2, <1>3
<1>5. /\ publishing' \in [Publishers -> Call] /\ publishing'[p].drop = {b}
      /\ \A r \in Publishers : /\ publishing'[r].to = publishing[r].to
                               /\ publishing'[r].topic = publishing[r].topic
                               /\ r # p => publishing'[r].drop = publishing[r].drop
  BY <1>1, <1>2
<1>6. LiveTypeOK'
  BY <1>1, <1>3, <1>4, <1>5 DEF LiveInv, LiveTypeOK
<1>7. CallsInOrder'
  BY <1>1, <1>2, <1>5 DEF LiveInv, CallsInOrder
<1>8. ASSUME NEW d \in Browsers, Awaits(d) PROVE Awaits(d)' \/ d \in overflowed'
  <2>1. d # b => queue'[d] = queue[d]
    BY <1>4
  <2>2. QED
    BY <1>1, <1>5, <1>8, <2>1 DEF Awaits
<1>9. Shows' /\ GraceEarned'
  BY <1>1, <1>8, StillShown, StillEarned DEF LiveInv
<1>10. QED
  BY <1>6, <1>7, <1>9 DEF LiveInv

LEMMA PublishTypes ==
    ASSUME LiveTypeOK, CallsInOrder, NEW p \in Publishers, NEW word \in Topics,
           ~Busy(p), PublishTo(p, word), UNCHANGED <<subs, overflowed>>
    PROVE  /\ publishing' \in [Publishers -> [topic : Topics, to : SUBSET Browsers,
                                               drop : SUBSET Browsers]]
           /\ CallsInOrder'
           /\ subs # {} => publishing'[p].topic = word /\ publishing'[p].to = subs
           /\ \A d \in Browsers, r \in Publishers :
                 d \in publishing[r].to => publishing'[r] = publishing[r]
<1> DEFINE Call == [topic : Topics, to : SUBSET Browsers, drop : SUBSET Browsers]
           new == [topic |-> word, to |-> subs, drop |-> {}]
           next == IF subs = {} THEN Quiet ELSE new
<1>1. publishing \in [Publishers -> Call] /\ subs \subseteq Browsers
  BY DEF LiveTypeOK
<1>2. new \in Call /\ Quiet \in Call /\ Quiet.to = {} /\ Quiet.drop = {}
  BY <1>1 DEF Quiet, Topics
<1>3. /\ next \in Call /\ next.to \subseteq subs /\ next.drop = {}
      /\ subs # {} => next.topic = word /\ next.to = subs
  BY <1>1, <1>2
<1>4. publishing' = [publishing EXCEPT ![p] = next]
  BY DEF PublishTo
<1> HIDE DEF next
<1>5. /\ publishing' \in [Publishers -> Call] /\ publishing'[p] = next
      /\ \A r \in Publishers : r # p => publishing'[r] = publishing[r]
  BY <1>1, <1>3, <1>4
<1>6. CallsInOrder'
  BY <1>3, <1>5 DEF CallsInOrder
<1>7. QED
  BY <1>3, <1>5, <1>6 DEF Busy

LEMMA HandlerStep ==
    ASSUME LiveInv, NEW p \in Publishers, HandlerPublishes(p)
    PROVE  LiveInv'
<1>1. PICK word \in Topics : PublishTo(p, word)
  BY DEF HandlerPublishes
<1>2. /\ ~Busy(p)
      /\ UNCHANGED <<registered, answering, changes, shown, grace, age, poll, unanswered,
                     fetching, view, misled, subs, overflowed, queue>>
  BY DEF HandlerPublishes, worldVars, pollVars, pageVars
<1>3. LiveTypeOK' /\ CallsInOrder'
  BY <1>1, <1>2, PublishTypes DEF LiveInv, LiveTypeOK
<1>4. ASSUME NEW d \in Browsers, Awaits(d) PROVE Awaits(d)'
  BY <1>1, <1>2, <1>4, PublishTypes DEF LiveInv, Awaits
<1>5. Shows' /\ GraceEarned'
  BY <1>2, <1>4, StillShown, StillEarned DEF LiveInv
<1>6. QED
  BY <1>3, <1>5 DEF LiveInv

LEMMA CollectorStep == LiveInv /\ CollectorPublishes => LiveInv'
<1> SUFFICES ASSUME LiveInv, CollectorPublishes
             PROVE  LiveInv'
  OBVIOUS
<1>1. /\ poll.pc \in Topics /\ ~Busy(Collector) /\ PublishTo(Collector, poll.pc)
      /\ UNCHANGED <<registered, answering, changes, shown, grace, age, unanswered, subs,
                     queue, overflowed, fetching, view, misled>>
  BY DEF CollectorPublishes, worldVars, pageVars
<1>2. PICK pc \in {"users", "idle"} : poll' = [Resting EXCEPT !.pc = pc]
  BY DEF CollectorPublishes
<1>3. /\ poll' \in [pc : {"idle", "gathered", "nodes", "users"}, asked : SUBSET NodeNames,
                    online : SUBSET NodeNames]
      /\ poll'.pc # "gathered" /\ poll.pc # "gathered"
  BY <1>1, <1>2 DEF Resting, Topics
<1>4. Collector \in Publishers
  BY DEF Publishers
<1>5. LiveTypeOK' /\ CallsInOrder'
  BY <1>1, <1>3, <1>4, PublishTypes DEF LiveInv, LiveTypeOK
<1>6. ASSUME NEW d \in Browsers, Awaits(d) PROVE Awaits(d)'
  <2>1. CASE poll.pc = "nodes"
    <3>1. CASE d \in subs
      <4>1. subs # {}
        BY <3>1
      <4>2. publishing'[Collector].topic = "nodes" /\ d \in publishing'[Collector].to
        BY <1>1, <1>4, <2>1, <3>1, <4>1, PublishTypes DEF LiveInv
      <4>3. QED
        BY <1>4, <4>2 DEF Awaits
    <3>2. CASE d \notin subs
      BY <1>1, <3>2 DEF Awaits
    <3>3. QED
      BY <3>1, <3>2
  <2>2. CASE poll.pc # "nodes"
    BY <1>1, <1>4, <1>6, <2>2, PublishTypes DEF LiveInv, Awaits
  <2>3. QED
    BY <2>1, <2>2
<1>7. Shows'
  BY <1>1, <1>6, StillShown DEF LiveInv
<1>8. GraceEarned'
  BY <1>1, <1>3 DEF LiveInv, GraceEarned
<1>9. QED
  BY <1>5, <1>7, <1>8 DEF LiveInv

-----------------------------------------------------------------------------
\* The stream and the browser.
LEMMA ConnectsStep ==
    ASSUME LiveInv, NEW b \in Browsers, Connects(b)
    PROVE  LiveInv'
<1>1. /\ b \notin subs /\ subs' = subs \cup {b} /\ queue' = [queue EXCEPT ![b] = <<>>]
      /\ fetching' = fetching \cup {b} /\ overflowed' = overflowed \ {b}
      /\ UNCHANGED <<registered, answering, changes, shown, grace, age, poll, unanswered,
                     publishing, view, misled>>
  BY DEF Connects, worldVars, pollVars
<1>2. <<>> \in Seq(Topics) /\ Len(<<>>) <= QueueCap
  BY LiveAssumption
<1>3. /\ queue' \in [Browsers -> Seq(Topics)] /\ Len(queue'[b]) <= QueueCap
      /\ \A d \in Browsers : d # b => queue'[d] = queue[d]
  BY <1>1, <1>2 DEF LiveInv, LiveTypeOK
<1>4. LiveTypeOK'
  BY <1>1, <1>3 DEF LiveInv, LiveTypeOK
<1>5. CallsInOrder'
  BY <1>1 DEF LiveInv, CallsInOrder
<1>6. ASSUME NEW d \in Browsers PROVE d = b \/ Awaits(d) => Awaits(d)'
  <2>1. CASE d = b
    BY <1>1, <2>1 DEF Awaits
  <2>2. CASE d # b
    BY <1>1, <1>3, <2>2 DEF Awaits
  <2>3. QED
    BY <2>1, <2>2
<1>7. Shows' /\ GraceEarned'
  BY <1>1, <1>6, StillShown, StillEarned DEF LiveInv
<1>8. QED
  BY <1>4, <1>5, <1>7 DEF LiveInv

LEMMA LeavesStep ==
    ASSUME LiveInv, NEW b \in Browsers, Leaves(b)
    PROVE  LiveInv'
<1> DEFINE Call == [topic : Topics, to : SUBSET Browsers, drop : SUBSET Browsers]
           less(p) == [topic |-> publishing[p].topic, to |-> publishing[p].to \ {b},
                       drop |-> publishing[p].drop \ {b}]
           left(p) == IF publishing[p].to = {b} THEN Quiet ELSE less(p)
<1>1. /\ subs' = subs \ {b} /\ queue' = [queue EXCEPT ![b] = <<>>]
      /\ publishing' = [p \in Publishers |-> left(p)]
      /\ fetching' = fetching \ {b} /\ view' = [view EXCEPT ![b] = Unseen]
      /\ overflowed' = overflowed \ {b} /\ misled' = misled \ {b}
      /\ UNCHANGED <<registered, answering, changes, shown, grace, age, poll, unanswered>>
  BY DEF Leaves, worldVars, pollVars
<1>2. <<>> \in Seq(Topics) /\ Len(<<>>) <= QueueCap
  BY LiveAssumption
<1>3. /\ queue' \in [Browsers -> Seq(Topics)] /\ Len(queue'[b]) <= QueueCap
      /\ \A d \in Browsers : d # b => queue'[d] = queue[d]
  BY <1>1, <1>2 DEF LiveInv, LiveTypeOK
<1>4. Unseen \in [fresh : BOOLEAN, nodes : [NodeNames -> Statuses]]
  BY DEF Unseen, Statuses
<1>5. /\ view' \in [Browsers -> [fresh : BOOLEAN, nodes : [NodeNames -> Statuses]]]
      /\ \A d \in Browsers : d # b => view'[d] = view[d]
  BY <1>1, <1>4 DEF LiveInv, LiveTypeOK
<1>6. ASSUME NEW p \in Publishers
      PROVE  /\ left(p) \in Call /\ left(p).to = publishing[p].to \ {b}
             /\ left(p).drop \subseteq publishing[p].drop \ {b}
             /\ left(p).to # {} => left(p).topic = publishing[p].topic
  <2>1. publishing[p] \in Call
    BY DEF LiveInv, LiveTypeOK
  <2>2. less(p) \in Call /\ Quiet \in Call
    BY <2>1 DEF Quiet, Topics
  <2>3. QED
    BY <2>1, <2>2 DEF Quiet
<1> HIDE DEF left
<1>7. /\ publishing' \in [Publishers -> Call]
      /\ \A p \in Publishers : publishing'[p] = left(p)
  BY <1>1, <1>6
<1>8. LiveTypeOK'
  BY <1>1, <1>3, <1>5, <1>7 DEF LiveInv, LiveTypeOK
<1>9. CallsInOrder'
  BY <1>1, <1>6, <1>7 DEF LiveInv, CallsInOrder
<1>10. ASSUME NEW d \in Browsers, d # b, Awaits(d) PROVE Awaits(d)'
  <2>1. ASSUME NEW p \in Publishers, publishing[p].topic = "nodes", d \in publishing[p].to
        PROVE  publishing'[p].topic = "nodes" /\ d \in publishing'[p].to
    BY <1>6, <1>7, <1>10, <2>1
  <2>2. queue'[d] = queue[d]
    BY <1>3, <1>10
  <2>3. QED
    BY <1>1, <1>10, <2>1, <2>2 DEF Awaits
<1>11. Awaits(b)'
  BY <1>1 DEF Awaits
<1>12. Shows'
  <2>1. ASSUME NEW d \in Browsers, d # b, InView(d) PROVE InView(d)'
    BY <1>1, <1>5, <2>1 DEF InView
  <2>2. ASSUME NEW d \in Browsers, d # b, d \in overflowed PROVE d \in overflowed'
    BY <1>1, <2>2
  <2>3. QED
    BY <1>10, <1>11, <2>1, <2>2 DEF LiveInv, Shows
<1>13. GraceEarned'
  BY <1>1, StillEarned DEF LiveInv
<1>14. QED
  BY <1>8, <1>9, <1>12, <1>13 DEF LiveInv

LEMMA ReceivesStep ==
    ASSUME LiveInv, NEW b \in Browsers, Receives(b)
    PROVE  LiveInv'
<1> DEFINE q == Tail(queue[b])
<1>1. /\ queue[b] # <<>> /\ queue' = [queue EXCEPT ![b] = q]
      /\ fetching' = IF Head(queue[b]) = "nodes" THEN fetching \cup {b} ELSE fetching
      /\ UNCHANGED <<registered, answering, changes, shown, grace, age, poll, unanswered,
                     subs, publishing, overflowed, view, misled>>
  BY DEF Receives, worldVars, pollVars
<1>2. /\ queue[b] \in Seq(Topics) /\ Len(queue[b]) <= QueueCap
      /\ queue \in [Browsers -> Seq(Topics)]
  BY DEF LiveInv, LiveTypeOK
<1>3. /\ q \in Seq(Topics) /\ Len(q) <= QueueCap
      /\ Queued(queue[b]) /\ Head(queue[b]) # "nodes" => Queued(q)
  <2>1. Len(queue[b]) \in Nat /\ QueueCap \in Nat
    BY <1>2, LiveAssumption
  <2>2. QED
    BY <1>1, <1>2, <2>1, Taken
<1> HIDE DEF q
<1>4. /\ queue' \in [Browsers -> Seq(Topics)] /\ queue'[b] = q
      /\ \A d \in Browsers : d # b => queue'[d] = queue[d]
  BY <1>1, <1>2, <1>3
<1>5. fetching' \subseteq Browsers /\ fetching \subseteq fetching'
  BY <1>1 DEF LiveInv, LiveTypeOK
<1>6. LiveTypeOK' /\ CallsInOrder'
  <2>1. \A d \in Browsers : Len(queue'[d]) <= QueueCap
    BY <1>3, <1>4 DEF LiveInv, LiveTypeOK
  <2>2. QED
    BY <1>1, <1>4, <1>5, <2>1 DEF LiveInv, LiveTypeOK, CallsInOrder
<1>7. ASSUME NEW d \in Browsers, Awaits(d) PROVE Awaits(d)'
  <2>1. CASE d = b /\ Queued(queue[b])
    <3>1. b \in fetching' \/ Queued(queue'[b])
      BY <1>1, <1>3, <1>4, <2>1
    <3>2. QED
      BY <2>1, <3>1 DEF Awaits
  <2>2. CASE d # b \/ ~Queued(queue[b])
    BY <1>1, <1>4, <1>5, <1>7, <2>2 DEF Awaits
  <2>3. QED
    BY <2>1, <2>2
<1>8. Shows' /\ GraceEarned'
  BY <1>1, <1>7, StillShown, StillEarned DEF LiveInv
<1>9. QED
  BY <1>6, <1>8 DEF LiveInv

LEMMA FetchesStep ==
    ASSUME LiveInv, NEW b \in Browsers, Fetches(b)
    PROVE  LiveInv'
<1> DEFINE Page == [fresh : BOOLEAN, nodes : [NodeNames -> Statuses]]
<1>1. PICK f \in Fresh :
         view' = [view EXCEPT ![b] = IF f THEN [fresh |-> TRUE, nodes |-> shown]
                                     ELSE Unseen]
  BY DEF Fetches
<1>2. /\ fetching' = fetching \ {b} /\ misled' = misled \ {b}
      /\ UNCHANGED <<registered, answering, changes, shown, grace, age, poll, unanswered,
                     subs, queue, publishing, overflowed>>
  BY DEF Fetches, worldVars, pollVars, busVars
<1>3. PICK page \in Page : /\ view' = [view EXCEPT ![b] = page]
                           /\ ~page.fresh \/ page.nodes = shown
  <2>1. Unseen \in Page /\ ~Unseen.fresh
    BY DEF Unseen, Statuses
  <2>2. [fresh |-> TRUE, nodes |-> shown] \in Page
    BY DEF LiveInv, LiveTypeOK
  <2>3. QED
    BY <1>1, <2>1, <2>2
<1>4. /\ view' \in [Browsers -> Page] /\ view'[b] = page
      /\ \A d \in Browsers : d # b => view'[d] = view[d]
  BY <1>3 DEF LiveInv, LiveTypeOK
<1>5. LiveTypeOK' /\ CallsInOrder'
  BY <1>2, <1>4 DEF LiveInv, LiveTypeOK, CallsInOrder
<1>6. ASSUME NEW d \in Browsers, d # b, Awaits(d) PROVE Awaits(d)'
  BY <1>2, <1>6 DEF Awaits
<1>7. Shows'
  <2>1. ASSUME NEW d \in Browsers, d # b, InView(d) PROVE InView(d)'
    BY <1>2, <1>4, <2>1 DEF InView
  <2>2. InView(b)'
    BY <1>2, <1>3, <1>4 DEF InView
  <2>3. QED
    BY <1>2, <1>6, <2>1, <2>2 DEF LiveInv, Shows
<1>8. GraceEarned'
  BY <1>2, StillEarned DEF LiveInv
<1>9. QED
  BY <1>5, <1>7, <1>8 DEF LiveInv

-----------------------------------------------------------------------------
\* The collector.
LEMMA TickStep == LiveInv /\ (TickSkips \/ TickPolls) => LiveInv'
<1> SUFFICES ASSUME LiveInv, TickSkips \/ TickPolls
             PROVE  LiveInv'
  OBVIOUS
<1>1. /\ poll.pc = "idle"
      /\ UNCHANGED <<registered, answering, changes, shown, grace, subs, queue, publishing,
                     overflowed, fetching, view, misled>>
  BY DEF TickSkips, TickPolls, worldVars, busVars, pageVars
<1>2. age' \in 0 .. IdleTicks + 1
  <2>1. age \in 0 .. IdleTicks + 1 /\ IdleTicks \in Nat
    BY LiveAssumption DEF LiveInv, LiveTypeOK
  <2>2. CASE TickSkips
    BY <2>1, <2>2 DEF TickSkips
  <2>3. CASE TickPolls
    BY <2>1, <2>3 DEF TickPolls
  <2>4. QED
    BY <2>2, <2>3
<1>3. /\ poll' \in [pc : {"idle", "gathered", "nodes", "users"}, asked : SUBSET NodeNames,
                    online : SUBSET NodeNames]
      /\ poll'.pc # "nodes"
      /\ unanswered' \in [NodeNames -> 0 .. 2]
      /\ GraceEarned'
  <2>1. CASE TickSkips
    BY <1>1, <2>1 DEF TickSkips, LiveInv, LiveTypeOK, GraceEarned
  <2>2. CASE TickPolls
    <3>1. poll' = [pc |-> "gathered", asked |-> registered,
                   online |-> registered \cap answering]
      BY <2>2 DEF TickPolls
    <3>2. /\ poll' \in [pc : {"idle", "gathered", "nodes", "users"},
                        asked : SUBSET NodeNames, online : SUBSET NodeNames]
          /\ poll'.pc = "gathered"
      BY <3>1 DEF LiveInv, LiveTypeOK
    <3>3. ASSUME NEW n \in NodeNames
          PROVE  /\ unanswered[n] \in 0 .. 2
                 /\ (IF n \in poll'.online THEN 0
                     ELSE IF unanswered[n] = 2 THEN 2 ELSE unanswered[n] + 1) \in 0 .. 2
      <4>1. unanswered[n] \in 0 .. 2
        BY DEF LiveInv, LiveTypeOK
      <4>2. QED
        BY <4>1
    <3>4. /\ unanswered' \in [NodeNames -> 0 .. 2]
          /\ \A n \in NodeNames :
                unanswered'[n] = IF n \in poll'.online THEN 0
                                 ELSE IF unanswered[n] = 2 THEN 2 ELSE unanswered[n] + 1
      BY <2>2, <3>3 DEF TickPolls
    <3>5. ASSUME NEW n \in NodeNames, n \notin poll'.online
          PROVE  /\ unanswered'[n] >= 1
                 /\ shown[n] = "up" /\ grace[n] # "none" => unanswered'[n] = 2
      <4>1. /\ unanswered[n] \in 0 .. 2
            /\ unanswered'[n] = IF unanswered[n] = 2 THEN 2 ELSE unanswered[n] + 1
        BY <3>3, <3>4, <3>5
      <4>2. shown[n] = "up" /\ grace[n] # "none" => unanswered[n] >= 1
        BY <1>1 DEF LiveInv, GraceEarned
      <4>3. QED
        BY <4>1, <4>2
    <3>6. GraceEarned'
      BY <1>1, <3>2, <3>5 DEF GraceEarned
    <3>7. QED
      BY <3>2, <3>4, <3>6
  <2>3. QED
    BY <2>1, <2>2
<1>4. LiveTypeOK' /\ CallsInOrder'
  BY <1>1, <1>2, <1>3 DEF LiveInv, LiveTypeOK, CallsInOrder
<1>5. \A d \in Browsers : Awaits(d) => Awaits(d)'
  BY <1>1 DEF Awaits
<1>6. Shows'
  BY <1>1, <1>5, StillShown DEF LiveInv
<1>7. QED
  BY <1>3, <1>4, <1>6 DEF LiveInv

\* What a poll makes of a node.
LEMMA PolledNode ==
    ASSUME LiveTypeOK, NEW n \in NodeNames
    PROVE  /\ Graced(n) \in Statuses /\ GraceLeft(n) \in {"none", "running", "over"}
           /\ Graced(n) = "up" /\ GraceLeft(n) # "none" => n \notin poll.online
           /\ shown[n] = "up" /\ Graced(n) = "down" =>
                 grace[n] # "none" /\ n \notin poll.online
           /\ shown[n] = "up" => Graced(n) # "none"
<1>1. shown[n] \in Statuses /\ grace[n] \in {"none", "running", "over"}
  BY DEF LiveTypeOK
<1>2. QED
  BY <1>1 DEF Graced, GraceLeft, GraceOf, Concerned, Statuses

LEMMA SnapshotOf ==
    ASSUME LiveTypeOK, UpdateSnapshot
    PROVE  /\ shown' \in [NodeNames -> Statuses]
           /\ \A n \in NodeNames :
                 \/ shown'[n] = "none"
                 \/ poll.asked # {} /\ shown'[n] = Graced(n)
<1> DEFINE f == [n \in NodeNames |-> IF poll.asked = {} THEN "none" ELSE Graced(n)]
<1>1. shown' = Trimmed(f)
  BY DEF UpdateSnapshot
<1>2. \A n \in NodeNames : /\ f[n] \in Statuses
                           /\ f[n] = "none" \/ (poll.asked # {} /\ f[n] = Graced(n))
  BY PolledNode DEF Statuses
<1> HIDE DEF f
<1>3. PICK kept : Trimmed(f) = [n \in NodeNames |-> IF n \in kept THEN f[n] ELSE "none"]
  BY DEF Trimmed
<1>4. QED
  BY <1>1, <1>2, <1>3 DEF Statuses

\* What the comparison misses is a swap, after which no node is online that was
\* not.
LEMMA MissedChanges ==
    ASSUME LiveTypeOK, NEW new \in [NodeNames -> Statuses], ~NodesChanged(new)
    PROVE  /\ new # shown => Swapped(new)
           /\ \A n \in NodeNames : new[n] = "up" => shown[n] = "up"
<1>1. /\ Cardinality(Named(new)) = Cardinality(Named(shown))
      /\ \A n \in Named(new) : (new[n] = "up") <=> (shown[n] = "up")
  BY DEF NodesChanged
<1>2. ASSUME NEW n \in NodeNames PROVE new[n] \in Statuses /\ shown[n] \in Statuses
  BY DEF LiveTypeOK
<1>3. \A n \in NodeNames : new[n] = "up" => shown[n] = "up"
  BY <1>1 DEF Named
<1>4. ASSUME NEW n \in Named(new)
      PROVE  new[n] = IF n \in Named(shown) THEN shown[n] ELSE "down"
  <2>1. n \in NodeNames /\ new[n] # "none"
    BY <1>4 DEF Named
  <2>2. (new[n] = "up") <=> (shown[n] = "up")
    BY <1>1, <1>4
  <2>3. CASE shown[n] = "none"
    BY <1>2, <2>1, <2>2, <2>3 DEF Named, Statuses
  <2>4. CASE shown[n] # "none"
    BY <1>2, <2>1, <2>2, <2>4 DEF Named, Statuses
  <2>5. QED
    BY <2>3, <2>4
<1>5. CASE Named(new) # Named(shown)
  BY <1>1, <1>3, <1>4, <1>5 DEF Swapped
<1>6. CASE Named(new) = Named(shown)
  <2>1. ASSUME NEW n \in NodeNames PROVE new[n] = shown[n]
    BY <1>4, <1>6 DEF Named
  <2>2. new = shown
    BY <2>1 DEF LiveTypeOK
  <2>3. QED
    BY <1>3, <2>2
<1>7. QED
  BY <1>5, <1>6

LEMMA SnapshotStep == LiveInv /\ UpdateSnapshot => LiveInv'
<1> SUFFICES ASSUME LiveInv, UpdateSnapshot
             PROVE  LiveInv'
  OBVIOUS
<1>1. /\ poll.pc = "gathered" /\ age' = 0
      /\ UNCHANGED <<registered, answering, changes, subs, queue, publishing, overflowed,
                     fetching, view, unanswered>>
      /\ misled' = IF Swapped(shown') THEN misled \cup subs ELSE misled
  BY DEF UpdateSnapshot, worldVars, busVars, pageVars
<1>2. /\ shown' \in [NodeNames -> Statuses]
      /\ \A n \in NodeNames : \/ shown'[n] = "none"
                              \/ poll.asked # {} /\ shown'[n] = Graced(n)
  BY SnapshotOf DEF LiveInv
<1>3. grace' = IF poll.asked = {} THEN grace ELSE [n \in NodeNames |-> GraceLeft(n)]
  BY DEF UpdateSnapshot
<1>4. PICK pc \in {"nodes", "users", "idle"} : /\ poll' = [Resting EXCEPT !.pc = pc]
                                               /\ NodesChanged(shown') => pc = "nodes"
  <2>1. PICK counts \in BOOLEAN :
           poll' = [Resting EXCEPT !.pc = IF NodesChanged(shown') THEN "nodes"
                                          ELSE IF counts THEN "users" ELSE "idle"]
    BY DEF UpdateSnapshot
  <2>2. QED
    BY <2>1
<1>5. /\ poll' \in [pc : {"idle", "gathered", "nodes", "users"}, asked : SUBSET NodeNames,
                    online : SUBSET NodeNames]
      /\ poll'.pc = pc /\ pc # "gathered"
  BY <1>4 DEF Resting
<1>6. grace' \in [NodeNames -> {"none", "running", "over"}]
  BY <1>3, PolledNode DEF LiveInv, LiveTypeOK
<1>7. age' \in 0 .. IdleTicks + 1
  BY <1>1, LiveAssumption
<1>8. misled' \subseteq Browsers /\ misled \subseteq misled'
  BY <1>1 DEF LiveInv, LiveTypeOK
<1>9. LiveTypeOK' /\ CallsInOrder'
  BY <1>1, <1>2, <1>5, <1>6, <1>7, <1>8 DEF LiveInv, LiveTypeOK, CallsInOrder
<1>10. Shows'
  <2>1. CASE NodesChanged(shown')
    BY <1>4, <1>5, <2>1 DEF Shows, Awaits
  <2>2. CASE ~NodesChanged(shown')
    <3>1. ASSUME NEW d \in Browsers, Awaits(d) \/ d \in overflowed
          PROVE  Awaits(d)' \/ d \in overflowed'
      BY <1>1, <3>1 DEF Awaits
    <3>2. /\ shown' # shown => Swapped(shown')
          /\ \A n \in NodeNames : shown'[n] = "up" => shown[n] = "up"
      BY <1>2, <2>2, MissedChanges DEF LiveInv
    <3>3. ASSUME NEW d \in Browsers, InView(d)
          PROVE  Awaits(d)' \/ InView(d)'
      <4>1. CASE d \notin subs
        BY <1>1, <4>1 DEF Awaits
      <4>2. CASE d \in subs
        <5>1. shown' # shown => d \in misled'
          BY <1>1, <3>2, <4>2
        <5>2. view' = view
          BY <1>1
        <5>3. QED
          BY <1>8, <3>2, <3>3, <5>1, <5>2 DEF InView
      <4>3. QED
        BY <4>1, <4>2
    <3>4. QED
      BY <3>1, <3>3 DEF LiveInv, Shows
  <2>3. QED
    BY <2>1, <2>2
<1>11. GraceEarned'
  <2>1. ASSUME NEW n \in NodeNames, shown'[n] = "up", grace'[n] # "none"
        PROVE  unanswered'[n] >= 1
    <3>1. poll.asked # {} /\ Graced(n) = "up" /\ GraceLeft(n) # "none"
      BY <1>2, <1>3, <2>1
    <3>2. n \notin poll.online
      BY <3>1, PolledNode DEF LiveInv
    <3>3. QED
      BY <1>1, <3>2 DEF LiveInv, GraceEarned
  <2>2. QED
    BY <1>5, <2>1 DEF GraceEarned
<1>12. QED
  BY <1>10, <1>11, <1>9 DEF LiveInv

\* Only a poll that a node missed, the second in a row, turns it offline.
LEMMA OfflineEarned ==
    ASSUME LiveInv, [LiveNext]_liveView, NEW n \in NodeNames,
           shown[n] = "up", shown'[n] = "down"
    PROVE  unanswered[n] = 2
<1>1. CASE UpdateSnapshot
  <2>1. Graced(n) = "down"
    BY <1>1, SnapshotOf DEF LiveInv
  <2>2. grace[n] # "none" /\ n \notin poll.online
    BY <2>1, PolledNode DEF LiveInv
  <2>3. poll.pc = "gathered"
    BY <1>1 DEF UpdateSnapshot
  <2>4. QED
    BY <2>2, <2>3 DEF LiveInv, GraceEarned
<1>2. CASE UNCHANGED shown
  BY <1>2
<1>3. CASE UNCHANGED liveView
  BY <1>2, <1>3 DEF liveView
<1>4. CASE LiveNext
  BY <1>1, <1>2, <1>4
  DEF LiveNext, TickSkips, TickPolls, CollectorPublishes, Sends, DropsOldest, DropsNewest,
      HandlerPublishes, Connects, Leaves, Receives, Fetches, RegistryChanges,
      AnswersChange, GraceEnds, pollVars
<1>5. QED
  BY <1>3, <1>4

-----------------------------------------------------------------------------
\* The world.
LEMMA WorldStep ==
    ASSUME LiveInv,
           RegistryChanges \/ AnswersChange \/ \E n \in NodeNames : GraceEnds(n)
    PROVE  LiveInv'
<1>1. UNCHANGED <<shown, age, poll, unanswered, subs, queue, publishing, overflowed,
                  fetching, view, misled>>
  BY DEF RegistryChanges, AnswersChange, GraceEnds, pollVars, busVars, pageVars
<1>2. registered' \subseteq NodeNames /\ answering' \subseteq NodeNames
  BY DEF LiveInv, LiveTypeOK, RegistryChanges, AnswersChange, GraceEnds, worldVars
<1>3. changes' \in 0 .. MaxChanges
  <2>1. changes \in 0 .. MaxChanges /\ MaxChanges \in Nat
    BY LiveAssumption DEF LiveInv, LiveTypeOK
  <2>2. \/ changes' = changes
        \/ changes < MaxChanges /\ changes' = changes + 1
    BY DEF RegistryChanges, AnswersChange, GraceEnds, Changes, worldVars
  <2>3. QED
    BY <2>1, <2>2
<1>4. /\ grace' \in [NodeNames -> {"none", "running", "over"}]
      /\ \A n \in NodeNames : grace'[n] # "none" => grace[n] # "none"
  BY DEF LiveInv, LiveTypeOK, RegistryChanges, AnswersChange, GraceEnds, pollVars
<1>5. LiveTypeOK' /\ CallsInOrder'
  BY <1>1, <1>2, <1>3, <1>4 DEF LiveInv, LiveTypeOK, CallsInOrder
<1>6. \A d \in Browsers : Awaits(d) => Awaits(d)'
  BY <1>1 DEF Awaits
<1>7. Shows'
  BY <1>1, <1>6, StillShown DEF LiveInv
<1>8. GraceEarned'
  BY <1>1, <1>4 DEF LiveInv, GraceEarned
<1>9. QED
  BY <1>5, <1>7, <1>8 DEF LiveInv

LEMMA LiveStep == LiveInv /\ [LiveNext]_liveView => LiveInv'
<1> SUFFICES ASSUME LiveInv, [LiveNext]_liveView
             PROVE  LiveInv'
  OBVIOUS
<1>1. CASE UNCHANGED liveView
  <2>1. LiveTypeOK' /\ CallsInOrder' /\ GraceEarned'
    BY <1>1 DEF LiveInv, LiveTypeOK, CallsInOrder, GraceEarned, liveView
  <2>2. Shows'
    BY <1>1 DEF LiveInv, Shows, InView, Awaits, liveView
  <2>3. QED
    BY <2>1, <2>2 DEF LiveInv
<1>2. CASE TickSkips \/ TickPolls \/ UpdateSnapshot \/ CollectorPublishes
  BY <1>2, TickStep, SnapshotStep, CollectorStep
<1>3. CASE \E p \in Publishers, b \in Browsers :
              Sends(p, b) \/ DropsOldest(p, b) \/ DropsNewest(p, b)
  BY <1>3, SendsStep, DropsOldestStep, DropsNewestStep
<1>4. CASE \E p \in Writers : HandlerPublishes(p)
  BY <1>4, HandlerStep DEF Publishers
<1>5. CASE \E b \in Browsers : Connects(b) \/ Leaves(b) \/ Receives(b) \/ Fetches(b)
  BY <1>5, ConnectsStep, LeavesStep, ReceivesStep, FetchesStep
<1>6. CASE RegistryChanges \/ AnswersChange \/ \E n \in NodeNames : GraceEnds(n)
  BY <1>6, WorldStep
<1>7. QED
  BY <1>1, <1>2, <1>3, <1>4, <1>5, <1>6 DEF LiveNext

LEMMA LiveStart == LiveInit => LiveInv
<1> SUFFICES ASSUME LiveInit
             PROVE  LiveInv
  OBVIOUS
<1>1. /\ Unseen \in [fresh : BOOLEAN, nodes : [NodeNames -> Statuses]]
      /\ Quiet \in [topic : Topics, to : SUBSET Browsers, drop : SUBSET Browsers]
      /\ Resting \in [pc : {"idle", "gathered", "nodes", "users"},
                      asked : SUBSET NodeNames, online : SUBSET NodeNames]
  BY DEF Unseen, Statuses, Quiet, Topics, Resting
<1>2. /\ <<>> \in Seq(Topics) /\ Len(<<>>) <= QueueCap
      /\ IdleTicks + 1 \in 0 .. IdleTicks + 1 /\ 0 \in 0 .. MaxChanges
  BY LiveAssumption
<1>3. LiveTypeOK
  BY <1>1, <1>2 DEF LiveInit, LiveTypeOK, Statuses
<1>4. Shows
  BY DEF LiveInit, Shows, InView, Unseen
<1>5. CallsInOrder /\ GraceEarned
  BY DEF LiveInit, CallsInOrder, GraceEarned, Quiet, Resting
<1>6. QED
  BY <1>3, <1>4, <1>5 DEF LiveInv

LEMMA LiveAlways == LiveInit /\ [][LiveNext]_liveView => []LiveInv
BY LiveStart, LiveStep, PTL

\* The snapshot, the bus, the calls under way and the pages keep their types.
THEOREM ViewTypeCorrect == LiveSpec => []LiveTypeOK
<1>1. LiveInv => LiveTypeOK
  BY DEF LiveInv
<1>2. QED
  BY <1>1, LiveAlways, PTL DEF LiveSpec

\* The same of the live view alone.
THEOREM ViewTruly == LiveSpec => NodesShownTruly
<1>1. LiveInv /\ [LiveNext]_liveView /\ LiveInv' =>
         [/\ WatchersSeeNodes'
          /\ \A n \in NodeNames :
                shown[n] = "up" /\ shown'[n] = "down" => unanswered[n] = 2]_liveView
  <2> SUFFICES ASSUME LiveInv, [LiveNext]_liveView, LiveInv'
               PROVE  /\ WatchersSeeNodes'
                      /\ \A n \in NodeNames :
                            shown[n] = "up" /\ shown'[n] = "down" => unanswered[n] = 2
    OBVIOUS
  <2>1. LiveTypeOK' /\ Shows'
    BY DEF LiveInv
  <2>2. (LiveTypeOK => (WatchersSeeNodes <=> Shows))'
    BY SeenIsShown, PTL
  <2>3. WatchersSeeNodes'
    BY <2>1, <2>2
  <2>4. QED
    BY <2>3, OfflineEarned
<1>2. QED
  BY <1>1, LiveStep, LiveAlways, PTL DEF LiveSpec, NodesShownTruly

-----------------------------------------------------------------------------
(* The parts side by side.                                                 *)

LEMMA PanelStart == PanelInit => AccInit /\ OwnInit /\ NodeInit /\ AlertInit /\ LiveInit
BY DEF PanelInit

\* A step of the panel is a step of one part and leaves the others alone.
LEMMA PanelStep ==
    [PanelNext]_panelVars =>
        /\ [AccNext]_accVars /\ [OwnNext]_ownVars /\ [NodeNext]_nodeCallVars
        /\ [AlertNext]_alertVars /\ [LiveNext]_liveView
BY DEF PanelNext, AccountsMove, AccessMoves, CallsMove, AlertsMove, ViewMoves, panelVars

LEMMA PanelParts ==
    PanelSpec => /\ AccSpec /\ OwnSpec /\ NodeSpec /\ LiveSpec
                 /\ AlertInit /\ [][AlertNext]_alertVars
BY PanelStart, PanelStep, PTL DEF PanelSpec, AccSpec, OwnSpec, NodeSpec, LiveSpec

\* Accounts, access, nodes and calls, alerts and the live view keep their types.
THEOREM PanelTypes == PanelSpec => []PanelTypeOK
<1>1. AccTypeOK /\ OwnTypeOK /\ NodeTypeOK /\ AlertInv /\ LiveTypeOK => PanelTypeOK
  BY DEF PanelTypeOK, AlertInv
<1>2. QED
  BY <1>1, PanelParts, AccTypeCorrect, OwnTypeCorrect, NodeTypeCorrect, AlertAlways,
     ViewTypeCorrect, PTL

\* In the whole panel no deletion takes an account for good, an active account
\* is entitled, a recovery ends older sessions, the login limit holds and every
\* answer of a node is pinned, with the exceptions the five state.
THEOREM PanelSafe ==
    PanelSpec => [](/\ DeletionKeepsAccounts /\ ActiveIsEntitled
                    /\ RecoveryEndsSessions /\ LockoutHolds /\ AnswersArePinned)
BY PanelParts, DeletionKeeps, ActiveAreEntitled, RecoveryHolds, LimitHolds,
   AnswersPinned, PTL

\* In the whole panel no event is put aside before the owner has received it,
\* whatever fails, restarts or is pruned (alerts.go:48-51).
THEOREM EventsKept == PanelSpec => []NoEventLost
<1>1. AlertInv => NoEventLost
  BY DEF AlertInv
<1>2. QED
  BY <1>1, PanelParts, AlertAlways, PTL

\* Whoever connects, leaves, publishes and overflows queues in whatever order, a
\* browser for which nothing is on its way shows the snapshot, but for nodes that
\* were swapped unannounced, and a node turns offline only after two polls without
\* an answer (stream.go:75-98, handler.go:696-725).
THEOREM ViewIsTrue == PanelSpec => NodesShownTruly
BY PanelParts, ViewTruly, PTL
=============================================================================
