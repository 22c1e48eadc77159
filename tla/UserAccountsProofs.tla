------------------------ MODULE UserAccountsProofs -------------------------
(***************************************************************************)
(* Theorems about UserAccounts for any accounts, requests and bounds: the  *)
(* types are kept, deletions take no account for good, and an active       *)
(* account is entitled unless a race or time made it otherwise.            *)
(***************************************************************************)
EXTENDS UserAccounts, FiniteSetTheorems, TLAPS

\* What a row has, or when there is none the snapshot, is what was billed but for
\* what is known to be missing from it.
Counted ==
    \A a \in Accounts :
        /\ billed[a] \in 0 .. MaxCharges[a] /\ missed[a] \in 0 .. billed[a]
        /\ live[a] # NoRow => live[a].used + missed[a] = billed[a]
        /\ live[a] = NoRow /\ undo[a] # NoRow => undo[a].used + missed[a] = billed[a]

\* A request that will write settings or a row has read one.
Kept(r) == r.pc \in {"edit", "insert"} => r.row \in Row

\* So is what a request will put into a snapshot or a row.
Accurate(r) ==
    r.pc \in {"delete", "insert"} /\ r.row # NoRow
        => r.row.used + r.short = billed[r.account]

\* What is still to be purged is there, and is not what is being deleted.
RestHere(r) == r.rest \subseteq Here /\ (r.pc = "delete" => r.account \notin r.rest)

Held(r) == r \in Reading /\ Kept(r) /\ Accurate(r) /\ RestHere(r)

RequestsHeld == \A q \in Requests : Held(request[q])

CountInv == AccTypeOK /\ Counted /\ RequestsHeld

LEMMA UsedIsNat == /\ Used \subseteq Nat /\ 0 \in Used
                   /\ \A a \in Accounts : 0 .. MaxCharges[a] \subseteq Used
                   /\ \A a \in Accounts : MaxCharges[a] \in Nat
BY AccountAssumption DEF Used

LEMMA RowsAreRows == NoRow \notin Row /\ NewRow \in Row /\ NoRow.used = 0
BY UsedIsNat DEF NoRow, Row, NewRow

LEMMA IdleType == IdleRequest \in Reading
BY AccountAssumption, UsedIsNat DEF IdleRequest, Reading

\* What a row has was billed.
LEMMA RowType == \A r \in Row \cup {NoRow} : r.used \in Nat /\ (r # NoRow => r \in Row)
<1>1. \A r \in Row : r.used \in Used
  BY DEF Row
<1>2. QED
  BY <1>1, RowsAreRows, UsedIsNat

LEMMA IdleHeld == Held(IdleRequest)
<1>1. /\ IdleRequest \in Reading /\ IdleRequest.pc = "idle" /\ IdleRequest.rest = {}
  BY IdleType DEF IdleRequest
<1>2. QED
  BY <1>1 DEF Held, Kept, Accurate, RestHere

LEMMA CountInit == AccInit => CountInv
<1> SUFFICES ASSUME AccInit
             PROVE  CountInv
  OBVIOUS
<1>1. live \in [Accounts -> Row \cup {NoRow}] /\ \A a \in Accounts : live[a].used = 0
  BY RowsAreRows DEF AccInit, NewRow
<1>2. undo \in [Accounts -> Row \cup {NoRow}] /\ \A a \in Accounts : undo[a] = NoRow
  BY DEF AccInit
<1>3. request \in [Requests -> Reading]
  BY IdleType DEF AccInit
<1>4. billed \in [Accounts -> Used] /\ missed \in [Accounts -> Used]
      /\ \A a \in Accounts : billed[a] = 0 /\ missed[a] = 0
  BY UsedIsNat DEF AccInit
<1>5. AccTypeOK
  BY <1>1, <1>2, <1>3, <1>4 DEF AccTypeOK, AccInit
<1>6. \A q \in Requests : Held(request[q])
  BY IdleHeld DEF AccInit
<1>7. Counted
  BY <1>1, <1>2, <1>4, UsedIsNat DEF Counted
<1>8. QED
  BY <1>5, <1>6, <1>7 DEF CountInv, RequestsHeld

-----------------------------------------------------------------------------
(* The requests.                                                           *)

\* A step that gives one request another reading keeps what they all hold.
LEMMA RequestSet ==
    ASSUME CountInv, NEW q \in Requests, NEW r, Held(r), UNCHANGED billed,
           Here \subseteq Here', request' = [request EXCEPT ![q] = r]
    PROVE  /\ request' \in [Requests -> Reading]
           /\ RequestsHeld'
<1>1. request \in [Requests -> Reading]
  BY DEF CountInv, AccTypeOK
<1>2. r \in Reading
  BY DEF Held
<1>3. \A p \in Requests : request'[p] = IF p = q THEN r ELSE request[p]
  BY <1>1
<1>4. \A p \in Requests : Held(request'[p])
  BY <1>3 DEF CountInv, RequestsHeld
<1>5. ASSUME NEW p \in Requests
      PROVE  Held(request[p])'
  <2> DEFINE s == request'[p]
  <2>1. Held(s)
    BY <1>4
  <2>2. s \in Reading /\ Kept(s) /\ Accurate(s) /\ RestHere(s)
    BY <2>1 DEF Held
  <2>3. Accurate(request[p])'
    BY <2>2 DEF Accurate
  <2>4. RestHere(request[p])'
    BY <2>2 DEF RestHere
  <2>5. Kept(request[p])'
    BY <2>2 DEF Kept
  <2>6. QED
    BY <2>2, <2>3, <2>4, <2>5 DEF Held
<1>6. QED
  BY <1>1, <1>2, <1>5 DEF RequestsHeld

LEMMA RequestOnly ==
    ASSUME CountInv, NEW q \in Requests, NEW r, Held(r),
           request' = [request EXCEPT ![q] = r],
           UNCHANGED <<live, undo, billed, missed, raced, lapsed, owed>>
    PROVE  CountInv'
<1>1. Here \subseteq Here'
  BY DEF Here
<1>2. QED
  BY <1>1, RequestSet DEF CountInv, AccTypeOK, Counted

LEMMA AnswersOnly ==
    ASSUME CountInv, NEW q \in Requests, Answers(q),
           UNCHANGED <<live, undo, billed, missed, raced, lapsed, owed>>
    PROVE  CountInv'
BY RequestOnly, IdleHeld DEF Answers

LEMMA ReadsType ==
    ASSUME CountInv, NEW q \in Requests, NEW pc, NEW a \in Accounts, NEW row,
           NEW rest \in SUBSET Here, NEW short \in Used,
           Reads(q, pc, a, row, rest, short),
           pc \in {"edit", "delete", "purge", "insert", "forget"},
           row \in Row \cup {NoRow},
           pc \in {"edit", "insert"} => row \in Row,
           pc \in {"delete", "insert"} => rest = {} /\ row.used + short = billed[a],
           UNCHANGED <<live, undo, billed, missed, raced, lapsed, owed>>
    PROVE  CountInv'
<1> DEFINE r == [pc |-> pc, account |-> a, row |-> row, rest |-> rest,
                 short |-> short]
<1>1. r \in Reading
  BY DEF Reading, Here
<1>2. /\ r.row = row /\ r.account = a /\ r.pc = pc
      /\ r.rest = rest /\ r.short = short
  OBVIOUS
<1>3. Held(r)
  BY <1>1, <1>2 DEF Held, Kept, Accurate, RestHere
<1>4. request' = [request EXCEPT ![q] = r]
  BY DEF Reads
<1> HIDE DEF r
<1>5. QED
  BY <1>3, <1>4, RequestOnly

LEMMA HereIsRow == CountInv => \A a \in Here : a \in Accounts /\ live[a] \in Row
BY RowType DEF CountInv, AccTypeOK, Here

\* What a deletion may read of an account: its row, or nothing but its name.
LEMMA SnapshotType ==
    ASSUME CountInv, NEW a \in Here, NEW read \in Snapshots(a)
    PROVE  /\ read.row \in Row /\ read.short \in Used
           /\ read.row.used + read.short = billed[a]
<1>1. a \in Accounts /\ live[a] \in Row /\ live[a] # NoRow
  BY HereIsRow DEF Here
<1>2. Stub \in Row /\ Stub.used = 0
  BY UsedIsNat DEF Stub, Row
<1>3. billed[a] \in Nat /\ billed[a] \in Used /\ missed[a] \in Used
      /\ live[a].used + missed[a] = billed[a]
  BY <1>1, UsedIsNat DEF CountInv, AccTypeOK, Counted
<1>4. \/ read = [row |-> live[a], short |-> missed[a]]
      \/ read = [row |-> Stub, short |-> billed[a]]
  BY DEF Snapshots, Snapshot
<1>5. QED
  BY <1>1, <1>2, <1>3, <1>4

\* The requests that only read.
LEMMA ReadingType ==
    ASSUME CountInv, NEW q \in Requests, NEW a \in Accounts,
           AccReads(q, a) \/ AccSnapshots(q, a) \/ AccReadsUndo(q, a)
    PROVE  CountInv'
<1> USE DEF accHistory
<1>0. 0 \in Used /\ {} \subseteq Here
  BY UsedIsNat
<1>1. CASE AccReads(q, a)
  BY <1>0, <1>1, ReadsType, HereIsRow DEF AccReads
<1>2. CASE AccSnapshots(q, a)
  <2>1. a \in Here /\ UNCHANGED <<live, undo, billed, missed, raced, lapsed, owed>>
    BY <1>2 DEF AccSnapshots
  <2>2. PICK read \in Snapshots(a) : Reads(q, "delete", a, read.row, {}, read.short)
    BY <1>2 DEF AccSnapshots
  <2>3. /\ read.row \in Row /\ read.short \in Used
        /\ read.row.used + read.short = billed[a]
    BY <2>1, SnapshotType
  <2>4. QED
    BY <1>0, <2>1, <2>2, <2>3, ReadsType
<1>3. CASE AccReadsUndo(q, a)
  <2>1. undo[a] \in Row /\ missed[a] \in Used
    BY <1>3, RowType DEF AccReadsUndo, CountInv, AccTypeOK
  <2>2. CASE a \in Here
    BY <1>0, <1>3, <2>1, <2>2, ReadsType DEF AccReadsUndo
  <2>3. CASE a \notin Here
    <3>1. undo[a].used + missed[a] = billed[a]
      BY <1>3, <2>3 DEF AccReadsUndo, CountInv, Counted, Here
    <3>2. QED
      BY <1>0, <1>3, <2>1, <2>3, <3>1, ReadsType DEF AccReadsUndo
  <2>4. QED
    BY <2>2, <2>3
<1>4. QED
  BY <1>1, <1>2, <1>3

\* purge, at every step.
LEMMA PurgeType ==
    ASSUME CountInv, NEW q \in Requests,
           \/ \E S \in SUBSET Accounts : AccPurges(q, S)
           \/ \E a \in Accounts : AccPurgeNext(q, a)
           \/ AccPurged(q)
    PROVE  CountInv'
<1> USE DEF accHistory
<1>1. ASSUME NEW S \in SUBSET Accounts, AccPurges(q, S)
      PROVE  CountInv'
  <2>1. Reads(q, "purge", IdleRequest.account, NoRow, S, 0)
    BY <1>1 DEF AccPurges
  <2>2. S \subseteq Here /\ UNCHANGED <<live, undo, billed, missed, raced, lapsed, owed>>
    BY <1>1 DEF AccPurges
  <2>3. IdleRequest.account \in Accounts
    BY IdleType DEF Reading
  <2>4. QED
    BY <2>1, <2>2, <2>3, ReadsType, UsedIsNat
<1>2. ASSUME NEW a \in Accounts, AccPurgeNext(q, a)
      PROVE  CountInv'
  <2>1. /\ request[q] \in Reading /\ request[q].rest \subseteq Here
        /\ a \in Here
    BY <1>2 DEF AccPurgeNext, CountInv, RequestsHeld, Held, RestHere
  <2>2. UNCHANGED <<live, undo, billed, missed, raced, lapsed, owed>>
    BY <1>2 DEF AccPurgeNext
  <2>3. PICK row \in Row, short \in Used :
           /\ row.used + short = billed[a]
           /\ request' = [request EXCEPT ![q] =
                [pc |-> "delete", account |-> a, row |-> row,
                 rest |-> request[q].rest \ {a}, short |-> short]]
    <3>1. PICK read \in Snapshots(a) :
             request' = [request EXCEPT ![q] =
                [pc |-> "delete", account |-> a, row |-> read.row,
                 rest |-> request[q].rest \ {a}, short |-> read.short]]
      BY <1>2 DEF AccPurgeNext
    <3>2. /\ read.row \in Row /\ read.short \in Used
          /\ read.row.used + read.short = billed[a]
      BY <2>1, <3>1, SnapshotType
    <3>3. QED
      BY <3>1, <3>2
  <2> DEFINE r == [pc |-> "delete", account |-> a, row |-> row,
                   rest |-> request[q].rest \ {a}, short |-> short]
  <2>4. r \in Reading
    BY <2>1, <2>3 DEF Reading
  <2>5. /\ r.row.used + r.short = billed[r.account] /\ r.pc = "delete"
        /\ r.rest \subseteq Here /\ r.account \notin r.rest
    BY <2>1, <2>3
  <2>6. Held(r)
    BY <2>4, <2>5 DEF Held, Kept, Accurate, RestHere
  <2>7. request' = [request EXCEPT ![q] = r]
    BY <2>3
  <2> HIDE DEF r
  <2>8. QED
    BY <2>2, <2>6, <2>7, RequestOnly
<1>3. CASE AccPurged(q)
  BY <1>3, AnswersOnly DEF AccPurged
<1>4. QED
  BY <1>1, <1>2, <1>3

-----------------------------------------------------------------------------
(* The writes.                                                             *)

\* A write of a row that has what the row had keeps everything that is counted.
LEMMA WritesType ==
    ASSUME CountInv, NEW q \in Requests, NEW row, NEW lapses,
           Writes(q, row, lapses),
           Current(q) \in Row => row \in Row /\ row.used = Current(q).used
    PROVE  CountInv'
<1> DEFINE a == request[q].account
<1>1. a \in Accounts
  BY DEF CountInv, AccTypeOK, Reading
<1>2. UNCHANGED <<undo, billed, missed, owed>> /\ Answers(q)
  BY DEF Writes
<1>3. Here \subseteq Here' => request' \in [Requests -> Reading] /\ RequestsHeld'
  BY <1>2, RequestSet, IdleHeld DEF Answers
<1>4. CASE a \notin Here
  BY <1>4, <1>2, <1>3 DEF Writes, CountInv, AccTypeOK, Counted, Here
<1>5. CASE a \in Here
  <2>1. row \in Row /\ row.used = live[a].used
    BY <1>5, HereIsRow DEF Current
  <2>2. /\ live' = [live EXCEPT ![a] = row]
        /\ raced' \subseteq raced \cup {a} /\ lapsed' \subseteq lapsed \cup {a}
    BY <1>5 DEF Writes
  <2>3. live' \in [Accounts -> Row \cup {NoRow}]
    BY <1>1, <2>1, <2>2 DEF CountInv, AccTypeOK
  <2>4. live'[a] = row /\ \A b \in Accounts \ {a} : live'[b] = live[b]
    BY <1>1, <2>2 DEF CountInv, AccTypeOK
  <2>5. Here \subseteq Here'
    BY <2>1, <2>4, RowsAreRows DEF Here
  <2>6. AccTypeOK'
    BY <1>1, <1>2, <1>3, <2>2, <2>3, <2>5 DEF CountInv, AccTypeOK
  <2>7. Counted'
    <3>1. live[a] # NoRow /\ live'[a] # NoRow /\ live'[a].used = live[a].used
      BY <1>5, <2>1, <2>4, RowsAreRows DEF Here
    <3>2. QED
      BY <1>2, <2>4, <3>1 DEF CountInv, Counted
  <2>8. QED
    BY <1>3, <2>5, <2>6, <2>7 DEF CountInv
<1>6. QED
  BY <1>4, <1>5

LEMMA SettingsType ==
    ASSUME CountInv, NEW q \in Requests,
           AccUpdate(q) \/ AccStatus(q) \/ AccStatusRefused(q) \/ AccExtend(q)
    PROVE  CountInv'
<1>1. CASE AccUpdate(q)
  <2>1. PICK asked \in BOOLEAN, entitles \in BOOLEAN, race \in BOOLEAN :
           Writes(q, [Current(q) EXCEPT
                         !.entitled = IF Current(q) = request[q].row THEN entitles
                                                                     ELSE race,
                         !.active = asked /\ ~Blocked(request[q].row.entitled, entitles)],
                  FALSE)
    BY <1>1 DEF AccUpdate
  <2> DEFINE left == IF Current(q) = request[q].row THEN entitles ELSE race
             on == asked /\ ~Blocked(request[q].row.entitled, entitles)
  <2>2. left \in BOOLEAN /\ on \in BOOLEAN
    BY DEF Blocked
  <2> HIDE DEF left, on
  <2> DEFINE row == [Current(q) EXCEPT !.entitled = left, !.active = on]
  <2>3. Current(q) \in Row => row \in Row /\ row.used = Current(q).used
    BY <2>2 DEF Row
  <2>4. Writes(q, row, FALSE)
    BY <2>1 DEF left, on
  <2> HIDE DEF row
  <2>5. QED
    BY <2>3, <2>4, WritesType
<1>2. CASE AccStatus(q)
  <2>1. PICK on \in BOOLEAN : Writes(q, [Current(q) EXCEPT !.active = on], FALSE)
    BY <1>2 DEF AccStatus
  <2> DEFINE row == [Current(q) EXCEPT !.active = on]
  <2>2. Current(q) \in Row => row \in Row /\ row.used = Current(q).used
    BY DEF Row
  <2>3. Writes(q, row, FALSE)
    BY <2>1
  <2> HIDE DEF row
  <2>4. QED
    BY <2>2, <2>3, WritesType
<1>3. CASE AccStatusRefused(q)
  BY <1>3, AnswersOnly DEF AccStatusRefused, accHistory
<1>4. CASE AccExtend(q)
  <2>1. PICK left \in BOOLEAN : Writes(q, [Current(q) EXCEPT !.entitled = left], ~left)
    BY <1>4 DEF AccExtend
  <2> DEFINE row == [Current(q) EXCEPT !.entitled = left]
  <2>2. Current(q) \in Row => row \in Row /\ row.used = Current(q).used
    BY DEF Row
  <2>3. Writes(q, row, ~left)
    BY <2>1
  <2> HIDE DEF row
  <2>4. QED
    BY <2>2, <2>3, WritesType
<1>5. QED
  BY <1>1, <1>2, <1>3, <1>4

\* A step that moves no request, charges nobody and deletes no row.
LEMMA RequestsStay ==
    ASSUME CountInv, UNCHANGED <<request, billed>>, Here \subseteq Here'
    PROVE  RequestsHeld'
<1> SUFFICES ASSUME NEW q \in Requests
             PROVE  Held(request[q])'
  BY DEF RequestsHeld
<1>1. /\ request[q] \in Reading /\ Kept(request[q])
      /\ Accurate(request[q]) /\ RestHere(request[q])
  BY DEF CountInv, RequestsHeld, Held
<1>2. Kept(request[q])'
  BY <1>1 DEF Kept
<1>3. Accurate(request[q])'
  BY <1>1 DEF Accurate
<1>4. RestHere(request[q])'
  BY <1>1 DEF RestHere
<1>5. QED
  BY <1>1, <1>2, <1>3, <1>4 DEF Held

\* A creation, a charge, expiry and the end of a window.
LEMMA CreateType ==
    ASSUME CountInv, NEW a \in Accounts, AccCreate(a)
    PROVE  CountInv'
<1>1. PICK left \in BOOLEAN :
         /\ live' = [live EXCEPT ![a] = [NewRow EXCEPT !.entitled = left]]
         /\ lapsed' \subseteq lapsed \cup {a}
  BY DEF AccCreate
<1> DEFINE row == [NewRow EXCEPT !.entitled = left]
<1>2. row \in Row /\ row.used = 0
  BY UsedIsNat DEF NewRow, Row
<1>3. live' = [live EXCEPT ![a] = row]
  BY <1>1
<1> HIDE DEF row
<1>4. UNCHANGED <<undo, request, billed, missed, raced, owed>>
  BY DEF AccCreate
<1>5. AccTypeOK'
  BY <1>1, <1>2, <1>3, <1>4 DEF CountInv, AccTypeOK
<1>6. live'[a] = row /\ \A b \in Accounts \ {a} : live'[b] = live[b]
  BY <1>3 DEF CountInv, AccTypeOK
<1>7. Counted'
  <2> SUFFICES ASSUME NEW b \in Accounts
               PROVE  /\ billed[b] \in 0 .. MaxCharges[b] /\ missed[b] \in 0 .. billed[b]
                      /\ live'[b] # NoRow => live'[b].used + missed[b] = billed[b]
                      /\ live'[b] = NoRow /\ undo[b] # NoRow
                            => undo[b].used + missed[b] = billed[b]
    BY <1>4 DEF Counted
  <2>1. CASE b # a
    BY <1>6, <2>1 DEF CountInv, Counted
  <2>2. CASE b = a
    <3>1. /\ billed[a] = 0 /\ missed[a] \in 0 .. billed[a]
          /\ billed[a] \in 0 .. MaxCharges[a]
      BY DEF AccCreate, CountInv, Counted
    <3>2. live'[a] # NoRow /\ live'[a].used = 0
      BY <1>2, <1>6, RowsAreRows
    <3>3. QED
      BY <2>2, <3>1, <3>2
  <2>3. QED
    BY <2>1, <2>2
<1>8. Here \subseteq Here'
  BY <1>2, <1>6, RowsAreRows DEF Here
<1>9. QED
  BY <1>4, <1>5, <1>7, <1>8, RequestsStay DEF CountInv

\* A charge is added to what is known to be missing from every reading that will
\* be written.
LEMMA ChargeHeld ==
    ASSUME CountInv, NEW a \in Accounts, AccCharge(a)
    PROVE  request' \in [Requests -> Reading] /\ RequestsHeld'
<1>1. /\ billed' = [billed EXCEPT ![a] = billed[a] + 1] /\ a \in Here
      /\ billed[a] < MaxCharges[a] /\ billed[a] \in Nat
      /\ \A b \in Accounts : billed[b] \in Nat
  BY UsedIsNat DEF AccCharge, CountInv, Counted
<1>2. \A b \in Accounts : billed'[b] = IF b = a THEN billed[a] + 1 ELSE billed[b]
  BY <1>1 DEF CountInv, AccTypeOK
<1>3. Here' = Here
  <2>1. PICK row : live' = [live EXCEPT ![a] = row] /\ row # NoRow
    <3>1. PICK left : live' = [live EXCEPT ![a] =
              [used |-> @.used + 1, entitled |-> left, active |-> @.active /\ left]]
      BY DEF AccCharge
    <3>2. [used |-> live[a].used + 1, entitled |-> left,
           active |-> live[a].active /\ left] # NoRow
      BY DEF NoRow
    <3>3. QED
      BY <3>1, <3>2
  <2>2. QED
    BY <1>1, <2>1 DEF Here, CountInv, AccTypeOK
<1>4. ASSUME NEW q \in Requests
      PROVE  request'[q] \in Reading /\ Held(request[q])'
  <2> DEFINE r == request[q]
  <2>1. r \in Reading /\ Kept(r) /\ Accurate(r) /\ RestHere(r)
    BY DEF CountInv, RequestsHeld, Held
  <2>2. /\ request'[q] = IF Holds(r, a) THEN [r EXCEPT !.short = r.short + 1] ELSE r
        /\ r.account \in Accounts /\ r.short \in Nat
    BY <2>1, UsedIsNat DEF AccCharge, Reading
  <2>3. CASE ~Holds(r, a)
    <3>1. request'[q] = r
      BY <2>2, <2>3
    <3>2. Accurate(request[q])'
      BY <1>2, <2>1, <2>2, <2>3, <3>1 DEF Accurate, Holds
    <3>3. Kept(request[q])'
      BY <2>1, <3>1 DEF Kept
    <3>4. RestHere(request[q])'
      BY <1>3, <2>1, <3>1 DEF RestHere
    <3>5. QED
      BY <2>1, <3>1, <3>2, <3>3, <3>4 DEF Held
  <2>4. CASE Holds(r, a)
    <3>1. /\ r.pc \in {"delete", "insert"} /\ r.account = a /\ r.row # NoRow
          /\ r.row.used + r.short = billed[a] /\ r.row \in Row /\ r.row.used \in Nat
      BY <2>1, <2>4, RowType DEF Holds, Accurate, Reading
    <3>2. r.short + 1 \in 0 .. MaxCharges[a] /\ r.row.used + (r.short + 1) = billed[a] + 1
      BY <1>1, <2>2, <3>1, UsedIsNat
    <3>3. r.short + 1 \in Used
      BY <3>2, UsedIsNat
    <3> DEFINE s == [r EXCEPT !.short = r.short + 1]
    <3>4. s \in Reading
      BY <2>1, <3>3 DEF Reading
    <3>5. /\ s.pc = r.pc /\ s.row = r.row /\ s.account = r.account
          /\ s.rest = r.rest /\ s.short = r.short + 1
      BY <2>1 DEF Reading
    <3>6. request'[q] = s
      BY <2>2, <2>4
    <3> HIDE DEF s
    <3>7. Accurate(request[q])'
      BY <1>2, <2>2, <3>1, <3>2, <3>5, <3>6 DEF Accurate
    <3>8. Kept(request[q])'
      BY <2>1, <3>5, <3>6 DEF Kept
    <3>9. RestHere(request[q])'
      BY <1>3, <2>1, <3>5, <3>6 DEF RestHere
    <3>10. QED
      BY <3>4, <3>6, <3>7, <3>8, <3>9 DEF Held
  <2>5. QED
    BY <2>3, <2>4
<1>5. request' \in [Requests -> Reading]
  <2>1. DOMAIN request' = Requests
        /\ request' = [q \in Requests |-> request'[q]]
    BY DEF AccCharge
  <2>2. QED
    BY <1>4, <2>1
<1>6. QED
  BY <1>4, <1>5 DEF RequestsHeld

LEMMA ChargeType ==
    ASSUME CountInv, NEW a \in Accounts, AccCharge(a)
    PROVE  CountInv'
<1>1. live[a] \in Row /\ billed[a] < MaxCharges[a] /\ a \in Here
  BY HereIsRow DEF AccCharge
<1>2. /\ billed' = [billed EXCEPT ![a] = @ + 1]
      /\ UNCHANGED <<undo, missed, raced, lapsed, owed>>
  BY DEF AccCharge
<1>3. PICK left \in BOOLEAN :
         live' = [live EXCEPT ![a] = [used |-> @.used + 1, entitled |-> left,
                                      active |-> @.active /\ left]]
  BY <1>1 DEF AccCharge, Row
<1> DEFINE row == [used |-> live[a].used + 1, entitled |-> left,
                   active |-> live[a].active /\ left]
<1>4. live[a].used \in Nat /\ billed[a] \in Nat /\ missed[a] \in Nat
      /\ live[a].used + missed[a] = billed[a]
      /\ billed[a] + 1 \in 0 .. MaxCharges[a]
      /\ live[a].used + 1 \in 0 .. MaxCharges[a]
  BY <1>1, RowType, UsedIsNat DEF CountInv, Counted, Here
<1>5. live[a].used + 1 \in Used /\ billed[a] + 1 \in Used
  BY <1>4, UsedIsNat
<1>6. row \in Row /\ row.used = live[a].used + 1
  BY <1>1, <1>5 DEF Row
<1>7. live' = [live EXCEPT ![a] = row]
  BY <1>3
<1> HIDE DEF row
<1>8. AccTypeOK'
  BY <1>2, <1>5, <1>6, <1>7, ChargeHeld DEF CountInv, AccTypeOK
<1>9. /\ live'[a] = row /\ billed'[a] = billed[a] + 1
      /\ \A b \in Accounts \ {a} : live'[b] = live[b] /\ billed'[b] = billed[b]
  BY <1>2, <1>7 DEF CountInv, AccTypeOK
<1>10. Counted'
  <2> SUFFICES ASSUME NEW b \in Accounts
               PROVE  /\ billed'[b] \in 0 .. MaxCharges[b]
                      /\ missed[b] \in 0 .. billed'[b]
                      /\ live'[b] # NoRow => live'[b].used + missed[b] = billed'[b]
                      /\ live'[b] = NoRow /\ undo[b] # NoRow
                            => undo[b].used + missed[b] = billed'[b]
    BY <1>2 DEF Counted
  <2>1. CASE b # a
    BY <1>9, <2>1 DEF CountInv, Counted
  <2>2. CASE b = a
    <3>1. live'[a] # NoRow /\ live'[a].used = live[a].used + 1
      BY <1>6, <1>9, RowsAreRows
    <3>2. QED
      BY <1>4, <1>9, <2>2, <3>1
  <2>3. QED
    BY <2>1, <2>2
<1>11. QED
  BY <1>8, <1>10, ChargeHeld DEF CountInv

LEMMA ExpiresType ==
    ASSUME CountInv, NEW a \in Accounts, AccExpires(a)
    PROVE  CountInv'
<1>1. live[a] \in Row
  BY HereIsRow DEF AccExpires
<1> DEFINE row == [live[a] EXCEPT !.entitled = FALSE]
<1>2. row \in Row /\ row.used = live[a].used
  BY <1>1 DEF Row
<1>3. live' = [live EXCEPT ![a] = row]
  BY DEF AccExpires
<1> HIDE DEF row
<1>4. lapsed' = lapsed \cup {a} /\ UNCHANGED <<undo, request, billed, missed, raced, owed>>
  BY DEF AccExpires
<1>5. AccTypeOK'
  BY <1>2, <1>3, <1>4 DEF CountInv, AccTypeOK
<1>6. live'[a] = row /\ \A b \in Accounts \ {a} : live'[b] = live[b]
  BY <1>3 DEF CountInv, AccTypeOK
<1>7. Counted'
  <2>1. live[a] # NoRow /\ live'[a] # NoRow /\ live'[a].used = live[a].used
    BY <1>1, <1>2, <1>6, RowsAreRows
  <2>2. QED
    BY <1>4, <1>6, <2>1 DEF CountInv, Counted
<1>8. Here \subseteq Here'
  BY <1>2, <1>6, RowsAreRows DEF Here
<1>9. QED
  BY <1>4, <1>5, <1>7, <1>8, RequestsStay DEF CountInv

LEMMA WindowType ==
    ASSUME CountInv, NEW a \in Accounts, AccWindowEnds(a)
    PROVE  CountInv'
<1>1. /\ undo' = [undo EXCEPT ![a] = NoRow] /\ owed' = owed \ {a}
      /\ UNCHANGED <<live, request, billed, missed, raced, lapsed>>
  BY DEF AccWindowEnds
<1>2. AccTypeOK'
  BY <1>1 DEF CountInv, AccTypeOK
<1>3. \A b \in Accounts : undo'[b] = NoRow \/ undo'[b] = undo[b]
  BY <1>1 DEF CountInv, AccTypeOK
<1>4. Counted'
  BY <1>1, <1>3 DEF CountInv, Counted
<1>5. QED
  BY <1>1, <1>2, <1>4, RequestsStay DEF CountInv, Here

-----------------------------------------------------------------------------
(* Deletion and restore.                                                   *)

\* What a deletion leaves every request with.
LEMMA DeleteRequest ==
    ASSUME CountInv, NEW q \in Requests, AccDelete(q)
    PROVE  /\ Proceeded(q) \in Reading
           /\ Proceeded(q).pc \in {"idle", "purge"}
           /\ Proceeded(q).rest \subseteq request[q].rest
<1>1. request[q] \in Reading
  BY DEF CountInv, RequestsHeld, Held
<1>2. CASE request[q].rest = {}
  BY <1>2, IdleType DEF Proceeded, IdleRequest
<1>3. CASE request[q].rest # {}
  <2> DEFINE r == [IdleRequest EXCEPT !.pc = "purge", !.rest = request[q].rest]
  <2>1. r \in Reading /\ r.pc = "purge" /\ r.rest = request[q].rest
    BY <1>1, IdleType DEF Reading
  <2>2. Proceeded(q) = r
    BY <1>3 DEF Proceeded
  <2> HIDE DEF r
  <2>3. QED
    BY <2>1, <2>2
<1>4. QED
  BY <1>2, <1>3

\* Whoever holds the id of the deleted row.
LEMMA OutdatedHeld ==
    ASSUME NEW a \in Accounts, NEW r, Held(r)
    PROVE  /\ Outdated(r, a) \in Reading
           /\ Outdated(r, a).pc = r.pc /\ Outdated(r, a).account = r.account
           /\ Kept(Outdated(r, a)) /\ Accurate(Outdated(r, a))
           /\ Outdated(r, a).rest \subseteq Here \ {a}
           /\ r.pc = "delete" => r.account \notin Outdated(r, a).rest
<1>1. r \in Reading /\ Kept(r) /\ Accurate(r) /\ RestHere(r)
  BY DEF Held
<1>2. CASE r.pc = "delete" /\ r.account = a
  <2> DEFINE s == [r EXCEPT !.row = NoRow, !.short = 0]
  <2>1. /\ s \in Reading /\ s.pc = "delete" /\ s.row = NoRow
        /\ s.account = a /\ s.rest = r.rest
    BY <1>1, <1>2, UsedIsNat DEF Reading
  <2>2. Outdated(r, a) = s
    BY <1>2 DEF Outdated
  <2> HIDE DEF s
  <2>3. r.rest \subseteq Here \ {a}
    BY <1>1, <1>2 DEF RestHere
  <2>4. Kept(s) /\ Accurate(s)
    BY <2>1 DEF Kept, Accurate
  <2>5. QED
    BY <1>2, <2>1, <2>2, <2>3, <2>4
<1>3. CASE ~(r.pc = "delete" /\ r.account = a)
  <2> DEFINE s == [r EXCEPT !.rest = r.rest \ {a}]
  <2>1. /\ s \in Reading /\ s.pc = r.pc /\ s.row = r.row /\ s.short = r.short
        /\ s.account = r.account /\ s.rest = r.rest \ {a}
    BY <1>1 DEF Reading
  <2>2. Outdated(r, a) = s
    BY <1>3 DEF Outdated
  <2> HIDE DEF s
  <2>3. Kept(s) /\ Accurate(s)
    BY <1>1, <2>1 DEF Kept, Accurate
  <2>4. QED
    BY <1>1, <2>1, <2>2, <2>3 DEF RestHere
<1>4. QED
  BY <1>2, <1>3

\* The deletion takes the row.
LEMMA TakenType ==
    ASSUME CountInv, NEW q \in Requests, AccDelete(q), request[q].row # NoRow, MayGo
    PROVE  CountInv'
<1> DEFINE a == request[q].account
<1>1. /\ request[q] \in Reading /\ a \in Accounts /\ request[q].pc = "delete"
      /\ request[q].row \in Row /\ request[q].row.used + request[q].short = billed[a]
      /\ request[q].row.used \in Nat /\ request[q].short \in Used
      /\ request[q].short \in Nat
      /\ request[q].rest \subseteq Here /\ a \notin request[q].rest
  BY RowType, UsedIsNat
     DEF AccDelete, CountInv, RequestsHeld, Held, Accurate, RestHere, Reading
<1>2. /\ request' = [p \in Requests |-> IF p = q THEN Proceeded(q)
                                        ELSE Outdated(request[p], a)]
      /\ undo' = [undo EXCEPT ![a] = request[q].row]
      /\ live' = [live EXCEPT ![a] = NoRow]
      /\ missed' = [missed EXCEPT ![a] = request[q].short]
      /\ owed' \subseteq owed \cup {a} /\ UNCHANGED <<billed, raced, lapsed>>
  BY DEF AccDelete
<1>3. /\ live'[a] = NoRow /\ undo'[a] = request[q].row
      /\ missed'[a] = request[q].short
      /\ \A b \in Accounts \ {a} : /\ live'[b] = live[b] /\ undo'[b] = undo[b]
                                   /\ missed'[b] = missed[b]
  BY <1>1, <1>2 DEF CountInv, AccTypeOK
<1>4. Here' = Here \ {a}
  BY <1>1, <1>3 DEF Here
<1>5. ASSUME NEW p \in Requests
      PROVE  request'[p] \in Reading /\ Held(request[p])'
  <2>1. CASE p = q
    <3>1. request'[p] = Proceeded(q)
      BY <1>2, <2>1
    <3>2. /\ request'[p] \in Reading /\ request'[p].pc \in {"idle", "purge"}
          /\ request'[p].rest \subseteq Here \ {a}
      BY <1>1, <3>1, DeleteRequest
    <3>3. QED
      BY <1>4, <3>2 DEF Held, Kept, Accurate, RestHere
  <2>2. CASE p # q
    <3> DEFINE r == request[p]
               s == Outdated(request[p], a)
    <3>1. request'[p] = s
      BY <1>2, <2>2
    <3>2. Held(r)
      BY DEF CountInv, RequestsHeld
    <3>3. /\ s \in Reading /\ s.pc = r.pc /\ s.account = r.account
          /\ Kept(s) /\ Accurate(s) /\ s.rest \subseteq Here \ {a}
          /\ r.pc = "delete" => r.account \notin s.rest
      BY <1>1, <3>2, OutdatedHeld
    <3> HIDE DEF r, s
    <3>4. Kept(request[p])'
      BY <3>1, <3>3 DEF Kept
    <3>5. Accurate(request[p])'
      BY <1>2, <3>1, <3>3 DEF Accurate
    <3>6. RestHere(request[p])'
      BY <1>4, <3>1, <3>3 DEF RestHere
    <3>7. QED
      BY <3>1, <3>3, <3>4, <3>5, <3>6 DEF Held
  <2>3. QED
    BY <2>1, <2>2
<1>6. request' \in [Requests -> Reading] /\ RequestsHeld'
  <2>1. request' = [p \in Requests |-> request'[p]]
    BY <1>2
  <2>2. QED
    BY <1>5, <2>1 DEF RequestsHeld
<1>7. AccTypeOK'
  BY <1>1, <1>2, <1>6 DEF CountInv, AccTypeOK
<1>8. Counted'
  <2> SUFFICES ASSUME NEW b \in Accounts
               PROVE  /\ billed[b] \in 0 .. MaxCharges[b]
                      /\ missed'[b] \in 0 .. billed[b]
                      /\ live'[b] # NoRow => live'[b].used + missed'[b] = billed[b]
                      /\ live'[b] = NoRow /\ undo'[b] # NoRow
                            => undo'[b].used + missed'[b] = billed[b]
    BY <1>2 DEF Counted
  <2>1. billed[b] \in 0 .. MaxCharges[b] /\ billed[b] \in Nat
    BY UsedIsNat DEF CountInv, Counted
  <2>2. CASE b # a
    BY <1>3, <2>2 DEF CountInv, Counted
  <2>3. CASE b = a
    <3>1. request[q].short \in 0 .. billed[a]
      BY <1>1, <2>1, <2>3
    <3>2. QED
      BY <1>1, <1>3, <2>1, <2>3, <3>1
  <2>4. QED
    BY <2>2, <2>3
<1>9. QED
  BY <1>6, <1>7, <1>8 DEF CountInv

LEMMA DeleteType ==
    ASSUME CountInv, NEW q \in Requests, AccDelete(q)
    PROVE  CountInv'
<1>1. CASE ~(request[q].row # NoRow /\ MayGo)
  <2>1. /\ request' = [request EXCEPT ![q] = Proceeded(q)]
        /\ UNCHANGED <<live, undo, billed, missed, raced, lapsed, owed>>
    BY <1>1 DEF AccDelete, accHistory
  <2>2. request[q].rest \subseteq Here
    BY DEF CountInv, RequestsHeld, Held, RestHere
  <2>3. Held(Proceeded(q))
    BY <2>2, DeleteRequest DEF Held, Kept, Accurate, RestHere
  <2>4. QED
    BY <2>1, <2>3, RequestOnly
<1>2. QED
  BY <1>1, TakenType

LEMMA InsertType ==
    ASSUME CountInv, NEW q \in Requests, AccInsert(q)
    PROVE  CountInv'
<1> DEFINE a == request[q].account
<1>1. /\ request[q] \in Reading /\ a \in Accounts /\ request[q].pc = "insert"
      /\ request[q].row \in Row /\ request[q].row.used + request[q].short = billed[a]
      /\ request[q].row.used \in Nat /\ request[q].short \in Used
      /\ request[q].short \in Nat /\ request[q].rest \subseteq Here
  BY RowType, RowsAreRows, UsedIsNat
     DEF AccInsert, CountInv, RequestsHeld, Held, Kept, Accurate, RestHere, Reading
<1>2. UNCHANGED <<undo, billed, raced>>
  BY DEF AccInsert
<1>3. CASE a \in Here \/ ~NameFree(a)
  <2>1. Answers(q) /\ UNCHANGED <<live, missed, owed, lapsed>>
    BY <1>3 DEF AccInsert
  <2>2. QED
    BY <1>2, <2>1, AnswersOnly
<1>4. CASE ~(a \in Here \/ ~NameFree(a))
  <2>1. PICK left \in BOOLEAN :
           /\ live' = [live EXCEPT ![a] = [request[q].row EXCEPT !.entitled = left]]
           /\ lapsed' \subseteq lapsed \cup {a}
           /\ owed' = owed \ {a}
           /\ missed' = [missed EXCEPT ![a] = request[q].short]
           /\ request' = [request EXCEPT ![q] = Inserted(request[q])]
    BY <1>1, <1>4 DEF AccInsert, Row
  <2> DEFINE row == [request[q].row EXCEPT !.entitled = left]
             r == Inserted(request[q])
  <2>2. row \in Row /\ row.used = request[q].row.used
    BY <1>1 DEF Row
  <2>3. live' = [live EXCEPT ![a] = row]
    BY <2>1
  <2>4. request' = [request EXCEPT ![q] = r]
    BY <2>1
  <2>5. r \in Reading /\ r.rest = request[q].rest /\ r.pc = "forget"
    BY <1>1, UsedIsNat DEF Reading, Inserted
  <2>6. Held(r)
    BY <1>1, <2>5 DEF Held, Kept, Accurate, RestHere
  <2> HIDE DEF row, r
  <2>7. live'[a] = row /\ missed'[a] = request[q].short
        /\ \A b \in Accounts \ {a} : live'[b] = live[b] /\ missed'[b] = missed[b]
    BY <1>1, <2>1, <2>3 DEF CountInv, AccTypeOK
  <2>8. Here \subseteq Here'
    BY <2>2, <2>7, RowsAreRows DEF Here
  <2>9. request' \in [Requests -> Reading] /\ RequestsHeld'
    BY <1>2, <2>4, <2>6, <2>8, RequestSet
  <2>10. AccTypeOK'
    BY <1>1, <1>2, <2>1, <2>2, <2>3, <2>9 DEF CountInv, AccTypeOK
  <2>11. Counted'
    <3> SUFFICES ASSUME NEW b \in Accounts
                 PROVE  /\ billed[b] \in 0 .. MaxCharges[b]
                        /\ missed'[b] \in 0 .. billed[b]
                        /\ live'[b] # NoRow => live'[b].used + missed'[b] = billed[b]
                        /\ live'[b] = NoRow /\ undo[b] # NoRow
                              => undo[b].used + missed'[b] = billed[b]
      BY <1>2 DEF Counted
    <3>1. billed[b] \in 0 .. MaxCharges[b] /\ billed[b] \in Nat
      BY UsedIsNat DEF CountInv, Counted
    <3>2. CASE b # a
      BY <2>7, <3>2 DEF CountInv, Counted
    <3>3. CASE b = a
      <4>1. request[q].short \in 0 .. billed[a]
        BY <1>1, <3>1, <3>3
      <4>2. live'[a] # NoRow /\ live'[a].used = request[q].row.used
        BY <2>2, <2>7, RowsAreRows
      <4>3. QED
        BY <1>1, <2>7, <3>1, <3>3, <4>1, <4>2
    <3>4. QED
      BY <3>2, <3>3
  <2>12. QED
    BY <2>9, <2>10, <2>11 DEF CountInv
<1>5. QED
  BY <1>3, <1>4

LEMMA ForgetType ==
    ASSUME CountInv, NEW q \in Requests, AccForget(q)
    PROVE  CountInv'
<1> DEFINE a == request[q].account
<1>1. /\ undo' = [undo EXCEPT ![a] = NoRow] /\ Answers(q)
      /\ UNCHANGED <<live, billed, missed, raced, lapsed, owed>>
  BY DEF AccForget, accHistory
<1>2. request' \in [Requests -> Reading] /\ RequestsHeld'
  BY <1>1, RequestSet, IdleHeld DEF Answers, Here
<1>3. AccTypeOK'
  BY <1>1, <1>2 DEF CountInv, AccTypeOK
<1>4. \A b \in Accounts : undo'[b] = NoRow \/ undo'[b] = undo[b]
  BY <1>1 DEF CountInv, AccTypeOK
<1>5. Counted'
  BY <1>1, <1>4 DEF CountInv, Counted
<1>6. QED
  BY <1>2, <1>3, <1>5 DEF CountInv

LEMMA DiesType ==
    ASSUME CountInv, AccPanelDies
    PROVE  CountInv'
<1>1. /\ request' = [q \in Requests |-> IdleRequest]
      /\ UNCHANGED <<live, undo, billed, missed, raced, lapsed, owed>>
  BY DEF AccPanelDies, accHistory
<1>2. request' \in [Requests -> Reading]
  BY <1>1, IdleType
<1>3. RequestsHeld'
  <2>1. \A q \in Requests : request'[q] = IdleRequest
    BY <1>1
  <2>2. QED
    BY <1>2, <2>1 DEF RequestsHeld, Held, Kept, Accurate, RestHere, IdleRequest
<1>4. QED
  BY <1>1, <1>2, <1>3 DEF CountInv, AccTypeOK, Counted

-----------------------------------------------------------------------------
(* Types.                                                                  *)

LEMMA CountStep == CountInv /\ [AccNext]_accVars => CountInv'
<1> SUFFICES ASSUME CountInv, [AccNext]_accVars
             PROVE  CountInv'
  OBVIOUS
<1>1. CASE UNCHANGED accVars
  BY <1>1, RequestsStay DEF accVars, CountInv, AccTypeOK, Counted, Here
<1>2. ASSUME NEW a \in Accounts,
             AccCreate(a) \/ AccWindowEnds(a) \/ AccCharge(a) \/ AccExpires(a)
      PROVE  CountInv'
  BY <1>2, CreateType, WindowType, ChargeType, ExpiresType
<1>3. ASSUME NEW q \in Requests,
             \/ AccUpdate(q) \/ AccStatus(q) \/ AccStatusRefused(q) \/ AccExtend(q)
             \/ AccDelete(q) \/ AccPurged(q) \/ AccInsert(q) \/ AccForget(q)
      PROVE  CountInv'
  BY <1>3, SettingsType, DeleteType, PurgeType, InsertType, ForgetType
<1>4. ASSUME NEW q \in Requests, NEW a \in Accounts,
             AccReads(q, a) \/ AccSnapshots(q, a) \/ AccReadsUndo(q, a)
      PROVE  CountInv'
  BY <1>4, ReadingType
<1>5. ASSUME NEW q \in Requests,
             \/ \E a \in Accounts : AccPurgeNext(q, a)
             \/ \E S \in SUBSET Accounts : AccPurges(q, S)
      PROVE  CountInv'
  BY <1>5, PurgeType
<1>6. CASE AccPanelDies
  BY <1>6, DiesType
<1>7. QED
  BY <1>1, <1>2, <1>3, <1>4, <1>5, <1>6 DEF AccNext

LEMMA CountAlways == AccSpec => []CountInv
BY CountInit, CountStep, PTL DEF AccSpec

\* Every row, snapshot and reading has its type, and no request writes a row it
\* has not read: the types rest on what was billed, since a snapshot is compared
\* with it.
THEOREM AccTypeCorrect == AccSpec => []AccTypeOK
<1>1. CountInv => AccTypeOK
  BY DEF CountInv
<1>2. QED
  BY <1>1, CountAlways, PTL

-----------------------------------------------------------------------------
(* Active accounts.                                                        *)

\* What a request writes is entitled when active, if the row did not change
\* since it was read.
LEMMA WritesEntitled ==
    ASSUME CountInv, ActiveIsEntitled, NEW q \in Requests, NEW row,
           NEW lapses \in BOOLEAN, Writes(q, row, lapses),
           Current(q) = request[q].row /\ Current(q) \in Row /\ row.active
               => row.entitled \/ lapses
    PROVE  ActiveIsEntitled'
<1> DEFINE a == request[q].account
<1>1. a \in Accounts
  BY DEF CountInv, AccTypeOK, Reading
<1>2. CASE a \notin Here
  BY <1>2 DEF Writes, ActiveIsEntitled, Here
<1>3. CASE a \in Here
  <2>1. /\ live' = [live EXCEPT ![a] = row]
        /\ raced' = IF live[a] = request[q].row THEN raced \ {a} ELSE raced \cup {a}
        /\ lapsed' = IF lapses THEN lapsed \cup {a} ELSE lapsed \ {a}
    BY <1>3 DEF Writes
  <2>2. live[a] \in Row
    BY <1>3, HereIsRow
  <2>3. live'[a] = row /\ \A b \in Accounts \ {a} : live'[b] = live[b]
    BY <1>1, <2>1 DEF CountInv, AccTypeOK
  <2>4. row.active => row.entitled \/ a \in raced' \cup lapsed'
    BY <2>1, <2>2 DEF Current
  <2>5. \A b \in Accounts \ {a} : b \in raced \cup lapsed => b \in raced' \cup lapsed'
    BY <2>1
  <2>6. QED
    BY <2>3, <2>4, <2>5 DEF ActiveIsEntitled, Here
<1>4. QED
  BY <1>2, <1>3

LEMMA SettingsEntitled ==
    ASSUME CountInv, ActiveIsEntitled, NEW q \in Requests,
           AccUpdate(q) \/ AccStatus(q) \/ AccExtend(q)
    PROVE  ActiveIsEntitled'
<1>1. CASE AccUpdate(q)
  <2>1. PICK asked \in BOOLEAN, entitles \in BOOLEAN, race \in BOOLEAN :
           Writes(q, [Current(q) EXCEPT
                         !.entitled = IF Current(q) = request[q].row THEN entitles
                                                                     ELSE race,
                         !.active = asked /\ ~Blocked(request[q].row.entitled, entitles)],
                  FALSE)
    BY <1>1 DEF AccUpdate
  <2> DEFINE left == IF Current(q) = request[q].row THEN entitles ELSE race
             on == asked /\ ~Blocked(request[q].row.entitled, entitles)
  <2>2. Current(q) = request[q].row /\ on => left
    BY DEF Blocked
  <2>3. left \in BOOLEAN /\ on \in BOOLEAN
    BY DEF Blocked
  <2> HIDE DEF left, on
  <2> DEFINE row == [Current(q) EXCEPT !.entitled = left, !.active = on]
  <2>4. Current(q) \in Row => row.entitled = left /\ row.active = on
    BY DEF Row
  <2>5. Writes(q, row, FALSE)
    BY <2>1 DEF left, on
  <2> HIDE DEF row
  <2>6. QED
    BY <2>2, <2>3, <2>4, <2>5, WritesEntitled
<1>2. CASE AccStatus(q)
  <2>1. PICK on \in BOOLEAN : /\ on => request[q].row.entitled
                              /\ Writes(q, [Current(q) EXCEPT !.active = on], FALSE)
    BY <1>2 DEF AccStatus
  <2> DEFINE row == [Current(q) EXCEPT !.active = on]
  <2>2. Current(q) \in Row => row.entitled = Current(q).entitled /\ row.active = on
    BY DEF Row
  <2>3. Writes(q, row, FALSE)
    BY <2>1
  <2> HIDE DEF row
  <2>4. Current(q) = request[q].row /\ Current(q) \in Row /\ row.active => row.entitled
    BY <2>1, <2>2
  <2>5. QED
    BY <2>3, <2>4, WritesEntitled
<1>3. CASE AccExtend(q)
  <2>1. PICK left \in BOOLEAN : Writes(q, [Current(q) EXCEPT !.entitled = left], ~left)
    BY <1>3 DEF AccExtend
  <2> DEFINE row == [Current(q) EXCEPT !.entitled = left]
  <2>2. Current(q) \in Row => row.entitled = left
    BY DEF Row
  <2>3. Writes(q, row, ~left)
    BY <2>1
  <2> HIDE DEF row
  <2>4. Current(q) \in Row => row.entitled \/ ~left
    BY <2>2
  <2>5. QED
    BY <2>3, <2>4, WritesEntitled
<1>4. QED
  BY <1>1, <1>2, <1>3

\* A step that leaves the rows alone, or takes some away.
LEMMA FewerRowsEntitled ==
    ASSUME ActiveIsEntitled, UNCHANGED <<raced, lapsed>>,
           \A a \in Accounts : live'[a] = live[a] \/ live'[a] = NoRow
    PROVE  ActiveIsEntitled'
BY DEF ActiveIsEntitled, Here

\* A step that gives one account a row, in lapsed when it is not entitled.
LEMMA RowEntitled ==
    ASSUME CountInv, ActiveIsEntitled, NEW a \in Accounts, NEW row \in Row,
           live' = [live EXCEPT ![a] = row], UNCHANGED raced,
           \A b \in Accounts \ {a} : b \in lapsed => b \in lapsed',
           row.active => row.entitled \/ a \in raced \cup lapsed'
    PROVE  ActiveIsEntitled'
<1>1. live'[a] = row /\ \A b \in Accounts \ {a} : live'[b] = live[b]
  BY DEF CountInv, AccTypeOK
<1>2. QED
  BY <1>1 DEF ActiveIsEntitled, Here

LEMMA EntitledStep ==
    CountInv /\ ActiveIsEntitled /\ [AccNext]_accVars => ActiveIsEntitled'
<1> SUFFICES ASSUME CountInv, ActiveIsEntitled, [AccNext]_accVars
             PROVE  ActiveIsEntitled'
  OBVIOUS
<1> USE DEF accHistory
<1>1. CASE UNCHANGED accVars
  BY <1>1 DEF accVars, ActiveIsEntitled, Here
<1>2. ASSUME NEW a \in Accounts, AccCreate(a)
      PROVE  ActiveIsEntitled'
  <2>1. PICK left \in BOOLEAN :
           /\ live' = [live EXCEPT ![a] = [NewRow EXCEPT !.entitled = left]]
           /\ lapsed' = IF left THEN lapsed \ {a} ELSE lapsed \cup {a}
    BY <1>2 DEF AccCreate
  <2> DEFINE row == [NewRow EXCEPT !.entitled = left]
  <2>2. row \in Row /\ row.entitled = left
    BY RowsAreRows DEF Row, NewRow
  <2>3. live' = [live EXCEPT ![a] = row] /\ UNCHANGED raced
    BY <1>2, <2>1 DEF AccCreate
  <2> HIDE DEF row
  <2>4. QED
    BY <2>1, <2>2, <2>3, RowEntitled
<1>3. ASSUME NEW a \in Accounts, AccCharge(a)
      PROVE  ActiveIsEntitled'
  <2>1. live[a] \in Row
    BY <1>3, HereIsRow DEF AccCharge
  <2>2. PICK left \in BOOLEAN :
           live' = [live EXCEPT ![a] = [used |-> @.used + 1, entitled |-> left,
                                        active |-> @.active /\ left]]
    BY <1>3, <2>1 DEF AccCharge, Row
  <2> DEFINE row == [used |-> live[a].used + 1, entitled |-> left,
                     active |-> live[a].active /\ left]
  <2>3. row.active => row.entitled
    OBVIOUS
  <2>4. live' = [live EXCEPT ![a] = row] /\ UNCHANGED <<raced, lapsed>>
    BY <1>3, <2>2 DEF AccCharge
  <2>5. row = live'[a]
    BY <2>4 DEF CountInv, AccTypeOK
  <2>6. row \in Row
    BY <1>3, <2>1, <2>5, ChargeType, RowType, RowsAreRows
       DEF CountInv, AccTypeOK, Row, NoRow
  <2> HIDE DEF row
  <2>7. QED
    BY <2>3, <2>4, <2>6, RowEntitled
<1>4. ASSUME NEW a \in Accounts, AccExpires(a)
      PROVE  ActiveIsEntitled'
  <2>1. live[a] \in Row
    BY <1>4, HereIsRow DEF AccExpires
  <2> DEFINE row == [live[a] EXCEPT !.entitled = FALSE]
  <2>2. row \in Row
    BY <2>1 DEF Row
  <2>3. /\ live' = [live EXCEPT ![a] = row]
        /\ lapsed' = lapsed \cup {a} /\ UNCHANGED raced
    BY <1>4 DEF AccExpires
  <2> HIDE DEF row
  <2>4. QED
    BY <2>2, <2>3, RowEntitled
<1>5. ASSUME NEW q \in Requests, AccUpdate(q) \/ AccStatus(q) \/ AccExtend(q)
      PROVE  ActiveIsEntitled'
  BY <1>5, SettingsEntitled
<1>6. ASSUME NEW q \in Requests, AccDelete(q)
      PROVE  ActiveIsEntitled'
  <2>1. UNCHANGED <<raced, lapsed>>
        /\ (live' = live \/ live' = [live EXCEPT ![request[q].account] = NoRow])
    BY <1>6 DEF AccDelete
  <2>2. \A a \in Accounts : live'[a] = live[a] \/ live'[a] = NoRow
    BY <2>1 DEF CountInv, AccTypeOK
  <2>3. QED
    BY <2>1, <2>2, FewerRowsEntitled
<1>7. ASSUME NEW q \in Requests, AccInsert(q)
      PROVE  ActiveIsEntitled'
  <2> DEFINE a == request[q].account
  <2>1. a \in Accounts /\ request[q].row \in Row /\ UNCHANGED raced
    BY <1>7 DEF AccInsert, CountInv, RequestsHeld, Held, Kept, Reading
  <2>2. CASE a \in Here \/ ~NameFree(a)
    BY <1>7, <2>1, <2>2, FewerRowsEntitled DEF AccInsert
  <2>3. CASE ~(a \in Here \/ ~NameFree(a))
    <3>1. PICK left \in BOOLEAN :
             /\ live' = [live EXCEPT ![a] = [request[q].row EXCEPT !.entitled = left]]
             /\ lapsed' = IF left THEN lapsed \ {a} ELSE lapsed \cup {a}
      BY <1>7, <2>1, <2>3 DEF AccInsert, Row
    <3> DEFINE row == [request[q].row EXCEPT !.entitled = left]
    <3>2. row \in Row /\ row.entitled = left
      BY <2>1 DEF Row
    <3>3. live' = [live EXCEPT ![a] = row]
      BY <3>1
    <3> HIDE DEF row
    <3>4. QED
      BY <2>1, <3>1, <3>2, <3>3, RowEntitled
  <2>4. QED
    BY <2>2, <2>3
<1>8. CASE UNCHANGED <<live, raced, lapsed>>
  BY <1>8, FewerRowsEntitled
<1>9. ASSUME NEW q \in Requests,
             \/ AccStatusRefused(q) \/ AccPurged(q) \/ AccForget(q)
             \/ \E a \in Accounts : \/ AccReads(q, a) \/ AccSnapshots(q, a)
                                    \/ AccReadsUndo(q, a) \/ AccPurgeNext(q, a)
             \/ \E S \in SUBSET Accounts : AccPurges(q, S)
      PROVE  UNCHANGED <<live, raced, lapsed>>
  BY <1>9 DEF AccStatusRefused, AccPurged, AccForget, AccReads, AccSnapshots,
              AccReadsUndo, AccPurgeNext, AccPurges
<1>10. AccPanelDies \/ (\E a \in Accounts : AccWindowEnds(a))
          => UNCHANGED <<live, raced, lapsed>>
  BY DEF AccPanelDies, AccWindowEnds
<1>11. QED
  BY <1>1, <1>2, <1>3, <1>4, <1>5, <1>6, <1>7, <1>8, <1>9, <1>10 DEF AccNext

\* Whatever requests, charges and restores interleave, an active account is
\* entitled but for the windows raced and lapsed name.
THEOREM ActiveAreEntitled == AccSpec => []ActiveIsEntitled
<1>1. AccInit => ActiveIsEntitled
  BY DEF AccInit, ActiveIsEntitled, Here, NewRow, NoRow
<1>2. QED
  BY <1>1, CountAlways, EntitledStep, PTL DEF AccSpec

-----------------------------------------------------------------------------
(* Deletion and its window.                                                *)

\* A restore that is about to forget a snapshot put the account back, or found
\* it there, and nobody is owed it.
ForgetOwesNothing ==
    \A q \in Requests : request[q].pc = "forget" => request[q].account \notin owed

OwedKept == \A a \in owed : a \notin Here /\ undo[a] # NoRow

UndoInv == LastUserStays /\ OwedKept /\ ForgetOwesNothing

\* A step that leaves the rows and the snapshots alone.
LEMMA UndoSame ==
    ASSUME UndoInv, UNCHANGED <<live, undo, owed>>,
           \A q \in Requests : \/ request'[q].pc # "forget"
                               \/ request'[q] = request[q]
                               \/ request'[q].account \notin owed
    PROVE  UndoInv'
BY DEF UndoInv, LastUserStays, OwedKept, ForgetOwesNothing, Here

\* What one request does to the others.
LEMMA OneRequest ==
    ASSUME CountInv, NEW q \in Requests, NEW r,
           request' = [request EXCEPT ![q] = r]
    PROVE  \A p \in Requests : request'[p] = IF p = q THEN r ELSE request[p]
BY DEF CountInv, AccTypeOK

\* A step that gives an account that is here, or owed to nobody, another row.
LEMMA UndoRow ==
    ASSUME CountInv, UndoInv, NEW a \in Accounts, NEW row \in Row,
           live' = [live EXCEPT ![a] = row], owed' = owed \ {a},
           UNCHANGED undo,
           \A q \in Requests : \/ request'[q].pc # "forget"
                               \/ /\ request'[q].pc = request[q].pc
                                  /\ request'[q].account = request[q].account
                               \/ request'[q].account = a
    PROVE  UndoInv'
<1>1. live'[a] = row /\ \A b \in Accounts \ {a} : live'[b] = live[b]
  BY DEF CountInv, AccTypeOK
<1>2. a \in Here'
  BY <1>1, RowsAreRows DEF Here
<1>3. owed \subseteq Accounts
  BY DEF CountInv, AccTypeOK
<1>4. OwedKept'
  BY <1>1, <1>3 DEF UndoInv, OwedKept, Here
<1>5. QED
  BY <1>2, <1>4 DEF UndoInv, LastUserStays, ForgetOwesNothing

\* The count in the DELETE leaves somebody.
LEMMA SomebodyStays ==
    ASSUME NEW a, MayGo
    PROVE  Here \ {a} # {}
<1> SUFFICES ASSUME Here \ {a} = {}
             PROVE  FALSE
  OBVIOUS
<1>1. (Here = {} \/ Here = {a}) /\ Cardinality(Here) > 1
  BY DEF MayGo
<1>2. Cardinality({a}) = 1 /\ Cardinality({}) = 0
  BY FS_Singleton, FS_EmptySet
<1>3. QED
  BY <1>1, <1>2

LEMMA DeleteUndo ==
    ASSUME CountInv, UndoInv, NEW q \in Requests, AccDelete(q)
    PROVE  UndoInv'
<1>1. CASE ~(request[q].row # NoRow /\ MayGo)
  <2>1. request' = [request EXCEPT ![q] = Proceeded(q)] /\ UNCHANGED <<live, undo, owed>>
    BY <1>1 DEF AccDelete, accHistory
  <2>2. QED
    BY <2>1, DeleteRequest, OneRequest, UndoSame
<1>2. CASE request[q].row # NoRow /\ MayGo
  <2> DEFINE a == request[q].account
  <2>1. /\ undo' = [undo EXCEPT ![a] = request[q].row]
        /\ live' = [live EXCEPT ![a] = NoRow]
        /\ owed' = IF Restoring(a) THEN owed ELSE owed \cup {a}
        /\ request' = [p \in Requests |-> IF p = q THEN Proceeded(q)
                                          ELSE Outdated(request[p], a)]
    BY <1>2 DEF AccDelete
  <2>2. a \in Accounts
    BY DEF CountInv, RequestsHeld, Held, Reading
  <2>3. Here' = Here \ {a} /\ undo'[a] = request[q].row
        /\ \A b \in Accounts \ {a} : undo'[b] = undo[b]
    BY <2>1, <2>2 DEF CountInv, AccTypeOK, Here
  <2>4. LastUserStays'
    BY <1>2, <2>3, SomebodyStays DEF LastUserStays
  <2>5. OwedKept'
    <3>1. owed \subseteq Accounts
      BY DEF CountInv, AccTypeOK
    <3>2. QED
      BY <1>2, <2>1, <2>3, <3>1 DEF UndoInv, OwedKept
  <2>6. \A p \in Requests :
           request'[p].pc = "forget" => /\ request[p].pc = "forget"
                                        /\ request'[p].account = request[p].account
    <3> SUFFICES ASSUME NEW p \in Requests, request'[p].pc = "forget"
                 PROVE  /\ request[p].pc = "forget"
                        /\ request'[p].account = request[p].account
      OBVIOUS
    <3>1. p # q
      BY <2>1, DeleteRequest
    <3>2. request'[p] = Outdated(request[p], a)
      BY <2>1, <3>1
    <3>3. Held(request[p])
      BY DEF CountInv, RequestsHeld
    <3>4. QED
      BY <2>2, <3>2, <3>3, OutdatedHeld
  <2>7. ForgetOwesNothing'
    BY <2>1, <2>6 DEF UndoInv, ForgetOwesNothing, Restoring
  <2>8. QED
    BY <2>4, <2>5, <2>7 DEF UndoInv
<1>3. QED
  BY <1>1, <1>2

LEMMA RestoreUndo ==
    ASSUME CountInv, UndoInv, NEW q \in Requests,
           AccInsert(q) \/ AccForget(q)
    PROVE  UndoInv'
<1> DEFINE a == request[q].account
<1>1. a \in Accounts /\ request[q] \in Reading
  BY DEF CountInv, AccTypeOK, Reading
<1>2. Answers(q) => \A p \in Requests : request'[p].pc # "forget" \/ request'[p] = request[p]
  BY OneRequest DEF Answers, IdleRequest
<1>3. CASE AccInsert(q)
  <2>1. CASE a \in Here \/ ~NameFree(a)
    <3>1. Answers(q) /\ UNCHANGED <<live, undo, owed>>
      BY <1>3, <2>1 DEF AccInsert
    <3>2. QED
      BY <1>2, <3>1, UndoSame
  <2>2. CASE ~(a \in Here \/ ~NameFree(a))
    <3>1. request[q].row \in Row
      BY <1>3 DEF AccInsert, CountInv, RequestsHeld, Held, Kept
    <3>2. PICK left \in BOOLEAN :
             /\ live' = [live EXCEPT ![a] = [request[q].row EXCEPT !.entitled = left]]
             /\ owed' = owed \ {a}
             /\ request' = [request EXCEPT ![q] = Inserted(request[q])]
             /\ UNCHANGED undo
      BY <1>3, <2>2, <3>1 DEF AccInsert, Row
    <3> DEFINE row == [request[q].row EXCEPT !.entitled = left]
               r == Inserted(request[q])
    <3>3. row \in Row
      BY <3>1 DEF Row
    <3>4. live' = [live EXCEPT ![a] = row]
      BY <3>2
    <3>5. request' = [request EXCEPT ![q] = r]
      BY <3>2
    <3>6. r.account = a
      BY <1>1 DEF Reading, Inserted
    <3> HIDE DEF row, r
    <3>7. \A p \in Requests : request'[p] = request[p] \/ request'[p].account = a
      BY <3>5, <3>6, OneRequest
    <3>8. QED
      BY <1>1, <3>2, <3>3, <3>4, <3>7, UndoRow
  <2>3. QED
    BY <2>1, <2>2
<1>4. CASE AccForget(q)
  <2>1. /\ undo' = [undo EXCEPT ![a] = NoRow] /\ Answers(q) /\ a \notin owed
        /\ UNCHANGED <<live, owed>>
    BY <1>4 DEF AccForget, accHistory, UndoInv, ForgetOwesNothing
  <2>2. \A b \in owed : undo'[b] = undo[b]
    BY <2>1 DEF CountInv, AccTypeOK
  <2>3. QED
    BY <1>2, <2>1, <2>2
       DEF UndoInv, LastUserStays, OwedKept, ForgetOwesNothing, Here
<1>5. QED
  BY <1>3, <1>4

\* The requests that read, or write settings.
LEMMA OthersUndo ==
    ASSUME CountInv, UndoInv, NEW q \in Requests,
           \/ AccUpdate(q) \/ AccStatus(q) \/ AccStatusRefused(q) \/ AccExtend(q)
           \/ AccPurged(q)
           \/ \E a \in Accounts : \/ AccReads(q, a) \/ AccSnapshots(q, a)
                                  \/ AccReadsUndo(q, a) \/ AccPurgeNext(q, a)
           \/ \E S \in SUBSET Accounts : AccPurges(q, S)
    PROVE  UndoInv'
<1> USE DEF accHistory
<1>1. Answers(q) => \A p \in Requests : request'[p].pc # "forget" \/ request'[p] = request[p]
  BY OneRequest DEF Answers, IdleRequest
<1>2. CASE AccUpdate(q) \/ AccStatus(q) \/ AccExtend(q)
  <2> DEFINE a == request[q].account
  <2>1. PICK row, lapses : Writes(q, row, lapses)
    BY <1>2 DEF AccUpdate, AccStatus, AccExtend
  <2>2. Answers(q) /\ UNCHANGED <<undo, owed>>
    BY <2>1 DEF Writes
  <2>3. CASE a \notin Here
    <3>1. UNCHANGED live
      BY <2>1, <2>3 DEF Writes
    <3>2. QED
      BY <1>1, <2>2, <3>1, UndoSame
  <2>4. CASE a \in Here
    <3>1. live' = [live EXCEPT ![a] = row] /\ a \in Accounts /\ a \notin owed
      BY <2>1, <2>4 DEF Writes, Here, UndoInv, OwedKept
    <3>2. live'[a] = row
      BY <3>1 DEF CountInv, AccTypeOK
    <3>3. row # NoRow
      <4>1. CountInv'
        BY <1>2, SettingsType
      <4>2. CASE AccUpdate(q)
        <5>1. PICK left, on :
                 live' = [live EXCEPT ![a] = [live[a] EXCEPT !.entitled = left,
                                                             !.active = on]]
          BY <4>2, <2>4 DEF AccUpdate, Writes, Current
        <5>2. live'[a] = [live[a] EXCEPT !.entitled = left, !.active = on]
          BY <3>1, <5>1 DEF CountInv, AccTypeOK
        <5>3. DOMAIN live'[a] = DOMAIN live[a] /\ live[a] \in Row
          BY <5>2, <2>4, HereIsRow
        <5>4. QED
          BY <3>2, <5>3 DEF Row, NoRow
      <4>3. CASE AccStatus(q)
        <5>1. PICK on : live' = [live EXCEPT ![a] = [live[a] EXCEPT !.active = on]]
          BY <4>3, <2>4 DEF AccStatus, Writes, Current
        <5>2. live'[a] = [live[a] EXCEPT !.active = on]
          BY <3>1, <5>1 DEF CountInv, AccTypeOK
        <5>3. DOMAIN live'[a] = DOMAIN live[a] /\ live[a] \in Row
          BY <5>2, <2>4, HereIsRow
        <5>4. QED
          BY <3>2, <5>3 DEF Row, NoRow
      <4>4. CASE AccExtend(q)
        <5>1. PICK left : live' = [live EXCEPT ![a] = [live[a] EXCEPT !.entitled = left]]
          BY <4>4, <2>4 DEF AccExtend, Writes, Current
        <5>2. live'[a] = [live[a] EXCEPT !.entitled = left]
          BY <3>1, <5>1 DEF CountInv, AccTypeOK
        <5>3. DOMAIN live'[a] = DOMAIN live[a] /\ live[a] \in Row
          BY <5>2, <2>4, HereIsRow
        <5>4. QED
          BY <3>2, <5>3 DEF Row, NoRow
      <4>5. QED
        BY <1>2, <4>2, <4>3, <4>4
    <3>4. row \in Row
      BY <1>2, <3>1, <3>2, <3>3, SettingsType, RowType DEF CountInv, AccTypeOK
    <3>5. owed' = owed \ {a}
      BY <2>2, <3>1
    <3>6. QED
      BY <1>1, <2>2, <3>1, <3>4, <3>5, UndoRow
  <2>5. QED
    BY <2>3, <2>4
<1>3. CASE AccStatusRefused(q) \/ AccPurged(q)
  BY <1>1, <1>3, UndoSame DEF AccStatusRefused, AccPurged
<1>4. ASSUME NEW pc, NEW a, NEW row, NEW rest, NEW short,
             Reads(q, pc, a, row, rest, short), UNCHANGED <<live, undo, owed>>,
             pc # "forget" \/ a \notin owed
      PROVE  UndoInv'
  <2> DEFINE r == [pc |-> pc, account |-> a, row |-> row, rest |-> rest,
                   short |-> short]
  <2>1. request' = [request EXCEPT ![q] = r] /\ r.pc = pc /\ r.account = a
    BY <1>4 DEF Reads
  <2> HIDE DEF r
  <2>2. QED
    BY <1>4, <2>1, OneRequest, UndoSame
<1>5. ASSUME NEW a \in Accounts, AccReads(q, a) \/ AccSnapshots(q, a) \/ AccReadsUndo(q, a)
      PROVE  UndoInv'
  <2>1. CASE AccReads(q, a)
    BY <2>1, <1>4 DEF AccReads
  <2>2. CASE AccSnapshots(q, a)
    BY <2>2, <1>4 DEF AccSnapshots
  <2>3. CASE AccReadsUndo(q, a) /\ a \in Here
    BY <2>3, <1>4 DEF AccReadsUndo, UndoInv, OwedKept
  <2>4. CASE AccReadsUndo(q, a) /\ a \notin Here
    BY <2>4, <1>4 DEF AccReadsUndo
  <2>5. QED
    BY <1>5, <2>1, <2>2, <2>3, <2>4
<1>6. ASSUME NEW S \in SUBSET Accounts, AccPurges(q, S)
      PROVE  UndoInv'
  BY <1>6, <1>4 DEF AccPurges
<1>7. ASSUME NEW a \in Accounts, AccPurgeNext(q, a)
      PROVE  UndoInv'
  <2>1. PICK row, short :
           request' = [request EXCEPT ![q] =
                [pc |-> "delete", account |-> a, row |-> row,
                 rest |-> request[q].rest \ {a}, short |-> short]]
    BY <1>7 DEF AccPurgeNext
  <2> DEFINE r == [pc |-> "delete", account |-> a, row |-> row,
                   rest |-> request[q].rest \ {a}, short |-> short]
  <2>2. request' = [request EXCEPT ![q] = r] /\ r.pc = "delete"
    BY <2>1
  <2> HIDE DEF r
  <2>3. UNCHANGED <<live, undo, owed>>
    BY <1>7 DEF AccPurgeNext
  <2>4. QED
    BY <2>2, <2>3, OneRequest, UndoSame
<1>8. QED
  BY <1>2, <1>3, <1>5, <1>6, <1>7

LEMMA UndoStep == CountInv /\ UndoInv /\ [AccNext]_accVars => UndoInv'
<1> SUFFICES ASSUME CountInv, UndoInv, [AccNext]_accVars
             PROVE  UndoInv'
  OBVIOUS
<1>1. CASE UNCHANGED accVars
  BY <1>1, UndoSame DEF accVars
<1>2. ASSUME NEW a \in Accounts, AccCreate(a)
      PROVE  UndoInv'
  <2>1. PICK left \in BOOLEAN :
           live' = [live EXCEPT ![a] = [NewRow EXCEPT !.entitled = left]]
    BY <1>2 DEF AccCreate
  <2> DEFINE row == [NewRow EXCEPT !.entitled = left]
  <2>2. row \in Row
    BY RowsAreRows DEF Row, NewRow
  <2>3. live' = [live EXCEPT ![a] = row]
    BY <2>1
  <2> HIDE DEF row
  <2>4. a \notin owed /\ UNCHANGED <<undo, request, owed>>
    BY <1>2 DEF AccCreate, UndoInv, OwedKept
  <2>5. QED
    BY <2>2, <2>3, <2>4, UndoRow
<1>3. ASSUME NEW a \in Accounts, AccCharge(a) \/ AccExpires(a)
      PROVE  UndoInv'
  <2>1. a \in Here /\ live[a] \in Row /\ a \notin owed
    BY <1>3, HereIsRow DEF AccCharge, AccExpires, UndoInv, OwedKept
  <2>2. /\ UNCHANGED <<undo, owed>>
        /\ \A q \in Requests : /\ request'[q].pc = request[q].pc
                               /\ request'[q].account = request[q].account
    <3>1. CASE AccExpires(a)
      BY <3>1 DEF AccExpires
    <3>2. CASE AccCharge(a)
      <4>1. \A q \in Requests :
               request'[q] = IF Holds(request[q], a)
                             THEN [request[q] EXCEPT !.short = request[q].short + 1]
                             ELSE request[q]
        BY <3>2 DEF AccCharge
      <4>2. \A q \in Requests : request[q] \in Reading
        BY DEF CountInv, AccTypeOK
      <4>3. ASSUME NEW q \in Requests
            PROVE  /\ request'[q].pc = request[q].pc
                   /\ request'[q].account = request[q].account
        BY <4>1, <4>2 DEF Reading
      <4>4. QED
        BY <3>2, <4>3 DEF AccCharge
    <3>3. QED
      BY <1>3, <3>1, <3>2
  <2>3. PICK row : live' = [live EXCEPT ![a] = row] /\ row # NoRow
    <3>1. CASE AccCharge(a)
      <4>1. PICK left : live' = [live EXCEPT ![a] =
                [used |-> @.used + 1, entitled |-> left, active |-> @.active /\ left]]
        BY <3>1 DEF AccCharge
      <4>2. [used |-> live[a].used + 1, entitled |-> left,
             active |-> live[a].active /\ left] # NoRow
        BY DEF NoRow
      <4>3. QED
        BY <4>1, <4>2
    <3>2. CASE AccExpires(a)
      <4>1. [live[a] EXCEPT !.entitled = FALSE] \in Row
        BY <2>1 DEF Row
      <4>2. QED
        BY <3>2, <4>1, RowsAreRows DEF AccExpires
    <3>3. QED
      BY <1>3, <3>1, <3>2
  <2>4. live'[a] = row
    BY <2>3 DEF CountInv, AccTypeOK
  <2>5. row \in Row
    BY <1>3, <2>3, <2>4, ChargeType, ExpiresType, RowType DEF CountInv, AccTypeOK
  <2>6. QED
    BY <2>1, <2>2, <2>3, <2>5, UndoRow
<1>4. ASSUME NEW a \in Accounts, AccWindowEnds(a)
      PROVE  UndoInv'
  <2>1. /\ undo' = [undo EXCEPT ![a] = NoRow] /\ owed' = owed \ {a}
        /\ UNCHANGED <<live, request>>
    BY <1>4 DEF AccWindowEnds
  <2>2. \A b \in owed' : undo'[b] = undo[b]
    BY <2>1 DEF CountInv, AccTypeOK
  <2>3. QED
    BY <2>1, <2>2 DEF UndoInv, LastUserStays, OwedKept, ForgetOwesNothing, Here
<1>5. CASE AccPanelDies
  <2>1. \A q \in Requests : request'[q].pc = "idle"
    BY <1>5 DEF AccPanelDies, IdleRequest
  <2>2. QED
    BY <1>5, <2>1, UndoSame DEF AccPanelDies, accHistory
<1>6. QED
  BY <1>1, <1>2, <1>3, <1>4, <1>5, DeleteUndo, RestoreUndo, OthersUndo DEF AccNext

\* Removals, purges and restores at any time leave a user, and every deleted
\* account is kept with what was billed to it until its window passes.
THEOREM DeletionKeeps == AccSpec => []DeletionKeepsAccounts
<1>1. AccInit => UndoInv
  <2> SUFFICES ASSUME AccInit
               PROVE  UndoInv
    OBVIOUS
  <2>1. PICK a \in Accounts :
           live = [b \in Accounts |-> IF b = a THEN NewRow ELSE NoRow]
    BY DEF AccInit
  <2>2. a \in Here
    BY <2>1, RowsAreRows DEF Here
  <2>3. \A q \in Requests : request[q].pc = "idle"
    BY DEF AccInit, IdleRequest
  <2>4. QED
    BY <2>2, <2>3 DEF AccInit, UndoInv, LastUserStays, OwedKept, ForgetOwesNothing
<1>2. CountInv /\ UndoInv => DeletionKeepsAccounts
  BY DEF UndoInv, DeletionKeepsAccounts, OwedKept, UndoKept, CountInv, AccTypeOK,
         Counted, Here
<1>3. QED
  BY <1>1, <1>2, CountAlways, UndoStep, PTL DEF AccSpec
=============================================================================
