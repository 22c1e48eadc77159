----------------------------- MODULE UserAccounts -----------------------------
(***************************************************************************)
(* The administrator's requests on user accounts (internal/users): every   *)
(* one reads a row, decides, and writes some columns back by uuid, while   *)
(* other requests and the traffic pass write too.  A deletion leaves a     *)
(* snapshot that a restore turns into a row again.                         *)
(*                                                                         *)
(* Quota and expiry are abstracted to whether they entitle the user.       *)
(***************************************************************************)
EXTENDS Naturals, FiniteSets

CONSTANTS
    Accounts,   \* uuids
    NameOf,     \* the name each account asks for
    Edited,     \* bound: the accounts whose settings are edited
    Removed,    \* bound: the accounts that are deleted
    Unread,     \* bound: of those, the ones a deletion may fail to read
    Requests,   \* bound: the requests under way at once
    MaxCharges  \* bound: what is billed to each account

ASSUME AccountAssumption ==
    /\ Edited \cup Removed \subseteq Accounts /\ Unread \subseteq Removed
    /\ MaxCharges \in [Accounts -> Nat]
    /\ Accounts # {} /\ IsFiniteSet(Accounts) /\ DOMAIN NameOf = Accounts

VARIABLES
    live,    \* the users rows
    undo,    \* the deleted_users rows
    request, \* the requests under way
    billed,  \* history: what the account was charged
    missed,  \* history: of that, what is not in the row or the snapshot
    raced,   \* history: accounts a request wrote that had changed since it read
    lapsed,  \* history: accounts time, a creation, an extension or a restore left
             \* active and not entitled
    owed     \* history: deleted accounts whose restore the panel promises

accVars == <<live, undo, request, billed, missed, raced, lapsed, owed>>
accHistory == <<billed, missed, raced, lapsed, owed>>

Used == UNION {0 .. MaxCharges[a] : a \in Accounts}
Row == [used : Used, entitled : BOOLEAN, active : BOOLEAN]
NoRow == [used |-> 0]
NewRow == [used |-> 0, entitled |-> TRUE, active |-> TRUE]
Reading == [pc : {"idle", "edit", "delete", "purge", "insert", "forget"},
            account : Accounts, row : Row \cup {NoRow}, rest : SUBSET Accounts,
            short : Used]   \* history: what was charged and is not in row

AccTypeOK ==
    /\ live \in [Accounts -> Row \cup {NoRow}]
    /\ undo \in [Accounts -> Row \cup {NoRow}]
    /\ request \in [Requests -> Reading]
    /\ billed \in [Accounts -> Used] /\ missed \in [Accounts -> Used]
    /\ raced \subseteq Accounts /\ lapsed \subseteq Accounts /\ owed \subseteq Accounts

Here == {a \in Accounts : live[a] # NoRow}
IdleRequest == [pc |-> "idle", account |-> CHOOSE a \in Accounts : TRUE,
                row |-> NoRow, rest |-> {}, short |-> 0]

\* The first user, which the migration seeds.
AccInit ==
    /\ \E a \in Accounts : live = [b \in Accounts |-> IF b = a THEN NewRow ELSE NoRow]
    /\ undo = [a \in Accounts |-> NoRow]
    /\ request = [q \in Requests |-> IdleRequest]
    /\ billed = [a \in Accounts |-> 0] /\ missed = billed
    /\ raced = {} /\ lapsed = {} /\ owed = {}

Reads(q, pc, a, row, rest, short) ==
    /\ request[q].pc = "idle"
    /\ request' = [request EXCEPT ![q] = [pc |-> pc, account |-> a, row |-> row,
                                          rest |-> rest, short |-> short]]

Answers(q) == request' = [request EXCEPT ![q] = IdleRequest]

\* UNIQUE(name) and UNIQUE(uuid).
NameFree(a) == \A b \in Here : NameOf[b] # NameOf[a]

\* create makes the account active whatever expiry and usage it asks for.
AccCreate(a) ==
    /\ a \notin Here /\ undo[a] = NoRow /\ billed[a] = 0 /\ NameFree(a)
    /\ \E entitled \in IF a \in Edited THEN BOOLEAN ELSE {TRUE} :
          /\ live' = [live EXCEPT ![a] = [NewRow EXCEPT !.entitled = entitled]]
          /\ lapsed' = IF entitled THEN lapsed \ {a} ELSE lapsed \cup {a}
    /\ UNCHANGED <<undo, request, billed, missed, raced, owed>>

-----------------------------------------------------------------------------
(* Settings: update, status and extend.                                    *)

AccReads(q, a) ==
    /\ a \in Here \cap Edited
    /\ Reads(q, "edit", a, live[a], {}, 0)
    /\ UNCHANGED <<live, undo, accHistory>>

\* The UPDATE of a request leaves this row, or has no effect when the row is gone.
\* An account it leaves active and not entitled is in lapsed.
Writes(q, row, lapses) ==
    LET a == request[q].account IN
    /\ Answers(q)
    /\ IF a \notin Here THEN UNCHANGED <<live, raced, lapsed>>
       ELSE /\ live' = [live EXCEPT ![a] = row]
            /\ raced' = IF live[a] = request[q].row THEN raced \ {a}
                                                   ELSE raced \cup {a}
            /\ lapsed' = IF lapses THEN lapsed \cup {a} ELSE lapsed \ {a}
    /\ UNCHANGED <<undo, billed, missed, owed>>

\* The row the request is about, as it is now.
Current(q) == live[request[q].account]

\* Mutant: the check is made on the row as it was read.
BlockedBefore(before, now) == ~before

\* activationBlocked, after the new quota and expiry are in place.
Blocked(before, now) == ~now

\* update writes quota, expiry, status and tag, the ones not sent as it read
\* them.  A row that changed since may not be entitled by what is written.
AccUpdate(q) ==
    /\ request[q].pc = "edit"
    /\ \E asked, entitles, raceEntitles \in BOOLEAN :
          Writes(q, [Current(q) EXCEPT
                       !.entitled = IF Current(q) = request[q].row THEN entitles
                                                                   ELSE raceEntitles,
                       !.active = asked
                                  /\ ~Blocked(request[q].row.entitled, entitles)],
                 FALSE)

\* status writes is_active alone, or refuses.
AccStatus(q) ==
    /\ request[q].pc = "edit"
    /\ \E on \in BOOLEAN : /\ on => request[q].row.entitled
                           /\ Writes(q, [Current(q) EXCEPT !.active = on], FALSE)

AccStatusRefused(q) ==
    /\ request[q].pc = "edit" /\ ~request[q].row.entitled
    /\ Answers(q)
    /\ UNCHANGED <<live, undo, accHistory>>

\* extend adds to the quota or the expiry as read, and leaves is_active: days
\* added to an old expiry may not reach today, bytes added to no quota make one.
AccExtend(q) ==
    /\ request[q].pc = "edit"
    /\ \E entitles \in BOOLEAN :
          Writes(q, [Current(q) EXCEPT !.entitled = entitles], ~entitles)

-----------------------------------------------------------------------------
(* Deletion: remove, and purge for several.                                *)

\* Mutant: the columns the snapshot reads do not include used.
WithoutUsage(a) == [live[a] EXCEPT !.used = 0]
Snapshot(a) == live[a]

\* A snapshot that could not be read is replaced by one of the id, uuid and name
\* alone, and the deletion goes on.
Stub == [used |-> 0, entitled |-> TRUE, active |-> FALSE]

Snapshots(a) ==
    {[row |-> Snapshot(a), short |-> missed[a]]}
        \cup (IF a \in Unread THEN {[row |-> Stub, short |-> billed[a]]} ELSE {})

\* DeleteAccount reads the snapshot before its transaction, by users.id.
AccSnapshots(q, a) ==
    /\ a \in Here \cap Removed
    /\ \E read \in Snapshots(a) : Reads(q, "delete", a, read.row, {}, read.short)
    /\ UNCHANGED <<live, undo, accHistory>>

\* purge reads the ids and first checks that somebody remains.
AccPurges(q, S) ==
    /\ S # {} /\ S \subseteq Here \cap Removed /\ Cardinality(S) < Cardinality(Here)
    /\ Reads(q, "purge", IdleRequest.account, NoRow, S, 0)
    /\ UNCHANGED <<live, undo, accHistory>>

\* DeleteAccount again.  An id in rest still has its row: see Outdated.
AccPurgeNext(q, a) ==
    /\ request[q].pc = "purge" /\ a \in request[q].rest
    /\ \E read \in Snapshots(a) :
          request' = [request EXCEPT ![q] =
                        [pc |-> "delete", account |-> a, row |-> read.row,
                         rest |-> request[q].rest \ {a}, short |-> read.short]]
    /\ UNCHANGED <<live, undo, accHistory>>

AccPurged(q) ==
    /\ request[q].pc = "purge" /\ request[q].rest = {}
    /\ Answers(q)
    /\ UNCHANGED <<live, undo, accHistory>>

Proceeded(q) ==
    IF request[q].rest = {}
    THEN IdleRequest
    ELSE [IdleRequest EXCEPT !.pc = "purge", !.rest = request[q].rest]

\* An id is never handed out again, so whoever holds that of a deleted row finds
\* nothing under it, also when the account is back.
Outdated(r, a) ==
    IF r.pc = "delete" /\ r.account = a THEN [r EXCEPT !.row = NoRow, !.short = 0]
                                        ELSE [r EXCEPT !.rest = r.rest \ {a}]

\* The DELETE counts the rows itself.
MayGo == Cardinality(Here) > 1

Restoring(a) == \E q \in Requests : request[q].pc \in {"insert", "forget"}
                                    /\ request[q].account = a

\* One transaction: the snapshot, the row, the traffic history and the jobs.
AccDelete(q) ==
    LET a == request[q].account IN
    /\ request[q].pc = "delete"
    /\ IF request[q].row # NoRow /\ MayGo
       THEN /\ request' = [p \in Requests |-> IF p = q THEN Proceeded(q)
                                              ELSE Outdated(request[p], a)]
            /\ undo' = [undo EXCEPT ![a] = request[q].row]
            /\ live' = [live EXCEPT ![a] = NoRow]
            /\ missed' = [missed EXCEPT ![a] = request[q].short]
            /\ owed' = IF Restoring(a) THEN owed ELSE owed \cup {a}
            /\ UNCHANGED <<billed, raced, lapsed>>
       ELSE /\ request' = [request EXCEPT ![q] = Proceeded(q)]
            /\ UNCHANGED <<live, undo, accHistory>>

\* The window passes: the next deletion or restore forgets the snapshot.
AccWindowEnds(a) ==
    /\ undo[a] # NoRow
    /\ undo' = [undo EXCEPT ![a] = NoRow]
    /\ owed' = owed \ {a}
    /\ UNCHANGED <<live, request, billed, missed, raced, lapsed>>

-----------------------------------------------------------------------------
(* restore.                                                                *)

AccReadsUndo(q, a) ==
    /\ undo[a] # NoRow
    /\ IF a \in Here THEN Reads(q, "forget", a, NoRow, {}, 0)
                    ELSE Reads(q, "insert", a, undo[a], {}, missed[a])
    /\ UNCHANGED <<live, undo, accHistory>>

Inserted(r) == [r EXCEPT !.pc = "forget", !.row = NoRow, !.short = 0]

\* A refused INSERT ends the request.
AccInsert(q) ==
    LET a == request[q].account IN
    /\ request[q].pc = "insert"
    /\ IF a \in Here \/ ~NameFree(a)
       THEN Answers(q) /\ UNCHANGED <<live, missed, owed, lapsed>>
       ELSE /\ \E left \in IF a \in Edited THEN {request[q].row.entitled, FALSE}
                                   ELSE {request[q].row.entitled} :
                  /\ live' = [live EXCEPT ![a] = [request[q].row EXCEPT !.entitled = left]]
                  /\ lapsed' = IF left THEN lapsed \ {a} ELSE lapsed \cup {a}
            /\ missed' = [missed EXCEPT ![a] = request[q].short]
            /\ owed' = owed \ {a}
            /\ request' = [request EXCEPT ![q] = Inserted(request[q])]
    /\ UNCHANGED <<undo, billed, raced>>

\* A statement of its own.
AccForget(q) ==
    /\ request[q].pc = "forget"
    /\ undo' = [undo EXCEPT ![request[q].account] = NoRow]
    /\ Answers(q)
    /\ UNCHANGED <<live, accHistory>>

-----------------------------------------------------------------------------
(* The traffic pass, time and restarts.                                    *)

\* Whoever will put this reading of the account into a row or a snapshot.
Holds(r, a) == r.pc \in {"delete", "insert"} /\ r.account = a /\ r.row # NoRow

\* A charge that exhausts the quota disables the account with it.
AccCharge(a) ==
    /\ a \in Here /\ billed[a] < MaxCharges[a]
    /\ billed' = [billed EXCEPT ![a] = @ + 1]
    /\ request' = [q \in Requests |->
                     IF Holds(request[q], a)
                     THEN [request[q] EXCEPT !.short = request[q].short + 1]
                     ELSE request[q]]
    /\ \E left \in IF a \in Edited THEN {live[a].entitled, FALSE} ELSE {live[a].entitled} :
          live' = [live EXCEPT ![a] = [used |-> @.used + 1, entitled |-> left,
                                       active |-> @.active /\ left]]
    /\ UNCHANGED <<undo, missed, raced, lapsed, owed>>

AccExpires(a) ==
    /\ a \in Here \cap Edited /\ live[a].entitled
    /\ live' = [live EXCEPT ![a].entitled = FALSE]
    /\ lapsed' = lapsed \cup {a}
    /\ UNCHANGED <<undo, request, billed, missed, raced, owed>>

AccPanelDies ==
    /\ \E q \in Requests : request[q].pc # "idle"
    /\ request' = [q \in Requests |-> IdleRequest]
    /\ UNCHANGED <<live, undo, accHistory>>

AccNext ==
    \/ \E a \in Accounts : \/ AccCreate(a) \/ AccWindowEnds(a) \/ AccCharge(a)
                           \/ AccExpires(a)
    \/ \E q \in Requests :
          \/ AccUpdate(q) \/ AccStatus(q) \/ AccStatusRefused(q) \/ AccExtend(q)
          \/ AccDelete(q) \/ AccPurged(q) \/ AccInsert(q) \/ AccForget(q)
          \/ \E a \in Accounts : \/ AccReads(q, a) \/ AccSnapshots(q, a)
                                 \/ AccReadsUndo(q, a) \/ AccPurgeNext(q, a)
          \/ \E S \in SUBSET Accounts : AccPurges(q, S)
    \/ AccPanelDies

AccSpec == AccInit /\ [][AccNext]_accVars

-----------------------------------------------------------------------------
(* Properties.                                                             *)

\* Removals and purges at the same time never take the last user
\* (models.go:282-284: the count is part of the DELETE; sweep.go:83-86).
LastUserStays == Here # {}

\* Until the window passes, a deleted account can be restored, unless it was
\* deleted in the middle of a restore of it; and with all that was billed to it
\* but what was charged between a deletion's, or a restore's, reading of it and
\* their writing, or before a reading that failed (models.go:229-239,
\* handler.go:507-554).
UndoKept ==
    \A a \in owed : /\ a \notin Here /\ undo[a] # NoRow
                    /\ undo[a].used + missed[a] = billed[a]

\* No deletion takes an account for good before its window passes, and none takes
\* the last.
DeletionKeepsAccounts == LastUserStays /\ UndoKept

\* An active account is entitled, but for one that expired, was created, extended
\* or restored without being so, and one that changed between a request's reading
\* and its writing (handler.go:281-441, 679-689: "an expired or out-of-traffic
\* account must never be active").
ActiveIsEntitled ==
    \A a \in Here : live[a].active => live[a].entitled \/ a \in raced \cup lapsed
=============================================================================
