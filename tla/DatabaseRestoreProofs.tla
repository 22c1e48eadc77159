----------------------- MODULE DatabaseRestoreProofs ------------------------
(* Proofs about DatabaseRestore, for any clients and any bounds.           *)
EXTENDS DatabaseRestore, FiniteSetTheorems, TLAPS

\* Once the sidecars are removed nothing can write a log until a pool opens.
NoLogBeforeRename ==
    restore.pc = "bare" => log = {} /\ Connected = {} /\ pool = "closed"

\* ClosePool's pool stays closed until one is published.
ClosedBeforeRename == restore.pc = "closed" => pool = "closed"

\* A connection has lost its log only if its pool is closed or replaced.
OrphansAreCut ==
    \A c \in Clients : client[c].orphan =>
        client[c].pc = "working" /\ (client[c].stale \/ pool = "closed")

\* From the safety copy on, what is promised does not depend on the live files.
CopyCovers == Replacing => Owed \subseteq Saved

\* The pool is closed only while a swap is under way, or after a warning.
ClosedInSwap ==
    pool = "closed" =>
        warned \/ restore.pc \in {"draining", "closed", "bare", "renamed", "failing"}

SwapInv ==
    /\ NoForeignLog
    /\ NoLogBeforeRename
    /\ ClosedBeforeRename
    /\ OrphansAreCut
    /\ CopyCovers
    /\ AcknowledgedKept
    /\ ClosedInSwap

-----------------------------------------------------------------------------

USE DEF Writes

\* The databases, the restore and the clients keep their types.
THEOREM TypeCorrect == Spec => []TypeOK
<1>1. Init => TypeOK
  <2>1. NoRestore \in Restore /\ Idle \in Client
    BY DEF NoRestore, Restore, Idle, Client
  <2>2. 0 \in 0 .. MaxWrites /\ 0 \in 0 .. MaxRestores
    BY ConstantsAssumption
  <2> QED
    BY <2>1, <2>2 DEF Init, TypeOK
<1>2. ASSUME TypeOK, [Next]_vars PROVE TypeOK'
  <2>0. Live \subseteq Writes
    BY <1>2 DEF TypeOK, Live
  <2>1. ASSUME NEW c \in Clients, ClientSteps(c) PROVE TypeOK'
    <3>1. ASSUME NEW r \in Client, Become(c, r) PROVE client' \in [Clients -> Client]
      BY <1>2, <3>1 DEF TypeOK, Become
    <3>2. CASE Arrive(c) \/ TakeHandle(c) \/ Leave(c)
      BY <1>2, <3>1, <3>2
      DEF TypeOK, Arrive, TakeHandle, Leave, Idle, Client, diskVars, histVars
    <3>3. CASE Connect(c)
      <4>1. [client[c] EXCEPT !.pc = "working"] \in Client
        BY <1>2 DEF TypeOK, Client
      <4> QED
        BY <1>2, <3>1, <3>3, <4>1 DEF TypeOK, Connect, diskVars, histVars
    <3>4. CASE Commit(c)
      BY <1>2, <3>4, ConstantsAssumption DEF TypeOK, Commit
    <3>5. CASE Release(c)
      <4>1. [client[c] EXCEPT !.pc = "holding", !.orphan = FALSE] \in Client
        BY <1>2 DEF TypeOK, Client
      <4> QED
        BY <1>2, <2>0, <3>1, <3>5, <4>1 DEF TypeOK, Release, histVars
    <3> QED
      BY <2>1, <3>2, <3>3, <3>4, <3>5 DEF ClientSteps
  <2>2. CASE BeginRestore
    <3>1. begun' \in 0 .. MaxRestores
      BY <1>2, <2>2, ConstantsAssumption DEF TypeOK, BeginRestore
    <3>2. PICK source \in {{}} \cup {x.holds : x \in copies} :
              restore' = [NoRestore EXCEPT !.pc = "staged", !.file = source]
      BY <2>2 DEF BeginRestore
    <3>3. source \in SUBSET Writes
      BY <1>2, <3>2 DEF TypeOK, Copy
    <3>4. restore' \in Restore
      BY <3>2, <3>3 DEF NoRestore, Restore
    <3> QED
      BY <1>2, <2>2, <3>1, <3>4 DEF TypeOK, BeginRestore, diskVars
  <2>3. CASE RestoreSteps
    <3>0. NoRestore \in Restore
      BY DEF NoRestore, Restore
    <3>1. ASSUME NEW pc \in {"idle", "staged", "saved", "draining", "closed",
                             "bare", "renamed", "verify", "failing"}, Step(pc)
          PROVE  restore' \in Restore
      BY <1>2, <3>1 DEF TypeOK, Step, Restore
    <3>2. Disturbed => restore' \in Restore /\ warned' \in BOOLEAN
      BY <1>2, <3>0, <3>1 DEF TypeOK, Disturbed, Unsafe
    <3>3. Publish => pool' \in {"open", "closed"} /\ client' \in [Clients -> Client]
      BY <1>2 DEF TypeOK, Publish, Client
    <3>4. CASE GiveUp \/ StageCandidate \/ Verified \/ VerifyFails \/ RollBackFails
      BY <1>2, <3>0, <3>1, <3>4
      DEF TypeOK, GiveUp, StageCandidate, Verified, VerifyFails, RollBackFails,
          Unsafe, diskVars, histVars
    <3>5. CASE SafetyCopy
      <4>1. restore' \in Restore
        BY <1>2, <2>0, <3>5 DEF TypeOK, SafetyCopy, RollbackCopy, Snapshot, Restore
      <4>2. copies' \subseteq Copy /\ AllOf(copies) \subseteq Writes
        <5>1. [of |-> begun, holds |-> Live] \in Copy
          BY <1>2, <2>0 DEF TypeOK, Copy
        <5>2. Newest(KeepCopies - 1) \subseteq Copy
          BY <1>2 DEF TypeOK, Newest
        <5>3. copies' = Newest(KeepCopies - 1) \cup {[of |-> begun, holds |-> Live]}
          BY <3>5 DEF SafetyCopy, Snapshot
        <5>4. AllOf(copies) \subseteq Writes
          BY <1>2 DEF TypeOK, Copy, AllOf
        <5>5. QED
          BY <5>1, <5>2, <5>3, <5>4
      <4>3. retired' \subseteq Writes
        BY <1>2, <3>5, <4>2 DEF TypeOK, SafetyCopy
      <4> QED
        BY <1>2, <2>0, <3>5, <4>1, <4>2, <4>3 DEF TypeOK, SafetyCopy
    <3>6. CASE ClosePool
      BY <1>2, <2>0, <3>1, <3>6 DEF TypeOK, ClosePool, histVars
    <3>7. CASE RemoveSidecars
      BY <1>2, <3>1, <3>7
      DEF TypeOK, RemoveSidecars, SidecarRemoved, Client, histVars
    <3>8. CASE Rename
      BY <1>2, <3>1, <3>8 DEF TypeOK, Rename, Restore, histVars
    <3>9. CASE RenameFails
      BY <1>2, <3>0, <3>2, <3>3, <3>9
      DEF TypeOK, RenameFails, Unsafe, diskVars, histVars
    <3>10. CASE OpenLive
      BY <1>2, <3>0, <3>1, <3>3, <3>10 DEF TypeOK, OpenLive, histVars
    <3>11. CASE OpenFails
      BY <1>2, <3>2, <3>11 DEF TypeOK, OpenFails, histVars
    <3>12. CASE RollBack
      BY <1>2, <3>12 DEF TypeOK, RollBack, Restore, diskVars, histVars
    <3> QED
      BY <2>3, <3>4, <3>5, <3>6, <3>7, <3>8, <3>9, <3>10, <3>11, <3>12
      DEF RestoreSteps
  <2>4. CASE PanelRestart
    BY <1>2, <2>4
    DEF TypeOK, PanelRestart, NoRestore, Restore, Idle, Client, diskVars, histVars
  <2>5. CASE UNCHANGED vars
    BY <1>2, <2>5 DEF TypeOK, vars, diskVars, histVars
  <2> QED
    BY <1>2, <2>1, <2>2, <2>3, <2>4, <2>5 DEF Next
<1> QED
  BY <1>1, <1>2, PTL DEF Spec

-----------------------------------------------------------------------------
(* The swap.                                                               *)

LEMMA SameCopies ==
    UNCHANGED <<copies, promised, retired>> => Owed' = Owed /\ Saved' = Saved
BY DEF Owed, Saved, AllOf

LEMMA InitSwap == Init => SwapInv
BY DEF Init, SwapInv, NoForeignLog, NoLogBeforeRename, ClosedBeforeRename,
       OrphansAreCut,
       CopyCovers, Replacing, AcknowledgedKept, Owed, ClosedInSwap, Idle, NoRestore

\* Requests and workers write to the log only through a pool that is open, or
\* was when they connected.
LEMMA ClientSwap ==
    ASSUME TypeOK, SwapInv, NEW c \in Clients, ClientSteps(c)
    PROVE  SwapInv'
<1> USE DEF SwapInv
<1>0. /\ client \in [Clients -> Client]
      /\ UNCHANGED <<restore, pool, warned, ours, copies, retired>>
  BY DEF TypeOK, ClientSteps, Arrive, TakeHandle, Connect, Commit, Release, Leave,
         diskVars, histVars
<1>1. NoForeignLog' /\ ClosedInSwap' /\ ClosedBeforeRename'
  BY <1>0 DEF NoForeignLog, ClosedInSwap, ClosedBeforeRename
<1>a. PICK r \in Client :
         /\ client' = [client EXCEPT ![c] = r]
         /\ r.orphan => r = client[c]
         /\ r.pc = "working" => r = client[c] \/ pool = "open"
  <2>1. CASE Arrive(c) \/ TakeHandle(c) \/ Leave(c)
    <3>1. Idle \in Client /\ ~Idle.orphan /\ Idle.pc # "working"
      BY DEF Idle, Client
    <3>2. ASSUME NEW pc \in {"arrived", "holding"}
          PROVE  LET r == [Idle EXCEPT !.pc = pc]
                 IN  r \in Client /\ ~r.orphan /\ r.pc # "working"
      BY DEF Idle, Client
    <3>3. CASE Arrive(c)
      BY <3>2, <3>3 DEF Arrive, Become
    <3>4. CASE TakeHandle(c)
      BY <3>2, <3>4 DEF TakeHandle, Become
    <3>5. CASE Leave(c)
      BY <3>1, <3>5 DEF Leave, Become
    <3> QED
      BY <2>1, <3>3, <3>4, <3>5
  <2>2. CASE Connect(c)
    <3>1. client[c] \in Client /\ ~client[c].orphan
      BY <1>0, <2>2 DEF Connect, OrphansAreCut
    <3>2. [client[c] EXCEPT !.pc = "working"] \in Client
      BY <3>1 DEF Client
    <3> QED
      BY <2>2, <3>1, <3>2 DEF Connect, Become, Client, Usable
  <2>3. CASE Commit(c)
    BY <1>0, <2>3 DEF Commit
  <2>4. CASE Release(c)
    <3> DEFINE r == [client[c] EXCEPT !.pc = "holding", !.orphan = FALSE]
    <3>1. r \in Client /\ ~r.orphan /\ r.pc # "working"
      BY <1>0 DEF Client
    <3>2. client' = [client EXCEPT ![c] = r]
      BY <2>4 DEF Release, Become
    <3> QED
      BY <3>1, <3>2
  <2> QED
    BY <2>1, <2>2, <2>3, <2>4 DEF ClientSteps
<1>2. OrphansAreCut'
  BY <1>0, <1>a DEF OrphansAreCut
<1>3. Connected' \subseteq Connected \/ pool = "open"
  BY <1>0, <1>a DEF Connected
<1>4. log' \subseteq log \/ Connected # {}
  BY <1>0 DEF Connected, ClientSteps, Arrive, TakeHandle, Connect, Commit, Release,
              Leave, diskVars
<1>5. NoLogBeforeRename'
  BY <1>0, <1>3, <1>4 DEF NoLogBeforeRename
<1>6. CASE Commit(c)
  <2>1. \/ promised' = promised
        \/ ~Replacing /\ Usable(c) /\ promised' = promised \cup {writes + 1}
    BY <1>6, Zenon DEF Commit
  <2>a. \/ Owed' = Owed
        \/ ~Replacing /\ Usable(c) /\ Owed' \subseteq Owed \cup {writes + 1}
    BY <1>0, <2>1 DEF Owed
  <2>b. Saved' = Saved
    BY <1>0 DEF Saved, AllOf
  <2>2. Usable(c) => log' = log \cup {writes + 1}
    BY <1>6 DEF Commit, OrphansAreCut, Usable
  <2>3. main' = main /\ log \subseteq log'
    BY <1>6 DEF Commit
  <2>4. AcknowledgedKept'
    BY <1>0, <2>a, <2>b, <2>2, <2>3 DEF AcknowledgedKept, Live
  <2>5. CopyCovers'
    BY <1>0, <2>a, <2>b DEF CopyCovers, Replacing
  <2> QED
    BY <1>1, <1>2, <1>5, <2>4, <2>5
<1>7. CASE ~Commit(c)
  <2>1. Live' = Live /\ promised' = promised
    BY <1>7 DEF ClientSteps, Arrive, TakeHandle, Connect, Release, Leave, Live,
                diskVars, histVars
  <2>2. Owed' = Owed /\ Saved' = Saved
    BY <1>0, <2>1, SameCopies
  <2> QED
    BY <1>0, <1>1, <1>2, <1>5, <2>1, <2>2 DEF AcknowledgedKept, CopyCovers, Replacing
<1> QED
  BY <1>6, <1>7

\* Only the safety copy changes what the copies hold.
LEMMA OthersKeep ==
    \/ GiveUp \/ StageCandidate \/ ClosePool \/ RemoveSidecars \/ Rename \/ RenameFails
    \/ OpenLive \/ OpenFails \/ Verified \/ VerifyFails \/ RollBack \/ RollBackFails
    => Owed' = Owed /\ Saved' = Saved
<1>1. ASSUME \/ GiveUp \/ StageCandidate \/ ClosePool \/ RemoveSidecars \/ Rename
             \/ RenameFails \/ OpenLive \/ OpenFails \/ Verified \/ VerifyFails
             \/ RollBack \/ RollBackFails
      PROVE  UNCHANGED <<copies, promised, retired>>
  BY <1>1 DEF GiveUp, StageCandidate, ClosePool, RemoveSidecars, Rename, RenameFails,
              OpenLive, OpenFails, Verified, VerifyFails, RollBack, RollBackFails,
              diskVars, histVars
<1> QED
  BY <1>1, SameCopies

\* A restore's steps: what it removes or replaces is in a copy by then.
LEMMA RestoreSwap ==
    ASSUME TypeOK, SwapInv, RestoreSteps
    PROVE  SwapInv'
<1> USE DEF SwapInv
<1>0. /\ restore \in Restore /\ client \in [Clients -> Client]
      /\ promised' = promised
  BY DEF TypeOK, RestoreSteps, GiveUp, SafetyCopy, StageCandidate, ClosePool,
         RemoveSidecars, Rename, RenameFails, OpenLive, OpenFails, Verified,
         VerifyFails, RollBack, RollBackFails, diskVars, histVars
<1>1. CASE \/ GiveUp \/ StageCandidate \/ Verified
           \/ VerifyFails \/ RollBack \/ RollBackFails
  <2>1. UNCHANGED <<main, log, ours, copies, pool, client>>
    BY <1>1 DEF GiveUp, StageCandidate, Verified, VerifyFails, RollBack,
                RollBackFails,
                diskVars, histVars
  <2>2. \/ restore'.pc = "idle" /\ restore.pc \in {"staged", "saved", "verify"}
           /\ UNCHANGED warned
        \/ restore'.pc = "draining" /\ restore.pc \in {"saved", "failing"}
           /\ UNCHANGED warned
        \/ restore'.pc = "failing" /\ restore.pc = "verify" /\ UNCHANGED warned
        \/ restore'.pc = "idle" /\ warned'
    <3>1. NoRestore.pc = "idle"
      BY DEF NoRestore
    <3>2. CASE GiveUp \/ Verified
      BY <3>1, <3>2 DEF GiveUp, Verified
    <3>3. CASE StageCandidate \/ VerifyFails
      BY <1>0, <3>3 DEF StageCandidate, VerifyFails, Step, Restore
    <3>4. CASE RollBack
      BY <1>0, <3>4 DEF RollBack, Restore
    <3>5. CASE RollBackFails
      BY <3>1, <3>5 DEF RollBackFails, Unsafe
    <3> QED
      BY <1>1, <3>2, <3>3, <3>4, <3>5
  <2>3. ClosedInSwap'
    BY <2>1, <2>2 DEF ClosedInSwap
  <2>4. (NoLogBeforeRename /\ ClosedBeforeRename /\ CopyCovers)'
    BY <1>0, <1>1, <2>1, <2>2, OthersKeep
                        DEF NoLogBeforeRename, ClosedBeforeRename, CopyCovers,
                            Replacing
  <2> QED
    BY <1>0, <1>1, <2>1, <2>3, <2>4, OthersKeep
    DEF NoForeignLog, OrphansAreCut, AcknowledgedKept, Live
<1>2. CASE SafetyCopy
  <2>1. /\ Live' = Live /\ restore'.pc = "saved"
        /\ UNCHANGED <<client, pool, ours, warned>>
    BY <1>0, <1>2 DEF SafetyCopy, Live, Restore, histVars
  <2>2. Live \subseteq AllOf(copies')
    <3>1. [of |-> begun, holds |-> Live] \in copies'
      BY <1>2 DEF SafetyCopy, Snapshot
    <3>2. QED
      BY <3>1 DEF AllOf
  <2>3. retired' = retired \cup (AllOf(copies) \ (Live \cup AllOf(copies')))
    BY <1>2 DEF SafetyCopy
  <2>4. promised \ retired \subseteq Live \cup AllOf(copies)
    BY DEF AcknowledgedKept, Owed, Saved
  <2>5. promised' \ retired' \subseteq AllOf(copies')
    BY <1>0, <2>2, <2>3, <2>4
  <2>6. Owed' \subseteq Saved'
    BY <2>5 DEF Owed, Saved
  <2> QED
    BY <1>0, <1>2, <2>1, <2>6
    DEF SafetyCopy, NoForeignLog, NoLogBeforeRename, ClosedBeforeRename,
        OrphansAreCut, CopyCovers,
        AcknowledgedKept, ClosedInSwap
<1>3. CASE ClosePool
  <2>1. Live' = Live /\ restore'.pc = "closed" /\ pool' = "closed"
        /\ UNCHANGED <<client, ours, warned, copies>>
    BY <1>0, <1>3 DEF ClosePool, Live, Step, Restore
  <2> QED
    BY <1>0, <1>3, <2>1, OthersKeep
    DEF ClosePool, NoForeignLog, NoLogBeforeRename, ClosedBeforeRename,
        OrphansAreCut, CopyCovers,
        Replacing, AcknowledgedKept, ClosedInSwap
<1>4. CASE RemoveSidecars
  <2>1. /\ restore'.pc = "bare" /\ log' = {}
        /\ UNCHANGED <<main, ours, copies, pool, warned>>
    BY <1>0, <1>4 DEF RemoveSidecars, SidecarRemoved, Step, Restore
  <2>2. Owed \subseteq Saved
    BY <1>4 DEF RemoveSidecars, CopyCovers, Replacing
  <2>3. pool = "closed"
    BY <1>4 DEF RemoveSidecars, ClosedBeforeRename
  <2>4. OrphansAreCut' /\ Connected' = {}
    BY <1>0, <1>4, <2>1, <2>3 DEF RemoveSidecars, OrphansAreCut, Connected, Client
  <2> QED
    BY <1>0, <1>4, <2>1, <2>2, <2>3, <2>4, OthersKeep
    DEF RemoveSidecars, NoForeignLog, NoLogBeforeRename, ClosedBeforeRename,
        CopyCovers,
        AcknowledgedKept, ClosedInSwap
<1>5. CASE Rename
  <2>1. restore'.pc = "renamed" /\ log' = {} /\ ours' = TRUE
        /\ UNCHANGED <<copies, pool, warned, client>>
    BY <1>0, <1>5 DEF Rename, Step, Restore, NoLogBeforeRename
  <2>2. Owed \subseteq Saved
    BY <1>5 DEF Rename, CopyCovers, Replacing
  <2> QED
    BY <1>0, <1>5, <2>1, <2>2, OthersKeep
    DEF Rename, NoForeignLog, NoLogBeforeRename, ClosedBeforeRename, OrphansAreCut,
        CopyCovers,
        AcknowledgedKept, ClosedInSwap
<1>6. CASE RenameFails \/ OpenLive \/ OpenFails
  <2>1. /\ main' = main /\ copies' = copies
        /\ log' = {} /\ ours'
        /\ restore'.pc \in {"idle", "verify", "failing"}
        /\ restore'.pc = "verify" => pool' = "open"
        /\ Owed \subseteq Saved
    <3>1. NoRestore.pc = "idle"
      BY DEF NoRestore
    <3>2. Disturbed => restore'.pc \in {"idle", "failing"}
      BY <1>0, <3>1 DEF Disturbed, Unsafe, Step, Restore
    <3>3. Owed \subseteq Saved
      BY <1>6 DEF RenameFails, OpenLive, OpenFails, CopyCovers, Replacing
    <3>4. CASE RenameFails
      BY <3>1, <3>2, <3>3, <3>4
      DEF RenameFails, Unsafe, NoLogBeforeRename, NoForeignLog, diskVars
    <3>5. CASE OpenLive
      BY <1>0, <3>1, <3>3, <3>5 DEF OpenLive, Publish, Step, Restore
    <3>6. CASE OpenFails
      BY <3>2, <3>3, <3>6 DEF OpenFails
    <3> QED
      BY <1>6, <3>4, <3>5, <3>6
  <2>2. \/ Publish
        \/ UNCHANGED <<pool, client>> /\ (warned' \/ restore'.pc = "failing")
    BY <1>0, <1>6 DEF RenameFails, OpenLive, OpenFails, Disturbed, Unsafe, Step,
                      Restore
  <2>3. OrphansAreCut'
    <3>1. CASE Publish
      BY <1>0, <3>1 DEF Publish, OrphansAreCut, Client
    <3>2. CASE UNCHANGED <<pool, client>>
      BY <3>2 DEF OrphansAreCut
    <3> QED
      BY <2>2, <3>1, <3>2
  <2> QED
    BY <1>0, <1>6, <2>1, <2>2, <2>3, OthersKeep
    DEF NoForeignLog, NoLogBeforeRename, ClosedBeforeRename, CopyCovers, Replacing,
        AcknowledgedKept, ClosedInSwap, Publish
<1> QED
  BY <1>1, <1>2, <1>3, <1>4, <1>5, <1>6 DEF RestoreSteps

\* The inductive invariant of the swap: it strengthens the three properties below.
THEOREM SwapSafe == Spec => []SwapInv
<1>1. ASSUME TypeOK, SwapInv, [Next]_vars PROVE SwapInv'
  <2> USE DEF SwapInv
  <2>1. CASE BeginRestore
    <3>1. /\ restore'.pc = "staged"
          /\ UNCHANGED <<diskVars, pool, client, warned, promised, retired>>
      BY <2>1 DEF BeginRestore, NoRestore
    <3>2. Owed' = Owed /\ Saved' = Saved
      BY <3>1, SameCopies DEF diskVars
    <3> QED
      BY <1>1, <2>1, <3>1, <3>2
      DEF NoForeignLog, NoLogBeforeRename, ClosedBeforeRename, OrphansAreCut,
          CopyCovers, Replacing, AcknowledgedKept, ClosedInSwap, Live, diskVars,
          BeginRestore
  <2>2. CASE PanelRestart
    <3>1. Owed' = Owed /\ Saved' = Saved
      BY <2>2, SameCopies DEF PanelRestart, diskVars, histVars
    <3> QED
    BY <1>1, <2>2, <3>1
    DEF NoForeignLog, NoLogBeforeRename, ClosedBeforeRename, OrphansAreCut,
        CopyCovers, Replacing, AcknowledgedKept, ClosedInSwap, Live, diskVars,
        histVars, PanelRestart, NoRestore, Idle
  <2>3. CASE UNCHANGED vars
    <3>1. Owed' = Owed /\ Saved' = Saved
      BY <2>3, SameCopies DEF vars, diskVars, histVars
    <3> QED
    BY <1>1, <2>3, <3>1
    DEF NoForeignLog, NoLogBeforeRename, ClosedBeforeRename, OrphansAreCut,
        CopyCovers, Replacing, AcknowledgedKept, ClosedInSwap, Live, Connected,
        vars, diskVars, histVars
  <2> QED
    BY <1>1, <2>1, <2>2, <2>3, ClientSwap, RestoreSwap DEF Next
<1> QED
  BY <1>1, InitSwap, TypeCorrect, PTL DEF Spec

\* No start ever recovers a log into a file it was not written for.
THEOREM LogsMatch == Spec => []NoForeignLog
BY SwapSafe, PTL DEF SwapInv

\* Nothing acknowledged outside a replacement is lost by any later one, until the
\* last copy that holds it is pruned.
THEOREM AcknowledgedSurvive == Spec => []AcknowledgedKept
BY SwapSafe, PTL DEF SwapInv

-----------------------------------------------------------------------------
(* While no more restores were begun than copies are kept, none is pruned.  *)

FewCopies ==
    /\ IsFiniteSet(copies)
    /\ Cardinality(copies) <= begun
    /\ restore.pc = "staged" => Cardinality(copies) < begun
    /\ retired = {}

LEMMA CopiesCount ==
    ASSUME MaxRestores <= KeepCopies, TypeOK, FewCopies, [Next]_vars
    PROVE  FewCopies'
<1>1. /\ IsFiniteSet(copies) /\ Cardinality(copies) \in Nat /\ begun \in Nat
      /\ begun <= MaxRestores /\ KeepCopies \in Nat \ {0} /\ MaxRestores \in Nat
      /\ restore \in Restore
  BY FS_CardinalityType, ConstantsAssumption DEF FewCopies, TypeOK
<1>2. CASE SafetyCopy
  <2> DEFINE copy == [of |-> begun, holds |-> Snapshot]
             c == Cardinality(copies)
  <2>1. c < begun
    BY <1>2 DEF SafetyCopy, FewCopies
  <2>2. Newest(KeepCopies - 1) = copies
    <3>1. ASSUME NEW x \in copies
          PROVE  Cardinality({y \in copies : y.of >= x.of}) <= KeepCopies - 1
      <4> DEFINE later == {y \in copies : y.of >= x.of}
      <4>1. later \subseteq copies
        OBVIOUS
      <4> HIDE DEF later
      <4>2. Cardinality(later) <= c /\ Cardinality(later) \in Nat
        BY <1>1, <4>1, FS_Subset, FS_CardinalityType
      <4> HIDE DEF c
      <4>3. c \in Nat
        BY <1>1 DEF c
      <4>4. Cardinality(later) <= KeepCopies - 1
        BY <1>1, <2>1, <4>2, <4>3
      <4>5. QED
        BY <4>4 DEF later
    <3>2. QED
      BY <3>1 DEF Newest
  <2>3. /\ copies' = copies \cup {copy} /\ begun' = begun
        /\ retired' = retired \cup (AllOf(copies) \ (Live \cup AllOf(copies')))
    BY <1>2, <2>2 DEF SafetyCopy
  <2>4. AllOf(copies) \subseteq AllOf(copies')
    BY <2>3 DEF AllOf
  <2>5. retired' = {}
    BY <2>3, <2>4 DEF FewCopies
  <2> HIDE DEF copy
  <2>6. IsFiniteSet(copies') /\ Cardinality(copies') <= c + 1
    BY <1>1, <2>3, FS_AddElement
  <2>7. Cardinality(copies') <= begun'
    <3>1. Cardinality(copies') \in Nat
      BY <2>6, FS_CardinalityType
    <3>2. QED
      BY <1>1, <2>1, <2>3, <2>6, <3>1
  <2>8. restore'.pc = "saved"
    BY <1>1, <1>2 DEF SafetyCopy, Restore
  <2> QED
    BY <2>5, <2>6, <2>7, <2>8 DEF FewCopies
<1>3. CASE BeginRestore
  <2>1. begun' = begun + 1 /\ UNCHANGED <<copies, retired>>
    BY <1>3 DEF BeginRestore, diskVars
  <2> QED
    BY <1>1, <2>1 DEF FewCopies
<1>4. CASE /\ RestoreSteps /\ ~SafetyCopy
  <2>1. UNCHANGED <<copies, retired, begun>>
    BY <1>4 DEF RestoreSteps, GiveUp, StageCandidate, ClosePool,
           RemoveSidecars, Rename, RenameFails, OpenLive, OpenFails, Verified,
           VerifyFails, RollBack, RollBackFails, diskVars, histVars
  <2>2. ASSUME NEW pc, Step(pc), pc # "staged"
        PROVE  restore'.pc # "staged"
    BY <1>1, <2>2 DEF Step, Restore
  <2>3. NoRestore.pc # "staged"
    BY DEF NoRestore
  <2>4. CASE GiveUp \/ Verified
    BY <2>1, <2>3, <2>4 DEF GiveUp, Verified, FewCopies
  <2>5. CASE StageCandidate \/ ClosePool \/ RemoveSidecars \/ Rename \/ VerifyFails
    BY <2>1, <2>2, <2>5 DEF StageCandidate, ClosePool, RemoveSidecars, Rename,
           VerifyFails, FewCopies
  <2>6. CASE RenameFails \/ OpenLive \/ OpenFails \/ RollBackFails
    BY <2>1, <2>2, <2>3, <2>6 DEF RenameFails, OpenLive, OpenFails,
           RollBackFails, Disturbed, Unsafe, FewCopies
  <2>7. CASE RollBack
    BY <1>1, <2>1, <2>7 DEF RollBack, FewCopies, Restore
  <2> QED
    BY <1>4, <2>4, <2>5, <2>6, <2>7 DEF RestoreSteps
<1>5. CASE \/ \E c \in Clients : ClientSteps(c)
           \/ UNCHANGED vars
  <2>1. UNCHANGED <<copies, retired, begun, restore>>
    BY <1>5 DEF ClientSteps, Arrive, TakeHandle, Connect, Commit, Release, Leave,
                vars, diskVars, histVars
  <2> QED
    BY <2>1 DEF FewCopies
<1>6. CASE PanelRestart
  <2>1. UNCHANGED <<copies, retired, begun>> /\ restore'.pc # "staged"
    BY <1>6 DEF PanelRestart, NoRestore, diskVars, histVars
  <2> QED
    BY <2>1 DEF FewCopies
<1> QED
  BY <1>2, <1>3, <1>4, <1>5, <1>6 DEF Next

\* As long as no more restores were begun than copies are kept, a write
\* acknowledged outside a replacement is in the live database or in a copy.
THEOREM NothingRetired ==
    MaxRestores <= KeepCopies => (Spec => [](promised \subseteq Live \cup Saved))
<1> SUFFICES ASSUME MaxRestores <= KeepCopies
             PROVE  Spec => [](promised \subseteq Live \cup Saved)
  OBVIOUS
<1>1. Init => FewCopies
  BY FS_EmptySet, ConstantsAssumption DEF Init, FewCopies, NoRestore
<1>2. TypeOK /\ FewCopies /\ [Next]_vars => FewCopies'
  BY CopiesCount
<1>3. FewCopies /\ AcknowledgedKept => promised \subseteq Live \cup Saved
  BY DEF FewCopies, AcknowledgedKept, Owed
<1>4. Spec => []AcknowledgedKept
  BY AcknowledgedSurvive
<1> QED
  BY <1>1, <1>2, <1>3, <1>4, TypeCorrect, PTL DEF Spec

\* Between restores the panel has an open pool, or has said that it may not.
THEOREM PanelAlwaysServes == Spec => []PanelServes
<1>1. TypeOK /\ SwapInv => PanelServes
  BY DEF SwapInv, ClosedInSwap, PanelServes, TypeOK
<1> QED
  BY <1>1, SwapSafe, TypeCorrect, PTL
=============================================================================
