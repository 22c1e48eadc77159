--------------------------- MODULE HostFilesProofs --------------------------
(***************************************************************************)
(* Theorems about what the panel's host does, for any releases, databases, *)
(* key pairs and bounds.  The parts share no variable: a behaviour of      *)
(* HostFiles is one of each part, and each part has its own invariant.     *)
(***************************************************************************)
EXTENDS HostFiles, SequenceTheorems, FiniteSetTheorems, WellFoundedInduction, TLAPS

-----------------------------------------------------------------------------
(* The daily backup.                                                       *)

\* A label keeps at most its number of backups, and no record or tick is of a
\* day to come.
BackupBounds ==
    /\ \A l \in Labels : backups[l] \in Seq(Days)
    /\ Len(backups["auto"]) <= AutoKeep /\ Len(backups["backup"]) <= HandKeep
    /\ recorded <= today /\ tick.day <= today
    /\ tick.pc # "idle" => tick.day \in Days

\* The record and a tick that is about to record name proven days.
RecordProven ==
    /\ recorded = 0 \/ recorded \in bakProofs
    /\ tick.pc = "copied" => tick.day \in bakProofs

\* While nothing went wrong the automatic backups are of different days, none
\* later than the one at work or recorded, and a proven day left only because
\* the label is full.
AutoInOrder ==
    ~spoiled =>
       /\ ~tick.stale
       /\ IsInjective(backups["auto"])
       /\ \A i \in DOMAIN backups["auto"] :
             backups["auto"][i] <= IF tick.pc = "idle" THEN recorded ELSE tick.day
       /\ tick.pc = "made" =>
             \E i \in DOMAIN backups["auto"] : backups["auto"][i] = tick.day
       /\ \A d \in bakProofs :
             \/ \E i \in DOMAIN backups["auto"] : backups["auto"][i] = d
             \/ Len(backups["auto"]) = AutoKeep

BakInv == BakTypeOK /\ BackupBounds /\ RecordProven /\ AutoInOrder

\* s is t with today appended, less the k oldest.
Newest(t, s, k, keep) ==
    /\ s \in Seq(Days) /\ Len(s) \in 1 .. keep /\ s[Len(s)] = today
    /\ Len(s) = Len(t) + 1 - k
    /\ k = 1 => Len(s) = keep
    /\ \A i \in 1 .. Len(s) - 1 : s[i] = t[i + k]

\* A new backup is the last of its label; of the others at most the oldest
\* goes, and only when the label is full.
LEMMA NewestStay ==
    ASSUME BakTypeOK, NEW l \in Labels, NEW keep \in Nat \ {0},
           backups[l] \in Seq(Days), Len(backups[l]) <= keep
    PROVE  \E s \in Seq(Days), k \in {0, 1} :
              /\ WithBackup(l, keep) = [backups EXCEPT ![l] = s]
              /\ Newest(backups[l], s, k, keep)
<1> DEFINE t == backups[l]
           u == Append(t, today)
           b == [backups EXCEPT ![l] = u]
           s == SubSeq(u, 2, keep + 1)
<1>1. /\ today \in Days /\ Len(t) \in Nat
      /\ u \in Seq(Days) /\ Len(u) = Len(t) + 1
      /\ \A i \in 1 .. Len(t) : u[i] = t[i]
      /\ u[Len(t) + 1] = today
  BY AppendProperties DEF BakTypeOK
<1>2. b[l] = u /\ b = [backups EXCEPT ![l] = Append(@, today)]
  BY DEF BakTypeOK
<1>3. CASE Len(u) <= keep
  <2>1. WithBackup(l, keep) = b
    BY <1>2, <1>3 DEF WithBackup, Prune
  <2>2. Newest(t, u, 0, keep)
    BY <1>1, <1>3 DEF Newest
  <2>3. QED
    BY <1>1, <2>1, <2>2
<1>4. CASE Len(u) > keep
  <2>1. Len(u) = keep + 1
    BY <1>1, <1>4
  <2>2. \A i \in 2 .. keep + 1 : u[i] \in Days
    BY <1>1, <2>1
  <2>3. /\ s \in Seq(Days)
        /\ Len(s) = IF 2 <= keep + 1 THEN keep + 1 - 2 + 1 ELSE 0
        /\ \A i \in 1 .. keep + 1 - 2 + 1 : s[i] = u[2 + i - 1]
    <3> HIDE DEF u
    <3> QED
      BY <2>2, SubSeqProperties
  <2>4. Newest(t, s, 1, keep)
    <3> HIDE DEF u, s
    <3> QED
      BY <1>1, <2>1, <2>3 DEF Newest
  <2>5. WithBackup(l, keep) = [backups EXCEPT ![l] = s]
    <3>1. WithBackup(l, keep) = [b EXCEPT ![l] = SubSeq(u, Len(u) - keep + 1, Len(u))]
      BY <1>2, <1>4, <1>1 DEF WithBackup, Prune
    <3>2. Len(u) - keep + 1 = 2
      BY <2>1
    <3>3. QED
      BY <3>1, <3>2, <2>1
  <2>6. QED
    BY <2>3, <2>4, <2>5
<1>5. QED
  BY <1>1, <1>3, <1>4

\* Sequences within the bounds are of the type.
LEMMA BoundedBackups ==
    ASSUME BakTypeOK, NEW l \in Labels, NEW s \in Seq(Days),
           Len(s) <= AutoKeep + HandKeep
    PROVE  [backups EXCEPT ![l] = s] \in [Labels -> BoundedSeq(Days, AutoKeep + HandKeep)]
<1>1. s \in [1 .. Len(s) -> Days] /\ Len(s) \in 0 .. AutoKeep + HandKeep
  BY BackupAssumption
<1>2. s \in BoundedSeq(Days, AutoKeep + HandKeep)
  BY <1>1 DEF BoundedSeq, SeqOf
<1>3. QED
  BY <1>2 DEF BakTypeOK

\* A day later than those of t keeps the days different and in order, and only
\* a full label drops one.
LEMMA NewestInOrder ==
    ASSUME NEW t \in Seq(Days), NEW s \in Seq(Days), NEW k \in {0, 1},
           NEW keep \in Nat \ {0},
           Newest(t, s, k, keep), today \in Days,
           IsInjective(t), \A i \in DOMAIN t : t[i] < today
    PROVE  /\ IsInjective(s)
           /\ \A i \in DOMAIN s : s[i] <= today
           /\ \E i \in DOMAIN s : s[i] = today
           /\ \A d \in Days : (\E i \in DOMAIN t : t[i] = d) =>
                 \/ \E i \in DOMAIN s : s[i] = d
                 \/ Len(s) = keep
           /\ Len(t) = keep => Len(s) = keep
<1> DEFINE m == Len(t)
           n == Len(s)
<1>a. m \in Nat /\ n \in Nat /\ DOMAIN t = 1 .. m /\ DOMAIN s = 1 .. n
      /\ \A i \in DOMAIN t : t[i] \in Days
  OBVIOUS
<1>b. n \in 1 .. keep /\ n = m + 1 - k /\ (k = 1 => n = keep)
      /\ s[n] = today /\ \A i \in 1 .. n - 1 : s[i] = t[i + k]
  BY DEF Newest
<1> HIDE DEF m, n
<1>c. today \in Nat /\ \A i \in DOMAIN t : t[i] \in Nat
  BY <1>a DEF Days
<1>1. /\ \A i \in 1 .. n - 1 : i + k \in 1 .. m
      /\ \A x \in 1 .. n : x = n \/ x \in 1 .. n - 1
      /\ n \in 1 .. n
  BY <1>a, <1>b
<1>3. \A i \in 1 .. n - 1 : s[i] < today /\ s[i] \in Nat
  BY <1>a, <1>b, <1>c, <1>1
<1>4. IsInjective(s)
  <2> SUFFICES ASSUME NEW i \in 1 .. n, NEW j \in 1 .. n, s[i] = s[j]
               PROVE  i = j
    BY <1>a DEF IsInjective
  <2>1. CASE i = n \/ j = n
    BY <1>b, <1>c, <1>1, <1>3, <2>1
  <2>2. CASE i # n /\ j # n
    <3>1. i \in 1 .. n - 1 /\ j \in 1 .. n - 1
      BY <1>1, <2>2
    <3>2. t[i + k] = t[j + k] /\ i + k \in DOMAIN t /\ j + k \in DOMAIN t
      BY <1>a, <1>b, <1>1, <3>1
    <3>3. i + k = j + k
      BY <3>2 DEF IsInjective
    <3>4. QED
      BY <3>3
  <2>3. QED
    BY <2>1, <2>2
<1>5. \A i \in DOMAIN s : s[i] <= today
  BY <1>a, <1>b, <1>c, <1>1, <1>3
<1>6. \E i \in DOMAIN s : s[i] = today
  BY <1>a, <1>b, <1>1
<1>7. ASSUME NEW i \in DOMAIN t, n # keep
      PROVE  i \in DOMAIN s /\ s[i] = t[i]
  <2>1. k = 0
    BY <1>b, <1>7
  <2>2. i \in 1 .. n - 1
    BY <1>a, <1>b, <2>1
  <2>3. QED
    BY <1>a, <1>b, <2>1, <2>2
<1>8. m = keep => n = keep
  BY <1>a, <1>b
<1>9. \A d \in Days : (\E i \in DOMAIN t : t[i] = d) =>
         (\E i \in DOMAIN s : s[i] = d) \/ n = keep
  BY <1>7
<1>10. QED
  BY <1>4, <1>5, <1>6, <1>8, <1>9 DEF m, n

LEMMA BakStart == BakInit => BakInv
<1> SUFFICES ASSUME BakInit
             PROVE  BakInv
  OBVIOUS
<1>1. <<>> \in Seq(Days) /\ Len(<<>>) = 0 /\ DOMAIN <<>> = {}
  OBVIOUS
<1>2. <<>> \in BoundedSeq(Days, AutoKeep + HandKeep)
  <2>1. <<>> \in [1 .. 0 -> Days]
    OBVIOUS
  <2>2. QED
    BY <2>1, BackupAssumption DEF BoundedSeq, SeqOf
<1>3. 1 \in Days
  BY BackupAssumption DEF Days
<1>4. BakTypeOK
  BY <1>2, <1>3, BackupAssumption DEF BakInit, BakTypeOK, NoTick
<1>5. BackupBounds /\ RecordProven
  BY <1>1, BackupAssumption DEF BakInit, BackupBounds, RecordProven, NoTick, Labels
<1>6. AutoInOrder
  <2>1. "auto" \in Labels /\ backups["auto"] = <<>> /\ DOMAIN backups["auto"] = {}
    BY <1>1 DEF BakInit, Labels
  <2>2. ~tick.stale /\ tick.pc = "idle" /\ bakProofs = {}
    BY DEF BakInit, NoTick
  <2>3. QED
    BY <2>1, <2>2 DEF AutoInOrder, IsInjective
<1>7. QED
  BY <1>4, <1>5, <1>6 DEF BakInv

\* A tick begins a day none of the automatic backups is of.
LEMMA TickMakes == BakInv /\ BakTickMakes => BakInv'
<1> SUFFICES ASSUME BakInv, BakTickMakes
             PROVE  BakInv'
  OBVIOUS
<1> USE DEF bakWorld
<1>1. BakTypeOK /\ BackupBounds /\ RecordProven /\ AutoInOrder
  BY DEF BakInv
<1> DEFINE t == backups["auto"]
<1>2. "auto" \in Labels /\ t \in Seq(Days) /\ Len(t) <= AutoKeep
  BY <1>1 DEF Labels, BackupBounds
<1>3. PICK s \in Seq(Days), k \in {0, 1} :
         WithBackup("auto", AutoKeep) = [backups EXCEPT !["auto"] = s] /\ Newest(t, s, k, AutoKeep)
  BY <1>1, <1>2, NewestStay, BackupAssumption
<1>4. /\ backups' = [backups EXCEPT !["auto"] = s]
      /\ backups'["auto"] = s /\ backups'["backup"] = backups["backup"]
      /\ tick' = [pc |-> "made", day |-> today, target |-> bakSettings.target, stale |-> FALSE]
      /\ tick.pc = "idle" /\ recorded # today
  BY <1>1, <1>3 DEF BakTickMakes, NoTick, DayOpen, BakTypeOK, Labels
<1>5. BakTypeOK'
  <2>1. backups' \in [Labels -> BoundedSeq(Days, AutoKeep + HandKeep)]
    <3>1. Len(s) <= AutoKeep + HandKeep
      BY <1>3, BackupAssumption DEF Newest
    <3>2. QED
      BY <1>1, <1>2, <1>4, <3>1, BoundedBackups
  <2>2. UNCHANGED <<bakWorld, offsite, recorded, spoiled, bakProofs>>
    BY DEF BakTickMakes
  <2>3. tick' \in [pc : {"idle", "made", "copied"}, day : Days \cup {0},
                   target : BOOLEAN, stale : BOOLEAN]
    BY <1>1, <1>4 DEF BakTypeOK
  <2>4. QED
    BY <1>1, <2>1, <2>2, <2>3 DEF BakTypeOK
<1>6. BackupBounds' /\ RecordProven'
  BY <1>1, <1>3, <1>4, BackupAssumption
     DEF BakTypeOK, BackupBounds, RecordProven, BakTickMakes, Newest, Labels, Days
<1>7. AutoInOrder'
  <2> SUFFICES ASSUME ~spoiled
               PROVE  /\ IsInjective(s)
                      /\ \A i \in DOMAIN s : s[i] <= today
                      /\ \E i \in DOMAIN s : s[i] = today
                      /\ \A d \in bakProofs :
                            \/ \E i \in DOMAIN s : s[i] = d
                            \/ Len(s) = AutoKeep
    <3>1. tick'.pc = "made" /\ tick'.day = today /\ ~tick'.stale
      BY <1>4
    <3>2. spoiled' = spoiled /\ bakProofs' = bakProofs
      BY DEF BakTickMakes
    <3>3. QED
      BY <1>4, <3>1, <3>2 DEF AutoInOrder
  <2>1. \A i \in DOMAIN t : t[i] < today
    <3>1. recorded < today /\ today \in Nat /\ recorded \in Nat
      <4>1. today \in Nat /\ recorded \in Nat
        BY <1>1 DEF BakTypeOK, Days
      <4>2. recorded <= today /\ recorded # today
        BY <1>1, <1>4 DEF BackupBounds
      <4>3. QED
        BY <4>1, <4>2
    <3>2. \A i \in DOMAIN t : t[i] <= recorded
      BY <1>1, <1>4 DEF AutoInOrder
    <3>a. \A i \in DOMAIN t : t[i] \in Nat
      BY <1>2, BackupAssumption DEF Days
    <3>3. QED
      BY <3>1, <3>2, <3>a
  <2>2. IsInjective(t) /\ bakProofs \subseteq Days /\ today \in Days
    BY <1>1 DEF AutoInOrder, BakTypeOK
  <2>3. /\ IsInjective(s)
        /\ \A i \in DOMAIN s : s[i] <= today
        /\ \E i \in DOMAIN s : s[i] = today
        /\ \A d \in Days : (\E i \in DOMAIN t : t[i] = d) =>
              \/ \E i \in DOMAIN s : s[i] = d
              \/ Len(s) = AutoKeep
        /\ Len(t) = AutoKeep => Len(s) = AutoKeep
    <3> HIDE DEF t
    <3> QED
      BY <1>2, <1>3, <2>1, <2>2, NewestInOrder, BackupAssumption
  <2>4. ASSUME NEW d \in bakProofs, Len(s) # AutoKeep
        PROVE  \E i \in DOMAIN s : s[i] = d
    <3>1. PICK i \in DOMAIN t : t[i] = d
      BY <1>1, <2>3, <2>4 DEF AutoInOrder
    <3>2. QED
      BY <2>2, <2>3, <2>4, <3>1
  <2>5. QED
    BY <2>3, <2>4
<1>8. QED
  BY <1>5, <1>6, <1>7 DEF BakInv

\* A tick that misreads the record makes a backup too many, and it is known.
LEMMA TickMisreads == BakInv /\ BakTickMisreads => BakInv'
<1> SUFFICES ASSUME BakInv, BakTickMisreads
             PROVE  BakInv'
  OBVIOUS
<1> USE DEF bakWorld
<1>1. BakTypeOK /\ BackupBounds /\ RecordProven
  BY DEF BakInv
<1> DEFINE t == backups["auto"]
<1>2. "auto" \in Labels /\ t \in Seq(Days) /\ Len(t) <= AutoKeep
  BY <1>1 DEF Labels, BackupBounds
<1>3. PICK s \in Seq(Days), k \in {0, 1} :
         WithBackup("auto", AutoKeep) = [backups EXCEPT !["auto"] = s] /\ Newest(t, s, k, AutoKeep)
  BY <1>1, <1>2, NewestStay, BackupAssumption
<1>4. /\ backups' = [backups EXCEPT !["auto"] = s]
      /\ backups'["auto"] = s /\ backups'["backup"] = backups["backup"]
      /\ tick' = [pc |-> "made", day |-> today, target |-> bakSettings.target, stale |-> FALSE]
      /\ spoiled' = TRUE
  BY <1>1, <1>3 DEF BakTickMisreads, NoTick, BakTypeOK, Labels
<1>5. BakTypeOK'
  <2>1. backups' \in [Labels -> BoundedSeq(Days, AutoKeep + HandKeep)]
    <3>1. Len(s) <= AutoKeep + HandKeep
      BY <1>3, BackupAssumption DEF Newest
    <3>2. QED
      BY <1>1, <1>2, <1>4, <3>1, BoundedBackups
  <2>2. UNCHANGED <<bakWorld, offsite, recorded, bakProofs>>
    BY DEF BakTickMisreads
  <2>3. tick' \in [pc : {"idle", "made", "copied"}, day : Days \cup {0},
                   target : BOOLEAN, stale : BOOLEAN]
    BY <1>1, <1>4 DEF BakTypeOK
  <2>4. QED
    BY <1>1, <1>4, <2>1, <2>2, <2>3 DEF BakTypeOK
<1>6. BackupBounds' /\ RecordProven'
  BY <1>1, <1>3, <1>4, BackupAssumption
     DEF BakTypeOK, BackupBounds, RecordProven, BakTickMisreads, Newest, Labels, Days
<1>7. AutoInOrder'
  BY <1>4 DEF AutoInOrder
<1>8. QED
  BY <1>5, <1>6, <1>7 DEF BakInv

\* A backup made by hand takes none of the automatic ones.
LEMMA HandBackup == BakInv /\ BakByHand => BakInv'
<1> SUFFICES ASSUME BakInv, BakByHand
             PROVE  BakInv'
  OBVIOUS
<1> USE DEF bakWorld
<1>1. BakTypeOK /\ BackupBounds /\ RecordProven /\ AutoInOrder
  BY DEF BakInv
<1>2. /\ "backup" \in Labels /\ backups["backup"] \in Seq(Days)
      /\ Len(backups["backup"]) <= HandKeep
  BY <1>1 DEF Labels, BackupBounds
<1>3. PICK s \in Seq(Days), k \in {0, 1} :
         /\ WithBackup("backup", HandKeep) = [backups EXCEPT !["backup"] = s]
         /\ Newest(backups["backup"], s, k, HandKeep)
  BY <1>1, <1>2, NewestStay, BackupAssumption
<1>4. /\ backups' = [backups EXCEPT !["backup"] = s]
      /\ backups'["backup"] = s /\ backups'["auto"] = backups["auto"]
  BY <1>1, <1>3 DEF BakByHand, BakTypeOK, Labels
<1>5. BakTypeOK'
  <2>1. backups' \in [Labels -> BoundedSeq(Days, AutoKeep + HandKeep)]
    <3>1. Len(s) <= AutoKeep + HandKeep
      BY <1>3, BackupAssumption DEF Newest
    <3>2. QED
      BY <1>1, <1>2, <1>4, <3>1, BoundedBackups
  <2>2. QED
    BY <1>1, <2>1 DEF BakTypeOK, BakByHand
<1>6. BackupBounds' /\ RecordProven'
  BY <1>1, <1>3, <1>4, BackupAssumption
     DEF BackupBounds, RecordProven, BakByHand, Newest, Labels
<1>7. AutoInOrder'
  BY <1>1, <1>4 DEF AutoInOrder, BakByHand
<1>8. QED
  BY <1>5, <1>6, <1>7 DEF BakInv

\* The other steps add no backup.
LEMMA TickEnds ==
    ASSUME BakInv,
           \/ BakTickRejects \/ BakTickCopies \/ BakCopyFails
           \/ BakTickRecords \/ BakRecordFails
    PROVE  BakInv'
<1> USE DEF bakWorld
<1>1. BakTypeOK /\ BackupBounds /\ RecordProven /\ AutoInOrder
  BY DEF BakInv
<1>2. ASSUME BakTickRejects PROVE BakInv'
  <2> DEFINE t == backups["auto"]
             s == Front(t)
  <2>1. t \in Seq(Days) /\ Len(t) \in Nat /\ Len(t) <= AutoKeep
        /\ \A i \in 1 .. Len(t) - 1 : t[i] \in Days
    BY <1>1 DEF BackupBounds, Labels
  <2>2. s \in Seq(Days) /\ Len(s) <= AutoKeep
    <3>1. /\ s \in Seq(Days)
          /\ Len(s) = IF 1 <= Len(t) - 1 THEN (Len(t) - 1) - 1 + 1 ELSE 0
      <4> HIDE DEF t
      <4> QED
        BY <2>1, SubSeqProperties DEF Front
    <3>2. QED
      BY <2>1, <3>1, BackupAssumption
  <2>3. /\ backups' = [backups EXCEPT !["auto"] = s] /\ "auto" \in Labels
        /\ backups'["auto"] = s /\ backups'["backup"] = backups["backup"]
        /\ tick' = NoTick /\ spoiled'
    BY <1>1, <1>2 DEF BakTickRejects, BakTypeOK, Labels
  <2>4. backups' \in [Labels -> BoundedSeq(Days, AutoKeep + HandKeep)]
    <3> HIDE DEF s
    <3>1. Len(s) <= AutoKeep + HandKeep
      BY <2>2, BackupAssumption
    <3>2. QED
      BY <1>1, <2>2, <2>3, <3>1, BoundedBackups
  <2>5. BakTypeOK'
    BY <1>1, <1>2, <2>3, <2>4, BackupAssumption DEF BakTypeOK, BakTickRejects, NoTick
  <2>6. BackupBounds' /\ RecordProven' /\ AutoInOrder'
    <3> HIDE DEF s
    <3> QED
      BY <1>1, <1>2, <2>2, <2>3, BackupAssumption
         DEF BackupBounds, RecordProven, AutoInOrder, BakTypeOK, BakTickRejects, NoTick,
            Days,
             Labels
  <2>7. QED
    BY <2>5, <2>6 DEF BakInv
<1>3. ASSUME BakTickCopies PROVE BakInv'
  <2>1. /\ tick' = [tick EXCEPT !.pc = "copied"] /\ tick.pc = "made"
        /\ bakProofs' = bakProofs \cup {tick.day} /\ tick.day \in Days
        /\ UNCHANGED <<bakWorld, backups, recorded, spoiled>>
        /\ tick'.pc = "copied" /\ tick'.day = tick.day /\ tick'.stale = tick.stale
    BY <1>1, <1>3 DEF BakTickCopies, BakTypeOK, BackupBounds
  <2>2. BakTypeOK'
    BY <1>1, <1>3, <2>1 DEF BakTypeOK, BakTickCopies
  <2>3. BackupBounds' /\ RecordProven'
    BY <1>1, <2>1 DEF BackupBounds, RecordProven
  <2>4. AutoInOrder'
    BY <1>1, <2>1 DEF AutoInOrder
  <2>5. QED
    BY <2>2, <2>3, <2>4 DEF BakInv
<1>4. ASSUME BakCopyFails PROVE BakInv'
  BY <1>1, <1>4, BackupAssumption
     DEF BakInv, BakTypeOK, BackupBounds, RecordProven, AutoInOrder, BakCopyFails,
        DayLeftOpen,
         NoTick, Days
<1>5. ASSUME BakTickRecords PROVE BakInv'
  <2>1. /\ tick' = NoTick /\ tick.pc = "copied" /\ tick.day \in Days
        /\ tick.day \in bakProofs
        /\ recorded' = tick.day
        /\ UNCHANGED <<bakWorld, backups, offsite, spoiled, bakProofs>>
    BY <1>1, <1>5 DEF BakTickRecords, BackupBounds, RecordProven
  <2>2. BakTypeOK'
    BY <1>1, <2>1 DEF BakTypeOK, NoTick
  <2>3. BackupBounds' /\ RecordProven'
    BY <1>1, <2>1 DEF BackupBounds, RecordProven, NoTick, BakTypeOK, Days
  <2>4. AutoInOrder'
    BY <1>1, <2>1 DEF AutoInOrder, NoTick
  <2>5. QED
    BY <2>2, <2>3, <2>4 DEF BakInv
<1>6. ASSUME BakRecordFails PROVE BakInv'
  BY <1>1, <1>6, BackupAssumption
     DEF BakInv, BakTypeOK, BackupBounds, RecordProven, AutoInOrder, BakRecordFails,
         NoTick, Days
<1>7. QED
  BY <1>2, <1>3, <1>4, <1>5, <1>6

LEMMA BackupWorld ==
    ASSUME BakInv,
           BakRestore \/ BakPanelRestarts \/ BakTimePasses \/ BakSettingsChange
    PROVE  BakInv'
<1> USE DEF bakWorld
<1>1. BakTypeOK /\ BackupBounds /\ RecordProven /\ AutoInOrder
  BY DEF BakInv
<1>2. ASSUME BakRestore PROVE BakInv'
  <2>1. /\ recorded' \in {0} \cup bakProofs /\ recorded' <= recorded
        /\ tick' = [tick EXCEPT !.stale = tick.pc # "idle"] /\ spoiled'
        /\ tick'.pc = tick.pc /\ tick'.day = tick.day
        /\ UNCHANGED <<bakWorld, backups, offsite, bakProofs>>
    BY <1>1, <1>2 DEF BakRestore, BakTypeOK, Days
  <2>2. BakTypeOK'
    BY <1>1, <2>1 DEF BakTypeOK
  <2>3. QED
    BY <1>1, <2>1, <2>2
       DEF BakInv, BackupBounds, RecordProven, AutoInOrder, BakTypeOK, Days
<1>3. ASSUME BakPanelRestarts PROVE BakInv'
  BY <1>1, <1>3, BackupAssumption
     DEF BakInv, BakTypeOK, BackupBounds, RecordProven, AutoInOrder, BakPanelRestarts,
        NoTick,
         Days
<1>4. ASSUME BakTimePasses PROVE BakInv'
  <2>a. today \in Nat /\ today \in Days
    BY <1>1, BackupAssumption DEF BakTypeOK, Days
  <2>c. today' = today \/ (today < MaxDay /\ today' = today + 1)
    BY <1>4 DEF BakTimePasses
  <2>d. due' \in BOOLEAN
    BY <1>4 DEF BakTimePasses
  <2>1. today' \in Days /\ today <= today' /\ due' \in BOOLEAN
    BY <2>a, <2>c, <2>d, BackupAssumption DEF Days
  <2>2. UNCHANGED <<bakSettings, targetUp, backups, offsite, recorded, tick, spoiled, bakProofs>>
    BY <1>4 DEF BakTimePasses
  <2>3. BakTypeOK'
    BY <1>1, <2>1, <2>2 DEF BakTypeOK
  <2>4. BackupBounds'
    BY <1>1, <2>1, <2>2 DEF BackupBounds, BakTypeOK, Days
  <2>5. RecordProven' /\ AutoInOrder'
    BY <1>1, <2>2 DEF RecordProven, AutoInOrder
  <2>6. QED
    BY <2>3, <2>4, <2>5 DEF BakInv
<1>5. ASSUME BakSettingsChange PROVE BakInv'
  <2>1. UNCHANGED <<today, due, backups, offsite, recorded, tick, spoiled, bakProofs>>
    BY <1>5 DEF BakSettingsChange
  <2>2. BakTypeOK'
    BY <1>1, <1>5 DEF BakTypeOK, BakSettingsChange
  <2>3. BackupBounds' /\ RecordProven' /\ AutoInOrder'
    BY <1>1, <2>1 DEF BackupBounds, RecordProven, AutoInOrder
  <2>4. QED
    BY <2>2, <2>3 DEF BakInv
<1>6. QED
  BY <1>2, <1>3, <1>4, <1>5

LEMMA BakStep == BakInv /\ [BakNext]_bakVars => BakInv'
<1> SUFFICES ASSUME BakInv, [BakNext]_bakVars
             PROVE  BakInv'
  OBVIOUS
<1>1. CASE UNCHANGED bakVars
  BY <1>1 DEF bakVars, BakInv, BakTypeOK, BackupBounds, RecordProven, AutoInOrder
<1>2. CASE BakNext
  BY <1>2, TickMakes, TickMisreads, TickEnds, HandBackup, BackupWorld DEF BakNext, BakTick
<1>3. QED
  BY <1>1, <1>2

\* The last AutoKeep of at most AutoKeep backups are all of them.
LEMMA BakMeans == BakInv => BackupsAsRecorded
<1> SUFFICES ASSUME BakInv
             PROVE  BackupsAsRecorded
  OBVIOUS
<1>1. /\ backups["auto"] \in Seq(Days) /\ Len(backups["auto"]) <= AutoKeep
      /\ RecordProven /\ AutoInOrder
  BY DEF BakInv, BackupBounds, Labels
<1>2. \A i \in DOMAIN backups["auto"] : i > Len(backups["auto"]) - AutoKeep
  BY <1>1, BackupAssumption
<1>3. \A i \in DOMAIN backups["auto"] :
         backups["auto"][i] \in LastOf(backups["auto"], AutoKeep)
  BY <1>2 DEF LastOf
<1>4. QED
  BY <1>1, <1>3 DEF BackupsAsRecorded, RecordProven, AutoInOrder

\* Every behaviour of the backup worker keeps its bounds and types and records
\* a day only with a proven backup (backup_worker.go:69-107).
LEMMA BakKeeps == BakInit /\ [][BakNext]_bakVars => [](BakTypeOK /\ BackupsAsRecorded)
<1>1. BakInv => BakTypeOK /\ BackupsAsRecorded
  BY BakMeans DEF BakInv
<1>2. QED
  BY BakStart, BakStep, <1>1, PTL

-----------------------------------------------------------------------------
(* The TLS pair.                                                           *)

\* A command writes a pair, and until a panel starts the certificate it wrote
\* is the one on disk; between commands the disk holds what the last one
\* achieved.
TlsOnDisk ==
    /\ tlsCommand.step # "none" => tlsCommand.cert \in Pairs /\ tlsCommand.key \in Pairs
    /\ tlsCommand.step = "key" /\ tlsCommand.alone => tlsFiles[CliCert] = tlsCommand.cert
    /\ tlsCommand.step = "none" /\ tlsLast \in Pairs /\ tlsDeclared # "cert" =>
          tlsFiles[CliCert] = tlsLast /\ tlsFiles[CliKey] = tlsLast
    /\ tlsCommand.step = "none" /\ tlsLast = "mismatch" /\ tlsDeclared # "cert" =>
          /\ tlsFiles[CliCert] \in Pairs /\ tlsFiles[CliKey] \in Pairs
          /\ tlsFiles[CliCert] # tlsFiles[CliKey]
    /\ tlsCommand.step = "none" /\ tlsLast = "removed" =>
          \A f \in Removable : tlsFiles[f] = Missing

TlsInv == TlsTypeOK /\ TlsOnDisk

LEMMA TlsStart == TlsInit => TlsInv
<1> SUFFICES ASSUME TlsInit
             PROVE  TlsInv
  OBVIOUS
<1> USE TlsAssumption
<1>1. /\ tlsCommand = [step |-> "none", cert |-> Missing, key |-> Missing, alone |-> TRUE]
      /\ tlsDeclared \in {"none", "both", "cert"}
      /\ tlsLast = "nothing" /\ serving = "down"
  BY DEF TlsInit, NoCommand
<1>2. tlsFiles \in [Files -> Pairs \cup {Missing, Torn}]
  BY DEF TlsInit, Files
<1>3. QED
  BY <1>1, <1>2 DEF TlsInv, TlsTypeOK, TlsOnDisk

LEMMA TargetsAreFiles ==
    /\ CliCert \in Files /\ CliKey \in Files /\ CliCert # CliKey
    /\ PanelCert \in Files /\ PanelKey \in Files
    /\ Removable \subseteq Files
BY DEF CliCert, CliKey, PanelCert, PanelKey, Removable, Files

LEMMA TlsWrites ==
    ASSUME TlsInv, (\E p, q \in Pairs : TlsInstall(p, q)) \/ TlsWriteCert \/ TlsWriteKey
    PROVE  TlsInv'
<1> USE TlsAssumption
<1>1. TlsTypeOK /\ TlsOnDisk
  BY DEF TlsInv
<1>2. UNCHANGED tlsDeclared => UNCHANGED <<CliCert, CliKey, Removable>>
  BY DEF CliCert, CliKey, Removable
<1>3. ASSUME NEW p \in Pairs, NEW q \in Pairs, TlsInstall(p, q) PROVE TlsInv'
  BY <1>1, <1>2, <1>3 DEF TlsInstall, TlsInv, TlsTypeOK, TlsOnDisk, NoCommand
<1>4. ASSUME TlsWriteCert PROVE TlsInv'
  BY <1>1, <1>2, <1>4, TargetsAreFiles DEF TlsWriteCert, TlsInv, TlsTypeOK, TlsOnDisk
<1>5. ASSUME TlsWriteKey PROVE TlsInv'
  BY <1>1, <1>2, <1>5, TargetsAreFiles
     DEF TlsWriteKey, TlsInv, TlsTypeOK, TlsOnDisk, NoCommand
<1>6. QED
  BY <1>3, <1>4, <1>5

LEMMA TlsBreaks ==
    ASSUME TlsInv, TlsWriteDies \/ TlsRemove
    PROVE  TlsInv'
<1> USE TlsAssumption
<1>1. TlsTypeOK /\ TlsOnDisk
  BY DEF TlsInv
<1>2. UNCHANGED tlsDeclared => UNCHANGED <<CliCert, CliKey, Removable>>
  BY DEF CliCert, CliKey, Removable
<1>3. ASSUME TlsWriteDies PROVE TlsInv'
  BY <1>1, <1>2, <1>3, TargetsAreFiles
     DEF TlsWriteDies, TlsInv, TlsTypeOK, TlsOnDisk, NoCommand, Torn
<1>4. ASSUME TlsRemove PROVE TlsInv'
  BY <1>1, <1>2, <1>4, TargetsAreFiles DEF TlsRemove, TlsInv, TlsTypeOK, TlsOnDisk
<1>5. QED
  BY <1>3, <1>4

\* A starting panel leaves alone what the last command achieved, and serves it.
LEMMA TlsServes ==
    ASSUME TlsInv, TlsPanelStarts
    PROVE  /\ TlsInv'
           /\ tlsCommand.step = "none" =>
                 /\ tlsLast \in Pairs /\ tlsDeclared # "cert" => serving' = tlsLast
                 /\ tlsLast = "mismatch" /\ tlsDeclared # "cert" => serving' = "down"
                 /\ tlsLast = "removed" => serving' = "http"
<1> USE TlsAssumption
<1>1. TlsTypeOK /\ TlsOnDisk
  BY DEF TlsInv
<1>2. UNCHANGED <<CliCert, CliKey, Removable, tlsDeclared, tlsLast>>
  BY DEF CliCert, CliKey, Removable, TlsPanelStarts
<1>3. PICK files \in Migrated(tlsFiles) : tlsFiles' = files /\ serving' = Served(files)
  BY DEF TlsPanelStarts
<1>4. /\ files \in [Files -> Pairs \cup {Missing, Torn}]
      /\ serving' \in Pairs \cup {"down", "http"}
  <2>1. /\ tlsFiles \in [Files -> Pairs \cup {Missing, Torn}]
        /\ "data cert" \in Files /\ "data key" \in Files
    BY <1>1 DEF TlsTypeOK, Files
  <2>2. \/ files = tlsFiles
        \/ files = [tlsFiles EXCEPT ![PanelCert] = tlsFiles["data cert"]]
        \/ files = [tlsFiles EXCEPT ![PanelCert] = Torn]
        \/ files = [[tlsFiles EXCEPT ![PanelCert] = tlsFiles["data cert"]]
                       EXCEPT ![PanelKey] = tlsFiles["data key"]]
        \/ files = [[tlsFiles EXCEPT ![PanelCert] = tlsFiles["data cert"]]
                       EXCEPT ![PanelKey] = Torn]
    BY <1>3, Zenon DEF Migrated
  <2>3. files \in [Files -> Pairs \cup {Missing, Torn}]
    BY <2>1, <2>2, TargetsAreFiles
  <2>4. serving' \in Pairs \cup {"down", "http"}
    BY <1>3 DEF Served
  <2>5. QED
    BY <2>3, <2>4
<1>5. tlsCommand' = [tlsCommand EXCEPT !.alone = tlsCommand.step = "none"]
  BY DEF TlsPanelStarts
<1>6. TlsTypeOK'
  BY <1>1, <1>2, <1>3, <1>4, <1>5 DEF TlsTypeOK
<1>7. ASSUME tlsCommand.step = "none", tlsLast \in Pairs, tlsDeclared # "cert"
      PROVE  files = tlsFiles /\ serving' = tlsLast
  <2>1. PanelCert = CliCert /\ PanelKey = CliKey
    BY <1>1, <1>7 DEF PanelCert, PanelKey, CliCert, CliKey, TlsTypeOK
  <2>2. tlsFiles[CliCert] = tlsLast /\ tlsFiles[CliKey] = tlsLast /\ tlsLast # Missing
    BY <1>1, <1>7 DEF TlsOnDisk, Missing
  <2>3. QED
    BY <1>3, <1>7, <2>1, <2>2 DEF Migrated, Served, Exists
<1>m. ASSUME tlsCommand.step = "none", tlsLast = "mismatch", tlsDeclared # "cert"
      PROVE  files = tlsFiles /\ serving' = "down"
  <2>1. PanelCert = CliCert /\ PanelKey = CliKey
    BY <1>1, <1>m DEF PanelCert, PanelKey, CliCert, CliKey, TlsTypeOK
  <2>2. /\ tlsFiles[CliCert] # tlsFiles[CliKey]
        /\ tlsFiles[CliCert] # Missing /\ tlsFiles[CliKey] # Missing
    BY <1>1, <1>m DEF TlsOnDisk, Missing
  <2>3. QED
    BY <1>3, <1>m, <2>1, <2>2 DEF Migrated, Served, Exists
<1>8. ASSUME tlsCommand.step = "none", tlsLast = "removed"
      PROVE  files = tlsFiles /\ serving' = "http"
  <2>1. tlsFiles["data cert"] = Missing /\ tlsFiles["data key"] = Missing
        /\ tlsFiles[CliCert] = Missing
    BY <1>1, <1>8 DEF TlsOnDisk, Removable
  <2>2. files = tlsFiles
    BY <1>3, <2>1 DEF Migrated, Exists
  <2>3. PanelCert = CliCert \/ PanelKey = "data key"
    BY DEF PanelCert, PanelKey, CliCert
  <2>4. QED
    BY <1>3, <2>1, <2>2, <2>3 DEF Served, Exists
<1>9. TlsOnDisk'
  <2>1. /\ tlsCommand'.step = tlsCommand.step /\ tlsCommand'.cert = tlsCommand.cert
        /\ tlsCommand'.key = tlsCommand.key
        /\ tlsCommand.step # "none" => ~tlsCommand'.alone
    BY <1>1, <1>5 DEF TlsTypeOK
  <2>2. tlsCommand.step = "none" /\ tlsLast \in Pairs /\ tlsDeclared # "cert" =>
           tlsFiles'[CliCert] = tlsLast /\ tlsFiles'[CliKey] = tlsLast
    BY <1>1, <1>3, <1>7 DEF TlsOnDisk
  <2>3. tlsCommand.step = "none" /\ tlsLast = "removed" =>
           \A f \in Removable : tlsFiles'[f] = Missing
    BY <1>1, <1>3, <1>8 DEF TlsOnDisk
  <2>4. tlsCommand.step # "none" => tlsCommand.cert \in Pairs /\ tlsCommand.key \in Pairs
    BY <1>1 DEF TlsOnDisk
  <2>m. tlsCommand.step = "none" /\ tlsLast = "mismatch" /\ tlsDeclared # "cert" =>
           /\ tlsFiles'[CliCert] \in Pairs /\ tlsFiles'[CliKey] \in Pairs
           /\ tlsFiles'[CliCert] # tlsFiles'[CliKey]
    BY <1>1, <1>3, <1>m DEF TlsOnDisk
  <2>5. QED
    BY <1>2, <2>1, <2>2, <2>3, <2>4, <2>m DEF TlsOnDisk
<1>10. QED
  BY <1>6, <1>7, <1>8, <1>9, <1>m DEF TlsInv

LEMMA TlsStep == TlsInv /\ [TlsNext]_tlsVars => TlsInv'
<1> SUFFICES ASSUME TlsInv, [TlsNext]_tlsVars
             PROVE  TlsInv'
  OBVIOUS
<1>1. CASE UNCHANGED tlsVars
  BY <1>1 DEF tlsVars, TlsInv, TlsTypeOK, TlsOnDisk, CliCert, CliKey, Removable
<1>2. CASE TlsNext
  BY <1>2, TlsWrites, TlsBreaks, TlsServes DEF TlsNext
<1>3. QED
  BY <1>1, <1>2

\* A panel that starts after a command serves what the command said
\* (tls.go:26-39, main.go:308-330).
LEMMA TlsKeeps == TlsInit /\ [][TlsNext]_tlsVars => []TlsTypeOK /\ TlsServesAsTold
<1>1. TlsInv => TlsTypeOK
  BY DEF TlsInv
<1>2. TlsInv /\ [TlsNext]_tlsVars =>
         [TlsPanelStarts /\ tlsCommand.step = "none" =>
            /\ tlsLast \in Pairs /\ tlsDeclared # "cert" => serving' = tlsLast
            /\ tlsLast = "mismatch" /\ tlsDeclared # "cert" => serving' = "down"
            /\ tlsLast = "removed" => serving' = "http"]_tlsVars
  BY TlsServes
<1>3. QED
  BY TlsStart, TlsStep, <1>1, <1>2, PTL DEF TlsServesAsTold

-----------------------------------------------------------------------------
(* The update: the operations on the disk.                                 *)

Disk == [Places -> [tree : Releases \cup {Absent, Shell}, data : Data]]

\* y has the trees of x, but for a directory made for the data.
SameTrees(x, y) == \A p \in Places : y[p].tree = x[p].tree
SameDbs(x, y) == \A p \in Places : y[p].data.db = x[p].data.db
SamePhases(x, y) == \A p \in Places : y[p].data.phase = x[p].data.phase

LEMMA DataPlaceIs ==
    /\ DataPlace \in {"install", "outer"} /\ DataPlace \in Places
    /\ inTree => DataPlace = "install"
    /\ ~inTree => DataPlace = "outer"
BY DEF DataPlace, Places

LEMMA EmptyTypes ==
    /\ NoDatabase \in Database
    /\ NoData \in Data
    /\ Gone \in [tree : Releases \cup {Absent, Shell}, data : Data]
BY DEF NoDatabase, NoData, Gone, Database, Schemas, UpdWrites, Data, Phases

LEMMA JournalWrites ==
    ASSUME NEW x \in Disk, NEW phase \in Phases
    PROVE  /\ Journal(x, phase) \in Disk
           /\ SameDbs(x, Journal(x, phase))
           /\ Journal(x, phase)[DataPlace].data.phase = phase
           /\ \A p \in Places : p # DataPlace => Journal(x, phase)[p] = x[p]
           /\ Journal(x, phase)[DataPlace].tree =
                 IF inTree /\ x[DataPlace].tree = Absent THEN Shell ELSE x[DataPlace].tree
<1> DEFINE d == x[DataPlace]
           e == [d.data EXCEPT !.phase = phase]
           t == IF inTree /\ d.tree = Absent THEN Shell ELSE d.tree
           y == Journal(x, phase)
<1>1. d.tree \in Releases \cup {Absent, Shell} /\ d.data \in Data
  BY DataPlaceIs DEF Disk
<1>2. e \in Data /\ e.phase = phase /\ e.db = d.data.db
  BY <1>1 DEF Data
<1>3. t \in Releases \cup {Absent, Shell}
  BY <1>1
<1>4. y = [x EXCEPT ![DataPlace] = [tree |-> t, data |-> e]]
  BY DEF Journal
<1> HIDE DEF d, e, t, y
<1>5. y \in Disk /\ y[DataPlace] = [tree |-> t, data |-> e]
      /\ \A p \in Places : p # DataPlace => y[p] = x[p]
  BY <1>2, <1>3, <1>4, DataPlaceIs DEF Disk
<1>6. SameDbs(x, y)
  BY <1>2, <1>5 DEF SameDbs, d
<1>7. QED
  BY <1>2, <1>5, <1>6 DEF t, d, y

LEMMA MarkerMarks ==
    ASSUME NEW x \in Disk, NEW on \in BOOLEAN
    PROVE  /\ Marker(x, on) \in Disk
           /\ SameTrees(x, Marker(x, on)) /\ SameDbs(x, Marker(x, on))
           /\ SamePhases(x, Marker(x, on))
<1> DEFINE d == x[DataPlace]
           e == [d.data EXCEPT !.marker = on]
           y == Marker(x, on)
<1>1. d \in [tree : Releases \cup {Absent, Shell}, data : Data]
  BY DataPlaceIs DEF Disk
<1>2. e \in Data /\ e.phase = d.data.phase /\ e.db = d.data.db
  BY <1>1 DEF Data
<1>4. y = [x EXCEPT ![DataPlace] = [d EXCEPT !.data = e]]
  BY DEF Marker
<1> HIDE DEF d, e, y
<1>5. y \in Disk /\ y[DataPlace] = [d EXCEPT !.data = e]
      /\ \A p \in Places : p # DataPlace => y[p] = x[p]
  BY <1>1, <1>2, <1>4, DataPlaceIs DEF Disk
<1>6. y[DataPlace].tree = d.tree /\ y[DataPlace].data = e
  BY <1>1, <1>5
<1>7. SameDbs(x, y) /\ SameTrees(x, y) /\ SamePhases(x, y)
  BY <1>2, <1>5, <1>6 DEF SameDbs, SameTrees, SamePhases, d
<1>8. QED
  BY <1>5, <1>7 DEF y

LEMMA SetDbSets ==
    ASSUME NEW x \in Disk, NEW db \in Database
    PROVE  /\ SetDb(x, db) \in Disk
           /\ SameTrees(x, SetDb(x, db)) /\ SamePhases(x, SetDb(x, db))
           /\ LiveDb(SetDb(x, db)) = db
           /\ \A p \in Places : p # DataPlace => SetDb(x, db)[p] = x[p]
<1> DEFINE d == x[DataPlace]
           e == [d.data EXCEPT !.db = db]
           y == SetDb(x, db)
<1>1. d \in [tree : Releases \cup {Absent, Shell}, data : Data]
  BY DataPlaceIs DEF Disk
<1>2. e \in Data /\ e.phase = d.data.phase /\ e.db = db
  BY <1>1 DEF Data
<1>4. y = [x EXCEPT ![DataPlace] = [d EXCEPT !.data = e]]
  BY DEF SetDb
<1> HIDE DEF d, e, y
<1>5. y \in Disk /\ y[DataPlace] = [d EXCEPT !.data = e]
      /\ \A p \in Places : p # DataPlace => y[p] = x[p]
  BY <1>1, <1>2, <1>4, DataPlaceIs DEF Disk
<1>6. y[DataPlace].tree = d.tree /\ y[DataPlace].data = e
  BY <1>1, <1>5
<1>7. SameTrees(x, y) /\ SamePhases(x, y)
  BY <1>2, <1>5, <1>6 DEF SameTrees, SamePhases, d
<1>8. QED
  BY <1>2, <1>5, <1>6, <1>7 DEF y, LiveDb

LEMMA RenameMoves ==
    ASSUME NEW x \in Disk, NEW a \in Places, NEW b \in Places, a # b
    PROVE  /\ RenameTree(x, a, b) \in Disk
           /\ RenameTree(x, a, b)[a] = Gone /\ RenameTree(x, a, b)[b] = x[a]
           /\ \A p \in Places \ {a, b} : RenameTree(x, a, b)[p] = x[p]
BY EmptyTypes DEF RenameTree, Disk

\* A start of the panel changes nothing but the schema of the live database,
\* and only a release that is installed serves.
LEMMA LaunchMigrates ==
    ASSUME NEW x \in Disk, NEW end \in Launch(x)
    PROVE  /\ end[1] \in Releases \cup {0} /\ end[2] \in Disk
           /\ SameTrees(x, end[2]) /\ SamePhases(x, end[2])
           /\ \A p \in Places : end[2][p].data.db.writes = x[p].data.db.writes
           /\ \A p \in Places : p # DataPlace => end[2][p] = x[p]
           /\ end[1] # 0 => end[1] = x["install"].tree
           /\ LiveDb(end[2]).schema \in {LiveDb(x).schema, SchemaOf[x["install"].tree]}
           /\ x["install"].tree \notin Releases => end[2] = x
<1> DEFINE r == x["install"].tree
           db == [LiveDb(x) EXCEPT !.schema = SchemaOf[r]]
           y == SetDb(x, db)
<1>1. LiveDb(x) \in Database
  BY DataPlaceIs DEF LiveDb, Disk, Data
<1>2. \/ end = <<0, x>>
      \/ r \in Releases /\ (end = <<0, y>> \/ end = <<r, y>>)
  BY DEF Launch
<1>3. SameTrees(x, x) /\ SamePhases(x, x)
  BY DEF SameTrees, SamePhases
<1>4. CASE end = <<0, x>>
  BY <1>3, <1>4
<1>5. CASE r \in Releases /\ (end = <<0, y>> \/ end = <<r, y>>)
  <2>1. db \in Database /\ db.schema = SchemaOf[r] /\ db.writes = LiveDb(x).writes
    BY <1>1, <1>5, UpdateAssumption DEF Database, Schemas
  <2> HIDE DEF db
  <2>2. /\ y \in Disk /\ SameTrees(x, y) /\ SamePhases(x, y) /\ LiveDb(y) = db
        /\ \A p \in Places : p # DataPlace => y[p] = x[p]
    BY <2>1, SetDbSets
  <2> HIDE DEF y
  <2>3. \A p \in Places : y[p].data.db.writes = x[p].data.db.writes
    BY <2>1, <2>2 DEF LiveDb
  <2>4. QED
    BY <1>5, <2>1, <2>2, <2>3
<1>6. QED
  BY <1>2, <1>4, <1>5

-----------------------------------------------------------------------------
(* The update: the invariant.                                              *)

\* The copy is taken and the tree of before the run still in place; the tree of
\* before the run is the previous one; the candidate is in place; the tree is
\* moved back; the service is stopped.
Window == {"safe", "staged", "paused", "cleared"}
Placed == {"placed", "carrying", "carried", "verifying", "failing", "verified"}
Away == {"moved", "aside"} \cup Placed
Back == {"back", "restored"}
Quiet == {"paused", "cleared", "moved", "placed", "carrying", "carried", "failing", "aside"}
         \cup Back

\* Where the run's trees are, and that one of the two can serve.
TreesKept ==
    /\ at.install.tree \notin Releases =>
          at.previous.tree \in Releases /\ at.install.data.db = NoDatabase
    /\ at.install.tree = Shell => inTree
    /\ upd.pc = "preflight" => at.install.tree = upd.from /\ upd.from # Absent
    /\ upd.pc \in Window \cup Back => upd.from \in Releases /\ at.install.tree = upd.from
    /\ upd.pc \in Away => upd.from \in Releases /\ at.previous.tree = upd.from
    /\ upd.pc \in Placed => at.install.tree \in Releases
    /\ upd.pc # "idle" => upd.candidate \in Releases
    /\ upd.pc \in {"staged", "paused", "cleared", "moved"} =>
          at.stage.tree = upd.candidate /\ at.stage.data = NoData
    /\ upd.pc = "placed" => at.install.data = NoData
    /\ upd.pc = "carrying" => inTree
    /\ upd.pc = "verified" => at.install.tree = upd.target

\* What serves is what is installed, and while trees move nothing serves.
ServiceFits ==
    /\ service # 0 => service = at.install.tree
    /\ upd.pc \in Quiet => service = 0

\* The journal of a running command does not say that it ended.
PhaseOpen ==
    /\ upd.pc # "idle" => at[DataPlace].data.phase \notin {"committed", "failed_over"}
    /\ upd.pc \in {"paused", "cleared"} => at[DataPlace].data.phase = "activating"
    /\ inTree /\ upd.pc \in Away => at.previous.data.phase = "activating"

\* The database that a failover would put back has the schema of the copy.
SchemaKnown ==
    /\ upd.pc \in Window \cup {"restored"} => LiveDb(at).schema = upd.safety.schema
    /\ inTree /\ upd.pc \in Away => at.previous.data.db.schema = upd.safety.schema
    /\ ~inTree /\ upd.pc = "moved" => LiveDb(at).schema = upd.safety.schema

\* Which databases hold the promised writes.
PromisesKept ==
    /\ ~inTree => promised \subseteq LiveDb(at).writes
    /\ upd.pc \notin {"idle", "preflight"} /\ ~(inTree /\ broken) =>
          promised \subseteq upd.safety.writes
    /\ inTree /\ ~broken =>
          /\ upd.pc \in {"idle", "preflight"} => at.install.tree \in Releases
          /\ upd.pc \in Away => promised \subseteq at.previous.data.db.writes
          /\ upd.pc \notin Away \/ upd.pc \in {"carried", "verifying", "verified"} =>
                promised \subseteq LiveDb(at).writes

UpdInv ==
    /\ UpdTypeOK /\ TreesKept /\ ServiceFits /\ PhaseOpen /\ SchemaKnown
    /\ PromisesKept

LEMMA UpdStart == UpdInit => UpdInv
<1> SUFFICES ASSUME UpdInit
             PROVE  UpdInv
  OBVIOUS
<1>1. PICK r \in Releases :
         /\ inTree \in BOOLEAN
         /\ at = [p \in Places |->
                    [tree |-> IF p = "install" THEN r ELSE Absent,
                     data |-> IF p = DataPlace
                              THEN [NoData EXCEPT !.db.schema = SchemaOf[r]]
                              ELSE NoData]]
         /\ service = r /\ upd = NoUpdater
         /\ updRuns = 0 /\ updWrites = 0 /\ promised = {} /\ broken = FALSE
  BY Zenon DEF UpdInit
<1> DEFINE d == [NoData EXCEPT !.db.schema = SchemaOf[r]]
<1>2. d \in Data /\ d.phase = "none" /\ d.db.writes = {}
  BY UpdateAssumption DEF NoData, NoDatabase, Data, Database, Schemas, UpdWrites, Phases
<1> HIDE DEF d
<1>3. at \in Disk
  BY <1>1, <1>2, EmptyTypes DEF Disk, d
<1>4. /\ at["install"].tree = r /\ at[DataPlace].data = d
  BY <1>1, DataPlaceIs DEF Places, d
<1>5. upd \in Updater /\ upd.pc = "idle"
  BY <1>1, EmptyTypes DEF NoUpdater, Updater
<1>6. UpdTypeOK
  <2>1. inTree \in BOOLEAN /\ broken \in BOOLEAN /\ service \in Releases \cup {0}
    BY <1>1
  <2>2. updRuns \in 0 .. MaxUpdates /\ updWrites \in 0 .. MaxUpdWrites
        /\ promised \subseteq UpdWrites
    BY <1>1, UpdateAssumption
  <2>3. QED
    BY <1>3, <1>5, <2>1, <2>2 DEF UpdTypeOK, Disk
<1>7. r # 0 /\ r # Shell
  BY UpdateAssumption DEF Shell
<1>8. QED
  BY <1>1, <1>2, <1>4, <1>5, <1>6, <1>7
     DEF UpdInv, TreesKept, ServiceFits, PhaseOpen, SchemaKnown, PromisesKept, Window, Back,
         Away, Placed, Quiet

LEMMA UpdHas ==
    ASSUME UpdInv
    PROVE  /\ at \in Disk /\ upd \in Updater /\ inTree \in BOOLEAN /\ broken \in BOOLEAN
           /\ service \in Releases \cup {0} /\ promised \subseteq UpdWrites
           /\ LiveDb(at) \in Database
           /\ 0 \notin Releases /\ Shell \notin Releases /\ Absent \notin Releases
           /\ Shell # Absent
           /\ inTree => LiveDb(at) = at["install"].data.db /\ DataPlace = "install"
           /\ ~inTree => LiveDb(at) = at["outer"].data.db /\ DataPlace = "outer"
<1>1. at \in Disk /\ UpdTypeOK
  BY DEF UpdInv, UpdTypeOK, Disk
<1>2. LiveDb(at) \in Database
  BY <1>1, DataPlaceIs DEF LiveDb, Disk, Data
<1>3. QED
  BY <1>1, <1>2, DataPlaceIs, UpdateAssumption DEF UpdTypeOK, LiveDb, Absent, Shell

\* The command resolves its target, over a tree it may first have recovered.
LEMMA BeginStep == UpdInv /\ UpdBegin => UpdInv'
<1> SUFFICES ASSUME UpdInv, UpdBegin
             PROVE  UpdInv'
  OBVIOUS
<1> USE UpdHas
<1>1. PICK x \in Recovered, target \in Releases, candidate \in Releases :
         /\ at' = Journal(x, "preflight")
         /\ upd' = [NoUpdater EXCEPT !.pc = "preflight", !.from = x.install.tree,
                                     !.target = target, !.candidate = candidate]
  BY Zenon DEF UpdBegin
<1>2. upd.pc = "idle" /\ UNCHANGED <<inTree, service, updWrites, promised, broken>>
      /\ updRuns' = updRuns + 1 /\ updRuns < MaxUpdates
  BY DEF UpdBegin
<1> DEFINE y == RenameTree(at, "previous", "install")
<1>3. /\ y \in Disk /\ y["previous"] = Gone /\ y["install"] = at["previous"]
      /\ y["outer"] = at["outer"] /\ y["stage"] = at["stage"]
  BY RenameMoves DEF Places
<1> HIDE DEF y
<1>4. /\ Marker(y, FALSE) \in Disk /\ SameTrees(y, Marker(y, FALSE))
      /\ SameDbs(y, Marker(y, FALSE))
  BY <1>3, MarkerMarks
<1>5. \/ at["install"].tree # Absent /\ x = at
      \/ /\ at["install"].tree = Absent /\ at["previous"].tree # Absent
         /\ x = Marker(y, FALSE)
  BY DEF Recovered, y
<1>6. x \in Disk
  BY <1>4, <1>5
<1>7. /\ at' \in Disk /\ SameDbs(x, at') /\ at'[DataPlace].data.phase = "preflight"
      /\ \A p \in Places : p # DataPlace => at'[p] = x[p]
      /\ at'[DataPlace].tree =
            IF inTree /\ x[DataPlace].tree = Absent THEN Shell ELSE x[DataPlace].tree
  BY <1>1, <1>6, JournalWrites DEF Phases
<1>8. /\ upd' \in Updater /\ upd'.pc = "preflight" /\ upd'.from = x["install"].tree
      /\ upd'.candidate \in Releases
  BY <1>1, <1>6, EmptyTypes DEF NoUpdater, Updater, Disk, Places
<1>9. UpdTypeOK'
  BY <1>2, <1>7, <1>8, UpdateAssumption DEF UpdInv, UpdTypeOK, Disk, UpdWrites
<1>10. x["install"].tree # Absent /\ at'["install"].tree = x["install"].tree
       /\ at'["previous"] = x["previous"]
  BY <1>3, <1>4, <1>5, <1>7 DEF SameTrees, Places, DataPlace
<1>11. /\ x["install"].tree \notin Releases =>
             x["previous"].tree \in Releases /\ x["install"].data.db = NoDatabase
       /\ x["install"].tree = Shell => inTree
       /\ service # 0 => service = x["install"].tree
  <2>1. CASE x = at
    BY <2>1 DEF UpdInv, TreesKept, ServiceFits
  <2>2. CASE at["install"].tree = Absent /\ x = Marker(y, FALSE)
    <3>1. at["previous"].tree \in Releases /\ service = 0
      BY <2>2 DEF UpdInv, TreesKept, ServiceFits
    <3>2. QED
      BY <1>3, <1>4, <2>2, <3>1 DEF SameTrees, Places
  <2>3. QED
    BY <1>5, <2>1, <2>2
<1>12. TreesKept' /\ ServiceFits'
  BY <1>2, <1>7, <1>8, <1>10, <1>11
     DEF TreesKept, ServiceFits, Window, Back, Away, Placed, Quiet, SameDbs, Places
<1>13. PhaseOpen' /\ SchemaKnown'
  BY <1>2, <1>7, <1>8
     DEF PhaseOpen, SchemaKnown, Window, Back, Away, Placed, DataPlace
<1>14. PromisesKept'
  <2>1. ~inTree => x["outer"].data.db = at["outer"].data.db
    BY <1>3, <1>4, <1>5 DEF SameDbs, Places
  <2>2. inTree /\ ~broken => x = at
    BY <1>2, <1>5 DEF UpdInv, PromisesKept
  <2>3. /\ ~inTree => promised \subseteq at["outer"].data.db.writes
        /\ inTree /\ ~broken => /\ at["install"].tree \in Releases
                                /\ promised \subseteq at["install"].data.db.writes
    BY <1>2 DEF UpdInv, PromisesKept, Away, Placed
  <2>4. /\ ~inTree => LiveDb(at)' = x["outer"].data.db
        /\ inTree => LiveDb(at)' = x["install"].data.db
    BY <1>2, <1>7 DEF LiveDb, DataPlace, SameDbs, Places
  <2>5. QED
    BY <1>2, <1>8, <1>10, <2>1, <2>2, <2>3, <2>4 DEF PromisesKept, Away, Placed
<1>15. QED
  BY <1>9, <1>12, <1>13, <1>14 DEF UpdInv

\* The steps before anything is replaced.
LEMMA BackupStep == UpdInv /\ UpdBackup => UpdInv'
<1> SUFFICES ASSUME UpdInv, UpdBackup
             PROVE  UpdInv'
  OBVIOUS
<1> USE UpdHas DEF History
<1> DEFINE x == [at EXCEPT ![DataPlace].data.copies = @ \cup {LiveDb(at)}]
<1>1. /\ upd.pc = "preflight" /\ LiveDb(at) # NoDatabase
      /\ at' = Journal(x, "staging")
      /\ upd' = [upd EXCEPT !.pc = "safe", !.safety = LiveDb(at)]
      /\ UNCHANGED <<History, service, broken>>
  BY DEF UpdBackup
<1>2. x \in Disk /\ SameTrees(at, x) /\ SameDbs(at, x)
  <2> DEFINE d == at[DataPlace]
             e == [d.data EXCEPT !.copies = @ \cup {LiveDb(at)}]
  <2>1. d \in [tree : Releases \cup {Absent, Shell}, data : Data]
    BY DataPlaceIs DEF Disk
  <2>2. e \in Data /\ e.db = d.data.db
    BY <2>1 DEF Data
  <2>3. x = [at EXCEPT ![DataPlace] = [d EXCEPT !.data = e]]
    OBVIOUS
  <2> HIDE DEF d, e, x
  <2>4. x \in Disk /\ x[DataPlace] = [d EXCEPT !.data = e]
        /\ \A p \in Places : p # DataPlace => x[p] = at[p]
    BY <2>1, <2>2, <2>3, DataPlaceIs DEF Disk
  <2>5. x[DataPlace].tree = d.tree /\ x[DataPlace].data = e
    BY <2>1, <2>4
  <2>6. QED
    BY <2>2, <2>4, <2>5 DEF SameTrees, SameDbs, d
<1> HIDE DEF x
<1>3. /\ at' \in Disk /\ SameDbs(x, at') /\ at'[DataPlace].data.phase = "staging"
      /\ \A p \in Places : p # DataPlace => at'[p] = x[p]
      /\ at'[DataPlace].tree =
            IF inTree /\ x[DataPlace].tree = Absent THEN Shell ELSE x[DataPlace].tree
  BY <1>1, <1>2, JournalWrites DEF Phases
<1>4. /\ upd' \in Updater /\ upd'.pc = "safe" /\ upd'.safety = LiveDb(at)
      /\ upd'.from = upd.from
      /\ upd'.candidate = upd.candidate
  BY <1>1 DEF Updater
<1>5. UpdTypeOK'
  BY <1>1, <1>3, <1>4 DEF UpdInv, UpdTypeOK, Disk
<1>6. at["install"].tree = upd.from /\ upd.from \in Releases
  BY <1>1, EmptyTypes DEF UpdInv, TreesKept, Updater
<1>7. /\ at'["install"].tree = upd.from /\ at'["previous"].tree = at["previous"].tree
      /\ LiveDb(at)' = LiveDb(at)
  BY <1>1, <1>2, <1>3, <1>6 DEF SameTrees, SameDbs, Places, DataPlace, LiveDb
<1>8. TreesKept' /\ ServiceFits'
  BY <1>1, <1>4, <1>6, <1>7
     DEF UpdInv, TreesKept, ServiceFits, Window, Back, Away, Placed, Quiet
<1>9. PhaseOpen' /\ SchemaKnown'
  BY <1>1, <1>3, <1>4, <1>7
     DEF UpdInv, PhaseOpen, SchemaKnown, Window, Back, Away, Placed, DataPlace
<1>10. PromisesKept'
  BY <1>1, <1>4, <1>6, <1>7 DEF UpdInv, PromisesKept, Away, Placed
<1>11. QED
  BY <1>5, <1>8, <1>9, <1>10 DEF UpdInv

LEMMA EarlySteps ==
    ASSUME UpdInv, UpdGivesUp \/ UpdStage \/ UpdPause \/ UpdClearPrevious
    PROVE  UpdInv'
<1> USE UpdHas DEF History, Enter
<1>1. ASSUME UpdGivesUp PROVE UpdInv'
  <2>1. /\ upd.pc \in {"preflight", "safe"} /\ UNCHANGED <<History, at, service, broken>>
        /\ upd' \in Updater /\ upd'.pc = "idle"
        /\ LiveDb(at)' = LiveDb(at)
    BY <1>1, EmptyTypes DEF UpdGivesUp, NoUpdater, Updater, LiveDb, DataPlace
  <2>2. UpdTypeOK'
    BY <2>1 DEF UpdInv, UpdTypeOK
  <2>3. TreesKept' /\ ServiceFits' /\ PhaseOpen' /\ SchemaKnown'
    BY <2>1
       DEF UpdInv, TreesKept, ServiceFits, PhaseOpen, SchemaKnown, Window, Back, Away,
          Placed,
           Quiet
  <2>4. PromisesKept'
    BY <2>1 DEF UpdInv, TreesKept, PromisesKept, Window, Away, Placed
  <2>5. QED
    BY <2>2, <2>3, <2>4 DEF UpdInv
<1>2. ASSUME UpdStage PROVE UpdInv'
  <2> DEFINE s == [tree |-> upd.candidate, data |-> NoData]
  <2>1. /\ upd.pc = "safe" /\ UNCHANGED <<History, service, broken>>
        /\ at' = [at EXCEPT !["stage"] = s]
        /\ upd' \in Updater /\ upd'.pc = "staged"
        /\ upd'.from = upd.from /\ upd'.safety = upd.safety
        /\ upd'.candidate = upd.candidate
    BY <1>2 DEF UpdStage, Updater
  <2>2. s \in [tree : Releases \cup {Absent, Shell}, data : Data]
        /\ s.tree = upd.candidate /\ s.data = NoData
    BY <2>1, EmptyTypes DEF UpdInv, TreesKept
  <2> HIDE DEF s
  <2>3. /\ at' \in Disk /\ at'["stage"] = s
        /\ at'["install"] = at["install"] /\ at'["previous"] = at["previous"]
        /\ at'["outer"] = at["outer"]
    BY <2>1, <2>2 DEF Disk, Places
  <2>4. LiveDb(at)' = LiveDb(at) /\ at'[DataPlace'] = at[DataPlace]
    BY <2>1, <2>3 DEF LiveDb, DataPlace
  <2>5. UpdTypeOK'
    BY <2>1, <2>3 DEF UpdInv, UpdTypeOK, Disk
  <2>6. TreesKept' /\ ServiceFits'
    BY <2>1, <2>2, <2>3
       DEF UpdInv, TreesKept, ServiceFits, Window, Back, Away, Placed, Quiet
  <2>7. PhaseOpen' /\ SchemaKnown' /\ PromisesKept'
    BY <2>1, <2>3, <2>4
       DEF UpdInv, PhaseOpen, SchemaKnown, PromisesKept, Window, Back, Away, Placed
  <2>8. QED
    BY <2>5, <2>6, <2>7 DEF UpdInv
<1>3. ASSUME UpdPause PROVE UpdInv'
  <2> DEFINE x == Journal(at, "activating")
  <2>1. /\ upd.pc = "staged" /\ UNCHANGED <<History, broken>> /\ service' = 0
        /\ at' = Marker(x, TRUE)
        /\ upd' \in Updater /\ upd'.pc = "paused"
        /\ upd'.from = upd.from /\ upd'.safety = upd.safety
        /\ upd'.candidate = upd.candidate
    BY <1>3 DEF UpdPause, Updater
  <2>2. /\ x \in Disk /\ SameDbs(at, x) /\ x[DataPlace].data.phase = "activating"
        /\ \A p \in Places : p # DataPlace => x[p] = at[p]
        /\ x[DataPlace].tree =
              IF inTree /\ at[DataPlace].tree = Absent THEN Shell ELSE at[DataPlace].tree
    BY JournalWrites DEF Phases
  <2> HIDE DEF x
  <2>3. at' \in Disk /\ SameTrees(x, at') /\ SameDbs(x, at') /\ SamePhases(x, at')
        /\ at'["stage"] = x["stage"]
    BY <2>1, <2>2, MarkerMarks DEF Marker, Disk, Places
  <2>4. upd.from \in Releases /\ at["install"].tree = upd.from
        /\ at["stage"].tree = upd.candidate /\ at["stage"].data = NoData
    BY <2>1 DEF UpdInv, TreesKept, Window
  <2>5. /\ at'["install"].tree = upd.from /\ at'["previous"].tree = at["previous"].tree
        /\ LiveDb(at)' = LiveDb(at)
        /\ at'["stage"] = at["stage"]
        /\ at'[DataPlace].data.phase = "activating"
    BY <2>1, <2>2, <2>3, <2>4
       DEF SameTrees, SameDbs, SamePhases, Places, DataPlace, LiveDb
  <2>6. UpdTypeOK'
    BY <2>1, <2>3 DEF UpdInv, UpdTypeOK, Disk
  <2>7. TreesKept' /\ ServiceFits'
    BY <2>1, <2>4, <2>5
       DEF UpdInv, TreesKept, ServiceFits, Window, Back, Away, Placed, Quiet
  <2>8. PhaseOpen' /\ SchemaKnown' /\ PromisesKept'
    BY <2>1, <2>4, <2>5
       DEF UpdInv, PhaseOpen, SchemaKnown, PromisesKept, Window, Back, Away, Placed,
          DataPlace
  <2>9. QED
    BY <2>6, <2>7, <2>8 DEF UpdInv
<1>4. ASSUME UpdClearPrevious PROVE UpdInv'
  <2>1. /\ upd.pc = "paused" /\ UNCHANGED <<History, service, broken>>
        /\ at' = [at EXCEPT !["previous"] = Gone]
        /\ upd' \in Updater /\ upd'.pc = "cleared"
        /\ upd'.from = upd.from /\ upd'.safety = upd.safety
        /\ upd'.candidate = upd.candidate
    BY <1>4 DEF UpdClearPrevious, Updater
  <2>3. /\ at' \in Disk /\ at'["stage"] = at["stage"]
        /\ at'["install"] = at["install"] /\ at'["outer"] = at["outer"]
    BY <2>1, EmptyTypes DEF Disk, Places
  <2>4. LiveDb(at)' = LiveDb(at) /\ at'[DataPlace'] = at[DataPlace]
    BY <2>1, <2>3 DEF LiveDb, DataPlace
  <2>5. UpdTypeOK'
    BY <2>1, <2>3 DEF UpdInv, UpdTypeOK, Disk
  <2>6. TreesKept' /\ ServiceFits'
    BY <2>1, <2>3 DEF UpdInv, TreesKept, ServiceFits, Window, Back, Away, Placed, Quiet
  <2>7. PhaseOpen' /\ SchemaKnown' /\ PromisesKept'
    BY <2>1, <2>3, <2>4
       DEF UpdInv, PhaseOpen, SchemaKnown, PromisesKept, Window, Back, Away, Placed
  <2>8. QED
    BY <2>5, <2>6, <2>7 DEF UpdInv
<1>5. QED
  BY <1>1, <1>2, <1>3, <1>4

\* The disk x may be left by a run that ends with s serving.
MayEnd(x, s, b) ==
    /\ x["install"].tree \notin Releases =>
          x["previous"].tree \in Releases /\ x["install"].data.db = NoDatabase
    /\ x["install"].tree = Shell => inTree
    /\ s # 0 => s = x["install"].tree
    /\ ~inTree => promised \subseteq x["outer"].data.db.writes
    /\ inTree /\ ~b => /\ x["install"].tree \in Releases
                       /\ promised \subseteq x["install"].data.db.writes

LEMMA EndKeeps ==
    ASSUME UpdInv, NEW x \in Disk, NEW phase \in Phases, EndUpdate(x, phase),
           UNCHANGED <<inTree, updRuns, updWrites, promised>>,
           service' \in Releases \cup {0}, broken' \in BOOLEAN,
           MayEnd(x, service', broken')
    PROVE  UpdInv'
<1> USE UpdHas
<1>1. /\ upd' \in Updater /\ upd'.pc = "idle" /\ at' = Journal(x, phase)
  BY EmptyTypes DEF EndUpdate, NoUpdater, Updater
<1>2. /\ at' \in Disk /\ SameDbs(x, at')
      /\ \A p \in Places : p # DataPlace => at'[p] = x[p]
      /\ at'[DataPlace].tree =
            IF inTree /\ x[DataPlace].tree = Absent THEN Shell ELSE x[DataPlace].tree
  BY <1>1, JournalWrites
<1>3. /\ at'["install"].tree = IF inTree /\ x["install"].tree = Absent
                               THEN Shell ELSE x["install"].tree
      /\ at'["previous"].tree = x["previous"].tree
      /\ at'["install"].data.db = x["install"].data.db
      /\ LiveDb(at)' = IF inTree THEN x["install"].data.db ELSE x["outer"].data.db
  BY <1>2 DEF SameDbs, Places, DataPlace, LiveDb
<1>4. UpdTypeOK'
  BY <1>1, <1>2 DEF UpdInv, UpdTypeOK, Disk
<1>5. TreesKept' /\ ServiceFits'
  BY <1>1, <1>3
     DEF MayEnd, TreesKept, ServiceFits, Window, Back, Away, Placed, Quiet
<1>6. PhaseOpen' /\ SchemaKnown'
  BY <1>1 DEF PhaseOpen, SchemaKnown, Window, Back, Away, Placed
<1>7. PromisesKept'
  BY <1>1, <1>3 DEF MayEnd, PromisesKept, Window, Back, Away, Placed
<1>8. QED
  BY <1>4, <1>5, <1>6, <1>7 DEF UpdInv

\* The renames.
LEMMA MoveOutStep == UpdInv /\ UpdMoveOut => UpdInv'
<1> SUFFICES ASSUME UpdInv, UpdMoveOut
             PROVE  UpdInv'
  OBVIOUS
<1> USE UpdHas DEF History, Enter
<1>1. /\ upd.pc = "cleared" /\ UNCHANGED <<inTree, updRuns, updWrites, promised>>
      /\ UNCHANGED <<service, broken>>
      /\ at["install"].tree = upd.from /\ upd.from \in Releases /\ service = 0
  BY DEF UpdMoveOut, UpdInv, TreesKept, ServiceFits, Window, Quiet
<1>2. ASSUME at' = RenameTree(at, "install", "previous"), upd' = [upd EXCEPT !.pc = "moved"]
      PROVE  UpdInv'
  <2>1. /\ at' \in Disk /\ at'["install"] = Gone /\ at'["previous"] = at["install"]
        /\ at'["stage"] = at["stage"] /\ at'["outer"] = at["outer"]
    BY <1>2, RenameMoves DEF Places
  <2>2. /\ upd' \in Updater /\ upd'.pc = "moved"
        /\ upd'.from = upd.from /\ upd'.safety = upd.safety
        /\ upd'.candidate = upd.candidate
    BY <1>2 DEF Updater
  <2>3. UpdTypeOK'
    BY <1>1, <2>1, <2>2 DEF UpdInv, UpdTypeOK, Disk
  <2>4. /\ at'["install"].tree = Absent /\ at'["install"].data = NoData
        /\ NoData.db = NoDatabase /\ NoData.phase = "none"
    BY <2>1 DEF Gone, NoData
  <2>5. TreesKept' /\ ServiceFits'
    BY <1>1, <2>1, <2>2, <2>4
       DEF UpdInv, TreesKept, ServiceFits, Window, Back, Away, Placed, Quiet
  <2>6. PhaseOpen' /\ SchemaKnown'
    BY <1>1, <2>1, <2>2, <2>4
       DEF UpdInv, PhaseOpen, SchemaKnown, Window, Back, Away, Placed, DataPlace, LiveDb
  <2>7. PromisesKept'
    BY <1>1, <2>1, <2>2
       DEF UpdInv, PromisesKept, Window, Back, Away, Placed, DataPlace, LiveDb
  <2>8. QED
    BY <2>3, <2>5, <2>6, <2>7 DEF UpdInv
<1>3. ASSUME EndUpdate(Marker(at, FALSE), "failed_over") PROVE UpdInv'
  <2>1. /\ Marker(at, FALSE) \in Disk /\ SameTrees(at, Marker(at, FALSE))
        /\ SameDbs(at, Marker(at, FALSE))
    BY MarkerMarks
  <2>2. MayEnd(Marker(at, FALSE), service, broken)
    BY <1>1, <2>1
       DEF MayEnd, UpdInv, PromisesKept, Away, Placed, SameTrees, SameDbs, Places
  <2>3. QED
    BY <1>1, <1>3, <2>1, <2>2, EndKeeps DEF Phases
<1>4. QED
  BY <1>2, <1>3 DEF UpdMoveOut

LEMMA MoveInStep == UpdInv /\ UpdMoveIn => UpdInv'
<1> SUFFICES ASSUME UpdInv, UpdMoveIn
             PROVE  UpdInv'
  OBVIOUS
<1> USE UpdHas DEF History, Enter
<1>1. /\ upd.pc = "moved" /\ UNCHANGED <<inTree, updRuns, updWrites, promised>>
      /\ UNCHANGED service
      /\ at["previous"].tree = upd.from /\ upd.from \in Releases /\ service = 0
      /\ at["stage"].tree \in Releases /\ at["stage"].data = NoData
  BY DEF UpdMoveIn, UpdInv, TreesKept, ServiceFits, Away, Quiet
<1>2. ASSUME at' = RenameTree(at, "stage", "install"), upd' = [upd EXCEPT !.pc = "placed"],
             UNCHANGED broken
      PROVE  UpdInv'
  <2>1. /\ at' \in Disk /\ at'["install"] = at["stage"]
        /\ at'["previous"] = at["previous"] /\ at'["outer"] = at["outer"]
    BY <1>2, RenameMoves DEF Places
  <2>2. /\ upd' \in Updater /\ upd'.pc = "placed"
        /\ upd'.from = upd.from /\ upd'.safety = upd.safety
        /\ upd'.candidate = upd.candidate
    BY <1>2 DEF Updater
  <2>3. UpdTypeOK'
    BY <1>1, <1>2, <2>1, <2>2 DEF UpdInv, UpdTypeOK, Disk
  <2>4. NoData.phase = "none"
    BY DEF NoData
  <2>5. TreesKept' /\ ServiceFits'
    BY <1>1, <2>1, <2>2
       DEF UpdInv, TreesKept, ServiceFits, Window, Back, Away, Placed, Quiet
  <2>6. PhaseOpen' /\ SchemaKnown'
    BY <1>1, <2>1, <2>2, <2>4
       DEF UpdInv, PhaseOpen, SchemaKnown, Window, Back, Away, Placed, DataPlace, LiveDb
  <2>7. PromisesKept'
    BY <1>1, <1>2, <2>1, <2>2
       DEF UpdInv, PromisesKept, Window, Back, Away, Placed, DataPlace, LiveDb
  <2>8. QED
    BY <2>3, <2>5, <2>6, <2>7 DEF UpdInv
<1>3. ASSUME EndUpdate(Marker(RenameTree(at, "previous", "install"), FALSE), "failed_over"),
             UNCHANGED broken
      PROVE  UpdInv'
  <2> DEFINE y == RenameTree(at, "previous", "install")
  <2>1. /\ y \in Disk /\ y["install"] = at["previous"] /\ y["outer"] = at["outer"]
    BY RenameMoves DEF Places
  <2> HIDE DEF y
  <2>2. /\ Marker(y, FALSE) \in Disk /\ SameTrees(y, Marker(y, FALSE))
        /\ SameDbs(y, Marker(y, FALSE))
    BY <2>1, MarkerMarks
  <2>3. MayEnd(Marker(y, FALSE), service, broken)
    BY <1>1, <2>1, <2>2
       DEF MayEnd, UpdInv, PromisesKept, Away, Placed, SameTrees, SameDbs, Places
  <2>4. EndUpdate(Marker(y, FALSE), "failed_over")
    BY <1>3 DEF y
  <2>5. QED
    BY <1>1, <1>3, <2>2, <2>3, <2>4, EndKeeps DEF Phases
<1>4. ASSUME EndUpdate(Marker(at, FALSE), "failed_over"), broken' = TRUE PROVE UpdInv'
  <2>1. /\ Marker(at, FALSE) \in Disk /\ SameTrees(at, Marker(at, FALSE))
        /\ SameDbs(at, Marker(at, FALSE))
    BY MarkerMarks
  <2>2. MayEnd(Marker(at, FALSE), service, TRUE)
    BY <1>1, <2>1
       DEF MayEnd, UpdInv, TreesKept, PromisesKept, SameTrees, SameDbs, Places
  <2>3. QED
    BY <1>1, <1>4, <2>1, <2>2, EndKeeps DEF Phases
<1>5. QED
  BY <1>2, <1>3, <1>4 DEF UpdMoveIn

\* The data directory is carried: all of it is in the new tree before the
\* candidate starts.
LEMMA CarrySteps == ASSUME UpdInv, UpdCarry \/ UpdCarried PROVE UpdInv'
<1> USE UpdHas DEF History, Enter
<1>1. UNCHANGED <<inTree, updRuns, updWrites, promised, service, broken>>
      /\ upd.pc \in {"placed", "carrying"} /\ service = 0
      /\ ~(upd.pc = "carrying" /\ UpdCarry)
      /\ upd.from \in Releases /\ at["previous"].tree = upd.from
      /\ at["install"].tree \in Releases
      /\ upd.candidate \in Releases
  BY DEF UpdCarry, UpdCarried, UpdInv, TreesKept, ServiceFits, Quiet, Away, Placed
<1> DEFINE Carry(d, pc) ==
              /\ at' = [at EXCEPT !["install"].data = d]
              /\ pc = "carrying" \/ (pc = "carried" /\ d = at["previous"].data)
              /\ upd' = [upd EXCEPT !.pc = pc] /\ inTree
              /\ d.phase \in {"none", "activating"}
<1>2. ASSUME NEW d \in Data, NEW pc, Carry(d, pc)
      PROVE  UpdInv'
  <2>1. /\ at' \in Disk /\ at'["install"].tree = at["install"].tree
        /\ at'["install"].data = d
        /\ at'["previous"] = at["previous"]
    <3> DEFINE e == [at["install"] EXCEPT !.data = d]
    <3>1. at' = [at EXCEPT !["install"] = e]
      BY <1>2
    <3>2. e \in [tree : Releases \cup {Absent, Shell}, data : Data]
          /\ e.tree = at["install"].tree /\ e.data = d
      BY DEF Disk, Places
    <3> HIDE DEF e
    <3>3. QED
      BY <3>1, <3>2 DEF Disk, Places
  <2>2. /\ upd' \in Updater /\ upd'.pc = pc
        /\ upd'.from = upd.from /\ upd'.safety = upd.safety
        /\ upd'.candidate = upd.candidate
    <3>1. pc \in {"carrying", "carried"}
      BY <1>2
    <3>2. QED
      BY <1>2, <3>1 DEF Updater
  <2>3. UpdTypeOK'
    BY <1>1, <2>1, <2>2 DEF UpdInv, UpdTypeOK, Disk
  <2>4. TreesKept' /\ ServiceFits'
    BY <1>1, <1>2, <2>1, <2>2
       DEF UpdInv, TreesKept, ServiceFits, Window, Back, Away, Placed, Quiet
  <2>5. PhaseOpen' /\ SchemaKnown'
    BY <1>1, <1>2, <2>1, <2>2
       DEF UpdInv, PhaseOpen, SchemaKnown, Window, Back, Away, Placed, DataPlace, LiveDb
  <2>6. PromisesKept'
    BY <1>1, <1>2, <2>1, <2>2
       DEF UpdInv, PromisesKept, Window, Back, Away, Placed, DataPlace, LiveDb
  <2>7. QED
    BY <2>3, <2>4, <2>5, <2>6 DEF UpdInv
<1>3. inTree => at["previous"].data \in Data /\ at["previous"].data.phase = "activating"
  BY <1>1 DEF UpdInv, PhaseOpen, Away, Placed, Disk, Places
<1>4. ASSUME UpdCarry PROVE UpdInv'
  <2> DEFINE d == [at["install"].data EXCEPT !.copies = at["previous"].data.copies]
  <2>1. upd.pc = "placed" /\ inTree /\ at' = [at EXCEPT !["install"].data = d]
        /\ upd' = [upd EXCEPT !.pc = "carrying"]
    BY <1>4 DEF UpdCarry, Carries
  <2>2. at["install"].data = NoData
    BY <2>1 DEF UpdInv, TreesKept
  <2>a. at["install"].data \in Data /\ at["install"].data.phase = "none"
    BY <2>2, EmptyTypes DEF NoData
  <2>b. at["previous"].data.copies \in SUBSET Database
    BY <1>3, <2>1 DEF Data
  <2>3. d \in Data /\ d.phase \in {"none", "activating"}
    BY <2>a, <2>b DEF Data
  <2> HIDE DEF d
  <2>4. Carry(d, "carrying")
    BY <2>1, <2>3
  <2> HIDE DEF Carry
  <2>5. QED
    BY <1>2, <2>3, <2>4
<1>5. ASSUME upd.pc = "carrying", at' = CopiedData(at),
             upd' = [upd EXCEPT !.pc = "carried"],
             inTree
      PROVE  UpdInv'
  BY <1>2, <1>3, <1>5 DEF CopiedData
<1>7. ASSUME upd.pc = "placed", ~Carries, UNCHANGED at, upd' = [upd EXCEPT !.pc = "carried"]
      PROVE  UpdInv'
  <2>1. ~inTree
    <3>1. NoData.phase = "none"
      BY DEF NoData
    <3>2. at["install"].data = NoData
      BY <1>7 DEF UpdInv, TreesKept
    <3>3. QED
      BY <1>3, <1>7, <3>1, <3>2 DEF Carries, HasEntries
  <2>2. /\ upd' \in Updater /\ upd'.pc = "carried"
        /\ upd'.from = upd.from /\ upd'.safety = upd.safety
        /\ upd'.candidate = upd.candidate
    BY <1>7 DEF Updater
  <2>3. UpdTypeOK'
    BY <1>1, <1>7, <2>2 DEF UpdInv, UpdTypeOK
  <2>4. TreesKept' /\ ServiceFits'
    BY <1>1, <1>7, <2>2
       DEF UpdInv, TreesKept, ServiceFits, Window, Back, Away, Placed, Quiet
  <2>5. PhaseOpen' /\ SchemaKnown' /\ PromisesKept'
    BY <1>1, <1>7, <2>1, <2>2
       DEF UpdInv, PhaseOpen, SchemaKnown, PromisesKept, Window, Back, Away, Placed,
           DataPlace, LiveDb
  <2>6. QED
    BY <2>3, <2>4, <2>5 DEF UpdInv
<1>8. QED
  <2>1. upd.pc = "carrying" => inTree
    BY DEF UpdInv, TreesKept
  <2>2. QED
    BY <1>4, <1>5, <1>7, <2>1 DEF UpdCarried

LEMMA CarryFailsStep == UpdInv /\ UpdCarryFails => UpdInv'
<1> SUFFICES ASSUME UpdInv, UpdCarryFails
             PROVE  UpdInv'
  OBVIOUS
<1> USE UpdHas DEF History
<1> DEFINE x == RenameTree(at, "install", "stage")
           y == RenameTree(x, "previous", "install")
           z == [y EXCEPT !["stage"] = Gone]
<1>1. /\ upd.pc \in {"placed", "carrying"} /\ inTree
      /\ UNCHANGED <<inTree, updRuns, updWrites, promised>>
      /\ upd.from \in Releases /\ at["previous"].tree = upd.from /\ service = 0
      /\ ~broken => promised \subseteq at["previous"].data.db.writes
  BY DEF UpdCarryFails, UpdInv, TreesKept, ServiceFits, PromisesKept, Quiet, Away, Placed
<1>2. /\ x \in Disk /\ x["install"] = Gone /\ x["previous"] = at["previous"]
  BY RenameMoves DEF Places
<1>3. \/ \E end \in Launch(z) :
            /\ service' = end[1]
            /\ EndUpdate(Marker(end[2], FALSE), "failed_over")
            /\ UNCHANGED broken
      \/ /\ EndUpdate(x, "recovery_required")
         /\ broken' = TRUE /\ UNCHANGED service
  BY Zenon DEF UpdCarryFails
<1> HIDE DEF x
<1>4. y \in Disk /\ y["install"] = at["previous"]
  BY <1>2, RenameMoves DEF Places
<1> HIDE DEF y
<1>5. z \in Disk /\ z["install"] = at["previous"]
  BY <1>4, EmptyTypes DEF Disk, Places
<1> HIDE DEF z
<1>6. ASSUME NEW end \in Launch(z), service' = end[1],
             EndUpdate(Marker(end[2], FALSE), "failed_over"), UNCHANGED broken
      PROVE  UpdInv'
  <2>1. /\ end[1] \in Releases \cup {0} /\ end[2] \in Disk /\ SameTrees(z, end[2])
        /\ \A p \in Places : end[2][p].data.db.writes = z[p].data.db.writes
        /\ end[1] # 0 => end[1] = z["install"].tree
    BY <1>5, LaunchMigrates
  <2>2. /\ Marker(end[2], FALSE) \in Disk /\ SameTrees(end[2], Marker(end[2], FALSE))
        /\ SameDbs(end[2], Marker(end[2], FALSE))
    BY <2>1, MarkerMarks
  <2>3. MayEnd(Marker(end[2], FALSE), service', broken')
    BY <1>1, <1>5, <1>6, <2>1, <2>2 DEF MayEnd, SameTrees, SameDbs, Places
  <2>4. QED
    BY <1>1, <1>6, <2>1, <2>2, <2>3, EndKeeps DEF Phases
<1>7. ASSUME EndUpdate(x, "recovery_required"), broken' = TRUE, UNCHANGED service
      PROVE  UpdInv'
  <2>1. MayEnd(x, service', TRUE)
    BY <1>1, <1>2, <1>7 DEF MayEnd, Gone, NoData, Absent, Shell
  <2>2. QED
    BY <1>1, <1>2, <1>7, <2>1, EndKeeps DEF Phases
<1>8. QED
  BY <1>3, <1>6, <1>7

\* The candidate starts, and is verified or not.
LEMMA VerifySteps ==
    ASSUME UpdInv, UpdRestart \/ UpdVerified \/ UpdFailsOver
    PROVE  UpdInv'
<1> USE UpdHas DEF History, Enter
<1>1. ASSUME UpdRestart PROVE UpdInv'
  <2>1. PICK end \in Launch(at) : service' = end[1] /\ at' = Journal(end[2], "verifying")
    BY <1>1, Zenon DEF UpdRestart
  <2>2. /\ upd.pc = "carried" /\ UNCHANGED <<inTree, updRuns, updWrites, promised, broken>>
        /\ upd' \in Updater /\ upd'.pc = "verifying"
        /\ upd'.from = upd.from /\ upd'.safety = upd.safety
        /\ upd'.candidate = upd.candidate
        /\ upd'.target = upd.target
    BY <1>1 DEF UpdRestart, Updater
  <2>3. /\ end[1] \in Releases \cup {0} /\ end[2] \in Disk /\ SameTrees(at, end[2])
        /\ \A p \in Places : end[2][p].data.db.writes = at[p].data.db.writes
        /\ \A p \in Places : p # DataPlace => end[2][p] = at[p]
        /\ end[1] # 0 => end[1] = at["install"].tree
    BY LaunchMigrates
  <2>4. /\ at' \in Disk /\ SameDbs(end[2], at') /\ at'[DataPlace].data.phase = "verifying"
        /\ \A p \in Places : p # DataPlace => at'[p] = end[2][p]
        /\ at'[DataPlace].tree =
              IF inTree /\ end[2][DataPlace].tree = Absent THEN Shell ELSE end[2][DataPlace].tree
    BY <2>1, <2>3, JournalWrites DEF Phases
  <2>5. /\ at["install"].tree \in Releases /\ at["previous"].tree = upd.from
        /\ upd.from \in Releases
        /\ upd.candidate \in Releases
    BY <2>2 DEF UpdInv, TreesKept, Placed, Away
  <2>6. /\ at'["install"].tree = at["install"].tree /\ at'["previous"] = at["previous"]
        /\ LiveDb(at)'.writes = LiveDb(at).writes
    BY <2>2, <2>3, <2>4, <2>5 DEF SameTrees, SameDbs, Places, LiveDb, DataPlace
  <2>7. UpdTypeOK'
    BY <2>1, <2>2, <2>3, <2>4 DEF UpdInv, UpdTypeOK, Disk
  <2>8. TreesKept' /\ ServiceFits'
    BY <2>1, <2>2, <2>3, <2>5, <2>6
       DEF TreesKept, ServiceFits, Window, Back, Away, Placed, Quiet
  <2>9. PhaseOpen' /\ SchemaKnown' /\ PromisesKept'
    BY <2>2, <2>4, <2>6
       DEF UpdInv, PhaseOpen, SchemaKnown, PromisesKept, Window, Back, Away, Placed,
          DataPlace
  <2>10. QED
    BY <2>7, <2>8, <2>9 DEF UpdInv
<1>2. ASSUME UpdVerified PROVE UpdInv'
  <2>2. /\ upd.pc = "verifying" /\ UNCHANGED <<History, at, service, broken>>
        /\ service # 0 /\ service = upd.target
        /\ upd' \in Updater /\ upd'.pc = "verified"
        /\ upd'.from = upd.from /\ upd'.safety = upd.safety
        /\ upd'.candidate = upd.candidate
        /\ upd'.target = upd.target
        /\ LiveDb(at)' = LiveDb(at)
    BY <1>2 DEF UpdVerified, TargetAnswers, Updater, LiveDb, DataPlace
  <2>3. UpdTypeOK'
    BY <2>2 DEF UpdInv, UpdTypeOK
  <2>4. TreesKept' /\ ServiceFits'
    BY <2>2 DEF UpdInv, TreesKept, ServiceFits, Window, Back, Away, Placed, Quiet
  <2>5. PhaseOpen' /\ SchemaKnown' /\ PromisesKept'
    BY <2>2
       DEF UpdInv, PhaseOpen, SchemaKnown, PromisesKept, Window, Back, Away, Placed,
          DataPlace
  <2>6. QED
    BY <2>3, <2>4, <2>5 DEF UpdInv
<1>3. ASSUME UpdFailsOver PROVE UpdInv'
  <2>2. /\ upd.pc = "verifying" /\ UNCHANGED <<History, broken>> /\ service' = 0
        /\ at' = Journal(at, "failing_over")
        /\ upd' \in Updater /\ upd'.pc = "failing"
        /\ upd'.from = upd.from /\ upd'.safety = upd.safety
        /\ upd'.candidate = upd.candidate
        /\ upd'.target = upd.target
    BY <1>3 DEF UpdFailsOver, Updater
  <2>4. /\ at' \in Disk /\ SameDbs(at, at') /\ at'[DataPlace].data.phase = "failing_over"
        /\ \A p \in Places : p # DataPlace => at'[p] = at[p]
        /\ at'[DataPlace].tree =
              IF inTree /\ at[DataPlace].tree = Absent THEN Shell ELSE at[DataPlace].tree
    BY <2>2, JournalWrites DEF Phases
  <2>5. /\ at["install"].tree \in Releases /\ at["previous"].tree = upd.from
        /\ upd.from \in Releases
        /\ upd.candidate \in Releases
    BY <2>2 DEF UpdInv, TreesKept, Placed, Away
  <2>6. /\ at'["install"].tree = at["install"].tree /\ at'["previous"] = at["previous"]
        /\ LiveDb(at)' = LiveDb(at)
    BY <2>2, <2>4, <2>5 DEF SameDbs, Places, LiveDb, DataPlace
  <2>7. UpdTypeOK'
    BY <2>2, <2>4 DEF UpdInv, UpdTypeOK, Disk
  <2>8. TreesKept' /\ ServiceFits'
    BY <2>2, <2>5, <2>6 DEF TreesKept, ServiceFits, Window, Back, Away, Placed, Quiet
  <2>9. PhaseOpen' /\ SchemaKnown' /\ PromisesKept'
    BY <2>2, <2>4, <2>6
       DEF UpdInv, PhaseOpen, SchemaKnown, PromisesKept, Window, Back, Away, Placed,
          DataPlace
  <2>10. QED
    BY <2>7, <2>8, <2>9 DEF UpdInv
<1>4. QED
  BY <1>1, <1>2, <1>3

\* The failover: the candidate goes aside, the previous tree comes back over
\* its database.
LEMMA FailoverSteps == ASSUME UpdInv, UpdPutAside \/ UpdPutBack PROVE UpdInv'
<1> USE UpdHas DEF History, Enter
<1>1. ASSUME UpdPutAside PROVE UpdInv'
  <2>2. /\ upd.pc = "failing" /\ UNCHANGED <<History, service, broken>>
        /\ at' = RenameTree(at, "install", "stage")
        /\ upd' \in Updater /\ upd'.pc = "aside"
        /\ upd'.from = upd.from /\ upd'.safety = upd.safety
        /\ upd'.candidate = upd.candidate
        /\ upd'.target = upd.target
    BY <1>1 DEF UpdPutAside, Updater
  <2>3. /\ at' \in Disk /\ at'["install"] = Gone
        /\ at'["previous"] = at["previous"] /\ at'["outer"] = at["outer"]
    BY <2>2, RenameMoves DEF Places
  <2>4. /\ at'["install"].tree = Absent /\ at'["install"].data = NoData
        /\ NoData.db = NoDatabase /\ NoData.phase = "none"
    BY <2>3 DEF Gone, NoData
  <2>5. UpdTypeOK'
    BY <2>2, <2>3 DEF UpdInv, UpdTypeOK, Disk
  <2>6. TreesKept' /\ ServiceFits'
    BY <2>2, <2>3, <2>4
       DEF UpdInv, TreesKept, ServiceFits, Window, Back, Away, Placed, Quiet
  <2>7. PhaseOpen' /\ SchemaKnown' /\ PromisesKept'
    BY <2>2, <2>3, <2>4
       DEF UpdInv, PhaseOpen, SchemaKnown, PromisesKept, Window, Back, Away, Placed,
          DataPlace,
           LiveDb
  <2>8. QED
    BY <2>5, <2>6, <2>7 DEF UpdInv
<1>2. ASSUME UpdPutBack PROVE UpdInv'
  <2>1. /\ upd.pc = "aside" /\ UNCHANGED <<inTree, updRuns, updWrites, promised, service>>
        /\ service = 0 /\ at["previous"].tree = upd.from /\ upd.from \in Releases
    BY <1>2 DEF UpdPutBack, UpdInv, TreesKept, ServiceFits, Away, Quiet
  <2>2. ASSUME at' = RenameTree(at, "previous", "install"),
               upd' = [upd EXCEPT !.pc = "back"],
               UNCHANGED broken
        PROVE  UpdInv'
    <3>1. /\ upd' \in Updater /\ upd'.pc = "back"
          /\ upd'.from = upd.from /\ upd'.safety = upd.safety
          /\ upd'.candidate = upd.candidate
        /\ upd'.target = upd.target
      BY <2>2 DEF Updater
    <3>2. /\ at' \in Disk /\ at'["install"] = at["previous"] /\ at'["outer"] = at["outer"]
      BY <2>2, RenameMoves DEF Places
    <3>3. UpdTypeOK'
      BY <2>1, <2>2, <3>1, <3>2 DEF UpdInv, UpdTypeOK, Disk
    <3>4. TreesKept' /\ ServiceFits'
      BY <2>1, <2>2, <3>1, <3>2
         DEF UpdInv, TreesKept, ServiceFits, Window, Back, Away, Placed, Quiet
    <3>5. PhaseOpen' /\ SchemaKnown' /\ PromisesKept'
      BY <2>1, <2>2, <3>1, <3>2
         DEF UpdInv, PhaseOpen, SchemaKnown, PromisesKept, Window, Back, Away, Placed,
             DataPlace, LiveDb
    <3>6. QED
      BY <3>3, <3>4, <3>5 DEF UpdInv
  <2>3. ASSUME EndUpdate(at, "recovery_required"), broken' = TRUE PROVE UpdInv'
    <3>1. MayEnd(at, service', TRUE)
      BY <2>1 DEF UpdInv, TreesKept, PromisesKept, MayEnd
    <3>2. QED
      BY <2>1, <2>3, <3>1, EndKeeps DEF Phases
  <2>4. QED
    BY <1>2, <2>2, <2>3 DEF UpdPutBack
<1>3. QED
  BY <1>1, <1>2

LEMMA RestoreDbStep == UpdInv /\ UpdRestoreDb => UpdInv'
<1> SUFFICES ASSUME UpdInv, UpdRestoreDb
             PROVE  UpdInv'
  OBVIOUS
<1> USE UpdHas DEF History, Enter
<1>1. /\ upd.pc = "back" /\ UNCHANGED <<inTree, updRuns, updWrites, promised>>
      /\ UNCHANGED <<service, broken>>
      /\ at["install"].tree = upd.from /\ upd.from \in Releases /\ service = 0
      /\ upd.safety \in Database
  BY DEF UpdRestoreDb, UpdInv, TreesKept, ServiceFits, Back, Quiet, Updater
<1>2. ASSUME at' = IF RestoreNeeded THEN SetDb(at, upd.safety) ELSE at,
             upd' = [upd EXCEPT !.pc = "restored"]
      PROVE  UpdInv'
  <2>1. /\ upd' \in Updater /\ upd'.pc = "restored"
        /\ upd'.from = upd.from /\ upd'.safety = upd.safety
        /\ upd'.candidate = upd.candidate
        /\ upd'.target = upd.target
    BY <1>2 DEF Updater
  <2>2. /\ at' \in Disk /\ SameTrees(at, at') /\ SamePhases(at, at')
        /\ LiveDb(at)' \in {LiveDb(at), upd.safety}
        /\ LiveDb(at)'.schema = upd.safety.schema
    <3>1. CASE RestoreNeeded
      BY <1>1, <1>2, <3>1, SetDbSets DEF LiveDb, DataPlace
    <3>2. CASE ~RestoreNeeded
      BY <1>1, <1>2, <3>2 DEF LiveDb, DataPlace, RestoreNeeded, SameTrees, SamePhases
    <3>3. QED
      BY <3>1, <3>2
  <2>3. UpdTypeOK'
    BY <1>1, <2>1, <2>2 DEF UpdInv, UpdTypeOK, Disk
  <2>4. TreesKept' /\ ServiceFits'
    BY <1>1, <2>1, <2>2
       DEF UpdInv, TreesKept, ServiceFits, Window, Back, Away, Placed, Quiet, SameTrees,
          Places
  <2>5. PhaseOpen' /\ SchemaKnown'
    BY <1>1, <2>1, <2>2
       DEF UpdInv, PhaseOpen, SchemaKnown, Window, Back, Away, Placed, DataPlace,
          SamePhases,
           Places
  <2>6. PromisesKept'
    BY <1>1, <2>1, <2>2
       DEF UpdInv, PromisesKept, Window, Back, Away, Placed, SameTrees, Places
  <2>7. QED
    BY <2>3, <2>4, <2>5, <2>6 DEF UpdInv
<1>3. ASSUME EndUpdate(at, "recovery_required") PROVE UpdInv'
  <2>1. MayEnd(at, service', broken')
    BY <1>1 DEF UpdInv, TreesKept, PromisesKept, MayEnd, Away, Placed
  <2>2. QED
    BY <1>1, <1>3, <2>1, EndKeeps DEF Phases
<1>4. QED
  BY <1>2, <1>3 DEF UpdRestoreDb

\* The run ends after a last start.
LEMMA LastStarts == ASSUME UpdInv, UpdFailedOver \/ UpdCommit PROVE UpdInv'
<1> USE UpdHas DEF History
<1>1. /\ upd.pc \in {"restored", "verified"} /\ at["install"].tree \in Releases
      /\ UNCHANGED <<inTree, updRuns, updWrites, promised, broken>>
      /\ promised \subseteq LiveDb(at).writes \/ (inTree /\ broken)
  BY DEF UpdFailedOver, UpdCommit, UpdInv, TreesKept, PromisesKept, Back, Placed, Away
<1>2. PICK end \in Launch(at), on \in BOOLEAN, phase \in Phases :
         /\ service' = end[1]
         /\ EndUpdate(end[2], phase) \/ EndUpdate(Marker(end[2], on), phase)
  BY DEF UpdFailedOver, UpdCommit, Phases
<1>3. /\ end[1] \in Releases \cup {0} /\ end[2] \in Disk /\ SameTrees(at, end[2])
      /\ \A p \in Places : end[2][p].data.db.writes = at[p].data.db.writes
      /\ end[1] # 0 => end[1] = at["install"].tree
  BY LaunchMigrates
<1>4. /\ Marker(end[2], on) \in Disk /\ SameTrees(end[2], Marker(end[2], on))
      /\ SameDbs(end[2], Marker(end[2], on))
  BY <1>3, MarkerMarks
<1>5. MayEnd(end[2], service', broken')
  BY <1>1, <1>2, <1>3 DEF MayEnd, SameTrees, Places
<1>6. MayEnd(Marker(end[2], on), service', broken')
  BY <1>1, <1>2, <1>3, <1>4 DEF MayEnd, SameTrees, SameDbs, Places
<1>7. QED
  BY <1>1, <1>2, <1>3, <1>4, <1>5, <1>6, EndKeeps

\* The panel's service, and a killed command.
LEMMA PanelSteps ==
    ASSUME UpdInv, UpdKilled \/ PanelStarts \/ PanelStops \/ PanelWrites
    PROVE  UpdInv'
<1> USE UpdHas DEF History
<1>1. ASSUME UpdKilled PROVE UpdInv'
  <2>1. /\ upd' \in Updater /\ upd'.pc = "idle" /\ service' \in {service, 0}
        /\ broken' = TRUE
        /\ UNCHANGED <<inTree, updRuns, updWrites, promised, at>>
        /\ LiveDb(at)' = LiveDb(at)
    BY <1>1, EmptyTypes DEF UpdKilled, NoUpdater, Updater, LiveDb, DataPlace
  <2>2. UpdTypeOK'
    BY <2>1 DEF UpdInv, UpdTypeOK
  <2>3. TreesKept' /\ ServiceFits' /\ PhaseOpen' /\ SchemaKnown' /\ PromisesKept'
    BY <2>1
       DEF UpdInv, TreesKept, ServiceFits, PhaseOpen, SchemaKnown, PromisesKept, Window,
          Back,
           Away, Placed, Quiet
  <2>4. QED
    BY <2>2, <2>3 DEF UpdInv
<1>2. ASSUME PanelStarts PROVE UpdInv'
  <2>1. PICK end \in Launch(at) : service' = end[1] /\ at' = end[2]
    BY <1>2, Zenon DEF PanelStarts
  <2>2. /\ upd.pc = "idle"
        /\ UNCHANGED <<inTree, updRuns, updWrites, promised, upd, broken>>
    BY <1>2 DEF PanelStarts
  <2>3. /\ end[1] \in Releases \cup {0} /\ end[2] \in Disk /\ SameTrees(at, end[2])
        /\ \A p \in Places : end[2][p].data.db.writes = at[p].data.db.writes
        /\ end[1] # 0 => end[1] = at["install"].tree
        /\ at["install"].tree \notin Releases => end[2] = at
    BY LaunchMigrates
  <2>4. UpdTypeOK'
    BY <2>1, <2>2, <2>3 DEF UpdInv, UpdTypeOK, Disk
  <2>5. TreesKept' /\ ServiceFits' /\ PhaseOpen' /\ SchemaKnown'
    BY <2>1, <2>2, <2>3
       DEF UpdInv, TreesKept, ServiceFits, PhaseOpen, SchemaKnown, Window, Back,
           Away, Placed, Quiet, SameTrees, Places
  <2>6. LiveDb(at)'.writes = LiveDb(at).writes
    BY <2>1, <2>2, <2>3 DEF LiveDb, DataPlace, Places
  <2>7. PromisesKept'
    BY <2>1, <2>2, <2>3, <2>6
       DEF UpdInv, PromisesKept, Away, Placed, SameTrees, Places
  <2>8. QED
    BY <2>4, <2>5, <2>7 DEF UpdInv
<1>3. ASSUME PanelStops PROVE UpdInv'
  <2>1. UNCHANGED <<inTree, updRuns, updWrites, promised, at, upd, broken>> /\ service' = 0
        /\ LiveDb(at)' = LiveDb(at)
    BY <1>3 DEF PanelStops, LiveDb, DataPlace
  <2>2. UpdTypeOK'
    BY <2>1 DEF UpdInv, UpdTypeOK
  <2>3. TreesKept' /\ ServiceFits' /\ PhaseOpen' /\ SchemaKnown' /\ PromisesKept'
    BY <2>1
       DEF UpdInv, TreesKept, ServiceFits, PhaseOpen, SchemaKnown, PromisesKept, DataPlace
  <2>4. QED
    BY <2>2, <2>3 DEF UpdInv
<1>4. ASSUME PanelWrites PROVE UpdInv'
  <2> DEFINE w == updWrites + 1
             db == [LiveDb(at) EXCEPT !.writes = @ \cup {w}]
  <2>1. /\ service # 0 /\ updWrites < MaxUpdWrites /\ updWrites' = w
        /\ at' = SetDb(at, db)
        /\ promised' = IF InWindow THEN promised ELSE promised \cup {w}
        /\ UNCHANGED <<inTree, service, upd, updRuns, broken>>
    BY <1>4 DEF PanelWrites
  <2>2. w \in UpdWrites /\ w \in 0 .. MaxUpdWrites
    BY <2>1, UpdateAssumption DEF UpdInv, UpdTypeOK, UpdWrites
  <2> HIDE DEF w
  <2>3. db \in Database /\ db.schema = LiveDb(at).schema
        /\ db.writes = LiveDb(at).writes \cup {w}
    BY <2>2 DEF Database
  <2> HIDE DEF db
  <2>4. /\ at' \in Disk /\ SameTrees(at, at') /\ SamePhases(at, at')
        /\ LiveDb(at') = db
        /\ \A p \in Places : p # DataPlace => at'[p] = at[p]
    BY <2>1, <2>3, SetDbSets
  <2>5. LiveDb(at)' = db
    BY <2>1, <2>4 DEF LiveDb, DataPlace
  <2>6. upd.pc \notin Quiet /\ at["install"].tree \in Releases
    BY <2>1 DEF UpdInv, ServiceFits
  <2>7. UpdTypeOK'
    BY <2>1, <2>2, <2>4 DEF UpdInv, UpdTypeOK, Disk
  <2>8. TreesKept' /\ ServiceFits'
    <3>1. at'["stage"] = at["stage"]
      BY <2>4 DEF Places, DataPlace
    <3>2. QED
      BY <2>1, <2>4, <2>6, <3>1
         DEF UpdInv, TreesKept, ServiceFits, Quiet, Back, SameTrees, Places
  <2>9. at'["previous"] = at["previous"]
    BY <2>4 DEF Places, DataPlace
  <2>10. PhaseOpen' /\ SchemaKnown'
    BY <2>1, <2>3, <2>4, <2>5, <2>9
       DEF UpdInv, PhaseOpen, SchemaKnown, SamePhases, Places, DataPlace
  <2>11. PromisesKept'
    BY <2>1, <2>3, <2>4, <2>5, <2>9
       DEF UpdInv, PromisesKept, InWindow, SameTrees, Places, Away, Placed
  <2>12. QED
    BY <2>7, <2>8, <2>10, <2>11 DEF UpdInv
<1>5. QED
  BY <1>1, <1>2, <1>3, <1>4

LEMMA UpdStep == UpdInv /\ [UpdNext]_updVars => UpdInv'
<1> SUFFICES ASSUME UpdInv, [UpdNext]_updVars
             PROVE  UpdInv'
  OBVIOUS
<1>1. CASE UNCHANGED updVars
  BY <1>1
     DEF updVars, UpdInv, UpdTypeOK, TreesKept, ServiceFits, PhaseOpen, SchemaKnown,
         PromisesKept, LiveDb, DataPlace
<1>2. CASE UpdNext
  BY <1>2, BeginStep, BackupStep, EarlySteps, MoveOutStep, MoveInStep, CarrySteps,
     CarryFailsStep, VerifySteps, FailoverSteps, RestoreDbStep, LastStarts, PanelSteps
     DEF UpdNext
<1>3. QED
  BY <1>1, <1>2

LEMMA UpdMeans == UpdInv => UpdateKeepsAll
BY DEF UpdInv, TreesKept, PromisesKept, UpdateKeepsAll, Away, Placed

\* What a step that ends a run reports.
LEMMA EndSays ==
    ASSUME UpdInv, NEW x \in Disk, NEW phase \in Phases, EndUpdate(x, phase),
           x["install"].tree \in Releases
    PROVE  /\ \A reported \in Phases : Ends(reported) => reported = phase
           /\ at'["install"].tree = x["install"].tree
           /\ LiveDb(at') = LiveDb(x)
<1> USE UpdHas
<1>1. at' = Journal(x, phase)
  BY DEF EndUpdate
<1>2. /\ SameDbs(x, at') /\ at'[DataPlace].data.phase = phase
      /\ \A p \in Places : p # DataPlace => at'[p] = x[p]
      /\ at'[DataPlace].tree =
            IF inTree /\ x[DataPlace].tree = Absent THEN Shell ELSE x[DataPlace].tree
  BY <1>1, JournalWrites
<1>3. QED
  BY <1>2, DataPlaceIs DEF Ends, SameDbs, LiveDb, Places

\* How a run that reports "committed" or "failed_over" leaves the installation.
Report ==
    /\ Ends("committed") => /\ service' = upd.target
                            /\ at'.install.tree = upd.target
    /\ Ends("failed_over") /\ ~broken' =>
          /\ at'.install.tree = upd.from
          /\ upd.from \in Releases =>
                LiveDb(at').schema \in {upd.safety.schema, SchemaOf[upd.from]}

\* Nothing but the commands that end a run reports one.
LEMMA QuietSteps ==
    ASSUME UpdInv, UpdNext,
           ~UpdMoveOut, ~UpdMoveIn, ~UpdCarryFails, ~UpdPutBack, ~UpdRestoreDb,
           ~UpdFailedOver, ~UpdCommit
    PROVE  Report
<1> USE UpdHas DEF Report, Ends
<1>1. ASSUME UpdGivesUp \/ UpdKilled PROVE Report
  <2>1. at' = at /\ upd.pc # "idle"
    BY <1>1 DEF UpdGivesUp, UpdKilled
  <2>2. QED
    BY <2>1 DEF UpdInv, PhaseOpen
<1>2. ASSUME upd'.pc # "idle" \/ upd.pc = "idle" PROVE Report
  BY <1>2
<1>3. ASSUME UpdBegin PROVE upd.pc = "idle"
  BY <1>3 DEF UpdBegin
<1>4. ASSUME UpdBackup \/ UpdStage \/ UpdPause \/ UpdClearPrevious \/ UpdCarry \/ UpdCarried
      PROVE  upd'.pc # "idle"
  BY <1>4
     DEF UpdBackup, UpdStage, UpdPause, UpdClearPrevious, UpdCarry, UpdCarried, Enter,
        Updater
<1>5. ASSUME UpdRestart \/ UpdVerified \/ UpdFailsOver \/ UpdPutAside
      PROVE  upd'.pc # "idle"
  BY <1>5 DEF UpdRestart, UpdVerified, UpdFailsOver, UpdPutAside, Enter, Updater
<1>6. ASSUME PanelStarts \/ PanelStops \/ PanelWrites
      PROVE  upd' = upd
  BY <1>6 DEF PanelStarts, PanelStops, PanelWrites
<1>7. QED
  BY <1>1, <1>2, <1>3, <1>4, <1>5, <1>6 DEF UpdNext

LEMMA MoveReports ==
    ASSUME UpdInv, UpdMoveOut \/ UpdMoveIn \/ UpdCarryFails \/ UpdPutBack \/ UpdRestoreDb
    PROVE  Report
<1> USE UpdHas DEF History
<1>1. ASSUME UpdMoveOut PROVE Report
  <2> DEFINE x == Marker(at, FALSE)
  <2>1. upd.pc = "cleared" /\ at["install"].tree = upd.from /\ upd.from \in Releases
        /\ LiveDb(at).schema = upd.safety.schema
    BY <1>1 DEF UpdMoveOut, UpdInv, TreesKept, SchemaKnown, Window
  <2>2. x \in Disk /\ SameTrees(at, x) /\ SameDbs(at, x)
    BY MarkerMarks
  <2>3. ASSUME upd' = [upd EXCEPT !.pc = "moved"] PROVE Report
    BY <2>3 DEF Report, Ends, Updater
  <2>4. ASSUME EndUpdate(x, "failed_over") PROVE Report
    <3> HIDE DEF x
    <3>1. x["install"].tree = upd.from /\ LiveDb(x) = LiveDb(at)
      BY <2>1, <2>2, DataPlaceIs DEF SameTrees, SameDbs, Places, LiveDb
    <3>2. /\ \A reported \in Phases : Ends(reported) => reported = "failed_over"
          /\ at'["install"].tree = upd.from
          /\ LiveDb(at') = LiveDb(at)
      BY <2>1, <2>2, <2>4, <3>1, EndSays DEF Phases
    <3>3. QED
      BY <2>1, <3>2 DEF Report, Phases
  <2>5. QED
    BY <1>1, <2>3, <2>4 DEF UpdMoveOut, Enter
<1>2. ASSUME UpdMoveIn PROVE Report
  <2> DEFINE y == RenameTree(at, "previous", "install")
             x == Marker(y, FALSE)
  <2>1. /\ upd.pc = "moved" /\ at["previous"].tree = upd.from /\ upd.from \in Releases
        /\ inTree => at["previous"].data.db.schema = upd.safety.schema
        /\ ~inTree => LiveDb(at).schema = upd.safety.schema
    BY <1>2 DEF UpdMoveIn, UpdInv, TreesKept, SchemaKnown, Away
  <2>2. y \in Disk /\ y["install"] = at["previous"] /\ y["outer"] = at["outer"]
    BY RenameMoves DEF Places
  <2> HIDE DEF y
  <2>3. x \in Disk /\ SameTrees(y, x) /\ SameDbs(y, x)
    BY <2>2, MarkerMarks
  <2>4. ASSUME upd' = [upd EXCEPT !.pc = "placed"] PROVE Report
    BY <2>4 DEF Report, Ends, Updater
  <2>5. ASSUME EndUpdate(x, "failed_over") PROVE Report
    <3> HIDE DEF x
    <3>1. x["install"].tree = upd.from /\ LiveDb(x).schema = upd.safety.schema
      <4>1. x["install"].tree = at["previous"].tree
            /\ x["install"].data.db = at["previous"].data.db
            /\ x["outer"].data.db = at["outer"].data.db
        BY <2>2, <2>3 DEF SameTrees, SameDbs, Places
      <4>2. LiveDb(x) = IF inTree THEN x["install"].data.db ELSE x["outer"].data.db
        BY DEF LiveDb, DataPlace
      <4>3. QED
        BY <2>1, <4>1, <4>2
    <3>2. /\ \A reported \in Phases : Ends(reported) => reported = "failed_over"
          /\ at'["install"].tree = upd.from
          /\ LiveDb(at') = LiveDb(x)
      BY <2>1, <2>3, <2>5, <3>1, EndSays DEF Phases
    <3>3. QED
      BY <3>1, <3>2 DEF Report, Phases
  <2>6. ASSUME EndUpdate(Marker(at, FALSE), "failed_over"), broken' = TRUE PROVE Report
    <3>1. Marker(at, FALSE) \in Disk
      BY MarkerMarks
    <3>2. at'[DataPlace].data.phase = "failed_over"
      BY <2>6, <3>1, JournalWrites DEF EndUpdate, Phases
    <3>3. QED
      BY <2>6, <3>2 DEF Report, Ends
  <2>7. QED
    BY <1>2, <2>4, <2>5, <2>6 DEF UpdMoveIn, Enter, x, y
<1>3. ASSUME UpdCarryFails PROVE Report
  <2> DEFINE x == RenameTree(at, "install", "stage")
             y == RenameTree(x, "previous", "install")
             z == [y EXCEPT !["stage"] = Gone]
  <2>1. /\ inTree /\ upd.from \in Releases /\ at["previous"].tree = upd.from
        /\ at["previous"].data.db.schema = upd.safety.schema
    BY <1>3 DEF UpdCarryFails, UpdInv, TreesKept, SchemaKnown, Away, Placed
  <2>2. x \in Disk /\ x["previous"] = at["previous"]
    BY RenameMoves DEF Places
  <2>3. \/ \E end \in Launch(z) : EndUpdate(Marker(end[2], FALSE), "failed_over")
        \/ EndUpdate(x, "recovery_required")
    BY <1>3, Zenon DEF UpdCarryFails
  <2> HIDE DEF x
  <2>4. y \in Disk /\ y["install"] = at["previous"]
    BY <2>2, RenameMoves DEF Places
  <2> HIDE DEF y
  <2>5. z \in Disk /\ z["install"] = at["previous"]
    BY <2>4, EmptyTypes DEF Disk, Places
  <2> HIDE DEF z
  <2>6. ASSUME NEW end \in Launch(z), EndUpdate(Marker(end[2], FALSE), "failed_over")
        PROVE  Report
    <3>1. /\ end[2] \in Disk /\ SameTrees(z, end[2])
          /\ LiveDb(end[2]).schema \in {LiveDb(z).schema, SchemaOf[z["install"].tree]}
      BY <2>5, LaunchMigrates
    <3>2. /\ Marker(end[2], FALSE) \in Disk /\ SameTrees(end[2], Marker(end[2], FALSE))
          /\ SameDbs(end[2], Marker(end[2], FALSE))
      BY <3>1, MarkerMarks
    <3>3. /\ Marker(end[2], FALSE)["install"].tree = upd.from
          /\ LiveDb(Marker(end[2], FALSE)).schema \in {upd.safety.schema, SchemaOf[upd.from]}
      BY <2>1, <2>5, <3>1, <3>2 DEF SameTrees, SameDbs, Places, LiveDb, DataPlace
    <3>4. /\ \A reported \in Phases : Ends(reported) => reported = "failed_over"
          /\ at'["install"].tree = upd.from
          /\ LiveDb(at') = LiveDb(Marker(end[2], FALSE))
      BY <2>1, <2>6, <3>2, <3>3, EndSays DEF Phases
    <3>5. QED
      BY <3>3, <3>4 DEF Report, Phases
  <2>7. ASSUME EndUpdate(x, "recovery_required") PROVE Report
    BY <2>2, <2>7, JournalWrites DEF EndUpdate, Phases, Report, Ends
  <2>8. QED
    BY <2>3, <2>6, <2>7
<1>4. ASSUME UpdPutBack PROVE Report
  <2>1. ASSUME upd' = [upd EXCEPT !.pc = "back"] PROVE Report
    BY <2>1 DEF Report, Ends, Updater
  <2>2. ASSUME EndUpdate(at, "recovery_required") PROVE Report
    BY <2>2, JournalWrites DEF EndUpdate, Phases, Report, Ends
  <2>3. QED
    BY <1>4, <2>1, <2>2 DEF UpdPutBack, Enter
<1>5. ASSUME UpdRestoreDb PROVE Report
  <2>1. ASSUME upd' = [upd EXCEPT !.pc = "restored"] PROVE Report
    BY <2>1 DEF Report, Ends, Updater
  <2>2. ASSUME EndUpdate(at, "recovery_required") PROVE Report
    BY <2>2, JournalWrites DEF EndUpdate, Phases, Report, Ends
  <2>3. QED
    BY <1>5, <2>1, <2>2 DEF UpdRestoreDb, Enter
<1>6. QED
  BY <1>1, <1>2, <1>3, <1>4, <1>5

LEMMA LastReports == ASSUME UpdInv, UpdFailedOver \/ UpdCommit PROVE Report
<1> USE UpdHas DEF History
<1>1. ASSUME NEW end \in Launch(at), NEW on \in BOOLEAN, NEW phase \in Phases,
             EndUpdate(Marker(end[2], on), phase), at["install"].tree \in Releases
      PROVE  /\ \A reported \in Phases : Ends(reported) => reported = phase
             /\ at'["install"].tree = at["install"].tree
             /\ LiveDb(at').schema \in {LiveDb(at).schema, SchemaOf[at["install"].tree]}
             /\ end[1] # 0 => end[1] = at["install"].tree
  <2>1. /\ end[2] \in Disk /\ SameTrees(at, end[2])
        /\ LiveDb(end[2]).schema \in {LiveDb(at).schema, SchemaOf[at["install"].tree]}
        /\ end[1] # 0 => end[1] = at["install"].tree
    BY LaunchMigrates
  <2>2. /\ Marker(end[2], on) \in Disk /\ SameTrees(end[2], Marker(end[2], on))
        /\ SameDbs(end[2], Marker(end[2], on))
    BY <2>1, MarkerMarks
  <2>3. Marker(end[2], on)["install"].tree = at["install"].tree
        /\ LiveDb(Marker(end[2], on)) = LiveDb(end[2])
    BY <2>1, <2>2, DataPlaceIs DEF SameTrees, SameDbs, Places, LiveDb
  <2>4. QED
    BY <1>1, <2>1, <2>2, <2>3, EndSays
<1>2. ASSUME UpdCommit PROVE Report
  <2>1. at["install"].tree = upd.target /\ at["install"].tree \in Releases
    BY <1>2 DEF UpdCommit, UpdInv, TreesKept, Placed
  <2>2. PICK end \in Launch(at) :
           /\ service' = end[1]
           /\ \/ end[1] # 0 /\ EndUpdate(Marker(end[2], FALSE), "committed")
              \/ EndUpdate(Marker(end[2], TRUE), "recovery_required")
    BY <1>2, Zenon DEF UpdCommit
  <2>3. ASSUME end[1] # 0, EndUpdate(Marker(end[2], FALSE), "committed") PROVE Report
    BY <1>1, <2>1, <2>2, <2>3 DEF Report, Phases
  <2>4. ASSUME EndUpdate(Marker(end[2], TRUE), "recovery_required") PROVE Report
    BY <1>1, <2>1, <2>4 DEF Report, Phases
  <2>5. QED
    BY <2>2, <2>3, <2>4
<1>3. ASSUME UpdFailedOver PROVE Report
  <2>1. /\ at["install"].tree = upd.from /\ at["install"].tree \in Releases
        /\ LiveDb(at).schema = upd.safety.schema
    BY <1>3 DEF UpdFailedOver, UpdInv, TreesKept, SchemaKnown, Back
  <2>2. PICK end \in Launch(at) :
           \/ EndUpdate(Marker(end[2], FALSE), "failed_over")
           \/ EndUpdate(end[2], "recovery_required")
    BY <1>3, Zenon DEF UpdFailedOver
  <2>3. ASSUME EndUpdate(Marker(end[2], FALSE), "failed_over") PROVE Report
    BY <1>1, <2>1, <2>3 DEF Report, Phases
  <2>4. ASSUME EndUpdate(end[2], "recovery_required") PROVE Report
    <3>1. end[2] \in Disk
      BY LaunchMigrates
    <3>2. QED
      BY <2>4, <3>1, JournalWrites DEF EndUpdate, Phases, Report, Ends
  <2>5. QED
    BY <2>2, <2>3, <2>4
<1>4. QED
  BY <1>2, <1>3

\* Every run of the update keeps a release that serves and what was promised,
\* and ends as it reports (update.go:183-199, 314-373).
LEMMA UpdKeeps ==
    UpdInit /\ [][UpdNext]_updVars =>
        [](UpdTypeOK /\ UpdateKeepsAll) /\ UpdateEndsAsReported
<1>1. UpdInv => UpdTypeOK /\ UpdateKeepsAll
  BY UpdMeans DEF UpdInv
<1>2. UpdInv /\ [UpdNext]_updVars => [Report]_updVars
  BY QuietSteps, MoveReports, LastReports
<1>3. [Report]_updVars <=>
        [/\ Ends("committed") => /\ service' = upd.target
                                 /\ at'.install.tree = upd.target
         /\ Ends("failed_over") /\ ~broken' =>
               /\ at'.install.tree = upd.from
               /\ upd.from \in Releases =>
                     LiveDb(at').schema \in
                         {upd.safety.schema, SchemaOf[upd.from]}]_updVars
  BY DEF Report
<1>4. QED
  BY UpdStart, UpdStep, <1>1, <1>2, <1>3, PTL DEF UpdateEndsAsReported

-----------------------------------------------------------------------------
(* The schema migration.                                                   *)

Statements ==
    {"table", "tables", "extra", "columns", "index", "settings", "owner", "first_user",
     "credential", "stamp_head", "stamp_one", "step"}

\* The statement with j others after it, when a database is built ...
FreshItem(j, s) ==
    /\ j = 0 => s = "stamp_head"
    /\ j = 1 => s = "credential"
    /\ j = 2 => s = "first_user"
    /\ j = 3 => s = "owner"
    /\ j = 4 => s = "settings"
    /\ j = 5 => s = "index"
    /\ j = 6 => s = "columns"
    /\ j = 7 => s = "extra"
    /\ j = 8 => s = "tables"
    /\ j = 9 => s = "table"

\* ... and when one is upgraded by k steps, which an adoption may precede.
UpgradeItem(k, j, s) ==
    /\ j = 0 => s = "settings"
    /\ j = 1 => s = "extra"
    /\ j = 2 => s = "index"
    /\ j \in 3 .. 2 + k => s = "step"
    /\ j = 3 + k => s = "columns"
    /\ j = 4 + k => s = "tables"
    /\ j = 5 + k => s = "stamp_one"
    /\ j = 6 + k => s = "settings"
    /\ j = 7 + k => s = "columns"
    /\ j = 8 + k => s = "extra"
    /\ j = 9 + k => s = "tables"

OwnerName(env) == IF env.owner = "" THEN "admin" ELSE env.owner

\* The password an environment brings is in every row.
Imports(env) == env.owner # "" /\ env.hash
Passworded(a) == \A i \in DOMAIN a : a[i].password
OnlyOwner(a, name) == \A i \in DOMAIN a : a[i].name = name /\ a[i].owner
Distinct(a) == \A i, j \in DOMAIN a : a[i].name = a[j].name => i = j
HasPassword(d, o) == Imports(o.env) => Passworded(d.admins)

\* A build with n statements left has done the others.
Building(t, d, o) ==
    LET n == Len(t) IN
    /\ n <= 10 /\ \A i \in 1 .. n : FreshItem(n - i, t[i])
    /\ o.built
    /\ d.version = IF n = 0 THEN Head32 ELSE 0
    /\ n <= 8 => d.tables = 2
    /\ n <= 7 => d.extra
    /\ n <= 6 => d.columns
    /\ n <= 5 => d.ownerIndex
    /\ n <= 4 => d.settings
    /\ ~o.edited => /\ n <= 3 => d.admins # <<>>
                    /\ n <= 1 => HasPassword(d, o)

\* So has an upgrade, whose stamp says how many steps.
Upgrading(t, d, k) ==
    LET n == Len(t) IN
    /\ n <= IF k = 31 THEN 41 ELSE 5 + k
    /\ \A i \in 1 .. n : UpgradeItem(k, n - i, t[i])
    /\ d.tables > 0
    /\ d.version = IF n >= 6 + k THEN 0 ELSE IF n >= 3 + k THEN Head32 - k
                   ELSE IF n >= 3 THEN Head32 + 3 - n ELSE Head32
    /\ n <= 4 + k => d.tables = 2
    /\ n <= 3 + k => d.columns
    /\ n <= 2 => d.ownerIndex
    /\ n <= 1 => d.extra
    /\ n = 0 => d.settings

\* How far the running start has come; one that ended well did everything.
UnderWay ==
    /\ migration \in [at : {"down", "running", "refused", "up"}, todo : Seq(Statements),
                      env : Environments]
    /\ migration.at = "running" =>
          \/ Building(migration.todo, database, origin)
          \/ \E k \in 0 .. 31 : Upgrading(migration.todo, database, k)
    /\ migration.at = "refused" => database.version = Head32 + 1
    /\ migration.at = "up" =>
          /\ database.version = Head32 /\ database.tables = 2
          /\ database.extra /\ database.columns /\ database.ownerIndex
          /\ database.settings
    /\ database.tables = 0 => origin.built /\ database.version = 0

\* A name occurs once among the admins, and the index leaves one owner.
AdminsDiffer(d) ==
    /\ Distinct(d.admins)
    /\ d.ownerIndex => Cardinality(Owners(d)) <= 1

\* What the steps up to the stamp did for the secrets and the sessions.
Cleaned(d, o) ==
    /\ d.version >= 27 => d.secret # "plain"
    /\ d.version >= 28 => ~d.oldSessions
    /\ o.built => d.secret = "none" /\ ~d.oldSessions /\ d.automatic

\* Before the table is rebuilt every given id is still in it or in a snapshot,
\* and afterwards the sequence is above all of them.
IdsKept(d, ids) ==
    /\ d.users \subseteq ids
    /\ d.version >= 29 => d.automatic
    /\ d.version < 29 => ids = d.users \cup d.snapshots
    /\ d.automatic => \A i \in ids : i <= d.sequence
    /\ d.automatic /\ d.version < 12 /\ d.users = {} => d.sequence < MaxUserId

\* A database built in an environment nobody edited has the one admin it names.
OwnerKept(d, o) ==
    o.built /\ ~o.edited =>
       /\ OnlyOwner(d.admins, OwnerName(o.env))
       /\ d.version >= 12 => d.admins # <<>>
       /\ d.version >= 16 => HasPassword(d, o)

MigInv ==
    /\ MigTypeOK /\ UnderWay
    /\ AdminsDiffer(database) /\ Cleaned(database, origin) /\ IdsKept(database, given)
    /\ OwnerKept(database, origin)
    /\ ~origin.edited => dotenv = origin.env /\ migration.env = origin.env

-----------------------------------------------------------------------------
\* Of bounded ids one is the largest: the least of their bounds is among them.
LEMMA LargestIs ==
    ASSUME NEW S \in SUBSET UserIds
    PROVE  /\ Largest(S) \in 0 .. MaxUserId
           /\ \A i \in S : i <= Largest(S)
<1> DEFINE Bounds == {n \in Nat : \A i \in S : i <= n}
<1>1. MaxUserId \in Bounds
  BY MigrationAssumption DEF UserIds
<1>2. IsWellFoundedOn(OpToRel(<, Nat), Nat)
  BY NatLessThanWellFounded
<1>3. \E m \in Bounds : \A n \in Bounds : ~(<<n, m>> \in OpToRel(<, Nat))
  <2>1. Bounds \subseteq Nat /\ Bounds # {}
    BY <1>1
  <2> HIDE DEF Bounds
  <2>2. QED
    BY <1>2, <2>1, WFMin
<1>4. PICK m \in Bounds : \A n \in Bounds : ~(n < m)
  BY <1>3 DEF OpToRel
<1>5. m \in S \cup {0}
  <2>1. SUFFICES ASSUME m \notin S, m # 0 PROVE FALSE
    OBVIOUS
  <2>2. m - 1 \in Bounds
    <3>1. m - 1 \in Nat
      BY <2>1, <1>4
    <3>2. ASSUME NEW i \in S PROVE i <= m - 1
      <4>1. i \in Nat /\ i <= m /\ i # m
        BY <2>1, <1>4 DEF UserIds
      <4>2. QED
        BY <4>1, <1>4
    <3>3. QED
      BY <3>1, <3>2
  <2>3. QED
    BY <2>2, <1>4
<1>6. /\ Largest(S) \in S \cup {0}
      /\ \A i \in S : i <= Largest(S)
  BY <1>4, <1>5 DEF Largest
<1>7. MaxUserId \in Nat /\ S \subseteq 1 .. MaxUserId
  BY MigrationAssumption DEF UserIds
<1> HIDE DEF Bounds
<1>8. Largest(S) \in 0 .. MaxUserId
  <2>1. CASE Largest(S) = 0
    BY <2>1, <1>7
  <2>2. CASE Largest(S) \in S
    <3>1. Largest(S) \in 1 .. MaxUserId
      BY <2>2, <1>7
    <3>2. QED
      BY <3>1, <1>7
  <2>3. QED
    BY <1>6, <2>1, <2>2
<1>9. QED
  BY <1>6, <1>8

\* The paths as statements with their distance from the end.
LEMMA FreshPath ==
    /\ FreshBuild \in Seq(Statements) /\ Len(FreshBuild) = 10
    /\ \A i \in 1 .. 10 : FreshItem(10 - i, FreshBuild[i])
<1>1. FreshBuild \in Seq(Statements)
  BY DEF FreshBuild, Statements
<1>2. /\ Len(FreshBuild) = 10
      /\ FreshBuild[1] = "table" /\ FreshBuild[2] = "tables"
      /\ FreshBuild[3] = "extra" /\ FreshBuild[4] = "columns"
      /\ FreshBuild[5] = "index" /\ FreshBuild[6] = "settings"
      /\ FreshBuild[7] = "owner" /\ FreshBuild[8] = "first_user"
      /\ FreshBuild[9] = "credential" /\ FreshBuild[10] = "stamp_head"
  BY DEF FreshBuild
<1> HIDE DEF FreshBuild
<1>3. QED
  BY <1>1, <1>2 DEF FreshItem

LEMMA StepsAre ==
    ASSUME NEW from \in 1 .. 32
    PROVE  /\ Steps(from) \in Seq(Statements) /\ Len(Steps(from)) = 32 - from
           /\ \A i \in 1 .. 32 - from : Steps(from)[i] = "step"
<1>1. 32 - from \in Nat /\ "step" \in Statements
  BY DEF Statements
<1>2. Steps(from) = [i \in 1 .. 32 - from |-> "step"]
  BY DEF Steps, Head32
<1>3. Steps(from) \in Seq(Statements) /\ Len(Steps(from)) = 32 - from
  BY <1>1, <1>2, IsASeq
<1>4. QED
  BY <1>2, <1>3

LEMMA Joined ==
    ASSUME NEW S, NEW s \in Seq(S), NEW t \in Seq(S)
    PROVE  /\ s \o t \in Seq(S) /\ Len(s \o t) = Len(s) + Len(t)
           /\ \A i \in 1 .. Len(s) : (s \o t)[i] = s[i]
           /\ \A i \in Len(s) + 1 .. Len(s) + Len(t) : (s \o t)[i] = t[i - Len(s)]
<1>1. /\ s \o t \in Seq(S) /\ Len(s \o t) = Len(s) + Len(t)
      /\ \A i \in 1 .. Len(s) + Len(t) :
            (s \o t)[i] = IF i <= Len(s) THEN s[i] ELSE t[i - Len(s)]
      /\ Len(s) \in Nat /\ Len(t) \in Nat
  BY ConcatProperties
<1>2. ASSUME NEW i \in 1 .. Len(s) PROVE (s \o t)[i] = s[i]
  BY <1>1
<1>3. ASSUME NEW i \in Len(s) + 1 .. Len(s) + Len(t) PROVE (s \o t)[i] = t[i - Len(s)]
  <2>1. i \in 1 .. Len(s) + Len(t) /\ ~(i <= Len(s))
    BY <1>1
  <2>2. QED
    BY <1>1, <2>1
<1>4. QED
  BY <1>1, <1>2, <1>3

LEMMA UpgradePathIs ==
    ASSUME NEW from \in 1 .. 32
    PROVE  /\ UpgradePath(from) \in Seq(Statements)
           /\ Len(UpgradePath(from)) = 37 - from
           /\ \A i \in 1 .. 37 - from :
                 UpgradeItem(32 - from, 37 - from - i, UpgradePath(from)[i])
<1> DEFINE first == <<"tables", "columns">>
           middle == Steps(from)
           last == <<"index", "extra", "settings">>
           front == first \o middle
           path == UpgradePath(from)
<1>1. /\ first \in Seq(Statements) /\ Len(first) = 2
      /\ first[1] = "tables" /\ first[2] = "columns"
  BY DEF Statements
<1>2. /\ last \in Seq(Statements) /\ Len(last) = 3
      /\ last[1] = "index" /\ last[2] = "extra" /\ last[3] = "settings"
  BY DEF Statements
<1>3. /\ middle \in Seq(Statements) /\ Len(middle) = 32 - from
      /\ \A i \in 1 .. 32 - from : middle[i] = "step"
  BY StepsAre
<1>4. path = front \o last /\ 32 - from \in Nat /\ 34 - from \in Nat
  BY DEF UpgradePath
<1>5. front = first \o middle
  OBVIOUS
<1> HIDE DEF first, middle, last, front, path
<1>6. /\ front \in Seq(Statements) /\ Len(front) = 34 - from
      /\ front[1] = "tables" /\ front[2] = "columns"
      /\ \A i \in 3 .. 34 - from : front[i] = "step"
  <2>1. /\ front \in Seq(Statements) /\ Len(front) = 2 + (32 - from)
        /\ \A i \in 1 .. 2 : front[i] = first[i]
        /\ \A i \in 2 + 1 .. 2 + (32 - from) : front[i] = middle[i - 2]
    <3>1. /\ front \in Seq(Statements) /\ Len(front) = Len(first) + Len(middle)
          /\ \A i \in 1 .. Len(first) : front[i] = first[i]
          /\ \A i \in Len(first) + 1 .. Len(first) + Len(middle) :
                front[i] = middle[i - Len(first)]
      BY <1>1, <1>3, <1>5, Joined
    <3>2. QED
      BY <3>1, <1>1, <1>3
  <2>2. ASSUME NEW i \in 3 .. 34 - from PROVE front[i] = "step"
    <3>1. i \in 2 + 1 .. 2 + (32 - from) /\ i - 2 \in 1 .. 32 - from
      OBVIOUS
    <3>2. QED
      BY <2>1, <3>1, <1>3
  <2>3. 2 + (32 - from) = 34 - from
    OBVIOUS
  <2>4. QED
    BY <2>1, <2>2, <2>3, <1>1
<1>7. /\ path \in Seq(Statements) /\ Len(path) = (34 - from) + 3
      /\ \A i \in 1 .. 34 - from : path[i] = front[i]
      /\ \A i \in (34 - from) + 1 .. (34 - from) + 3 : path[i] = last[i - (34 - from)]
  <2>1. /\ path \in Seq(Statements) /\ Len(path) = Len(front) + Len(last)
        /\ \A i \in 1 .. Len(front) : path[i] = front[i]
        /\ \A i \in Len(front) + 1 .. Len(front) + Len(last) :
              path[i] = last[i - Len(front)]
    BY <1>2, <1>4, <1>6, Joined
  <2>2. QED
    BY <2>1, <1>2, <1>6
<1>8. ASSUME NEW i \in 1 .. 37 - from
      PROVE  UpgradeItem(32 - from, 37 - from - i, path[i])
  <2>1. CASE i = 1
    <3>1. path[i] = "tables"
      BY <2>1, <1>4, <1>6, <1>7
    <3>2. QED
      BY <2>1, <3>1 DEF UpgradeItem
  <2>2. CASE i = 2
    <3>1. path[i] = "columns"
      BY <2>2, <1>4, <1>6, <1>7
    <3>2. QED
      BY <2>2, <3>1 DEF UpgradeItem
  <2>3. CASE i \in 3 .. 34 - from
    <3>1. path[i] = "step"
      BY <2>3, <1>6, <1>7
    <3>2. 37 - from - i \in 3 .. 2 + (32 - from)
      BY <2>3
    <3>3. QED
      BY <3>1, <3>2 DEF UpgradeItem
  <2>4. CASE i = 35 - from
    <3>1. path[i] = "index"
      BY <2>4, <1>2, <1>7
    <3>2. QED
      BY <2>4, <3>1 DEF UpgradeItem
  <2>5. CASE i = 36 - from
    <3>1. path[i] = "extra"
      BY <2>5, <1>2, <1>7
    <3>2. QED
      BY <2>5, <3>1 DEF UpgradeItem
  <2>6. CASE i = 37 - from
    <3>1. path[i] = "settings"
      BY <2>6, <1>2, <1>7
    <3>2. QED
      BY <2>6, <3>1 DEF UpgradeItem
  <2>7. QED
    BY <2>1, <2>2, <2>3, <2>4, <2>5, <2>6
<1>9. (34 - from) + 3 = 37 - from
  OBVIOUS
<1>10. QED
  BY <1>7, <1>8, <1>9 DEF path

LEMMA AdoptionPath ==
    /\ Adoption \o UpgradePath(1) \in Seq(Statements)
    /\ Len(Adoption \o UpgradePath(1)) = 41
    /\ \A i \in 1 .. 41 : UpgradeItem(31, 41 - i, (Adoption \o UpgradePath(1))[i])
<1> DEFINE first == Adoption
           path == Adoption \o UpgradePath(1)
           rest == UpgradePath(1)
<1>1. /\ first \in Seq(Statements) /\ Len(first) = 5
      /\ first[1] = "tables" /\ first[2] = "extra" /\ first[3] = "columns"
      /\ first[4] = "settings" /\ first[5] = "stamp_one"
  BY DEF Adoption, Statements
<1>2. /\ rest \in Seq(Statements) /\ Len(rest) = 36
      /\ \A i \in 1 .. 36 : UpgradeItem(31, 36 - i, rest[i])
  <2>1. /\ rest \in Seq(Statements) /\ Len(rest) = 37 - 1
        /\ \A i \in 1 .. 37 - 1 : UpgradeItem(32 - 1, 37 - 1 - i, rest[i])
    <3>1. 1 \in 1 .. 32
      OBVIOUS
    <3>2. QED
      BY <3>1, UpgradePathIs
  <2> HIDE DEF rest
  <2>2. 37 - 1 = 36 /\ 32 - 1 = 31
    OBVIOUS
  <2>3. QED
    BY <2>1, <2>2
<1>3. path = first \o rest
  OBVIOUS
<1> HIDE DEF first, path, rest
<1>4. /\ path \in Seq(Statements) /\ Len(path) = 5 + 36
      /\ \A i \in 1 .. 5 : path[i] = first[i]
      /\ \A i \in 5 + 1 .. 5 + 36 : path[i] = rest[i - 5]
  <2>1. /\ path \in Seq(Statements) /\ Len(path) = Len(first) + Len(rest)
        /\ \A i \in 1 .. Len(first) : path[i] = first[i]
        /\ \A i \in Len(first) + 1 .. Len(first) + Len(rest) :
              path[i] = rest[i - Len(first)]
    <3>1. first \in Seq(Statements) /\ rest \in Seq(Statements)
      BY <1>1, <1>2
    <3>2. QED
      BY <3>1, <1>3, Joined
  <2>2. QED
    BY <2>1, <1>1, <1>2
<1>5. ASSUME NEW i \in 1 .. 41 PROVE UpgradeItem(31, 41 - i, path[i])
  <2>1. CASE i \in 1 .. 5
    <3>1. path[i] = first[i]
      BY <2>1, <1>4
    <3>2. \/ (i = 1 /\ path[i] = "tables")
          \/ (i = 2 /\ path[i] = "extra")
          \/ (i = 3 /\ path[i] = "columns")
          \/ (i = 4 /\ path[i] = "settings")
          \/ (i = 5 /\ path[i] = "stamp_one")
      BY <2>1, <3>1, <1>1
    <3>3. QED
      BY <3>2 DEF UpgradeItem
  <2>2. CASE i \in 6 .. 41
    <3>1. i - 5 \in 1 .. 36 /\ 36 - (i - 5) = 41 - i /\ i \in 5 + 1 .. 5 + 36
      BY <2>2
    <3>2. UpgradeItem(31, 36 - (i - 5), rest[i - 5]) /\ path[i] = rest[i - 5]
      BY <3>1, <1>2, <1>4
    <3>3. QED
      BY <3>1, <3>2
  <2>3. QED
    BY <2>1, <2>2
<1>6. QED
  <2>1. path \in Seq(Statements) /\ Len(path) = 41
    BY <1>4
  <2>2. QED
    BY <2>1, <1>5 DEF path, rest

\* What a statement does for the progress of its path.
Advances(s, d, e, o) ==
    /\ e.version = IF s = "stamp_head" THEN Head32
                   ELSE IF s = "stamp_one" THEN 1
                   ELSE IF s = "step" THEN d.version + 1 ELSE d.version
    /\ e.tables = IF s = "table" THEN 1 ELSE IF s = "tables" THEN 2 ELSE d.tables
    /\ s = "extra" \/ d.extra => e.extra
    /\ s = "columns" \/ d.columns => e.columns
    /\ s = "index" \/ d.ownerIndex => e.ownerIndex
    /\ s = "settings" \/ d.settings => e.settings
    /\ s = "owner" \/ d.admins # <<>> => e.admins # <<>>
    /\ s = "credential" /\ o.built /\ ~o.edited => HasPassword(e, o)
    /\ s = "stamp_head" /\ HasPassword(d, o) => HasPassword(e, o)

\* A path loses its head.
LEMMA Shorter ==
    ASSUME NEW t \in Seq(Statements), t # <<>>
    PROVE  /\ Len(t) \in Nat \ {0} /\ Head(t) = t[1] /\ Head(t) \in Statements
           /\ Tail(t) \in Seq(Statements) /\ Len(Tail(t)) = Len(t) - 1
           /\ \A i \in 1 .. Len(t) - 1 : Tail(t)[i] = t[i + 1]
<1>1. /\ Head(t) \in Statements /\ Tail(t) \in Seq(Statements)
      /\ Len(Tail(t)) = Len(t) - 1
      /\ \A i \in 1 .. Len(Tail(t)) : Tail(t)[i] = t[i + 1]
  BY HeadTailProperties
<1>2. Len(t) \in Nat \ {0} /\ Head(t) = t[1]
  BY EmptySeq
<1>3. QED
  BY <1>1, <1>2

LEMMA BuildingHead ==
    ASSUME NEW t \in Seq(Statements), t # <<>>, NEW d, NEW o, Building(t, d, o)
    PROVE  /\ Len(t) \in 1 .. 10
           /\ FreshItem(Len(t) - 1, Head(t))
           /\ \A i \in 1 .. Len(t) - 1 : FreshItem(Len(t) - 1 - i, Tail(t)[i])
<1> DEFINE n == Len(t)
<1>1. /\ n \in Nat \ {0} /\ n <= 10 /\ Head(t) = t[1]
      /\ \A i \in 1 .. n : FreshItem(n - i, t[i])
      /\ \A i \in 1 .. n - 1 : Tail(t)[i] = t[i + 1]
  BY Shorter DEF Building
<1> HIDE DEF n
<1>2. FreshItem(n - 1, Head(t))
  BY <1>1
<1>3. ASSUME NEW i \in 1 .. n - 1 PROVE FreshItem(n - 1 - i, Tail(t)[i])
  <2>1. i + 1 \in 1 .. n /\ n - (i + 1) = n - 1 - i
    BY <1>1
  <2>2. QED
    BY <1>1, <2>1
<1>4. n \in 1 .. 10
  BY <1>1
<1>5. QED
  BY <1>2, <1>3, <1>4 DEF n

LEMMA UpgradingHead ==
    ASSUME NEW t \in Seq(Statements), t # <<>>, NEW d, NEW k \in 0 .. 31, Upgrading(t, d, k)
    PROVE  /\ Len(t) \in 1 .. 41 /\ Len(t) <= 10 + k
           /\ Len(t) <= 5 + k \/ k = 31
           /\ UpgradeItem(k, Len(t) - 1, Head(t))
           /\ \A i \in 1 .. Len(t) - 1 : UpgradeItem(k, Len(t) - 1 - i, Tail(t)[i])
<1> DEFINE n == Len(t)
<1>1. /\ n \in Nat \ {0} /\ Head(t) = t[1]
      /\ n <= IF k = 31 THEN 41 ELSE 5 + k
      /\ \A i \in 1 .. n : UpgradeItem(k, n - i, t[i])
      /\ \A i \in 1 .. n - 1 : Tail(t)[i] = t[i + 1]
  BY Shorter DEF Upgrading
<1> HIDE DEF n
<1>2. UpgradeItem(k, n - 1, Head(t))
  BY <1>1
<1>3. ASSUME NEW i \in 1 .. n - 1 PROVE UpgradeItem(k, n - 1 - i, Tail(t)[i])
  <2>1. i + 1 \in 1 .. n /\ n - (i + 1) = n - 1 - i
    BY <1>1
  <2>2. QED
    BY <1>1, <2>1
<1>4. n \in 1 .. 41 /\ n <= 10 + k /\ (n <= 5 + k \/ k = 31)
  BY <1>1
<1>5. QED
  BY <1>2, <1>3, <1>4 DEF n

\* Each statement brings its path to the next one.
LEMMA BuildingGrows ==
    ASSUME NEW t \in Seq(Statements), t # <<>>, NEW d, NEW o, NEW e,
           Building(t, d, o), Advances(Head(t), d, e, o)
    PROVE  Building(Tail(t), e, o)
<1> DEFINE n == Len(t)
           s == Head(t)
<1>1. n \in 1 .. 10 /\ Len(Tail(t)) = n - 1 /\ FreshItem(n - 1, s)
  BY BuildingHead, Shorter
<1>2. \A i \in 1 .. n - 1 : FreshItem(n - 1 - i, Tail(t)[i])
  BY BuildingHead
<1>3. /\ o.built
      /\ d.version = IF n = 0 THEN Head32 ELSE 0
      /\ n <= 8 => d.tables = 2
      /\ n <= 7 => d.extra
      /\ n <= 6 => d.columns
      /\ n <= 5 => d.ownerIndex
      /\ n <= 4 => d.settings
      /\ ~o.edited => /\ n <= 3 => d.admins # <<>>
                      /\ n <= 1 => HasPassword(d, o)
  BY DEF Building
<1> HIDE DEF n, s
<1>4. Advances(s, d, e, o)
  BY DEF s
<1>5. /\ n = 1 => s = "stamp_head"
      /\ n = 2 => s = "credential"
      /\ n = 4 => s = "owner"
      /\ n = 5 => s = "settings"
      /\ n = 6 => s = "index"
      /\ n = 7 => s = "columns"
      /\ n = 8 => s = "extra"
      /\ n = 9 => s = "tables"
  BY <1>1 DEF FreshItem
<1>6. s \notin {"stamp_one", "step"} /\ (s = "stamp_head" => n = 1)
      /\ (n <= 8 => s \notin {"table", "tables"})
  BY <1>1 DEF FreshItem
<1>7. e.version = IF n - 1 = 0 THEN Head32 ELSE 0
  <2>1. e.version = IF s = "stamp_head" THEN Head32 ELSE d.version
    BY <1>4, <1>6 DEF Advances
  <2>2. d.version = 0
    BY <1>1, <1>3
  <2>3. QED
    BY <1>1, <1>5, <1>6, <2>1, <2>2
<1>8. n - 1 <= 8 => e.tables = 2
  <2>1. e.tables = IF s = "table" THEN 1 ELSE IF s = "tables" THEN 2 ELSE d.tables
    BY <1>4 DEF Advances
  <2>2. QED
    BY <1>1, <1>3, <1>5, <1>6, <2>1
<1>9. /\ n - 1 <= 7 => n = 8 \/ n <= 7
      /\ n - 1 <= 6 => n = 7 \/ n <= 6
      /\ n - 1 <= 5 => n = 6 \/ n <= 5
      /\ n - 1 <= 4 => n = 5 \/ n <= 4
      /\ n - 1 <= 3 => n = 4 \/ n <= 3
      /\ n - 1 <= 1 => n = 2 \/ (n = 1 /\ n <= 1)
      /\ n - 1 <= 10
  BY <1>1
<1>10. /\ n - 1 <= 7 => e.extra
       /\ n - 1 <= 6 => e.columns
       /\ n - 1 <= 5 => e.ownerIndex
       /\ n - 1 <= 4 => e.settings
       /\ ~o.edited => /\ n - 1 <= 3 => e.admins # <<>>
                       /\ n - 1 <= 1 => HasPassword(e, o)
  BY <1>3, <1>4, <1>5, <1>9, Zenon DEF Advances
<1>11. QED
  BY <1>1, <1>2, <1>3, <1>7, <1>8, <1>9, <1>10, Zenon DEF Building

LEMMA UpgradingGrows ==
    ASSUME NEW t \in Seq(Statements), t # <<>>, NEW d, NEW o, NEW e, NEW k \in 0 .. 31,
           d.tables \in Nat, Upgrading(t, d, k), Advances(Head(t), d, e, o)
    PROVE  Upgrading(Tail(t), e, k)
<1> DEFINE n == Len(t)
           s == Head(t)
<1>1. /\ n \in 1 .. 41 /\ n <= 10 + k /\ (n <= 5 + k \/ k = 31)
      /\ Len(Tail(t)) = n - 1 /\ UpgradeItem(k, n - 1, s)
  BY UpgradingHead, Shorter
<1>2. \A i \in 1 .. n - 1 : UpgradeItem(k, n - 1 - i, Tail(t)[i])
  BY UpgradingHead
<1>3. /\ d.tables > 0
      /\ d.version = IF n >= 6 + k THEN 0 ELSE IF n >= 3 + k THEN Head32 - k
                     ELSE IF n >= 3 THEN Head32 + 3 - n ELSE Head32
      /\ n <= 4 + k => d.tables = 2
      /\ n <= 3 + k => d.columns
      /\ n <= 2 => d.ownerIndex
      /\ n <= 1 => d.extra
      /\ n = 0 => d.settings
  BY DEF Upgrading
<1> HIDE DEF n, s
<1>4. Advances(s, d, e, o)
  BY DEF s
<1>5. /\ n = 1 => s = "settings"
      /\ n = 2 => s = "extra"
      /\ n = 3 => s = "index"
      /\ n = 4 + k => s = "columns"
      /\ n = 5 + k => s = "tables"
      /\ n = 6 + k => s = "stamp_one"
      /\ n \in 4 .. 3 + k => s = "step"
  BY <1>1 DEF UpgradeItem
<1>6. /\ s \notin {"stamp_head", "table"}
      /\ s = "stamp_one" => n = 6 + k
      /\ s = "step" => n \in 4 .. 3 + k
  <2>1. \/ n \in 1 .. 3
        \/ n \in 4 .. 3 + k
        \/ n \in {4 + k, 5 + k, 6 + k, 7 + k, 8 + k, 9 + k, 10 + k}
    BY <1>1
  <2>2. CASE n \in 1 .. 3
    BY <2>2, <1>5
  <2>3. CASE n \in 4 .. 3 + k
    BY <2>3, <1>5
  <2>4. CASE n \in {4 + k, 5 + k, 6 + k, 7 + k, 8 + k, 9 + k, 10 + k}
    <3>1. s \in {"columns", "tables", "stamp_one", "settings", "extra"}
          /\ (s = "stamp_one" => n = 6 + k)
      BY <2>4, <1>1 DEF UpgradeItem
    <3>2. QED
      BY <3>1
  <2>5. QED
    BY <2>1, <2>2, <2>3, <2>4
<1>7. e.version = IF n - 1 >= 6 + k THEN 0 ELSE IF n - 1 >= 3 + k THEN Head32 - k
                  ELSE IF n - 1 >= 3 THEN Head32 + 3 - (n - 1) ELSE Head32
  <2>1. e.version = IF s = "stamp_one" THEN 1
                    ELSE IF s = "step" THEN d.version + 1 ELSE d.version
    BY <1>4, <1>6 DEF Advances
  <2>2. CASE n = 6 + k
    <3>1. k = 31 /\ e.version = 1
      BY <2>1, <2>2, <1>1, <1>5
    <3>2. QED
      BY <2>2, <3>1 DEF Head32
  <2>3. CASE n \in 4 .. 3 + k
    <3>1. e.version = d.version + 1
      BY <2>1, <2>3, <1>5
    <3>2. QED
      BY <2>3, <3>1, <1>3 DEF Head32
  <2>4. CASE n # 6 + k /\ n \notin 4 .. 3 + k
    <3>1. e.version = d.version
      BY <2>1, <2>4, <1>6
    <3>2. QED
      BY <2>4, <3>1, <1>1, <1>3 DEF Head32
  <2>5. QED
    BY <2>2, <2>3, <2>4
<1>8. e.tables > 0 /\ (n - 1 <= 4 + k => e.tables = 2)
  <2>1. e.tables = IF s = "tables" THEN 2 ELSE d.tables
    BY <1>4, <1>6 DEF Advances
  <2>2. QED
    BY <1>1, <1>3, <1>5, <2>1
<1>9. /\ n - 1 <= 3 + k => n = 4 + k \/ n <= 3 + k
      /\ n - 1 <= 2 => n = 3 \/ n <= 2
      /\ n - 1 <= 1 => n = 2 \/ n <= 1
      /\ n - 1 = 0 => n = 1
      /\ n - 1 <= IF k = 31 THEN 41 ELSE 5 + k
  BY <1>1
<1>10. /\ n - 1 <= 3 + k => e.columns
       /\ n - 1 <= 2 => e.ownerIndex
       /\ n - 1 <= 1 => e.extra
       /\ n - 1 = 0 => e.settings
  BY <1>3, <1>4, <1>5, <1>9, Zenon DEF Advances
<1>11. QED
  BY <1>1, <1>2, <1>7, <1>8, <1>9, <1>10, Zenon DEF Upgrading

-----------------------------------------------------------------------------
\* The rows of admins.
AdminLists == UNION {[1 .. n -> Admin] : n \in 0 .. 3}
LEMMA DatabaseIs ==
    MigDatabase =
      [version : 0 .. Head32 + 1, tables : 0 .. 2, extra : BOOLEAN, columns : BOOLEAN,
       ownerIndex : BOOLEAN, settings : BOOLEAN, admins : AdminLists,
       ownerColumn : BOOLEAN, users : SUBSET UserIds, sequence : 0 .. MaxUserId,
       automatic : BOOLEAN, snapshots : SUBSET UserIds,
       secret : {"none", "plain", "fernet", "v2"}, oldSessions : BOOLEAN]
BY DEF MigDatabase, AdminLists

\* The parts of a database that an operation may leave alone.
SamePath(d, e) ==
    /\ e.version = d.version /\ e.tables = d.tables /\ e.extra = d.extra
    /\ e.columns = d.columns /\ e.settings = d.settings
SameAdmins(d, e) == e.admins = d.admins /\ e.ownerIndex = d.ownerIndex
SameSecrets(d, e) == e.secret = d.secret /\ e.oldSessions = d.oldSessions
SameIds(d, e) ==
    /\ e.users = d.users /\ e.snapshots = d.snapshots
    /\ e.sequence = d.sequence /\ e.automatic = d.automatic

LEMMA AdminsSet ==
    ASSUME NEW d \in MigDatabase, NEW a \in AdminLists
    PROVE  LET e == [d EXCEPT !.admins = a] IN
           /\ e \in MigDatabase /\ e.admins = a /\ e.ownerIndex = d.ownerIndex
           /\ SamePath(d, e) /\ SameSecrets(d, e) /\ SameIds(d, e)
BY DatabaseIs DEF SamePath, SameSecrets, SameIds

LEMMA VersionSet ==
    ASSUME NEW d \in MigDatabase, NEW v \in 0 .. Head32 + 1
    PROVE  LET e == [d EXCEPT !.version = v] IN
           /\ e \in MigDatabase /\ e.version = v
           /\ e.tables = d.tables /\ e.extra = d.extra
           /\ e.columns = d.columns /\ e.settings = d.settings
           /\ SameAdmins(d, e) /\ SameSecrets(d, e) /\ SameIds(d, e)
BY DatabaseIs DEF SameAdmins, SameSecrets, SameIds

LEMMA TablesSet ==
    ASSUME NEW d \in MigDatabase, NEW v \in 0 .. 2
    PROVE  LET e == [d EXCEPT !.tables = v] IN
           /\ e \in MigDatabase /\ e.version = d.version
           /\ e.tables = v /\ e.extra = d.extra
           /\ e.columns = d.columns /\ e.settings = d.settings
           /\ SameAdmins(d, e) /\ SameSecrets(d, e) /\ SameIds(d, e)
BY DatabaseIs DEF SameAdmins, SameSecrets, SameIds

LEMMA ExtraSet ==
    ASSUME NEW d \in MigDatabase
    PROVE  LET e == [d EXCEPT !.extra = TRUE] IN
           /\ e \in MigDatabase /\ e.version = d.version
           /\ e.tables = d.tables /\ e.extra
           /\ e.columns = d.columns /\ e.settings = d.settings
           /\ SameAdmins(d, e) /\ SameSecrets(d, e) /\ SameIds(d, e)
BY DatabaseIs DEF SameAdmins, SameSecrets, SameIds

LEMMA ColumnsSet ==
    ASSUME NEW d \in MigDatabase
    PROVE  LET e == [d EXCEPT !.columns = TRUE] IN
           /\ e \in MigDatabase /\ e.version = d.version
           /\ e.tables = d.tables /\ e.extra = d.extra
           /\ e.columns /\ e.settings = d.settings
           /\ SameAdmins(d, e) /\ SameSecrets(d, e) /\ SameIds(d, e)
BY DatabaseIs DEF SameAdmins, SameSecrets, SameIds

LEMMA SettingsSet ==
    ASSUME NEW d \in MigDatabase
    PROVE  LET e == [d EXCEPT !.settings = TRUE] IN
           /\ e \in MigDatabase /\ e.version = d.version
           /\ e.tables = d.tables /\ e.extra = d.extra
           /\ e.columns = d.columns /\ e.settings
           /\ SameAdmins(d, e) /\ SameSecrets(d, e) /\ SameIds(d, e)
BY DatabaseIs DEF SameAdmins, SameSecrets, SameIds

LEMMA IndexSet ==
    ASSUME NEW d \in MigDatabase
    PROVE  LET e == [d EXCEPT !.ownerIndex = TRUE] IN
           /\ e \in MigDatabase /\ e.admins = d.admins /\ e.ownerIndex
           /\ SamePath(d, e) /\ SameSecrets(d, e) /\ SameIds(d, e)
BY DatabaseIs DEF SamePath, SameSecrets, SameIds

LEMMA OwnersSet ==
    ASSUME NEW d \in MigDatabase, NEW a \in AdminLists
    PROVE  LET e == [d EXCEPT !.ownerIndex = TRUE, !.admins = a] IN
           /\ e \in MigDatabase /\ e.admins = a /\ e.ownerIndex
           /\ SamePath(d, e) /\ SameSecrets(d, e) /\ SameIds(d, e)
BY DatabaseIs DEF SamePath, SameSecrets, SameIds

LEMMA SecretSet ==
    ASSUME NEW d \in MigDatabase, NEW x \in {"none", "plain", "fernet", "v2"}
    PROVE  LET e == [d EXCEPT !.secret = x] IN
           /\ e \in MigDatabase /\ e.secret = x /\ e.oldSessions = d.oldSessions
           /\ SamePath(d, e) /\ SameAdmins(d, e) /\ SameIds(d, e)
BY DatabaseIs DEF SamePath, SameAdmins, SameIds

\* A list that names nobody twice has room for one more name.
LEMMA ListLengths ==
    ASSUME NEW a \in AdminLists
    PROVE  \E n \in 0 .. 3 : /\ a \in [1 .. n -> Admin] /\ DOMAIN a = 1 .. n
                             /\ Len(a) = n /\ a \in Seq(Admin)
<1>1. PICK n \in 0 .. 3 : a \in [1 .. n -> Admin]
  BY DEF AdminLists
<1>2. DOMAIN a = 1 .. n /\ n \in Nat /\ a = [i \in 1 .. n |-> a[i]]
      /\ \A i \in 1 .. n : a[i] \in Admin
  BY <1>1
<1>3. a \in Seq(Admin) /\ Len(a) = n
  BY <1>2, IsASeq
<1>4. QED
  BY <1>1, <1>2, <1>3

LEMMA RoomForOne ==
    ASSUME NEW a \in AdminLists, Distinct(a), NEW x \in Admin,
           \A i \in DOMAIN a : a[i].name # x.name
    PROVE  /\ Append(a, x) \in AdminLists /\ Distinct(Append(a, x))
           /\ Len(a) \in Nat /\ DOMAIN a = 1 .. Len(a)
           /\ DOMAIN Append(a, x) = 1 .. Len(a) + 1
           /\ \A i \in DOMAIN a : Append(a, x)[i] = a[i]
           /\ Append(a, x)[Len(a) + 1] = x
<1>1. PICK n \in 0 .. 3 : /\ a \in [1 .. n -> Admin] /\ DOMAIN a = 1 .. n
                          /\ Len(a) = n /\ a \in Seq(Admin)
  BY ListLengths
<1> DEFINE b == Append(a, x)
<1>2. /\ b \in Seq(Admin) /\ Len(b) = n + 1
      /\ \A i \in 1 .. n : b[i] = a[i]
      /\ b[n + 1] = x
  BY <1>1, AppendProperties
<1> HIDE DEF b
<1>3. DOMAIN b = 1 .. n + 1 /\ b \in [1 .. n + 1 -> Admin]
  BY <1>1, <1>2
<1>4. n <= 2
  <2>1. SUFFICES ASSUME n = 3 PROVE FALSE
    BY <1>1
  <2>2. /\ a[1].name \in {"admin", "boss"} /\ a[2].name \in {"admin", "boss"}
        /\ a[3].name \in {"admin", "boss"}
    BY <1>1, <2>1 DEF Admin
  <2>3. a[1].name # a[2].name /\ a[1].name # a[3].name /\ a[2].name # a[3].name
    BY <1>1, <2>1 DEF Distinct
  <2>4. QED
    BY <2>2, <2>3
<1>5. b \in AdminLists
  <2>1. n + 1 \in 0 .. 3
    BY <1>1, <1>4
  <2>2. QED
    BY <2>1, <1>3, Zenon DEF AdminLists
<1>6. Distinct(b)
  <2>1. ASSUME NEW i \in 1 .. n + 1, NEW j \in 1 .. n + 1, b[i].name = b[j].name
        PROVE  i = j
    <3>1. CASE i \in 1 .. n /\ j \in 1 .. n
      BY <3>1, <2>1, <1>1, <1>2 DEF Distinct
    <3>2. CASE i = n + 1 /\ j \in 1 .. n
      BY <3>2, <2>1, <1>1, <1>2
    <3>3. CASE i \in 1 .. n /\ j = n + 1
      BY <3>3, <2>1, <1>1, <1>2
    <3>4. QED
      BY <1>1, <3>1, <3>2, <3>3
  <2>2. QED
    BY <2>1, <1>3 DEF Distinct
<1>7. QED
  BY <1>1, <1>2, <1>3, <1>5, <1>6 DEF b

LEMMA ListIsEmpty == ASSUME NEW a \in AdminLists PROVE a # <<>> <=> 1 \in DOMAIN a
<1>1. PICK n \in 0 .. 3 : /\ a \in [1 .. n -> Admin] /\ DOMAIN a = 1 .. n
                          /\ Len(a) = n /\ a \in Seq(Admin)
  BY ListLengths
<1>2. a = <<>> <=> n = 0
  BY <1>1, EmptySeq
<1>3. QED
  BY <1>1, <1>2

\* Rows that keep their names keep being one of each.
LEMMA SameNames ==
    ASSUME NEW a \in AdminLists, NEW b, b = [i \in DOMAIN a |-> b[i]],
           \A i \in DOMAIN a : b[i] \in Admin /\ b[i].name = a[i].name
    PROVE  /\ b \in AdminLists /\ DOMAIN b = DOMAIN a
           /\ Distinct(a) => Distinct(b)
           /\ a # <<>> => b # <<>>
<1>1. DOMAIN b = DOMAIN a
  OBVIOUS
<1>2. b \in AdminLists
  <2>1. PICK n \in 0 .. 3 : a \in [1 .. n -> Admin] /\ DOMAIN a = 1 .. n
    BY ListLengths
  <2>2. b \in [1 .. n -> Admin]
    BY <2>1
  <2>3. QED
    BY <2>1, <2>2, Zenon DEF AdminLists
<1>3. QED
  BY <1>1, <1>2, ListIsEmpty DEF Distinct

\* An operation on the admins alone, which drops no row and no only owner.
OnlyAdmins(d, e, name) ==
    /\ e \in MigDatabase
    /\ SamePath(d, e) /\ SameSecrets(d, e) /\ SameIds(d, e)
    /\ Distinct(e.admins)
    /\ d.admins # <<>> => e.admins # <<>>
    /\ OnlyOwner(d.admins, name) => OnlyOwner(e.admins, name)

LEMMA EnvironmentIs ==
    ASSUME NEW env \in Environment
    PROVE  /\ OwnerName(env) \in {"admin", "boss"}
           /\ env.owner # "" => env.owner = OwnerName(env)
           /\ env.owner \in {"", "admin", "boss"} /\ env.hash \in BOOLEAN
BY DEF Environment, OwnerName

LEMMA Added ==
    ASSUME NEW d \in MigDatabase, Distinct(d.admins), NEW name \in {"admin", "boss"},
           NEW pw \in BOOLEAN, Named(d, name) = {}
    PROVE  LET e == AddAdmin(d, name, pw) IN
           /\ OnlyAdmins(d, e, name) /\ e.ownerIndex = d.ownerIndex
           /\ e.admins # <<>>
           /\ pw /\ (OnlyOwner(d.admins, name) \/ Passworded(d.admins))
                 => Passworded(e.admins)
<1> DEFINE x == [name |-> name, owner |-> TRUE, password |-> pw]
           a == Append(d.admins, x)
           e == AddAdmin(d, name, pw)
<1>1. x \in Admin /\ x.name = name /\ x.owner /\ x.password = pw
  BY DEF Admin
<1>2. d.admins \in AdminLists
  BY DatabaseIs
<1>3. \A i \in DOMAIN d.admins : d.admins[i].name # name
  BY DEF Named
<1> HIDE DEF x
<1>4. /\ a \in AdminLists /\ Distinct(a)
      /\ Len(d.admins) \in Nat /\ DOMAIN d.admins = 1 .. Len(d.admins)
      /\ DOMAIN a = 1 .. Len(d.admins) + 1
      /\ \A i \in DOMAIN d.admins : a[i] = d.admins[i]
      /\ a[Len(d.admins) + 1] = x
  BY <1>1, <1>2, <1>3, RoomForOne
<1>5. e = [d EXCEPT !.admins = a]
  BY DEF AddAdmin, x
<1> HIDE DEF a, e
<1>6. /\ e \in MigDatabase /\ e.admins = a /\ e.ownerIndex = d.ownerIndex
      /\ SamePath(d, e) /\ SameSecrets(d, e) /\ SameIds(d, e)
  BY <1>4, <1>5, AdminsSet
<1>7. 1 \in DOMAIN a /\ (OnlyOwner(d.admins, name) => Len(d.admins) = 0)
  <2>1. 1 \in DOMAIN a
    BY <1>4
  <2>2. ASSUME OnlyOwner(d.admins, name) PROVE Len(d.admins) = 0
    <3>1. 1 \notin 1 .. Len(d.admins)
      BY <2>2, <1>3, <1>4 DEF OnlyOwner
    <3>2. QED
      BY <3>1, <1>4
  <2>3. QED
    BY <2>1, <2>2
<1>8. OnlyOwner(d.admins, name) => \A i \in DOMAIN a : a[i] = x
  BY <1>4, <1>7
<1>9. a # <<>>
  BY <1>4, <1>7, ListIsEmpty
<1>10. OnlyOwner(d.admins, name) => OnlyOwner(a, name)
  BY <1>1, <1>8 DEF OnlyOwner
<1>11. OnlyAdmins(d, e, name)
  BY <1>4, <1>6, <1>9, <1>10 DEF OnlyAdmins
<1>12. pw /\ Passworded(d.admins) => Passworded(a)
  <2>1. ASSUME pw, Passworded(d.admins), NEW i \in DOMAIN a PROVE a[i].password
    <3>1. i \in DOMAIN d.admins \/ i = Len(d.admins) + 1
      BY <1>4
    <3>2. QED
      BY <2>1, <3>1, <1>1, <1>4, Zenon DEF Passworded
  <2>2. QED
    BY <2>1 DEF Passworded
<1>13. pw /\ OnlyOwner(d.admins, name) => Passworded(a)
  BY <1>1, <1>8 DEF Passworded
<1>14. QED
  BY <1>6, <1>9, <1>11, <1>12, <1>13, Zenon DEF e

LEMMA Seeded ==
    ASSUME NEW d \in MigDatabase, Distinct(d.admins), NEW env \in Environment
    PROVE  LET e == SeedOwner(d, env) IN
           /\ OnlyAdmins(d, e, OwnerName(env)) /\ e.ownerIndex = d.ownerIndex
           /\ e.admins # <<>>
<1> DEFINE name == OwnerName(env)
           e == SeedOwner(d, env)
<1>1. name \in {"admin", "boss"}
  BY EnvironmentIs
<1>2. e = IF Named(d, name) # {} THEN d ELSE AddAdmin(d, name, FALSE)
  BY DEF SeedOwner, OwnerName
<1> HIDE DEF name, e
<1>3. CASE Named(d, name) = {}
  <2> DEFINE pw == FALSE
             f == AddAdmin(d, name, pw)
  <2>1. pw \in BOOLEAN
    OBVIOUS
  <2>2. e = f
    BY <1>2, <1>3
  <2> HIDE DEF pw
  <2>3. OnlyAdmins(d, f, name) /\ f.ownerIndex = d.ownerIndex /\ f.admins # <<>>
    BY <1>1, <1>3, <2>1, Added
  <2> HIDE DEF f
  <2>4. QED
    BY <2>2, <2>3 DEF name, e
<1>4. CASE Named(d, name) # {}
  <2>1. e = d
    BY <1>2, <1>4
  <2>2. d.admins # <<>>
    <3>1. DOMAIN d.admins # {}
      BY <1>4 DEF Named
    <3>2. d.admins \in AdminLists
      BY DatabaseIs
    <3>3. PICK n \in 0 .. 3 : DOMAIN d.admins = 1 .. n
      BY <3>2, ListLengths
    <3>4. QED
      BY <3>1, <3>2, <3>3, ListIsEmpty
  <2>3. QED
    BY <2>1, <2>2 DEF OnlyAdmins, SamePath, SameSecrets, SameIds, e
<1>5. QED
  BY <1>3, <1>4

LEMMA Marked ==
    ASSUME NEW d \in MigDatabase, Distinct(d.admins), NEW env \in Environment
    PROVE  LET e == MarkOwner(d, env) IN
           /\ OnlyAdmins(d, e, OwnerName(env)) /\ e.ownerIndex = d.ownerIndex
           /\ Passworded(d.admins)
                 => Passworded(e.admins)
<1> DEFINE r == d.admins
           b == [i \in DOMAIN r |->
                   IF r[i].name = env.owner THEN [r[i] EXCEPT !.owner = TRUE] ELSE r[i]]
           e == MarkOwner(d, env)
<1>1. r \in AdminLists
  BY DatabaseIs
<1>2. e = [d EXCEPT !.admins = b]
  BY DEF MarkOwner
<1> HIDE DEF r, e
<1>3. \A i \in DOMAIN r : r[i] \in Admin
  BY <1>1, ListLengths
<1>4. \A i \in DOMAIN r : /\ b[i] \in Admin /\ b[i].name = r[i].name
                          /\ b[i].owner \/ b[i].owner = r[i].owner
                          /\ b[i].password = r[i].password
  <2> SUFFICES ASSUME NEW i \in DOMAIN r
               PROVE  /\ b[i] \in Admin /\ b[i].name = r[i].name
                      /\ b[i].owner \/ b[i].owner = r[i].owner
                      /\ b[i].password = r[i].password
    OBVIOUS
  <2>1. CASE r[i].name = env.owner
    <3>1. b[i] = [r[i] EXCEPT !.owner = TRUE]
      BY <2>1
    <3>2. QED
      BY <3>1, <1>3 DEF Admin
  <2>2. CASE r[i].name # env.owner
    BY <2>2, <1>3
  <2>3. QED
    BY <2>1, <2>2
<1>5. b = [i \in DOMAIN r |-> b[i]]
  OBVIOUS
<1> HIDE DEF b
<1>6. /\ b \in AdminLists /\ DOMAIN b = DOMAIN r
      /\ Distinct(r) => Distinct(b)
      /\ r # <<>> => b # <<>>
  BY <1>1, <1>4, <1>5, SameNames
<1>7. /\ e \in MigDatabase /\ e.admins = b /\ e.ownerIndex = d.ownerIndex
      /\ SamePath(d, e) /\ SameSecrets(d, e) /\ SameIds(d, e)
  BY <1>2, <1>6, AdminsSet
<1>8. \A name : OnlyOwner(r, name) => OnlyOwner(b, name)
  BY <1>4, <1>6 DEF OnlyOwner
<1>9. OnlyAdmins(d, e, OwnerName(env))
  BY <1>6, <1>7, <1>8 DEF OnlyAdmins, r
<1>10. QED
  BY <1>4, <1>6, <1>7, <1>9, Zenon DEF r, e, Passworded

LEMMA Unified ==
    ASSUME NEW d \in MigDatabase, Distinct(d.admins), NEW name
    PROVE  LET e == UniqueOwner(d) IN
           /\ OnlyAdmins(d, e, name) /\ e.ownerIndex
           /\ Passworded(d.admins)
                 => Passworded(e.admins)
<1> DEFINE r == d.admins
           first(i) == \A j \in Owners(d) : i <= j
           b == [i \in DOMAIN r |-> [r[i] EXCEPT !.owner = IsOwner(d, i) /\ first(i)]]
           e == UniqueOwner(d)
<1>1. r \in AdminLists
  BY DatabaseIs
<1>2. e = [d EXCEPT !.ownerIndex = TRUE, !.admins = b]
  BY Zenon DEF UniqueOwner
<1>3. /\ Distinct(r) /\ Owners(d) \subseteq DOMAIN r
      /\ \A i \in DOMAIN r : IsOwner(d, i) = r[i].owner
  BY DEF Owners, IsOwner
<1> HIDE DEF r, e, first
<1>5. \A i \in DOMAIN r : r[i] \in Admin
  BY <1>1, ListLengths
<1>6. \A i \in DOMAIN r : /\ b[i] \in Admin /\ b[i].name = r[i].name
                          /\ b[i].owner = (r[i].owner /\ first(i))
                          /\ b[i].password = r[i].password
  <2> SUFFICES ASSUME NEW i \in DOMAIN r
               PROVE  /\ b[i] \in Admin /\ b[i].name = r[i].name
                      /\ b[i].owner = (r[i].owner /\ first(i))
                      /\ b[i].password = r[i].password
    OBVIOUS
  <2> DEFINE o == IsOwner(d, i) /\ first(i)
  <2>1. b[i] = [r[i] EXCEPT !.owner = o] /\ o \in BOOLEAN
    OBVIOUS
  <2> HIDE DEF o
  <2>2. b[i] \in Admin /\ b[i].name = r[i].name /\ b[i].owner = o
        /\ b[i].password = r[i].password
    BY <2>1, <1>5 DEF Admin
  <2>3. QED
    BY <1>3, <2>2 DEF o
<1>7. b = [i \in DOMAIN r |-> b[i]]
  OBVIOUS
<1> HIDE DEF b
<1>8. /\ b \in AdminLists /\ DOMAIN b = DOMAIN r
      /\ Distinct(r) => Distinct(b)
      /\ r # <<>> => b # <<>>
  BY <1>1, <1>6, <1>7, SameNames
<1>9. /\ e \in MigDatabase /\ e.admins = b /\ e.ownerIndex
      /\ SamePath(d, e) /\ SameSecrets(d, e) /\ SameIds(d, e)
  BY <1>2, <1>8, OwnersSet
<1>11. ASSUME OnlyOwner(r, name) PROVE OnlyOwner(b, name)
  <2> SUFFICES ASSUME NEW i \in DOMAIN r PROVE b[i].name = name /\ b[i].owner
    BY <1>8 DEF OnlyOwner
  <2>1. \A j \in DOMAIN r : j = i
    BY <1>11, <1>3 DEF OnlyOwner, Distinct
  <2>2. i \in Nat
    BY <1>1, ListLengths
  <2>3. first(i)
    BY <2>1, <2>2, <1>3 DEF first
  <2>4. QED
    BY <2>3, <1>11, <1>6 DEF OnlyOwner
<1>12. OnlyAdmins(d, e, name)
  BY <1>3, <1>8, <1>9, <1>11 DEF OnlyAdmins, r
<1>13. QED
  BY <1>6, <1>8, <1>9, <1>12, Zenon DEF r, e, Passworded

LEMMA Imported ==
    ASSUME NEW d \in MigDatabase, Distinct(d.admins), NEW env \in Environment
    PROVE  LET e == ImportOwner(d, env) IN
           /\ OnlyAdmins(d, e, OwnerName(env)) /\ e.ownerIndex = d.ownerIndex
           /\ Passworded(d.admins) => Passworded(e.admins)
           /\ (/\ Imports(env)
               /\ OnlyOwner(d.admins, OwnerName(env)))
                 => Passworded(e.admins)
<1> DEFINE r == d.admins
           b == [i \in DOMAIN r |->
                   IF r[i].name = env.owner THEN [r[i] EXCEPT !.password = TRUE] ELSE r[i]]
           e == ImportOwner(d, env)
<1>1. r \in AdminLists /\ OwnerName(env) \in {"admin", "boss"}
      /\ (env.owner # "" => env.owner = OwnerName(env))
  BY DatabaseIs, EnvironmentIs
<1>2. CASE env.owner = "" \/ ~env.hash
  <2>1. e = d
    BY <1>2 DEF ImportOwner
  <2>2. ~Imports(env)
    BY <1>2, Zenon DEF Imports
  <2>3. QED
    BY <2>1, <2>2, Zenon DEF OnlyAdmins, SamePath, SameSecrets, SameIds
<1>3. CASE ~(env.owner = "" \/ ~env.hash) /\ Named(d, env.owner) = {}
  <2> DEFINE pw == TRUE
             f == AddAdmin(d, OwnerName(env), pw)
  <2>1. e = f /\ Named(d, OwnerName(env)) = {}
    BY <1>1, <1>3 DEF ImportOwner
  <2>2. pw \in BOOLEAN /\ pw
    OBVIOUS
  <2> HIDE DEF pw, e
  <2>3. /\ OnlyAdmins(d, f, OwnerName(env)) /\ f.ownerIndex = d.ownerIndex
        /\ OnlyOwner(d.admins, OwnerName(env)) \/ Passworded(d.admins) =>
              Passworded(f.admins)
    BY <1>1, <2>1, <2>2, Added
  <2> HIDE DEF f
  <2>4. QED
    BY <2>1, <2>2, <2>3, Zenon DEF e
<1>4. CASE ~(env.owner = "" \/ ~env.hash) /\ Named(d, env.owner) # {}
  <2>1. e = [d EXCEPT !.admins = b]
    BY <1>4 DEF ImportOwner
  <2> HIDE DEF r, e
  <2>2. \A i \in DOMAIN r : r[i] \in Admin
    BY <1>1, ListLengths
  <2>3. \A i \in DOMAIN r : /\ b[i] \in Admin /\ b[i].name = r[i].name
                            /\ b[i].owner = r[i].owner
                            /\ r[i].name = env.owner \/ r[i].password => b[i].password
    <3> SUFFICES ASSUME NEW i \in DOMAIN r
                 PROVE  /\ b[i] \in Admin /\ b[i].name = r[i].name
                        /\ b[i].owner = r[i].owner
                        /\ r[i].name = env.owner \/ r[i].password => b[i].password
      OBVIOUS
    <3>1. CASE r[i].name = env.owner
      <4>1. b[i] = [r[i] EXCEPT !.password = TRUE]
        BY <3>1
      <4>2. QED
        BY <4>1, <2>2 DEF Admin
    <3>2. CASE r[i].name # env.owner
      BY <3>2, <2>2
    <3>3. QED
      BY <3>1, <3>2
  <2>4. b = [i \in DOMAIN r |-> b[i]]
    OBVIOUS
  <2> HIDE DEF b
  <2>5. /\ b \in AdminLists /\ DOMAIN b = DOMAIN r
        /\ Distinct(r) => Distinct(b)
        /\ r # <<>> => b # <<>>
    BY <1>1, <2>3, <2>4, SameNames
  <2>6. /\ e \in MigDatabase /\ e.admins = b /\ e.ownerIndex = d.ownerIndex
        /\ SamePath(d, e) /\ SameSecrets(d, e) /\ SameIds(d, e)
    BY <2>1, <2>5, AdminsSet
  <2>7. OnlyOwner(r, OwnerName(env)) => OnlyOwner(b, OwnerName(env))
    BY <2>3, <2>5 DEF OnlyOwner
  <2>8. OnlyAdmins(d, e, OwnerName(env))
    BY <2>5, <2>6, <2>7 DEF OnlyAdmins, r
  <2>9. OnlyOwner(r, OwnerName(env)) \/ Passworded(r) => Passworded(b)
    BY <1>1, <1>4, <2>3, <2>5 DEF OnlyOwner, Passworded
  <2>10. QED
    BY <2>6, <2>8, <2>9, Zenon DEF r, e
<1>5. QED
  BY <1>2, <1>3, <1>4

-----------------------------------------------------------------------------
\* Operations on the users, the secrets and the sessions.
LEMMA UsersSet ==
    ASSUME NEW d \in MigDatabase, NEW u \in SUBSET UserIds, NEW q \in 0 .. MaxUserId
    PROVE  LET e == [d EXCEPT !.users = u, !.sequence = q] IN
           /\ e \in MigDatabase /\ e.users = u /\ e.sequence = q
           /\ e.snapshots = d.snapshots /\ e.automatic = d.automatic
           /\ SamePath(d, e) /\ SameAdmins(d, e) /\ SameSecrets(d, e)
BY DatabaseIs DEF SamePath, SameAdmins, SameSecrets

LEMMA TableRebuilt ==
    ASSUME NEW d \in MigDatabase, NEW q \in 0 .. MaxUserId
    PROVE  LET e == [d EXCEPT !.automatic = TRUE, !.sequence = q] IN
           /\ e \in MigDatabase /\ e.users = d.users /\ e.sequence = q
           /\ e.snapshots = d.snapshots /\ e.automatic
           /\ SamePath(d, e) /\ SameAdmins(d, e) /\ SameSecrets(d, e)
BY DatabaseIs DEF SamePath, SameAdmins, SameSecrets

LEMMA SessionsEnded ==
    ASSUME NEW d \in MigDatabase
    PROVE  LET e == [d EXCEPT !.oldSessions = FALSE] IN
           /\ e \in MigDatabase /\ e.secret = d.secret /\ ~e.oldSessions
           /\ SamePath(d, e) /\ SameAdmins(d, e) /\ SameIds(d, e)
BY DatabaseIs DEF SamePath, SameAdmins, SameIds

LEMMA ColumnDropped ==
    ASSUME NEW d \in MigDatabase
    PROVE  LET e == [d EXCEPT !.ownerColumn = FALSE] IN
           /\ e \in MigDatabase
           /\ SamePath(d, e) /\ SameAdmins(d, e) /\ SameSecrets(d, e) /\ SameIds(d, e)
BY DatabaseIs DEF SamePath, SameAdmins, SameSecrets, SameIds

LEMMA IdsAre == MaxUserId \in Nat \ {0} /\ UserIds = 1 .. MaxUserId
BY MigrationAssumption DEF UserIds

LEMMA FirstUserSeeded ==
    ASSUME NEW d \in MigDatabase, d.automatic /\ d.users = {} => d.sequence < MaxUserId
    PROVE  LET e == SeedFirstUser(d) IN
           /\ e \in MigDatabase /\ e.snapshots = d.snapshots /\ e.automatic = d.automatic
           /\ SamePath(d, e) /\ SameAdmins(d, e) /\ SameSecrets(d, e)
           /\ \/ e.users = d.users /\ e.sequence = d.sequence
              \/ \E id \in UserIds : /\ e.users = {id} /\ d.users = {}
                                     /\ d.automatic => /\ e.sequence = id
                                                       /\ d.sequence < id
<1> DEFINE e == SeedFirstUser(d)
           id == IF d.automatic THEN d.sequence + 1 ELSE 1
           q == IF d.automatic THEN id ELSE d.sequence
<1>1. /\ d.sequence \in 0 .. MaxUserId /\ d.users \in SUBSET UserIds
      /\ d.automatic \in BOOLEAN
  BY DatabaseIs
<1>2. CASE d.ownerColumn \/ d.users # {}
  <2>1. e = d
    BY <1>2 DEF SeedFirstUser
  <2> HIDE DEF e
  <2>2. QED
    BY <2>1 DEF e, SamePath, SameAdmins, SameSecrets
<1>3. CASE ~(d.ownerColumn \/ d.users # {})
  <2> DEFINE u == {id}
             f == [d EXCEPT !.users = u, !.sequence = q]
  <2>1. e = f
    BY <1>3, Zenon DEF SeedFirstUser
  <2>2. id \in 1 .. MaxUserId /\ q \in 0 .. MaxUserId
        /\ (d.automatic => q = id /\ d.sequence < id)
    <3>1. CASE d.automatic
      <4>1. d.sequence < MaxUserId
        BY <1>3, <3>1
      <4>2. id = d.sequence + 1 /\ q = id
        BY <3>1
      <4>3. QED
        BY <4>1, <4>2, <1>1, IdsAre
    <3>2. CASE ~d.automatic
      <4>1. id = 1 /\ q = d.sequence
        BY <3>2
      <4>2. QED
        BY <4>1, <3>2, <1>1, IdsAre
    <3>3. QED
      BY <3>1, <3>2
  <2> HIDE DEF e, id, q
  <2>3. u = {id} /\ id \in UserIds
    BY <2>2, IdsAre
  <2>9. u \in SUBSET UserIds /\ q \in 0 .. MaxUserId
    BY <2>2, IdsAre
  <2> HIDE DEF u
  <2>10. /\ f \in MigDatabase /\ f.users = u /\ f.sequence = q
         /\ f.snapshots = d.snapshots /\ f.automatic = d.automatic
         /\ SamePath(d, f) /\ SameAdmins(d, f) /\ SameSecrets(d, f)
    BY <2>9, UsersSet
  <2> HIDE DEF f
  <2>4. /\ e \in MigDatabase /\ e.users = u /\ e.sequence = q
        /\ e.snapshots = d.snapshots /\ e.automatic = d.automatic
        /\ SamePath(d, e) /\ SameAdmins(d, e) /\ SameSecrets(d, e)
    BY <2>1, <2>10
  <2>5. d.users = {}
    BY <1>3
  <2>6. /\ e.users = {id} /\ d.users = {}
        /\ d.automatic => e.sequence = id /\ d.sequence < id
    BY <2>2, <2>3, <2>4, <2>5
  <2>7. \E x \in UserIds : /\ e.users = {x} /\ d.users = {}
                           /\ d.automatic => e.sequence = x /\ d.sequence < x
    BY <2>3, <2>6, Zenon
  <2>8. QED
    BY <2>4, <2>7, Zenon DEF e
<1>4. QED
  BY <1>2, <1>3

\* What a step has done before its stamp.
StepDone(n, d, m, env) ==
    /\ m \in MigDatabase /\ SamePath(d, m)
    /\ d.ownerIndex => m.ownerIndex
    /\ Distinct(m.admins)
    /\ (n = 12 \/ d.admins # <<>>) => m.admins # <<>>
    /\ OnlyOwner(d.admins, OwnerName(env)) => OnlyOwner(m.admins, OwnerName(env))
    /\ n # 12 /\ Passworded(d.admins)
          => Passworded(m.admins)
    /\ (/\ n = 16 /\ Imports(env)
        /\ OnlyOwner(d.admins, OwnerName(env)))
          => Passworded(m.admins)
    /\ d.secret = "none" => m.secret = "none"
    /\ n = 27 \/ (n > 27 /\ d.secret # "plain") => m.secret # "plain"
    /\ n = 28 \/ ~d.oldSessions => ~m.oldSessions
    /\ m.snapshots = d.snapshots
    /\ n \notin {12, 29} => SameIds(d, m)
    /\ n = 29 => m.users = d.users /\ m.automatic
                 /\ m.sequence = Largest(d.users \cup d.snapshots)
    /\ n = 12 => /\ m.automatic = d.automatic
                 /\ \/ m.users = d.users /\ m.sequence = d.sequence
                    \/ \E id \in UserIds : /\ m.users = {id} /\ d.users = {}
                                           /\ d.automatic => /\ m.sequence = id
                                                             /\ d.sequence < id

LEMMA StepTwelve ==
    ASSUME NEW d \in MigDatabase, Distinct(d.admins), NEW env \in Environment,
           d.automatic /\ d.users = {} => d.sequence < MaxUserId
    PROVE  StepDone(12, d, Step(12, d, env), env)
<1> DEFINE e == SeedOwner(d, env)
           m == SeedFirstUser(e)
<1>1. Step(12, d, env) = m
  BY DEF Step
<1>2. /\ OnlyAdmins(d, e, OwnerName(env)) /\ e.ownerIndex = d.ownerIndex
      /\ e.admins # <<>>
  BY Seeded
<1> HIDE DEF e
<1>3. /\ e \in MigDatabase /\ SamePath(d, e) /\ SameSecrets(d, e) /\ SameIds(d, e)
      /\ Distinct(e.admins)
      /\ OnlyOwner(d.admins, OwnerName(env)) => OnlyOwner(e.admins, OwnerName(env))
  BY <1>2 DEF OnlyAdmins
<1>4. e.automatic /\ e.users = {} => e.sequence < MaxUserId
  BY <1>3 DEF SameIds
<1>5. /\ m \in MigDatabase /\ m.snapshots = e.snapshots /\ m.automatic = e.automatic
      /\ SamePath(e, m) /\ SameAdmins(e, m) /\ SameSecrets(e, m)
      /\ \/ m.users = e.users /\ m.sequence = e.sequence
         \/ \E id \in UserIds : /\ m.users = {id} /\ e.users = {}
                                /\ e.automatic => /\ m.sequence = id
                                                  /\ e.sequence < id
  BY <1>3, <1>4, FirstUserSeeded
<1> HIDE DEF m
<1>6. SamePath(d, m) /\ SameSecrets(d, m)
  BY <1>3, <1>5 DEF SamePath, SameSecrets
<1>7. /\ m.admins = e.admins /\ m.ownerIndex = d.ownerIndex
  BY <1>2, <1>5 DEF SameAdmins
<1>8. /\ m.secret = d.secret /\ m.oldSessions = d.oldSessions
      /\ e.users = d.users /\ e.snapshots = d.snapshots
      /\ e.sequence = d.sequence /\ e.automatic = d.automatic
  BY <1>3, <1>6 DEF SameSecrets, SameIds
<1>9. \/ m.users = d.users /\ m.sequence = d.sequence
      \/ \E id \in UserIds : /\ m.users = {id} /\ d.users = {}
                             /\ d.automatic => m.sequence = id /\ d.sequence < id
  BY <1>5, <1>8, Zenon
<1>10. m.snapshots = d.snapshots /\ m.automatic = d.automatic
  BY <1>5, <1>8
<1>11. StepDone(12, d, m, env)
  <2>1. 12 \notin {16, 27, 28, 29} /\ ~(12 > 27)
    OBVIOUS
  <2>2. m \in MigDatabase /\ Distinct(m.admins) /\ m.admins # <<>>
    BY <1>2, <1>3, <1>5, <1>7
  <2>3. OnlyOwner(d.admins, OwnerName(env)) => OnlyOwner(m.admins, OwnerName(env))
    BY <1>3, <1>7
  <2>4. QED
    BY <1>6, <1>7, <1>8, <1>9, <1>10, <2>1, <2>2, <2>3, Zenon DEF StepDone
<1>12. QED
  BY <1>1, <1>11

\* A step on the admins alone.
LEMMA AdminsStep ==
    ASSUME NEW d \in MigDatabase, NEW m, NEW env, NEW n \in {16, 22, 24, 26},
           OnlyAdmins(d, m, OwnerName(env)), d.ownerIndex => m.ownerIndex,
           Passworded(d.admins)
              => Passworded(m.admins),
           (/\ n = 16 /\ Imports(env)
            /\ OnlyOwner(d.admins, OwnerName(env)))
              => Passworded(m.admins)
    PROVE  StepDone(n, d, m, env)
<1>1. /\ m \in MigDatabase /\ SamePath(d, m) /\ SameIds(d, m) /\ Distinct(m.admins)
      /\ m.secret = d.secret /\ m.oldSessions = d.oldSessions
      /\ m.snapshots = d.snapshots
      /\ (d.admins # <<>> => m.admins # <<>>)
      /\ (OnlyOwner(d.admins, OwnerName(env)) => OnlyOwner(m.admins, OwnerName(env)))
  BY DEF OnlyAdmins, SameSecrets, SameIds
<1>2. n \notin {12, 27, 28, 29} /\ ~(n > 27)
  OBVIOUS
<1>3. QED
  BY <1>1, <1>2, Zenon DEF StepDone

\* A step that leaves the admins and the ids alone.
LEMMA CleaningStep ==
    ASSUME NEW d \in MigDatabase, Distinct(d.admins), NEW m \in MigDatabase, NEW env,
           NEW n \in (2 .. 32) \ {12, 16, 29},
           SamePath(d, m), SameAdmins(d, m), SameIds(d, m),
           d.secret = "none" => m.secret = "none",
           n = 27 \/ (n > 27 /\ d.secret # "plain") => m.secret # "plain",
           n = 28 \/ ~d.oldSessions => ~m.oldSessions
    PROVE  StepDone(n, d, m, env)
<1>1. m.admins = d.admins /\ m.ownerIndex = d.ownerIndex /\ m.snapshots = d.snapshots
  BY DEF SameAdmins, SameIds
<1>2. n \notin {12, 16, 29}
  OBVIOUS
<1>3. QED
  BY <1>1, <1>2, Zenon DEF StepDone

\* What remains true of a database e whose users have had these ids.
Sound(e, ids, o) ==
    Distinct(e.admins) /\ Cleaned(e, o) /\ IdsKept(e, ids) /\ OwnerKept(e, o)

LEMMA StepsDo ==
    ASSUME NEW d \in MigDatabase, Distinct(d.admins), NEW env \in Environment,
           NEW n \in 2 .. 32,
           n = 12 => (d.automatic /\ d.users = {} => d.sequence < MaxUserId)
    PROVE  StepDone(n, d, Step(n, d, env), env)
<1> DEFINE m == Step(n, d, env)
<1>1. CASE n = 12
  BY <1>1, StepTwelve
<1>2. CASE n = 14
  <2> DEFINE x == IF d.secret = "fernet" /\ env.keys THEN "plain" ELSE d.secret
  <2>1. m = [d EXCEPT !.secret = x]
    <3>1. m = DecryptSecrets(d, env)
      BY <1>2 DEF Step
    <3>2. QED
      BY <3>1, Zenon DEF DecryptSecrets
  <2>2. d.secret \in {"none", "plain", "fernet", "v2"}
    BY DatabaseIs
  <2>3. x \in {"none", "plain", "fernet", "v2"} /\ (d.secret = "none" => x = "none")
    BY <2>2
  <2> HIDE DEF m, x
  <2>4. /\ m \in MigDatabase /\ m.secret = x /\ m.oldSessions = d.oldSessions
        /\ SamePath(d, m) /\ SameAdmins(d, m) /\ SameIds(d, m)
    BY <2>1, <2>3, SecretSet
  <2>5. n \in (2 .. 32) \ {12, 16, 29} /\ n # 27 /\ n # 28 /\ ~(n > 27)
    BY <1>2
  <2>6. StepDone(n, d, m, env)
    BY <2>3, <2>4, <2>5, CleaningStep
  <2>7. QED
    BY <2>6 DEF m
<1>3. CASE n = 16
  <2>1. m = ImportOwner(d, env)
    BY <1>3 DEF Step
  <2> HIDE DEF m
  <2>2. /\ OnlyAdmins(d, m, OwnerName(env)) /\ m.ownerIndex = d.ownerIndex
        /\ Imports(env) /\ OnlyOwner(d.admins, OwnerName(env)) => Passworded(m.admins)
        /\ Passworded(d.admins) => Passworded(m.admins)
    BY <2>1, Imported
  <2>3. StepDone(n, d, m, env)
    BY <1>3, <2>2, AdminsStep
  <2>4. QED
    BY <2>3 DEF m
<1>4. CASE n = 22
  <2>1. m = MarkOwner(d, env)
    BY <1>4 DEF Step
  <2> HIDE DEF m
  <2>2. /\ OnlyAdmins(d, m, OwnerName(env)) /\ m.ownerIndex = d.ownerIndex
        /\ Passworded(d.admins) => Passworded(m.admins)
    BY <2>1, Marked
  <2>3. StepDone(n, d, m, env)
    BY <1>4, <2>2, AdminsStep
  <2>4. QED
    BY <2>3 DEF m
<1>5. CASE n = 24
  <2> DEFINE e == MarkOwner(d, env)
  <2>1. m = [e EXCEPT !.ownerColumn = FALSE]
    BY <1>5 DEF Step
  <2> HIDE DEF m
  <2>2. /\ OnlyAdmins(d, e, OwnerName(env)) /\ e.ownerIndex = d.ownerIndex
        /\ Passworded(d.admins) => Passworded(e.admins)
    BY Marked
  <2> HIDE DEF e
  <2>3. /\ m \in MigDatabase
        /\ SamePath(e, m) /\ SameAdmins(e, m) /\ SameSecrets(e, m) /\ SameIds(e, m)
    <3>1. e \in MigDatabase
      BY <2>2 DEF OnlyAdmins
    <3>2. QED
      BY <2>1, <3>1, ColumnDropped
  <2>4. m.admins = e.admins /\ m.ownerIndex = d.ownerIndex
    BY <2>2, <2>3 DEF SameAdmins
  <2>5. SamePath(d, m) /\ SameSecrets(d, m) /\ SameIds(d, m)
    BY <2>2, <2>3 DEF OnlyAdmins, SamePath, SameSecrets, SameIds
  <2>6. OnlyAdmins(d, m, OwnerName(env))
    BY <2>2, <2>3, <2>4, <2>5 DEF OnlyAdmins
  <2>7. StepDone(n, d, m, env)
    BY <1>5, <2>2, <2>4, <2>6, AdminsStep
  <2>8. QED
    BY <2>7 DEF m
<1>6. CASE n = 26
  <2>1. m = UniqueOwner(d)
    BY <1>6 DEF Step
  <2> HIDE DEF m
  <2>2. /\ OnlyAdmins(d, m, OwnerName(env)) /\ m.ownerIndex
        /\ Passworded(d.admins) => Passworded(m.admins)
    BY <2>1, Unified
  <2>3. StepDone(n, d, m, env)
    BY <1>6, <2>2, AdminsStep
  <2>4. QED
    BY <2>3 DEF m
<1>7. CASE n = 27
  <2> DEFINE x == IF d.secret = "plain" THEN "v2" ELSE d.secret
  <2>1. m = [d EXCEPT !.secret = x]
    <3>1. m = EncryptSecrets(d)
      BY <1>7 DEF Step
    <3>2. QED
      BY <3>1, Zenon DEF EncryptSecrets
  <2>2. d.secret \in {"none", "plain", "fernet", "v2"}
    BY DatabaseIs
  <2>3. x \in {"none", "plain", "fernet", "v2"} /\ (d.secret = "none" => x = "none")
        /\ x # "plain"
    BY <2>2
  <2> HIDE DEF m, x
  <2>4. /\ m \in MigDatabase /\ m.secret = x /\ m.oldSessions = d.oldSessions
        /\ SamePath(d, m) /\ SameAdmins(d, m) /\ SameIds(d, m)
    BY <2>1, <2>3, SecretSet
  <2>5. n \in (2 .. 32) \ {12, 16, 29} /\ n # 28
    BY <1>7
  <2>6. StepDone(n, d, m, env)
    BY <2>3, <2>4, <2>5, CleaningStep
  <2>7. QED
    BY <2>6 DEF m
<1>8. CASE n = 28
  <2>1. m = [d EXCEPT !.oldSessions = FALSE]
    BY <1>8 DEF Step
  <2> HIDE DEF m
  <2>2. /\ m \in MigDatabase /\ m.secret = d.secret /\ ~m.oldSessions
        /\ SamePath(d, m) /\ SameAdmins(d, m) /\ SameIds(d, m)
    BY <2>1, SessionsEnded
  <2>3. n \in (2 .. 32) \ {12, 16, 29} /\ n # 27
    BY <1>8
  <2>4. StepDone(n, d, m, env)
    BY <2>2, <2>3, CleaningStep
  <2>5. QED
    BY <2>4 DEF m
<1>9. CASE n = 29
  <2> DEFINE q == Largest(d.users \cup d.snapshots)
  <2>1. m = [d EXCEPT !.automatic = TRUE, !.sequence = q]
    BY <1>9 DEF Step, RebuildUsers
  <2>2. q \in 0 .. MaxUserId
    <3>1. d.users \cup d.snapshots \in SUBSET UserIds
      BY DatabaseIs
    <3>2. QED
      BY <3>1, LargestIs
  <2> HIDE DEF m, q
  <2>3. /\ m \in MigDatabase /\ m.users = d.users /\ m.sequence = q
        /\ m.snapshots = d.snapshots /\ m.automatic
        /\ SamePath(d, m) /\ SameAdmins(d, m) /\ SameSecrets(d, m)
    BY <2>1, <2>2, TableRebuilt
  <2>4. m.admins = d.admins /\ m.ownerIndex = d.ownerIndex
        /\ m.secret = d.secret /\ m.oldSessions = d.oldSessions
    BY <2>3 DEF SameAdmins, SameSecrets
  <2>5. n \notin {12, 16, 27, 28}
    BY <1>9
  <2>6. StepDone(n, d, m, env)
    BY <1>9, <2>3, <2>4, <2>5, Zenon DEF StepDone, q
  <2>7. QED
    BY <2>6 DEF m
<1>10. CASE n \notin {12, 14, 16, 22, 24, 26, 27, 28, 29}
  <2>1. m = d
    BY <1>10 DEF Step
  <2> HIDE DEF m
  <2>2. SamePath(d, m) /\ SameAdmins(d, m) /\ SameIds(d, m)
        /\ m.secret = d.secret /\ m.oldSessions = d.oldSessions /\ m \in MigDatabase
    BY <2>1 DEF SamePath, SameAdmins, SameIds
  <2>3. n \in (2 .. 32) \ {12, 16, 29} /\ n # 27 /\ n # 28
    BY <1>10
  <2>4. StepDone(n, d, m, env)
    BY <2>2, <2>3, CleaningStep
  <2>5. QED
    BY <2>4 DEF m
<1>11. QED
  BY <1>1, <1>2, <1>3, <1>4, <1>5, <1>6, <1>7, <1>8, <1>9, <1>10

\* What the next statement says of the database it finds.
LEMMA HeadMeans ==
    ASSUME MigInv, migration.at = "running", migration.todo # <<>>
    PROVE  LET s == Head(migration.todo) IN
           /\ s \in {"owner", "first_user", "credential", "stamp_head"} =>
                 origin.built /\ database.version = 0
           /\ s = "stamp_head" => /\ database.tables = 2
                                  /\ ~origin.edited => /\ database.admins # <<>>
                                                       /\ HasPassword(database, origin)
           /\ s = "stamp_one" => database.version = 0 /\ database.tables > 0
           /\ s = "step" => database.version \in 1 .. 31 /\ database.tables > 0
<1> DEFINE t == migration.todo
           s == Head(t)
           n == Len(t)
           d == database
<1>1. t \in Seq(Statements) /\ t # <<>>
  BY DEF MigInv, UnderWay
<1>2. Building(t, d, origin) \/ \E k \in 0 .. 31 : Upgrading(t, d, k)
  BY DEF MigInv, UnderWay
<1> DEFINE Goal ==
             /\ s \in {"owner", "first_user", "credential", "stamp_head"} =>
                   origin.built /\ d.version = 0
             /\ s = "stamp_head" => /\ d.tables = 2
                                    /\ ~origin.edited => d.admins # <<>> /\ HasPassword(d, origin)
             /\ s = "stamp_one" => d.version = 0 /\ d.tables > 0
             /\ s = "step" => d.version \in 1 .. 31 /\ d.tables > 0
<1>3. ASSUME Building(t, d, origin) PROVE Goal
  <2>1. n \in 1 .. 10 /\ FreshItem(n - 1, s)
    BY <1>1, <1>3, BuildingHead
  <2>2. /\ origin.built
        /\ d.version = IF n = 0 THEN Head32 ELSE 0
        /\ n <= 8 => d.tables = 2
        /\ ~origin.edited => /\ n <= 3 => d.admins # <<>>
                             /\ n <= 1 => HasPassword(d, origin)
    BY <1>3 DEF Building
  <2> HIDE DEF n, s, t, d
  <2>3. s \notin {"stamp_one", "step"} /\ (s = "stamp_head" => n = 1)
    BY <2>1 DEF FreshItem
  <2>4. d.version = 0
    BY <2>1, <2>2
  <2>5. n = 1 => n <= 8 /\ n <= 3 /\ n <= 1
    OBVIOUS
  <2>6. s # "stamp_one" /\ s # "step"
    BY <2>3
  <2>7. QED
    BY <2>2, <2>3, <2>4, <2>5, <2>6, Zenon
<1>4. ASSUME NEW k \in 0 .. 31, Upgrading(t, d, k) PROVE Goal
  <2>1. n \in 1 .. 41 /\ n <= 10 + k /\ UpgradeItem(k, n - 1, s)
    BY <1>1, <1>4, UpgradingHead
  <2>2. /\ d.tables > 0
        /\ d.version = IF n >= 6 + k THEN 0 ELSE IF n >= 3 + k THEN Head32 - k
                       ELSE IF n >= 3 THEN Head32 + 3 - n ELSE Head32
    BY <1>4 DEF Upgrading
  <2> HIDE DEF n, s, t, d
  <2>3. \/ s \in {"settings", "extra", "index", "columns", "tables"}
        \/ s = "step" /\ n \in 4 .. 3 + k
        \/ s = "stamp_one" /\ n = 6 + k
    <3>1. \/ n \in 1 .. 3
          \/ n \in 4 .. 3 + k
          \/ n \in {4 + k, 5 + k, 6 + k, 7 + k, 8 + k, 9 + k, 10 + k}
      BY <2>1
    <3>2. CASE n \in 1 .. 3
      BY <3>2, <2>1 DEF UpgradeItem
    <3>3. CASE n \in 4 .. 3 + k
      <4>1. n - 1 \in 3 .. 2 + k
        BY <3>3
      <4>2. s = "step"
        BY <4>1, <2>1 DEF UpgradeItem
      <4>3. QED
        BY <4>2, <3>3
    <3>4. CASE n \in {4 + k, 5 + k, 6 + k, 7 + k, 8 + k, 9 + k, 10 + k}
      BY <3>4, <2>1 DEF UpgradeItem
    <3>5. QED
      BY <3>1, <3>2, <3>3, <3>4
  <2>4. s \notin {"owner", "first_user", "credential", "stamp_head"}
    BY <2>3
  <2>5. s = "step" => d.version \in 1 .. 31
    <3>1. SUFFICES ASSUME s = "step" PROVE d.version \in 1 .. 31
      OBVIOUS
    <3>2. n \in 4 .. 3 + k
      BY <2>3, <3>1
    <3>3. QED
      BY <2>2, <3>2 DEF Head32
  <2>6. s = "stamp_one" => d.version = 0
    BY <2>2, <2>3
  <2>7. s # "stamp_head"
    BY <2>4
  <2>8. QED
    BY <2>2, <2>4, <2>5, <2>6, <2>7, Zenon
<1>5. QED
  BY <1>2, <1>3, <1>4

\* A statement that keeps the database sound and its path in order keeps the
\* invariant; the index has let only one owner through.
LEMMA OwnersCount == ASSUME NEW d \in MigDatabase PROVE Cardinality(Owners(d)) \in Nat
<1>1. PICK n \in 0 .. 3 : DOMAIN d.admins = 1 .. n
  BY DatabaseIs, ListLengths
<1>2. IsFiniteSet(1 .. n)
  BY FS_Interval
<1>3. Owners(d) \subseteq 1 .. n
  BY <1>1 DEF Owners
<1>4. QED
  BY <1>2, <1>3, FS_Subset, FS_CardinalityType

LEMMA Numbers ==
    \A d \in MigDatabase : d.tables \in 0 .. 2 /\ d.version \in 0 .. Head32 + 1
BY DatabaseIs

LEMMA RunKeeps ==
    ASSUME MigInv, NEW s, NEW e \in MigDatabase, Runs(s, e), Advances(s, database, e,
           origin),
           Sound(e, given \cup e.users, origin)
    PROVE  MigInv'
<1> DEFINE t == migration.todo
<1>1. /\ migration.at = "running" /\ t # <<>> /\ Head(t) = s /\ ~Refused(e)
      /\ database' = e /\ migration' = [migration EXCEPT !.todo = Tail(t)]
      /\ given' = given \cup e.users
      /\ dotenv' = dotenv /\ origin' = origin
  BY DEF Runs
<1>2. /\ migration \in [at : {"down", "running", "refused", "up"}, todo : Seq(Statements),
                        env : Environments]
      /\ t \in Seq(Statements)
  BY DEF MigInv, UnderWay
<1>3. /\ migration' \in [at : {"down", "running", "refused", "up"}, todo : Seq(Statements),
                         env : Environments]
      /\ migration'.at = "running" /\ migration'.todo = Tail(t)
      /\ migration'.env = migration.env
  BY <1>1, <1>2, Shorter
<1>4. MigTypeOK'
  <2>1. given \cup e.users \subseteq UserIds
    BY DatabaseIs DEF MigInv, MigTypeOK
  <2>2. QED
    BY <1>1, <1>3, <2>1 DEF MigInv, MigTypeOK
<1>5. database.tables \in Nat /\ e.tables \in Nat
  BY Numbers DEF MigInv, MigTypeOK
<1>6. Building(Tail(t), e, origin) \/ \E k \in 0 .. 31 : Upgrading(Tail(t), e, k)
  <2>1. Building(t, database, origin) \/ \E k \in 0 .. 31 : Upgrading(t, database, k)
    BY <1>1 DEF MigInv, UnderWay
  <2> HIDE DEF t
  <2>2. ASSUME Building(t, database, origin) PROVE Building(Tail(t), e, origin)
    BY <1>1, <1>2, <2>2, BuildingGrows
  <2>3. ASSUME NEW k \in 0 .. 31, Upgrading(t, database, k) PROVE Upgrading(Tail(t), e, k)
    BY <1>1, <1>2, <1>5, <2>3, UpgradingGrows
  <2>4. QED
    BY <2>1, <2>2, <2>3
<1>7. e.tables # 0
  <2>1. ASSUME e.tables = 0 PROVE FALSE
    <3>1. database.tables = 0 /\ s \notin {"table", "tables"}
      BY <2>1, <1>5 DEF Advances
    <3>2. ASSUME Building(t, database, origin) PROVE FALSE
      <4>1. Len(t) \in 1 .. 10 /\ FreshItem(Len(t) - 1, s)
        BY <1>1, <1>2, <3>2, BuildingHead
      <4>2. Len(t) <= 8 => database.tables = 2
        BY <3>2 DEF Building
      <4>3. ~(Len(t) <= 8)
        <5>1. 0 # 2
          OBVIOUS
        <5>2. QED
          BY <3>1, <4>2, <5>1, Zenon
      <4>4. ASSUME NEW n \in 1 .. 10, ~(n <= 8), FreshItem(n - 1, s)
            PROVE  s \in {"table", "tables"}
        BY <4>4 DEF FreshItem
      <4>5. QED
        BY <3>1, <4>1, <4>3, <4>4
    <3>3. ASSUME NEW k \in 0 .. 31, Upgrading(t, database, k) PROVE FALSE
      BY <3>1, <3>3 DEF Upgrading
    <3>4. QED
      BY <1>1, <3>2, <3>3 DEF MigInv, UnderWay
  <2>2. QED
    BY <2>1
<1>8. UnderWay'
  BY <1>1, <1>3, <1>6, <1>7 DEF UnderWay
<1>9. AdminsDiffer(e)
  <2>1. e.ownerIndex => ~(Cardinality(Owners(e)) > 1)
    BY <1>1 DEF Refused
  <2>2. Cardinality(Owners(e)) \in Nat
    BY OwnersCount
  <2>3. e.ownerIndex => Cardinality(Owners(e)) <= 1
    BY <2>1, <2>2
  <2>4. QED
    BY <2>3 DEF AdminsDiffer, Sound
<1>10. QED
  BY <1>1, <1>3, <1>4, <1>8, <1>9 DEF MigInv, Sound

\* A step and its stamp, which commit together.
LEMMA StampedIds ==
    ASSUME NEW d \in MigDatabase, NEW m \in MigDatabase, NEW env,
           NEW n \in 2 .. 32, d.version = n - 1, StepDone(n, d, m, env),
           NEW e \in MigDatabase, SameIds(m, e), e.version = n,
           NEW ids \in SUBSET UserIds, IdsKept(d, ids)
    PROVE  IdsKept(e, ids \cup e.users)
<1>1. /\ d.sequence \in 0 .. MaxUserId /\ d.users \subseteq UserIds
      /\ d.snapshots \subseteq UserIds /\ d.automatic \in BOOLEAN
      /\ e.sequence \in 0 .. MaxUserId
  BY DatabaseIs
<1>2. /\ e.users = m.users /\ e.snapshots = m.snapshots
      /\ e.sequence = m.sequence /\ e.automatic = m.automatic
  BY DEF SameIds
<1>3. /\ d.users \subseteq ids
      /\ n - 1 >= 29 => d.automatic
      /\ n - 1 < 29 => ids = d.users \cup d.snapshots
      /\ d.automatic => \A i \in ids : i <= d.sequence
      /\ d.automatic /\ n - 1 < 12 /\ d.users = {} => d.sequence < MaxUserId
  BY DEF IdsKept
<1>4. MaxUserId \in Nat \ {0} /\ UserIds = 1 .. MaxUserId
  BY IdsAre
<1>5. m.snapshots = d.snapshots
  BY DEF StepDone
<1>6. CASE n = 12
  <2>1. /\ m.automatic = d.automatic
        /\ \/ m.users = d.users /\ m.sequence = d.sequence
           \/ \E id \in UserIds : /\ m.users = {id} /\ d.users = {}
                                  /\ d.automatic => /\ m.sequence = id
                                                    /\ d.sequence < id
    BY <1>6 DEF StepDone
  <2>2. ids = d.users \cup d.snapshots
    BY <1>3, <1>6
  <2>3. CASE m.users = d.users /\ m.sequence = d.sequence
    <3>1. ids \cup e.users = ids
      BY <2>3, <1>2, <1>3
    <3>2. e.users \subseteq ids /\ ids = e.users \cup e.snapshots
      BY <2>2, <2>3, <1>2, <1>3, <1>5
    <3>3. e.automatic => \A i \in ids : i <= e.sequence
      BY <2>1, <2>3, <1>2, <1>3
    <3>4. ~(e.version >= 29) /\ ~(e.version < 12)
      BY <1>6
    <3>5. QED
      BY <3>1, <3>2, <3>3, <3>4 DEF IdsKept
  <2>4. ASSUME NEW id \in UserIds, m.users = {id}, d.users = {},
               d.automatic => m.sequence = id /\ d.sequence < id
        PROVE  IdsKept(e, ids \cup e.users)
    <3>1. e.users = {id} /\ ids \cup e.users = e.users \cup e.snapshots
      BY <2>2, <2>4, <1>2, <1>5
    <3>2. ASSUME e.automatic, NEW i \in ids \cup e.users PROVE i <= e.sequence
      <4>1. e.sequence = id /\ d.sequence < id /\ d.automatic
        BY <3>2, <2>1, <2>4, <1>2
      <4>2. i \in ids => i <= d.sequence
        BY <4>1, <1>3
      <4>3. i \in Nat /\ (i \in ids \/ i = id)
        BY <3>1, <3>2, <1>4
      <4>4. QED
        BY <4>1, <4>2, <4>3, <1>1, <1>4
    <3>3. ~(e.version >= 29) /\ ~(e.version < 12)
      BY <1>6
    <3>4. QED
      BY <3>1, <3>2, <3>3 DEF IdsKept
  <2>5. QED
    BY <2>1, <2>3, <2>4
<1>7. CASE n = 29
  <2>1. m.users = d.users /\ m.automatic /\ m.sequence = Largest(d.users \cup d.snapshots)
    BY <1>7 DEF StepDone
  <2>2. ids = d.users \cup d.snapshots
    BY <1>3, <1>7
  <2>3. ids \cup e.users = ids /\ e.users \subseteq ids
    BY <2>1, <1>2, <1>3
  <2>4. \A i \in ids : i <= e.sequence
    BY <2>1, <2>2, <1>1, <1>2, LargestIs
  <2>5. ~(e.version < 29) /\ ~(e.version < 12)
    BY <1>7
  <2>6. QED
    BY <2>1, <2>3, <2>4, <2>5, <1>2 DEF IdsKept
<1>8. CASE n \notin {12, 29}
  <2>1. /\ e.users = d.users /\ e.snapshots = d.snapshots
        /\ e.sequence = d.sequence /\ e.automatic = d.automatic
    BY <1>2, <1>8 DEF StepDone, SameIds
  <2>2. ids \cup e.users = ids
    BY <2>1, <1>3
  <2>3. /\ n >= 29 => n - 1 >= 29
        /\ n < 29 => n - 1 < 29
        /\ n < 12 => n - 1 < 12
    BY <1>8
  <2>4. IdsKept(e, ids)
    BY <2>1, <2>3, <1>3, Zenon DEF IdsKept
  <2>5. QED
    BY <2>2, <2>4
<1>9. QED
  BY <1>6, <1>7, <1>8

LEMMA StepSound ==
    ASSUME NEW d \in MigDatabase, NEW m, NEW env, NEW n \in 2 .. 32, d.version = n - 1,
           StepDone(n, d, m, env), NEW e, e = [m EXCEPT !.version = n],
           NEW o, o.edited \/ env = o.env,
           NEW ids \in SUBSET UserIds, Sound(d, ids, o)
    PROVE  /\ e \in MigDatabase /\ Advances("step", d, e, o)
           /\ Sound(e, ids \cup e.users, o)
<1>1. m \in MigDatabase
  BY DEF StepDone
<1>2. /\ e \in MigDatabase /\ e.version = n
      /\ e.tables = m.tables /\ e.extra = m.extra
      /\ e.columns = m.columns /\ e.settings = m.settings
      /\ SameAdmins(m, e) /\ SameSecrets(m, e) /\ SameIds(m, e)
  <2>1. n \in 0 .. Head32 + 1
    BY DEF Head32
  <2>2. QED
    BY <1>1, <2>1, VersionSet
<1>3. /\ e.admins = m.admins /\ e.ownerIndex = m.ownerIndex
      /\ e.secret = m.secret /\ e.oldSessions = m.oldSessions
      /\ e.automatic = m.automatic
  BY <1>2 DEF SameAdmins, SameSecrets, SameIds
<1>4. Advances("step", d, e, o)
  <2>1. n = d.version + 1
    BY Numbers DEF Head32
  <2>2. /\ e.tables = d.tables /\ e.extra = d.extra
        /\ e.columns = d.columns /\ e.settings = d.settings
        /\ d.ownerIndex => e.ownerIndex
        /\ d.admins # <<>> => e.admins # <<>>
    BY <1>2, <1>3 DEF StepDone, SamePath
  <2>3. "step" \notin {"stamp_head", "stamp_one", "table", "tables", "extra", "columns",
                       "index", "settings", "owner", "credential"}
    OBVIOUS
  <2>4. QED
    BY <1>2, <2>1, <2>2, <2>3 DEF Advances
<1>5. /\ n >= 27 => n = 27 \/ (n > 27 /\ n - 1 >= 27)
      /\ n >= 28 => n = 28 \/ n - 1 >= 28
      /\ n >= 12 => n = 12 \/ n - 1 >= 12
      /\ n >= 16 => n = 16 \/ (n # 12 /\ n - 1 >= 16)
  OBVIOUS
<1>6. Cleaned(e, o)
  <2>1. /\ n - 1 >= 27 => d.secret # "plain"
        /\ n - 1 >= 28 => ~d.oldSessions
        /\ o.built => d.secret = "none" /\ ~d.oldSessions /\ d.automatic
    BY DEF Sound, Cleaned
  <2>2. o.built => m.automatic
    <3>1. CASE n \notin {12, 29}
      BY <2>1, <3>1 DEF StepDone, SameIds
    <3>2. CASE n \in {12, 29}
      BY <2>1, <3>2 DEF StepDone
    <3>3. QED
      BY <3>1, <3>2
  <2>3. QED
    BY <1>2, <1>3, <1>5, <2>1, <2>2, Zenon DEF Cleaned, StepDone
<1>7. OwnerKept(e, o)
  <2>1. SUFFICES ASSUME o.built, ~o.edited
                 PROVE  /\ OnlyOwner(e.admins, OwnerName(o.env))
                        /\ n >= 12 => e.admins # <<>>
                        /\ n >= 16 => HasPassword(e, o)
    BY <1>2, Zenon DEF OwnerKept
  <2>2. /\ OnlyOwner(d.admins, OwnerName(env))
        /\ n - 1 >= 12 => d.admins # <<>>
        /\ n - 1 >= 16 /\ Imports(env) => Passworded(d.admins)
        /\ env = o.env
    BY <2>1 DEF Sound, OwnerKept, HasPassword
  <2>3. OnlyOwner(e.admins, OwnerName(env)) /\ (n >= 12 => e.admins # <<>>)
    BY <1>3, <1>5, <2>2, Zenon DEF StepDone
  <2>4. n >= 16 /\ Imports(env) => Passworded(e.admins)
    BY <1>3, <1>5, <2>2, Zenon DEF StepDone
  <2>5. QED
    BY <2>2, <2>3, <2>4, Zenon DEF HasPassword
<1>8. IdsKept(e, ids \cup e.users)
  BY <1>1, <1>2, StampedIds DEF Sound
<1>9. Distinct(e.admins)
  BY <1>3 DEF StepDone
<1>10. QED
  BY <1>2, <1>4, <1>6, <1>7, <1>8, <1>9 DEF Sound

LEMMA StepKeeps == ASSUME MigInv, MigStep PROVE MigInv'
<1> DEFINE d == database
           n == d.version + 1
           env == migration.env
           m == Step(n, d, env)
           e == [m EXCEPT !.version = n]
<1>1. Runs("step", e)
  BY DEF MigStep
<1>2. d \in MigDatabase /\ env \in Environment /\ given \in SUBSET UserIds
  BY MigrationAssumption DEF MigInv, MigTypeOK
<1>3. d.version \in 1 .. 31
  <2>1. migration.at = "running" /\ migration.todo # <<>> /\ Head(migration.todo) = "step"
    BY <1>1 DEF Runs
  <2>2. QED
    BY <2>1, HeadMeans
<1>4. n \in 2 .. 32 /\ d.version = n - 1
  BY <1>3
<1>5. Sound(d, given, origin) /\ (origin.edited \/ env = origin.env)
  BY DEF MigInv, AdminsDiffer, Sound
<1> HIDE DEF n, m, d, env
<1>6. /\ Distinct(d.admins)
      /\ n = 12 => (d.automatic /\ d.users = {} => d.sequence < MaxUserId)
  <2>1. n = 12 => d.version < 12
    BY <1>4
  <2>2. QED
    BY <1>5, <2>1 DEF Sound, IdsKept
<1>7. StepDone(n, d, m, env)
  BY <1>2, <1>4, <1>6, StepsDo DEF m
<1> HIDE DEF e
<1>8. /\ e \in MigDatabase /\ Advances("step", d, e, origin)
      /\ Sound(e, given \cup e.users, origin)
  BY <1>2, <1>4, <1>5, <1>7, StepSound DEF e
<1>9. QED
  BY <1>1, <1>8, RunKeeps DEF d

\* A statement on the schema alone.
LeavesData(d, e) ==
    e.version = d.version /\ SameAdmins(d, e) /\ SameSecrets(d, e) /\ SameIds(d, e)

\* A stamp that moves by s, or no stamp at all, over the same data.
LEMMA Restamped ==
    ASSUME NEW d, NEW e, NEW o, NEW ids, Sound(d, ids, o),
           e.admins = d.admins, SameSecrets(d, e), SameIds(d, e),
           e.version >= 27 => d.secret # "plain",
           e.version >= 28 => ~d.oldSessions,
           e.version >= 29 => d.automatic,
           e.version < 29 => d.version < 29,
           e.version < 12 => d.version < 12,
           o.built /\ ~o.edited =>
              /\ e.version >= 12 => d.admins # <<>>
              /\ e.version >= 16 => HasPassword(d, o)
    PROVE  Sound(e, ids \cup e.users, o)
<1>1. ids \cup e.users = ids
  BY DEF Sound, IdsKept, SameIds
<1>2. Cleaned(e, o)
  BY Zenon DEF Sound, Cleaned, SameSecrets, SameIds
<1>3. IdsKept(e, ids)
  BY Zenon DEF Sound, IdsKept, SameIds
<1>4. OwnerKept(e, o)
  BY Zenon DEF Sound, OwnerKept, HasPassword
<1>5. QED
  BY <1>1, <1>2, <1>3, <1>4 DEF Sound

LEMMA MigFacts ==
    ASSUME MigInv
    PROVE  /\ database \in MigDatabase /\ given \in SUBSET UserIds
           /\ Sound(database, given, origin)
           /\ migration.env \in Environment
           /\ origin.edited \/ migration.env = origin.env
BY MigrationAssumption DEF MigInv, MigTypeOK, AdminsDiffer, Sound

LEMMA DataKept ==
    ASSUME MigInv, NEW s, NEW e \in MigDatabase, Runs(s, e), LeavesData(database, e),
           Advances(s, database, e, origin)
    PROVE  MigInv'
<1> DEFINE d == database
<1>1. /\ Sound(d, given, origin) /\ e.version = d.version
      /\ e.admins = d.admins /\ SameSecrets(d, e) /\ SameIds(d, e)
  BY MigFacts DEF LeavesData, SameAdmins
<1>2. /\ e.version >= 27 => d.secret # "plain"
      /\ e.version >= 28 => ~d.oldSessions
      /\ e.version >= 29 => d.automatic
      /\ origin.built /\ ~origin.edited =>
            /\ e.version >= 12 => d.admins # <<>>
            /\ e.version >= 16 => HasPassword(d, origin)
  BY <1>1, Zenon DEF Sound, Cleaned, IdsKept, OwnerKept
<1>3. Sound(e, given \cup e.users, origin)
  <2>1. /\ e.version < 29 => d.version < 29
        /\ e.version < 12 => d.version < 12
    BY <1>1
  <2> HIDE DEF d
  <2>2. QED
    BY <1>1, <1>2, <2>1, Restamped
<1>4. QED
  BY <1>3, RunKeeps

\* Statements that only move the path on.
LEMMA Idle ==
    ASSUME NEW s \in {"table", "tables", "extra", "columns", "index", "settings"},
           NEW d, NEW e, NEW o,
           e.version = d.version, e.admins = d.admins,
           e.tables = IF s = "table" THEN 1 ELSE IF s = "tables" THEN 2 ELSE d.tables,
           s = "extra" \/ d.extra => e.extra,
           s = "columns" \/ d.columns => e.columns,
           s = "index" \/ d.ownerIndex => e.ownerIndex,
           s = "settings" \/ d.settings => e.settings
    PROVE  Advances(s, d, e, o)
<1>1. s \notin {"stamp_head", "stamp_one", "step", "owner", "credential"}
  OBVIOUS
<1>2. e.version = IF s = "stamp_head" THEN Head32
                  ELSE IF s = "stamp_one" THEN 1
                  ELSE IF s = "step" THEN d.version + 1 ELSE d.version
  BY <1>1
<1>3. s # "stamp_head" /\ s # "owner" /\ s # "credential"
  BY <1>1
<1>4. QED
  BY <1>2, <1>3, Zenon DEF Advances

LEMMA SchemaStatements ==
    ASSUME NEW d \in MigDatabase, NEW o
    PROVE  /\ LET e == [d EXCEPT !.tables = 1] IN
              e \in MigDatabase /\ LeavesData(d, e) /\ Advances("table", d, e, o)
           /\ LET e == [d EXCEPT !.tables = 2] IN
              e \in MigDatabase /\ LeavesData(d, e) /\ Advances("tables", d, e, o)
           /\ LET e == [d EXCEPT !.extra = TRUE] IN
              e \in MigDatabase /\ LeavesData(d, e) /\ Advances("extra", d, e, o)
           /\ LET e == [d EXCEPT !.columns = TRUE] IN
              e \in MigDatabase /\ LeavesData(d, e) /\ Advances("columns", d, e, o)
           /\ LET e == [d EXCEPT !.settings = TRUE] IN
              e \in MigDatabase /\ LeavesData(d, e) /\ Advances("settings", d, e, o)
<1> DEFINE e1 == [d EXCEPT !.tables = 1]
           e2 == [d EXCEPT !.tables = 2]
           e3 == [d EXCEPT !.extra = TRUE]
           e4 == [d EXCEPT !.columns = TRUE]
           e5 == [d EXCEPT !.settings = TRUE]
<1>1. e1 \in MigDatabase /\ LeavesData(d, e1) /\ Advances("table", d, e1, o)
  <2>1. /\ e1 \in MigDatabase /\ e1.version = d.version
        /\ e1.tables = 1 /\ e1.extra = d.extra
        /\ e1.columns = d.columns /\ e1.settings = d.settings
        /\ SameAdmins(d, e1) /\ SameSecrets(d, e1) /\ SameIds(d, e1)
    <3>1. 1 \in 0 .. 2
      OBVIOUS
    <3>2. QED
      BY <3>1, TablesSet, Zenon
  <2> HIDE DEF e1
  <2>2. LeavesData(d, e1)
    BY <2>1 DEF LeavesData
  <2>3. Advances("table", d, e1, o)
    BY <2>1, Idle DEF SameAdmins
  <2>4. QED
    BY <2>1, <2>2, <2>3
<1>2. e2 \in MigDatabase /\ LeavesData(d, e2) /\ Advances("tables", d, e2, o)
  <2>1. /\ e2 \in MigDatabase /\ e2.version = d.version
        /\ e2.tables = 2 /\ e2.extra = d.extra
        /\ e2.columns = d.columns /\ e2.settings = d.settings
        /\ SameAdmins(d, e2) /\ SameSecrets(d, e2) /\ SameIds(d, e2)
    <3>1. 2 \in 0 .. 2
      OBVIOUS
    <3>2. QED
      BY <3>1, TablesSet, Zenon
  <2> HIDE DEF e2
  <2>2. LeavesData(d, e2)
    BY <2>1 DEF LeavesData
  <2>3. Advances("tables", d, e2, o)
    BY <2>1, Idle DEF SameAdmins
  <2>4. QED
    BY <2>1, <2>2, <2>3
<1>3. e3 \in MigDatabase /\ LeavesData(d, e3) /\ Advances("extra", d, e3, o)
  <2>1. /\ e3 \in MigDatabase /\ e3.version = d.version
        /\ e3.tables = d.tables /\ e3.extra
        /\ e3.columns = d.columns /\ e3.settings = d.settings
        /\ SameAdmins(d, e3) /\ SameSecrets(d, e3) /\ SameIds(d, e3)
    BY ExtraSet
  <2> HIDE DEF e3
  <2>2. LeavesData(d, e3)
    BY <2>1 DEF LeavesData
  <2>3. Advances("extra", d, e3, o)
    BY <2>1, Idle DEF SameAdmins
  <2>4. QED
    BY <2>1, <2>2, <2>3
<1>4. e4 \in MigDatabase /\ LeavesData(d, e4) /\ Advances("columns", d, e4, o)
  <2>1. /\ e4 \in MigDatabase /\ e4.version = d.version
        /\ e4.tables = d.tables /\ e4.extra = d.extra
        /\ e4.columns /\ e4.settings = d.settings
        /\ SameAdmins(d, e4) /\ SameSecrets(d, e4) /\ SameIds(d, e4)
    BY ColumnsSet
  <2> HIDE DEF e4
  <2>2. LeavesData(d, e4)
    BY <2>1 DEF LeavesData
  <2>3. Advances("columns", d, e4, o)
    BY <2>1, Idle DEF SameAdmins
  <2>4. QED
    BY <2>1, <2>2, <2>3
<1>5. e5 \in MigDatabase /\ LeavesData(d, e5) /\ Advances("settings", d, e5, o)
  <2>1. /\ e5 \in MigDatabase /\ e5.version = d.version
        /\ e5.tables = d.tables /\ e5.extra = d.extra
        /\ e5.columns = d.columns /\ e5.settings
        /\ SameAdmins(d, e5) /\ SameSecrets(d, e5) /\ SameIds(d, e5)
    BY SettingsSet
  <2> HIDE DEF e5
  <2>2. LeavesData(d, e5)
    BY <2>1 DEF LeavesData
  <2>3. Advances("settings", d, e5, o)
    BY <2>1, Idle DEF SameAdmins
  <2>4. QED
    BY <2>1, <2>2, <2>3
<1>6. QED
  BY <1>1, <1>2, <1>3, <1>4, <1>5

\* Each statement keeps the invariant.
LEMMA SchemaKeeps ==
    ASSUME MigInv, MigFirstTable \/ MigTables \/ MigExtra \/ MigColumns \/ MigSettings
    PROVE  MigInv'
<1>1. database \in MigDatabase
  BY MigFacts
<1>2. CASE MigFirstTable
  BY <1>1, <1>2, SchemaStatements, DataKept DEF MigFirstTable
<1>3. CASE MigTables
  BY <1>1, <1>3, SchemaStatements, DataKept DEF MigTables
<1>4. CASE MigExtra
  BY <1>1, <1>4, SchemaStatements, DataKept DEF MigExtra
<1>5. CASE MigColumns
  BY <1>1, <1>5, SchemaStatements, DataKept DEF MigColumns
<1>6. CASE MigSettings
  BY <1>1, <1>6, SchemaStatements, DataKept DEF MigSettings
<1>7. QED
  BY <1>2, <1>3, <1>4, <1>5, <1>6

LEMMA IndexKeeps == ASSUME MigInv, MigIndex PROVE MigInv'
<1> DEFINE d == database
           e == [d EXCEPT !.ownerIndex = TRUE]
<1>1. Runs("index", e)
  BY DEF MigIndex
<1>2. d \in MigDatabase /\ Sound(d, given, origin)
  BY MigFacts
<1>3. /\ e \in MigDatabase /\ e.admins = d.admins /\ e.ownerIndex
      /\ SamePath(d, e) /\ SameSecrets(d, e) /\ SameIds(d, e)
  BY <1>2, IndexSet
<1> HIDE DEF d, e
<1>4. Advances("index", d, e, origin)
  <2>1. /\ e.version = d.version /\ e.tables = d.tables /\ e.extra = d.extra
        /\ e.columns = d.columns /\ e.settings = d.settings
    BY <1>3 DEF SamePath
  <2>2. QED
    BY <1>3, <2>1, Idle
<1>5. Sound(e, given \cup e.users, origin)
  <2>1. e.version = d.version
    BY <1>3 DEF SamePath
  <2>2. /\ e.version >= 27 => d.secret # "plain"
        /\ e.version >= 28 => ~d.oldSessions
        /\ e.version >= 29 => d.automatic
        /\ origin.built /\ ~origin.edited =>
              /\ e.version >= 12 => d.admins # <<>>
              /\ e.version >= 16 => HasPassword(d, origin)
    BY <1>2, <2>1, Zenon DEF Sound, Cleaned, IdsKept, OwnerKept
  <2>3. /\ e.version < 29 => d.version < 29
        /\ e.version < 12 => d.version < 12
    BY <2>1
  <2>4. QED
    BY <1>2, <1>3, <2>2, <2>3, Restamped
<1>6. QED
  BY <1>1, <1>3, <1>4, <1>5, RunKeeps DEF d

LEMMA AdminsKeep ==
    ASSUME MigInv, NEW s \in {"owner", "credential"}, NEW e, Runs(s, e),
           OnlyAdmins(database, e, OwnerName(migration.env)),
           e.ownerIndex = database.ownerIndex,
           s = "owner" => e.admins # <<>>,
           (/\ s = "credential" /\ Imports(migration.env)
            /\ OnlyOwner(database.admins, OwnerName(migration.env)))
              => Passworded(e.admins)
    PROVE  MigInv'
<1> DEFINE d == database
           o == origin
           name == OwnerName(migration.env)
<1>1. /\ e \in MigDatabase /\ Distinct(e.admins)
      /\ SamePath(d, e) /\ SameSecrets(d, e) /\ SameIds(d, e)
      /\ d.admins # <<>> => e.admins # <<>>
      /\ OnlyOwner(d.admins, name) => OnlyOwner(e.admins, name)
  BY Zenon DEF OnlyAdmins
<1>2. /\ e.version = d.version /\ e.tables = d.tables /\ e.extra = d.extra
      /\ e.columns = d.columns /\ e.settings = d.settings
  BY <1>1 DEF SamePath
<1>3. o.built /\ d.version = 0
  <2>1. migration.at = "running" /\ migration.todo # <<>> /\ Head(migration.todo) = s
    BY DEF Runs
  <2>2. s \in {"owner", "first_user", "credential", "stamp_head"}
    OBVIOUS
  <2>3. QED
    BY <2>1, <2>2, HeadMeans
<1>4. Sound(d, given, o) /\ (o.edited \/ migration.env = o.env)
  BY MigFacts
<1>5. ~o.edited => OnlyOwner(d.admins, name) /\ migration.env = o.env
  BY <1>3, <1>4, Zenon DEF Sound, OwnerKept
<1> HIDE DEF d, o, name
<1>6. /\ s \notin {"stamp_head", "stamp_one", "step", "table", "tables", "extra",
                   "columns", "index", "settings"}
      /\ ~(d.version >= 12) /\ ~(d.version >= 16)
      /\ ~(d.version >= 27) /\ ~(d.version >= 28) /\ ~(d.version >= 29)
  BY <1>3
<1>7. s = "credential" /\ ~o.edited => HasPassword(e, o)
  BY <1>5, Zenon DEF HasPassword, name, d
<1>8. Advances(s, d, e, o)
  <2>1. /\ e.version = IF s = "stamp_head" THEN Head32
                       ELSE IF s = "stamp_one" THEN 1
                       ELSE IF s = "step" THEN d.version + 1 ELSE d.version
        /\ e.tables = IF s = "table" THEN 1 ELSE IF s = "tables" THEN 2 ELSE d.tables
    BY <1>2, <1>6
  <2>2. s # "extra" /\ s # "columns" /\ s # "index" /\ s # "settings" /\ s # "stamp_head"
    BY <1>6
  <2>3. e.ownerIndex = d.ownerIndex
    BY DEF d
  <2>4. QED
    BY <1>1, <1>2, <1>7, <2>1, <2>2, <2>3, Zenon DEF Advances
<1>9. Sound(e, given \cup e.users, o)
  <2>1. given \cup e.users = given
    BY <1>1, <1>4 DEF Sound, IdsKept, SameIds
  <2>2. Cleaned(e, o)
    BY <1>1, <1>2, <1>4, <1>6, Zenon DEF Sound, Cleaned, SameSecrets, SameIds
  <2>3. IdsKept(e, given)
    BY <1>1, <1>2, <1>4, Zenon DEF Sound, IdsKept, SameIds
  <2>4. OwnerKept(e, o)
    BY <1>1, <1>2, <1>5, <1>6, Zenon DEF OwnerKept, name
  <2>5. QED
    BY <1>1, <2>1, <2>2, <2>3, <2>4 DEF Sound
<1>10. QED
  BY <1>1, <1>8, <1>9, RunKeeps DEF d, o

LEMMA OwnerStatements == ASSUME MigInv, MigOwner \/ MigCredential PROVE MigInv'
<1>1. /\ database \in MigDatabase /\ Distinct(database.admins)
      /\ migration.env \in Environment
  BY MigFacts DEF Sound
<1>2. CASE MigOwner
  <2> DEFINE e == SeedOwner(database, migration.env)
  <2>1. Runs("owner", e)
    BY <1>2 DEF MigOwner
  <2>2. /\ OnlyAdmins(database, e, OwnerName(migration.env))
        /\ e.ownerIndex = database.ownerIndex /\ e.admins # <<>>
    BY <1>1, Seeded
  <2> HIDE DEF e
  <2> DEFINE s == "owner"
  <2>3. Runs(s, e) /\ s \in {"owner", "credential"} /\ s # "credential"
    BY <2>1
  <2> HIDE DEF s
  <2>4. QED
    BY <2>2, <2>3, AdminsKeep
<1>3. CASE MigCredential
  <2> DEFINE e == ImportOwner(database, migration.env)
  <2>1. Runs("credential", e)
    BY <1>3 DEF MigCredential
  <2>2. /\ OnlyAdmins(database, e, OwnerName(migration.env))
        /\ e.ownerIndex = database.ownerIndex
        /\ (/\ Imports(migration.env)
            /\ OnlyOwner(database.admins, OwnerName(migration.env)))
              => Passworded(e.admins)
    BY <1>1, Imported
  <2> HIDE DEF e
  <2> DEFINE s == "credential"
  <2>3. Runs(s, e) /\ s \in {"owner", "credential"} /\ s # "owner"
    BY <2>1
  <2> HIDE DEF s
  <2>4. QED
    BY <2>2, <2>3, AdminsKeep
<1>4. QED
  BY <1>2, <1>3

LEMMA FirstUserKeeps == ASSUME MigInv, MigFirstUser PROVE MigInv'
<1> DEFINE d == database
           e == SeedFirstUser(d)
           o == origin
<1>1. Runs("first_user", e)
  BY DEF MigFirstUser
<1>2. /\ d \in MigDatabase /\ Sound(d, given, o) /\ given \in SUBSET UserIds
      /\ d.sequence \in 0 .. MaxUserId
  BY MigFacts, DatabaseIs
<1>3. o.built /\ d.version = 0
  <2>1. /\ migration.at = "running" /\ migration.todo # <<>>
        /\ Head(migration.todo) = "first_user"
    BY <1>1 DEF Runs
  <2>2. QED
    BY <2>1, HeadMeans
<1> HIDE DEF d, o
<1>4. /\ d.automatic /\ given = d.users \cup d.snapshots /\ d.users \subseteq given
      /\ \A i \in given : i <= d.sequence
      /\ d.users = {} => d.sequence < MaxUserId
  BY <1>2, <1>3 DEF Sound, Cleaned, IdsKept
<1>5. /\ e \in MigDatabase /\ e.snapshots = d.snapshots /\ e.automatic = d.automatic
      /\ SamePath(d, e) /\ SameAdmins(d, e) /\ SameSecrets(d, e)
      /\ \/ e.users = d.users /\ e.sequence = d.sequence
         \/ \E id \in UserIds : /\ e.users = {id} /\ d.users = {}
                                /\ d.automatic => /\ e.sequence = id
                                                  /\ d.sequence < id
  BY <1>2, <1>4, FirstUserSeeded
<1> HIDE DEF e
<1>6. /\ e.version = d.version /\ e.tables = d.tables /\ e.extra = d.extra
      /\ e.columns = d.columns /\ e.settings = d.settings
      /\ e.admins = d.admins /\ e.ownerIndex = d.ownerIndex
  BY <1>5 DEF SamePath, SameAdmins
<1>7. Advances("first_user", d, e, o)
  <2>1. "first_user" \notin {"stamp_head", "stamp_one", "step", "table", "tables", "extra",
                             "columns", "index", "settings", "owner", "credential"}
    OBVIOUS
  <2>2. QED
    BY <1>6, <2>1 DEF Advances
<1>8. IdsKept(e, given \cup e.users)
  <2>1. CASE e.users = d.users /\ e.sequence = d.sequence
    <3>1. given \cup e.users = given /\ e.users \subseteq given
          /\ given = e.users \cup e.snapshots /\ e.automatic
      BY <2>1, <1>4, <1>5
    <3>2. QED
      BY <2>1, <3>1, <1>4 DEF IdsKept
  <2>2. ASSUME NEW id \in UserIds, e.users = {id}, d.users = {},
               e.sequence = id, d.sequence < id
        PROVE  IdsKept(e, given \cup e.users)
    <3>1. given \cup e.users = e.users \cup e.snapshots /\ e.automatic /\ e.users # {}
      BY <2>2, <1>4, <1>5
    <3>2. ASSUME NEW i \in given \cup e.users PROVE i <= e.sequence
      <4>1. i \in given => i <= d.sequence
        BY <1>4
      <4>2. i \in Nat /\ id \in Nat /\ (i \in given \/ i = id)
        BY <3>2, <2>2, <1>2, IdsAre
      <4>3. QED
        BY <4>1, <4>2, <2>2, <1>2, IdsAre
    <3>3. QED
      BY <3>1, <3>2 DEF IdsKept
  <2>3. QED
    BY <2>1, <2>2, <1>4, <1>5
<1>9. Cleaned(e, o) /\ OwnerKept(e, o)
  <2>1. /\ e.secret = d.secret /\ e.oldSessions = d.oldSessions
        /\ e.automatic = d.automatic
    BY <1>5 DEF SameSecrets
  <2>2. Cleaned(e, o)
    BY <1>2, <1>6, <2>1, Zenon DEF Sound, Cleaned
  <2>3. OwnerKept(e, o)
    BY <1>2, <1>6, Zenon DEF Sound, OwnerKept, HasPassword
  <2>4. QED
    BY <2>2, <2>3
<1>10. Sound(e, given \cup e.users, o)
  BY <1>2, <1>6, <1>8, <1>9 DEF Sound
<1>11. QED
  BY <1>1, <1>5, <1>7, <1>10, RunKeeps DEF d, o

LEMMA StampsKeep == ASSUME MigInv, MigStampHead \/ MigStampOne PROVE MigInv'
<1> DEFINE d == database
           o == origin
<1>1. d \in MigDatabase /\ Sound(d, given, o)
  BY MigFacts
<1>2. CASE MigStampHead
  <2> DEFINE e == [d EXCEPT !.version = Head32]
             s == Head(migration.todo)
  <2>1. Runs("stamp_head", e) /\ s = "stamp_head"
    BY <1>2 DEF MigStampHead, Runs
  <2>2. /\ o.built /\ d.version = 0
        /\ ~o.edited => d.admins # <<>> /\ HasPassword(d, o)
    <3>1. migration.at = "running" /\ migration.todo # <<>>
      BY <2>1 DEF Runs
    <3>2. /\ s \in {"owner", "first_user", "credential", "stamp_head"} =>
                o.built /\ d.version = 0
          /\ s = "stamp_head" => /\ d.tables = 2
                                 /\ ~o.edited => d.admins # <<>> /\ HasPassword(d, o)
      BY <3>1, HeadMeans
    <3>3. s \in {"owner", "first_user", "credential", "stamp_head"}
      BY <2>1
    <3>4. QED
      BY <2>1, <3>2, <3>3
  <2>3. /\ e \in MigDatabase /\ e.version = Head32
        /\ e.tables = d.tables /\ e.extra = d.extra
        /\ e.columns = d.columns /\ e.settings = d.settings
        /\ SameAdmins(d, e) /\ SameSecrets(d, e) /\ SameIds(d, e)
    <3>1. Head32 \in 0 .. Head32 + 1
      BY DEF Head32
    <3>2. QED
      BY <1>1, <3>1, VersionSet, Zenon
  <2> HIDE DEF e, d, o, s
  <2>4. e.admins = d.admins /\ e.ownerIndex = d.ownerIndex
    BY <2>3 DEF SameAdmins
  <2>5. Advances("stamp_head", d, e, o)
    <3>1. "stamp_head" \notin {"stamp_one", "step", "table", "tables", "extra",
                               "columns", "index", "settings", "owner", "credential"}
      OBVIOUS
    <3>2. QED
      BY <2>3, <2>4, <3>1 DEF Advances, HasPassword
  <2>6. d.secret = "none" /\ ~d.oldSessions /\ d.automatic
    BY <1>1, <2>2 DEF Sound, Cleaned
  <2>7. d.secret # "plain" /\ ~(Head32 < 29) /\ ~(Head32 < 12)
    BY <2>6 DEF Head32
  <2>8. Sound(e, given \cup e.users, o)
    BY <1>1, <2>2, <2>3, <2>4, <2>6, <2>7, Restamped
  <2>9. QED
    BY <2>1, <2>3, <2>5, <2>8, RunKeeps DEF d, o
<1>3. CASE MigStampOne
  <2> DEFINE e == [d EXCEPT !.version = 1]
  <2>1. Runs("stamp_one", e)
    BY <1>3 DEF MigStampOne
  <2>2. d.version = 0
    <3>1. /\ migration.at = "running" /\ migration.todo # <<>>
          /\ Head(migration.todo) = "stamp_one"
      BY <2>1 DEF Runs
    <3>2. QED
      BY <3>1, HeadMeans
  <2>3. /\ e \in MigDatabase /\ e.version = 1
        /\ e.tables = d.tables /\ e.extra = d.extra
        /\ e.columns = d.columns /\ e.settings = d.settings
        /\ SameAdmins(d, e) /\ SameSecrets(d, e) /\ SameIds(d, e)
    <3>1. 1 \in 0 .. Head32 + 1
      BY DEF Head32
    <3>2. QED
      BY <1>1, <3>1, VersionSet, Zenon
  <2> HIDE DEF e, d, o
  <2>4. e.admins = d.admins /\ e.ownerIndex = d.ownerIndex
    BY <2>3 DEF SameAdmins
  <2>5. Advances("stamp_one", d, e, o)
    <3>1. "stamp_one" \notin {"stamp_head", "step", "table", "tables", "extra",
                              "columns", "index", "settings", "owner", "credential"}
      OBVIOUS
    <3>2. QED
      BY <2>3, <2>4, <3>1 DEF Advances
  <2>6. /\ ~(e.version >= 12) /\ ~(e.version >= 16) /\ ~(e.version >= 27)
        /\ ~(e.version >= 28) /\ ~(e.version >= 29)
        /\ d.version < 12 /\ d.version < 29
    BY <2>2, <2>3
  <2>8. Sound(e, given \cup e.users, o)
    BY <1>1, <2>3, <2>4, <2>6, Restamped
  <2>9. QED
    BY <2>1, <2>3, <2>5, <2>8, RunKeeps DEF d, o
<1>4. QED
  BY <1>2, <1>3

-----------------------------------------------------------------------------
\* A start that begins, ends or dies, and a panel that is up.
LEMMA StartedAs ==
    ASSUME MigInv, NEW phase \in {"down", "running", "refused"}, NEW t \in Seq(Statements),
           migration' = [at |-> phase, todo |-> t, env |-> dotenv],
           database' = database, dotenv' = dotenv, given' = given, origin' = origin,
           phase = "running" => \/ Building(t, database, origin)
                             \/ \E k \in 0 .. 31 : Upgrading(t, database, k),
           phase = "refused" => database.version = Head32 + 1
    PROVE  MigInv'
<1>1. dotenv \in Environments /\ (~origin.edited => dotenv = origin.env)
  BY DEF MigInv, MigTypeOK
<1>2. /\ migration' \in [at : {"down", "running", "refused", "up"}, todo : Seq(Statements),
                         env : Environments]
      /\ migration'.at = phase /\ migration'.env = dotenv /\ migration'.todo = t
  BY <1>1
<1>3. UnderWay'
  <2>1. phase # "up" /\ (database.tables = 0 => origin.built /\ database.version = 0)
    BY DEF MigInv, UnderWay
  <2>2. QED
    BY <1>2, <2>1 DEF UnderWay
<1>4. QED
  BY <1>1, <1>2, <1>3 DEF MigInv, MigTypeOK

LEMMA StartKeeps == ASSUME MigInv, MigStart PROVE MigInv'
<1> DEFINE d == database
           phase == IF d.version > Head32 THEN "refused" ELSE "running"
           t == IF d.tables = 0 THEN FreshBuild
                ELSE IF d.version > Head32 THEN <<>>
                ELSE IF d.version = 0 THEN Adoption \o UpgradePath(1)
                ELSE UpgradePath(d.version)
<1>1. /\ database' = database /\ dotenv' = dotenv /\ given' = given /\ origin' = origin
      /\ migration' = [at |-> phase, todo |-> t, env |-> dotenv]
  BY DEF MigStart
<1>2. /\ d.version \in 0 .. 33 /\ d.tables \in 0 .. 2
      /\ d.tables = 0 => origin.built /\ d.version = 0
  BY Numbers DEF MigInv, MigTypeOK, UnderWay, Head32
<1>3. /\ d.version > 32 => phase = "refused"
      /\ d.version <= 32 => phase = "running"
  BY <1>2 DEF Head32
<1>4. /\ d.tables = 0 => t = FreshBuild
      /\ d.tables # 0 /\ d.version > 32 => t = <<>>
      /\ d.tables # 0 /\ d.version = 0 => t = Adoption \o UpgradePath(1)
      /\ d.tables # 0 /\ d.version \in 1 .. 32 => t = UpgradePath(d.version)
  <2>1. /\ d.version > 32 <=> d.version > Head32
        /\ d.version = 0 => ~(d.version > Head32)
        /\ d.version \in 1 .. 32 => ~(d.version > Head32) /\ d.version # 0
    BY <1>2 DEF Head32
  <2> HIDE DEF d
  <2>2. QED
    BY <2>1, Zenon
<1>5. phase \in {"down", "running", "refused"}
  OBVIOUS
<1> HIDE DEF phase, t, d
<1>6. CASE d.tables = 0
  <2>1. t = FreshBuild /\ phase = "running" /\ phase # "refused"
    <3>1. d.version <= 32
      BY <1>2, <1>6
    <3>2. QED
      BY <3>1, <1>3, <1>4, <1>6
  <2>2. /\ t \in Seq(Statements) /\ Len(t) = 10
        /\ \A i \in 1 .. 10 : FreshItem(10 - i, t[i])
    BY <2>1, FreshPath
  <2>3. Building(t, d, origin)
    <3>1. d.version = 0 /\ origin.built
      BY <1>2, <1>6
    <3>2. QED
      BY <2>2, <3>1 DEF Building
  <2>4. QED
    BY <2>1, <2>2, <2>3, <1>1, <1>5, StartedAs DEF d
<1>7. CASE d.tables # 0 /\ d.version > 32
  <2>1. t = <<>> /\ phase = "refused" /\ phase # "running" /\ d.version = Head32 + 1
    <3>1. d.version = Head32 + 1 /\ "refused" # "running"
      BY <1>2, <1>7 DEF Head32
    <3>2. t = <<>> /\ phase = "refused"
      BY <1>3, <1>4, <1>7, Zenon
    <3>3. QED
      BY <3>1, <3>2, Zenon
  <2>2. t \in Seq(Statements)
    BY <2>1
  <2>3. QED
    BY <2>1, <2>2, <1>1, <1>5, StartedAs DEF d
<1>8. CASE d.tables # 0 /\ d.version = 0
  <2>1. t = Adoption \o UpgradePath(1) /\ phase = "running" /\ phase # "refused"
    <3>1. d.version <= 32
      BY <1>8
    <3>2. QED
      BY <3>1, <1>3, <1>4, <1>8
  <2>2. /\ t \in Seq(Statements) /\ Len(t) = 41
        /\ \A i \in 1 .. 41 : UpgradeItem(31, 41 - i, t[i])
    BY <2>1, AdoptionPath
  <2> DEFINE k == 31
  <2>3. k = 31
    OBVIOUS
  <2> HIDE DEF k
  <2>4. Upgrading(t, d, k)
    <3>1. \A i \in 1 .. 41 : UpgradeItem(k, 41 - i, t[i])
      BY <2>2, <2>3
    <3>2. ASSUME NEW n, n = 41
          PROVE  /\ n <= IF k = 31 THEN 41 ELSE 5 + k
                 /\ n >= 6 + k /\ ~(n <= 4 + k) /\ ~(n <= 3 + k)
                 /\ ~(n <= 2) /\ ~(n <= 1) /\ n # 0
      BY <2>3, <3>2
    <3>3. d.tables > 0 /\ d.version = 0
      BY <1>2, <1>8
    <3>4. QED
      BY <2>2, <3>1, <3>2, <3>3, Zenon DEF Upgrading
  <2>5. k \in 0 .. 31
    BY <2>3
  <2>6. \E j \in 0 .. 31 : Upgrading(t, d, j)
    BY <2>4, <2>5
  <2>7. QED
    BY <2>1, <2>2, <2>6, <1>1, <1>5, StartedAs DEF d
<1>9. CASE d.tables # 0 /\ d.version \in 1 .. 32
  <2> DEFINE v == d.version
             k == 32 - v
  <2>1. t = UpgradePath(v) /\ phase = "running" /\ phase # "refused"
    <3>1. d.version <= 32
      BY <1>9
    <3>2. QED
      BY <3>1, <1>3, <1>4, <1>9
  <2>2. /\ t \in Seq(Statements) /\ Len(t) = 37 - v
        /\ \A i \in 1 .. 37 - v : UpgradeItem(32 - v, 37 - v - i, t[i])
    BY <2>1, <1>9, UpgradePathIs
  <2>3. v \in 1 .. 32 /\ k \in 0 .. 31 /\ 37 - v = 5 + k /\ 32 - k = v /\ d.version = v
    BY <1>9
  <2> HIDE DEF v
  <2>4. Upgrading(t, d, k)
    <3>1. Len(t) = 5 + k
      BY <2>2, <2>3
    <3>2. \A i \in 1 .. 5 + k : UpgradeItem(k, 5 + k - i, t[i])
      BY <2>2, <2>3
    <3> HIDE DEF k
    <3>3. QED
      BY <3>1, <3>2, <2>3, <1>2, <1>9 DEF Upgrading, Head32
  <2>5. \E j \in 0 .. 31 : Upgrading(t, d, j)
    BY <2>3, <2>4
  <2>6. QED
    BY <2>1, <2>2, <2>5, <1>1, <1>5, StartedAs DEF d
<1>10. QED
  BY <1>2, <1>6, <1>7, <1>8, <1>9

LEMMA RestKeeps == ASSUME MigInv, MigFails \/ MigBreaks \/ MigKilled PROVE MigInv'
<1> DEFINE phase == "down"
<1>1. /\ database' = database /\ dotenv' = dotenv /\ given' = given /\ origin' = origin
      /\ migration' = [at |-> phase, todo |-> <<>>, env |-> dotenv]
  BY DEF MigFails, MigBreaks, MigKilled, MigIdle
<1>2. phase \in {"down", "running", "refused"} /\ phase # "running" /\ phase # "refused"
      /\ <<>> \in Seq(Statements)
  OBVIOUS
<1> HIDE DEF phase
<1>3. QED
  BY <1>1, <1>2, StartedAs

LEMMA DoneKeeps == ASSUME MigInv, MigDone PROVE MigInv'
<1> DEFINE d == database
<1>1. /\ database' = database /\ dotenv' = dotenv /\ given' = given /\ origin' = origin
      /\ migration.at = "running" /\ migration.todo = <<>>
      /\ migration' = [migration EXCEPT !.at = "up"]
  BY DEF MigDone
<1>2. migration \in [at : {"down", "running", "refused", "up"}, todo : Seq(Statements),
                     env : Environments]
  BY DEF MigInv, UnderWay
<1>3. /\ migration' \in [at : {"down", "running", "refused", "up"}, todo : Seq(Statements),
                         env : Environments]
      /\ migration'.at = "up" /\ migration'.env = migration.env
  BY <1>1, <1>2
<1>4. /\ d.version = Head32 /\ d.tables = 2
      /\ d.extra /\ d.columns /\ d.ownerIndex /\ d.settings
  <2>1. Building(<<>>, d, origin) \/ \E k \in 0 .. 31 : Upgrading(<<>>, d, k)
    BY <1>1 DEF MigInv, UnderWay
  <2>2. CASE Building(<<>>, d, origin)
    <3>1. Len(<<>>) = 0 /\ 0 <= 8 /\ 0 <= 7 /\ 0 <= 6 /\ 0 <= 5 /\ 0 <= 4
      OBVIOUS
    <3>2. QED
      BY <2>2, <3>1, Zenon DEF Building
  <2>3. ASSUME NEW k \in 0 .. 31, Upgrading(<<>>, d, k)
        PROVE  /\ d.version = Head32 /\ d.tables = 2
               /\ d.extra /\ d.columns /\ d.ownerIndex /\ d.settings
    <3>1. /\ Len(<<>>) = 0 /\ 0 <= 4 + k /\ 0 <= 3 + k /\ 0 <= 2 /\ 0 <= 1
          /\ ~(0 >= 6 + k) /\ ~(0 >= 3 + k) /\ ~(0 >= 3)
      OBVIOUS
    <3>2. QED
      BY <2>3, <3>1, Zenon DEF Upgrading
  <2>4. QED
    BY <2>1, <2>2, <2>3
<1>5. UnderWay'
  BY <1>1, <1>3, <1>4 DEF MigInv, UnderWay
<1>6. QED
  BY <1>1, <1>3, <1>5 DEF MigInv, MigTypeOK

LEMMA EnvironmentKeeps == ASSUME MigInv, MigEnvironment PROVE MigInv'
<1>1. /\ database' = database /\ given' = given /\ migration.at = "down"
      /\ dotenv' \in Environments
      /\ migration' = [migration EXCEPT !.env = dotenv']
      /\ origin' = [origin EXCEPT !.edited = TRUE]
  BY DEF MigEnvironment
<1>2. /\ migration \in [at : {"down", "running", "refused", "up"}, todo : Seq(Statements),
                        env : Environments]
      /\ origin \in [built : BOOLEAN, env : Environments, edited : BOOLEAN]
  BY DEF MigInv, MigTypeOK, UnderWay
<1>3. /\ migration' \in [at : {"down", "running", "refused", "up"}, todo : Seq(Statements),
                         env : Environments]
      /\ migration'.at = "down" /\ migration'.env = dotenv'
      /\ origin' \in [built : BOOLEAN, env : Environments, edited : BOOLEAN]
      /\ origin'.built = origin.built /\ origin'.edited
  BY <1>1, <1>2
<1>4. UnderWay'
  BY <1>1, <1>3 DEF MigInv, UnderWay
<1>5. Cleaned(database, origin') /\ OwnerKept(database, origin')
  <2>1. Cleaned(database, origin)
    BY DEF MigInv
  <2>2. Cleaned(database, origin')
    BY <1>3, <2>1, Zenon DEF Cleaned
  <2>3. OwnerKept(database, origin')
    BY <1>3, Zenon DEF OwnerKept
  <2>4. QED
    BY <2>2, <2>3
<1>6. QED
  BY <1>1, <1>3, <1>4, <1>5 DEF MigInv, MigTypeOK

LEMMA UpIs ==
    ASSUME MigInv, migration.at = "up"
    PROVE  /\ database.version = Head32 /\ database.tables = 2
           /\ database.extra /\ database.columns /\ database.ownerIndex
           /\ database.settings /\ database.automatic
           /\ \A i \in given : i <= database.sequence
           /\ database.users \subseteq given
<1>1. /\ database.version = Head32 /\ database.tables = 2
      /\ database.extra /\ database.columns /\ database.ownerIndex
      /\ database.settings
  BY DEF MigInv, UnderWay
<1>2. database.version >= 29
  BY <1>1 DEF Head32
<1>3. QED
  BY <1>1, <1>2, Zenon DEF MigInv, IdsKept

\* The panel that is up changes the users, and never the rest.
LEMMA UsersChange ==
    ASSUME MigInv, migration.at = "up", NEW e \in MigDatabase,
           SamePath(database, e), SameAdmins(database, e), SameSecrets(database, e),
           e.automatic = database.automatic, NEW ids \in SUBSET UserIds,
           e.users \subseteq ids, \A i \in ids : i <= e.sequence,
           database' = e, given' = ids,
           dotenv' = dotenv, migration' = migration, origin' = origin
    PROVE  MigInv'
<1> DEFINE d == database
<1>1. /\ e.version = d.version /\ e.tables = d.tables /\ e.extra = d.extra
      /\ e.columns = d.columns /\ e.settings = d.settings
      /\ e.admins = d.admins /\ e.ownerIndex = d.ownerIndex
      /\ e.secret = d.secret /\ e.oldSessions = d.oldSessions
      /\ e.automatic /\ e.version = Head32 /\ d.tables = 2
  BY UpIs DEF SamePath, SameAdmins, SameSecrets
<1>2. UnderWay'
  <2>1. migration.at # "running" /\ 2 # 0
    OBVIOUS
  <2>2. QED
    BY <1>1, <2>1 DEF MigInv, UnderWay
<1>3. AdminsDiffer(e)
  <2>1. Owners(e) = Owners(d)
    BY <1>1, Zenon DEF Owners, IsOwner
  <2>2. QED
    BY <1>1, <2>1 DEF MigInv, AdminsDiffer
<1>4. Cleaned(e, origin)
  <2>1. Cleaned(d, origin)
    BY DEF MigInv
  <2> HIDE DEF d
  <2>2. QED
    BY <1>1, <2>1, Zenon DEF Cleaned
<1>5. IdsKept(e, ids)
  <2>1. ~(e.version < 29) /\ ~(e.version < 12)
    BY <1>1 DEF Head32
  <2>2. QED
    BY <1>1, <2>1 DEF IdsKept
<1>6. OwnerKept(e, origin)
  <2>1. OwnerKept(d, origin)
    BY DEF MigInv
  <2> HIDE DEF d
  <2>2. QED
    BY <1>1, <2>1, Zenon DEF OwnerKept, HasPassword
<1>7. QED
  BY <1>2, <1>3, <1>4, <1>5, <1>6 DEF MigInv, MigTypeOK

LEMMA SnapshotsSet ==
    ASSUME NEW d \in MigDatabase, NEW u \in SUBSET UserIds, NEW q \in SUBSET UserIds
    PROVE  LET e == [d EXCEPT !.users = u, !.snapshots = q] IN
           /\ e \in MigDatabase /\ e.users = u /\ e.sequence = d.sequence
           /\ e.snapshots = q /\ e.automatic = d.automatic
           /\ SamePath(d, e) /\ SameAdmins(d, e) /\ SameSecrets(d, e)
BY DatabaseIs DEF SamePath, SameAdmins, SameSecrets

LEMMA CreatedKeeps ==
    ASSUME MigInv, MigUserCreated
    PROVE  MigInv' /\ NextId \notin given
<1> DEFINE d == database
           id == NextId
           u == d.users \cup {id}
           e == [d EXCEPT !.users = u, !.sequence = id]
<1>1. /\ migration.at = "up" /\ id \in UserIds /\ database' = e
      /\ given' = given \cup {id}
      /\ dotenv' = dotenv /\ migration' = migration /\ origin' = origin
  BY DEF MigUserCreated
<1>2. /\ d \in MigDatabase /\ given \in SUBSET UserIds
      /\ d.users \subseteq given /\ \A i \in given : i <= d.sequence
      /\ d.users \in SUBSET UserIds /\ d.sequence \in 0 .. MaxUserId
  BY <1>1, MigFacts, UpIs, DatabaseIs
<1>3. id = d.sequence + 1
  BY DEF NextId
<1> HIDE DEF id, d
<1>4. u \in SUBSET UserIds /\ id \in 0 .. MaxUserId
  BY <1>1, <1>2, IdsAre
<1> HIDE DEF u
<1>5. /\ e \in MigDatabase /\ e.users = u /\ e.sequence = id
      /\ e.snapshots = d.snapshots /\ e.automatic = d.automatic
      /\ SamePath(d, e) /\ SameAdmins(d, e) /\ SameSecrets(d, e)
  BY <1>2, <1>4, UsersSet
<1> HIDE DEF e
<1>6. given \cup {id} \in SUBSET UserIds /\ e.users \subseteq given \cup {id}
  BY <1>1, <1>2, <1>5 DEF u
<1>7. \A i \in given \cup {id} : i <= e.sequence
  <2>1. ASSUME NEW i \in given PROVE i <= id
    BY <1>2, <1>3, IdsAre
  <2>2. id <= id
    BY <1>2, <1>3, IdsAre
  <2>3. QED
    BY <1>5, <2>1, <2>2
<1>8. MigInv'
  BY <1>1, <1>5, <1>6, <1>7, UsersChange DEF d
<1>9. id \notin given
  BY <1>2, <1>3, IdsAre
<1>10. QED
  BY <1>8, <1>9 DEF id

LEMMA DeletedKeeps == ASSUME MigInv, MigUserDeleted PROVE MigInv'
<1>0. PICK i \in database.users :
         \E kept \in {{}, {i}} :
            database' = [database EXCEPT !.users = @ \ {i}, !.snapshots = @ \cup kept]
  BY Zenon DEF MigUserDeleted
<1>1. PICK kept \in {{}, {i}} :
         database' = [database EXCEPT !.users = @ \ {i}, !.snapshots = @ \cup kept]
  BY <1>0, Zenon
<1> DEFINE d == database
           u == d.users \ {i}
           q == d.snapshots \cup kept
           e == [d EXCEPT !.users = u, !.snapshots = q]
<1>2. /\ migration.at = "up" /\ database' = e /\ given' = given
      /\ dotenv' = dotenv /\ migration' = migration /\ origin' = origin
  BY <1>1 DEF MigUserDeleted
<1>3. /\ d \in MigDatabase /\ given \in SUBSET UserIds
      /\ d.users \subseteq given /\ \A j \in given : j <= d.sequence
      /\ d.users \in SUBSET UserIds /\ d.snapshots \in SUBSET UserIds
  BY <1>2, MigFacts, UpIs, DatabaseIs
<1> HIDE DEF d
<1>4. u \in SUBSET UserIds /\ q \in SUBSET UserIds /\ u \subseteq given
  BY <1>1, <1>3 DEF d
<1> HIDE DEF u, q
<1>5. /\ e \in MigDatabase /\ e.users = u /\ e.sequence = d.sequence
      /\ e.snapshots = q /\ e.automatic = d.automatic
      /\ SamePath(d, e) /\ SameAdmins(d, e) /\ SameSecrets(d, e)
  BY <1>3, <1>4, SnapshotsSet
<1> HIDE DEF e
<1>6. QED
  BY <1>2, <1>3, <1>4, <1>5, UsersChange DEF d

LEMMA MigStepKeeps == MigInv /\ [MigNext]_migVars => MigInv'
<1> SUFFICES ASSUME MigInv, [MigNext]_migVars PROVE MigInv'
  OBVIOUS
<1>1. CASE MigWork
  <2>1. CASE MigStart
    BY <2>1, StartKeeps
  <2>2. CASE MigFirstTable \/ MigTables \/ MigExtra \/ MigColumns \/ MigSettings
    BY <2>2, SchemaKeeps
  <2>3. CASE MigIndex
    BY <2>3, IndexKeeps
  <2>4. CASE MigOwner \/ MigCredential
    BY <2>4, OwnerStatements
  <2>5. CASE MigFirstUser
    BY <2>5, FirstUserKeeps
  <2>6. CASE MigStampHead \/ MigStampOne
    BY <2>6, StampsKeep
  <2>7. CASE MigStep
    BY <2>7, StepKeeps
  <2>8. CASE MigFails
    BY <2>8, RestKeeps
  <2>9. CASE MigDone
    BY <2>9, DoneKeeps
  <2>10. QED
    BY <1>1, <2>1, <2>2, <2>3, <2>4, <2>5, <2>6, <2>7, <2>8, <2>9 DEF MigWork
<1>2. CASE MigBreaks \/ MigKilled
  BY <1>2, RestKeeps
<1>3. CASE MigEnvironment
  BY <1>3, EnvironmentKeeps
<1>4. CASE MigUserCreated
  BY <1>4, CreatedKeeps
<1>5. CASE MigUserDeleted
  BY <1>5, DeletedKeeps
<1>6. CASE UNCHANGED migVars
  BY <1>6 DEF migVars, MigInv, MigTypeOK, UnderWay
<1>7. QED
  BY <1>1, <1>2, <1>3, <1>4, <1>5, <1>6 DEF MigNext

LEMMA EmptyListIs == <<>> \in AdminLists /\ DOMAIN <<>> = {} /\ Distinct(<<>>)
<1>1. DOMAIN <<>> = {}
  OBVIOUS
<1>2. <<>> \in [1 .. 0 -> Admin]
  OBVIOUS
<1>3. 0 \in 0 .. 3
  OBVIOUS
<1>4. QED
  BY <1>1, <1>2, <1>3 DEF AdminLists, Distinct

LEMMA EmptyIs ==
    /\ EmptyDatabase \in MigDatabase /\ EmptyDatabase.tables = 0
    /\ EmptyDatabase.version = 0 /\ EmptyDatabase.admins = <<>>
    /\ ~EmptyDatabase.ownerIndex /\ EmptyDatabase.secret = "none"
    /\ ~EmptyDatabase.oldSessions /\ EmptyDatabase.automatic
    /\ EmptyDatabase.users = {} /\ EmptyDatabase.snapshots = {}
    /\ EmptyDatabase.sequence = 0
<1>1. <<>> \in AdminLists
  BY EmptyListIs
<1>2. 0 \in 0 .. Head32 + 1 /\ 0 \in 0 .. 2 /\ 0 \in 0 .. MaxUserId
  BY IdsAre DEF Head32
<1>3. {} \in SUBSET UserIds /\ "none" \in {"none", "plain", "fernet", "v2"}
  OBVIOUS
<1>4. EmptyDatabase \in MigDatabase
  BY <1>1, <1>2, <1>3, DatabaseIs DEF EmptyDatabase
<1>5. QED
  BY <1>4 DEF EmptyDatabase

\* A database nothing has run on yet, and no start.
LEMMA MigStarts == MigInit => MigInv
<1> SUFFICES ASSUME MigInit PROVE MigInv
  OBVIOUS
<1> DEFINE d == database
<1>1. /\ dotenv \in Environments
      /\ migration = [at |-> "down", todo |-> <<>>, env |-> dotenv]
      /\ given = d.users \cup d.snapshots
      /\ origin = [built |-> d = EmptyDatabase, env |-> dotenv, edited |-> FALSE]
      /\ d \in Legacy \cup {EmptyDatabase}
  BY DEF MigInit, MigIdle
<1>2. /\ migration.at = "down" /\ migration.todo = <<>> /\ migration.env = dotenv
      /\ origin.built = (d = EmptyDatabase) /\ origin.env = dotenv /\ ~origin.edited
      /\ origin \in [built : BOOLEAN, env : Environments, edited : BOOLEAN]
      /\ migration \in [at : {"down", "running", "refused", "up"}, todo : Seq(Statements),
                        env : Environments]
  BY <1>1
<1>3. d \in MigDatabase
  BY <1>1, EmptyIs, MigrationAssumption
<1>4. given \subseteq UserIds /\ d.sequence \in 0 .. MaxUserId
  BY <1>1, <1>3, DatabaseIs
<1>5. MigTypeOK
  BY <1>1, <1>2, <1>3, <1>4 DEF MigTypeOK
<1>6. d.tables = 0 => origin.built /\ d.version = 0
  <2>1. CASE d = EmptyDatabase
    BY <2>1, <1>2, EmptyIs
  <2>2. CASE d \in Legacy
    <3>1. d.tables > 0
      BY <2>2, LegacyAssumption, Zenon
    <3>2. ~(0 > 0)
      OBVIOUS
    <3>3. d.tables # 0
      BY <3>1, <3>2, Zenon
    <3>4. QED
      BY <3>3
  <2>3. QED
    BY <1>1, <2>1, <2>2
<1>7. UnderWay
  BY <1>2, <1>6 DEF UnderWay
<1>8. /\ AdminsDiffer(d) /\ Cleaned(d, origin) /\ IdsKept(d, given) /\ OwnerKept(d, origin)
  <2>1. CASE d = EmptyDatabase
    <3>1. /\ d.version = 0 /\ d.admins = <<>> /\ ~d.ownerIndex /\ d.secret = "none"
          /\ ~d.oldSessions /\ d.automatic /\ given = {} /\ d.users = {}
          /\ d.snapshots = {} /\ d.sequence = 0
      BY <2>1, <1>1, EmptyIs
    <3> HIDE DEF d
    <3>2. AdminsDiffer(d)
      BY <3>1, EmptyListIs DEF AdminsDiffer
    <3>3. Cleaned(d, origin)
      BY <3>1 DEF Cleaned
    <3>4. IdsKept(d, given)
      BY <3>1, IdsAre DEF IdsKept
    <3>5. /\ OnlyOwner(d.admins, OwnerName(origin.env)) /\ ~(d.version >= 12)
          /\ ~(d.version >= 16)
      BY <3>1, EmptyListIs DEF OnlyOwner
    <3>6. QED
      BY <3>2, <3>3, <3>4, <3>5, Zenon DEF OwnerKept
  <2>2. CASE d \in Legacy
    <3>1. /\ d.tables > 0 /\ Distinct(d.admins)
          /\ d.ownerIndex => Cardinality(Owners(d)) <= 1
          /\ d.version >= 27 => d.secret # "plain"
          /\ d.version >= 28 => ~d.oldSessions
          /\ d.version >= 29 => d.automatic
          /\ d.automatic => \A i \in d.users \cup d.snapshots : i <= d.sequence
          /\ d.automatic /\ d.version < 12 /\ d.users = {} => d.sequence < MaxUserId
      BY <2>2, LegacyAssumption, Zenon DEF Distinct
    <3>2. ~origin.built
      BY <3>1, <1>2, EmptyIs
    <3> HIDE DEF d
    <3>3. d.users \subseteq given
      BY <1>1
    <3>4. QED
      BY <1>1, <3>1, <3>2, <3>3, Zenon DEF AdminsDiffer, Cleaned, IdsKept, OwnerKept
  <2>3. QED
    BY <1>1, <2>1, <2>2
<1>9. QED
  BY <1>2, <1>5, <1>7, <1>8 DEF MigInv

LEMMA MigMeans == MigInv => MigTypeOK /\ MigratedWhole
<1> SUFFICES ASSUME MigInv PROVE MigTypeOK /\ MigratedWhole
  OBVIOUS
<1>1. MigTypeOK
  BY DEF MigInv
<1>2. ASSUME migration.at = "up" PROVE MigratedWhole
  <2> DEFINE d == database
             o == origin
  <2>1. /\ d.version = Head32 /\ d.tables = 2
        /\ d.extra /\ d.columns /\ d.ownerIndex
        /\ d.settings /\ d.automatic
    BY <1>2, UpIs
  <2>2. d.version >= 27 /\ d.version >= 28 /\ d.version >= 12 /\ d.version >= 16
    BY <2>1 DEF Head32
  <2>3. d.secret # "plain" /\ ~d.oldSessions /\ Cardinality(Owners(d)) <= 1
    BY <2>1, <2>2 DEF MigInv, Cleaned, AdminsDiffer
  <2>4. ASSUME o.built, ~o.edited
        PROVE  \E i \in Owners(d) :
                  /\ o.env.owner # "" => d.admins[i].name = o.env.owner
                  /\ o.env.owner # "" /\ o.env.hash => d.admins[i].password
    <3>1. OwnerKept(d, o)
      BY DEF MigInv
    <3> HIDE DEF d, o
    <3>2. /\ OnlyOwner(d.admins, OwnerName(o.env)) /\ d.admins # <<>>
          /\ Imports(o.env) => Passworded(d.admins)
      BY <3>1, <2>2, <2>4, Zenon DEF OwnerKept, HasPassword
    <3>3. 1 \in DOMAIN d.admins
      <4>1. d.admins \in AdminLists
        BY DatabaseIs DEF d, MigInv, MigTypeOK
      <4>2. QED
        BY <3>2, <4>1, ListIsEmpty
    <3>4. 1 \in Owners(d)
      BY <3>2, <3>3 DEF Owners, IsOwner, OnlyOwner
    <3>5. o.env.owner # "" => d.admins[1].name = o.env.owner
      BY <3>2, <3>3 DEF OnlyOwner, OwnerName
    <3>6. o.env.owner # "" /\ o.env.hash => d.admins[1].password
      BY <3>2, <3>3, Zenon DEF Imports, Passworded
    <3>7. QED
      BY <3>4, <3>5, <3>6, Zenon
  <2>5. QED
    BY <2>1, <2>3, <2>4, Zenon DEF MigratedWhole
<1>3. QED
  BY <1>1, <1>2 DEF MigratedWhole

\* Every start that comes up leaves a whole database, and no id is given twice.
LEMMA MigKeeps ==
    MigInv /\ [][MigNext]_migVars => [](MigTypeOK /\ MigratedWhole) /\ UserIdsNotReissued
<1>1. MigInv /\ [MigNext]_migVars => [MigUserCreated => NextId \notin given]_migVars
  BY CreatedKeeps
<1>2. QED
  BY MigStepKeeps, MigMeans, <1>1, PTL DEF UserIdsNotReissued

-----------------------------------------------------------------------------
(* Offers: what is offered is an upgrade, and the highest there is.        *)

\* Induction up to a bound, over the set of the numbers it holds for.
LEMMA UpTo ==
    ASSUME NEW N \in Nat, NEW S \in SUBSET Nat, 0 \in S,
           \A n \in Nat : n \in S /\ n < N => n + 1 \in S
    PROVE  0 .. N \subseteq S
<1> DEFINE Missed == {n \in 0 .. N : n \notin S}
<1>1. SUFFICES ASSUME Missed # {} PROVE FALSE
  OBVIOUS
<1>2. IsWellFoundedOn(OpToRel(<, Nat), Nat)
  BY NatLessThanWellFounded
<1>3. Missed \subseteq Nat
  OBVIOUS
<1>4. \E m \in Missed : \A n \in Missed : ~(<<n, m>> \in OpToRel(<, Nat))
  <2> HIDE DEF Missed
  <2>1. QED
    BY <1>1, <1>2, <1>3, WFMin
<1>5. PICK m \in Missed : \A n \in Missed : ~(n < m)
  <2> HIDE DEF Missed
  <2>1. QED
    BY <1>3, <1>4 DEF OpToRel
<1>6. m # 0 /\ m \in 0 .. N /\ m \notin S
  BY <1>5
<1>7. m - 1 \in 0 .. N /\ m - 1 < N /\ m - 1 < m /\ (m - 1) + 1 = m
  BY <1>6
<1>8. m - 1 \in S
  BY <1>5, <1>7
<1>9. QED
  BY <1>6, <1>7, <1>8

\* The scan of the tags up to the n-th.
Scanned(tags, n, best) ==
    best = [i \in 0 .. n |->
               IF i = 0 THEN Nothing
               ELSE IF best[i - 1] = Nothing \/ VersionNewer(tags[i], best[i - 1][2])
               THEN <<"tag", tags[i]>>
               ELSE best[i - 1]]

LEMMA ScanExists ==
    ASSUME NEW tags \in Seq(Tags), NEW N \in Nat
    PROVE  \E best : Scanned(tags, N, best)
<1> DEFINE S == {n \in Nat : \E best : Scanned(tags, n, best)}
<1>1. 0 \in S
  <2> DEFINE f == [i \in 0 .. 0 |-> Nothing]
  <2>1. Scanned(tags, 0, f)
    BY DEF Scanned
  <2>2. QED
    BY <2>1
<1>2. ASSUME NEW n \in Nat, n \in S PROVE n + 1 \in S
  <2>1. PICK f : Scanned(tags, n, f)
    BY <1>2
  <2> DEFINE next == IF f[n] = Nothing \/ VersionNewer(tags[n + 1], f[n][2])
                     THEN <<"tag", tags[n + 1]>> ELSE f[n]
             g == [i \in 0 .. n + 1 |-> IF i = n + 1 THEN next ELSE f[i]]
             h == [i \in 0 .. n + 1 |->
                     IF i = 0 THEN Nothing
                     ELSE IF g[i - 1] = Nothing \/ VersionNewer(tags[i], g[i - 1][2])
                     THEN <<"tag", tags[i]>>
                     ELSE g[i - 1]]
  <2>2. ASSUME NEW i \in 0 .. n + 1 PROVE g[i] = h[i]
    <3>1. CASE i = n + 1
      <4>1. n \in 0 .. n + 1 /\ n # n + 1 /\ i # 0 /\ i - 1 = n
        BY <3>1
      <4>2. g[n] = f[n] /\ g[i] = next
        BY <3>1, <4>1
      <4> HIDE DEF g
      <4>3. h[i] = next
        BY <3>1, <4>1, <4>2
      <4>4. QED
        BY <4>2, <4>3
    <3>2. CASE i = 0
      <4>1. 0 # n + 1 /\ 0 \in 0 .. n
        OBVIOUS
      <4>2. f[0] = Nothing
        BY <2>1, <4>1 DEF Scanned
      <4>3. QED
        BY <3>2, <4>1, <4>2
    <3>3. CASE i # n + 1 /\ i # 0
      <4>1. i \in 0 .. n /\ i - 1 \in 0 .. n + 1 /\ i - 1 # n + 1
        BY <3>3
      <4>2. g[i] = f[i] /\ g[i - 1] = f[i - 1]
        BY <3>3, <4>1
      <4>3. f[i] = IF f[i - 1] = Nothing \/ VersionNewer(tags[i], f[i - 1][2])
                   THEN <<"tag", tags[i]>>
                   ELSE f[i - 1]
        BY <2>1, <3>3, <4>1, Zenon DEF Scanned
      <4> HIDE DEF g
      <4>4. h[i] = IF f[i - 1] = Nothing \/ VersionNewer(tags[i], f[i - 1][2])
                   THEN <<"tag", tags[i]>>
                   ELSE f[i - 1]
        BY <3>3, <4>1, <4>2
      <4>5. QED
        BY <4>2, <4>3, <4>4
    <3>4. QED
      BY <3>1, <3>2, <3>3
  <2>3. g = h
    BY <2>2
  <2>4. Scanned(tags, n + 1, g)
    <3> HIDE DEF next
    <3>1. g = h
      BY <2>3
    <3> HIDE DEF g
    <3>2. QED
      BY <3>1 DEF Scanned
  <2>5. QED
    BY <2>4
<1> HIDE DEF S
<1>3. S \in SUBSET Nat
  BY DEF S
<1>4. 0 .. N \subseteq S
  BY <1>1, <1>2, <1>3, UpTo
<1>5. QED
  BY <1>4 DEF S

LEMMA BestIsScanned ==
    ASSUME NEW tags \in Seq(Tags)
    PROVE  \E best : Scanned(tags, Len(tags), best) /\ BestTag(tags) = best[Len(tags)]
<1> DEFINE best == CHOOSE f : Scanned(tags, Len(tags), f)
<1>1. Scanned(tags, Len(tags), best)
  BY ScanExists
<1>2. BestTag(tags) = best[Len(tags)]
  BY DEF BestTag, Scanned
<1>3. QED
  BY <1>1, <1>2

LEMMA PartsAreNumbers ==
    ASSUME NEW v \in Seq(Nat), NEW i \in Nat \ {0}
    PROVE  Part(v, i) \in Nat /\ (Part(v, i) > 0 => i <= Len(v))
BY DEF Part

\* For releases of up to three parts the first difference is the order.
LEMMA NewerIsAbove ==
    ASSUME NEW a \in Seq(Nat), NEW b \in Seq(Nat), Len(a) <= 3, Len(b) <= 3
    PROVE  VersionNewer(a, b) <=> ~IsLegacyPreReset(a) /\ Above(a, b)
<1> DEFINE n == Len(a) + Len(b)
           First(i) == /\ Part(a, i) > Part(b, i)
                       /\ \A j \in 1 .. i - 1 : Part(a, j) = Part(b, j)
<1>1. Len(a) \in Nat /\ Len(b) \in Nat /\ n \in Nat
  OBVIOUS
<1>2. \A i \in Nat \ {0} : /\ Part(a, i) \in Nat /\ Part(b, i) \in Nat
                           /\ Part(a, i) > 0 => i <= Len(a)
  BY PartsAreNumbers
<1>3. VersionNewer(a, b) <=> ~IsLegacyPreReset(a) /\ \E i \in 1 .. n : First(i)
  BY DEF VersionNewer
<1>4. ASSUME NEW i \in 1 .. n, First(i) PROVE Above(a, b)
  <2>1. i \in Nat \ {0} /\ Part(a, i) > 0
    BY <1>2, <1>4
  <2>2. i = 1 \/ i = 2 \/ i = 3
    BY <1>1, <1>2, <2>1
  <2>3. CASE i = 1
    BY <1>4, <2>3 DEF Above
  <2>4. CASE i = 2
    <3>1. 1 \in 1 .. i - 1
      BY <2>4
    <3>2. QED
      BY <1>4, <2>4, <3>1 DEF Above
  <2>5. CASE i = 3
    <3>1. 1 \in 1 .. i - 1 /\ 2 \in 1 .. i - 1
      BY <2>5
    <3>2. QED
      BY <1>4, <2>5, <3>1 DEF Above
  <2>6. QED
    BY <2>2, <2>3, <2>4, <2>5
<1>5. ASSUME NEW i \in 1 .. 3, Part(a, i) > Part(b, i) PROVE i \in 1 .. n
  <2>1. Part(a, i) > 0
    BY <1>2, <1>5
  <2>2. QED
    BY <1>1, <1>2, <2>1
<1>6. ASSUME Above(a, b) PROVE \E i \in 1 .. n : First(i)
  <2>1. CASE Part(a, 1) > Part(b, 1)
    <3>1. 1 \in 1 .. n /\ First(1)
      BY <1>5, <2>1
    <3>2. QED
      BY <3>1
  <2>2. CASE Part(a, 1) = Part(b, 1) /\ Part(a, 2) > Part(b, 2)
    <3>1. 2 \in 1 .. n /\ First(2)
      BY <1>5, <2>2
    <3>2. QED
      BY <3>1
  <2>3. CASE Part(a, 1) = Part(b, 1) /\ Part(a, 2) = Part(b, 2) /\ Part(a, 3) > Part(b, 3)
    <3>1. 3 \in 1 .. n /\ First(3)
      BY <1>5, <2>3
    <3>2. QED
      BY <3>1
  <2>4. QED
    BY <1>6, <2>1, <2>2, <2>3 DEF Above
<1> HIDE DEF First, n
<1>7. QED
  BY <1>3, <1>4, <1>6

LEMMA AboveIsAnOrder ==
    ASSUME NEW a \in Seq(Nat), NEW b \in Seq(Nat), NEW c \in Seq(Nat)
    PROVE  /\ ~Above(a, b) /\ Above(c, b) => ~Above(a, c)
           /\ Above(a, c) /\ ~Above(a, b) => Above(b, c)
           /\ ~Above(a, a)
<1>1. \A i \in {1, 2, 3} : /\ Part(a, i) \in Nat /\ Part(b, i) \in Nat
                           /\ Part(c, i) \in Nat
  BY PartsAreNumbers
<1>2. QED
  BY <1>1 DEF Above

\* What the scan has found so far is one of the tags, and no tag it passed is
\* above it, as long as none is of the retired line.
LEMMA ScanFinds ==
    ASSUME NEW tags \in Seq(Tags), NEW best, Scanned(tags, Len(tags), best),
           NEW n \in 0 .. Len(tags)
    PROVE  /\ best[n] = Nothing <=> n = 0
           /\ n # 0 => \E i \in 1 .. n : best[n] = <<"tag", tags[i]>>
<1> DEFINE Good(m) == /\ best[m] = Nothing <=> m = 0
                      /\ m # 0 => \E i \in 1 .. m : best[m] = <<"tag", tags[i]>>
           S == {m \in Nat : m <= Len(tags) => Good(m)}
<1>1. Len(tags) \in Nat
  OBVIOUS
<1>2. best[0] = Nothing
  BY <1>1 DEF Scanned
<1>3. 0 \in S
  BY <1>2
<1>4. ASSUME NEW m \in Nat, m \in S, m < Len(tags) PROVE m + 1 \in S
  <2>1. Good(m)
    BY <1>1, <1>4
  <2>2. m + 1 \in 0 .. Len(tags) /\ m + 1 # 0 /\ (m + 1) - 1 = m /\ m + 1 \in 1 .. m + 1
    BY <1>1, <1>4
  <2>3. \/ best[m + 1] = <<"tag", tags[m + 1]>>
        \/ best[m + 1] = best[m] /\ best[m] # Nothing
    <3>1. best[m + 1] = IF best[m] = Nothing \/ VersionNewer(tags[m + 1], best[m][2])
                        THEN <<"tag", tags[m + 1]>> ELSE best[m]
      BY <2>2 DEF Scanned
    <3>2. QED
      BY <3>1
  <2>4. Good(m + 1)
    <3>1. CASE best[m + 1] = <<"tag", tags[m + 1]>>
      BY <2>2, <3>1 DEF Nothing
    <3>2. CASE best[m + 1] = best[m] /\ best[m] # Nothing
      <4>1. PICK i \in 1 .. m : best[m] = <<"tag", tags[i]>>
        BY <2>1, <3>2
      <4>2. i \in 1 .. m + 1
        BY <1>4
      <4>3. QED
        BY <2>2, <3>2, <4>1, <4>2
    <3>3. QED
      BY <2>3, <3>1, <3>2
  <2> HIDE DEF Good
  <2>5. QED
    BY <2>4
<1> HIDE DEF Good
<1>5. S \in SUBSET Nat /\ n \in Nat /\ n <= Len(tags)
  OBVIOUS
<1>6. 0 .. Len(tags) \subseteq S
  <2> HIDE DEF S
  <2>1. QED
    BY <1>1, <1>3, <1>4, <1>5, UpTo
<1>7. Good(n)
  BY <1>5, <1>6
<1>8. QED
  BY <1>7 DEF Good

\* No tag has more than three parts.
ThreeParts == \A v \in Tags \cup {Running} : Len(v) <= 3

LEMMA ScanIsHighest ==
    ASSUME ThreeParts, NEW tags \in Seq(Tags), NEW best, Scanned(tags, Len(tags), best),
           \A i \in 1 .. Len(tags) : ~IsLegacyPreReset(tags[i]),
           NEW i \in 1 .. Len(tags)
    PROVE  ~Above(tags[i], best[Len(tags)][2])
<1> DEFINE Highest(m) == \A j \in 1 .. m : ~Above(tags[j], best[m][2])
           S == {m \in Nat : m <= Len(tags) => Highest(m)}
<1>1. Len(tags) \in Nat /\ \A j \in 1 .. Len(tags) : tags[j] \in Tags
  OBVIOUS
<1>2. 0 \in S
  OBVIOUS
<1>3. \A j \in 1 .. Len(tags) : tags[j] \in Seq(Nat) /\ Len(tags[j]) <= 3
  BY <1>1, OfferAssumption DEF ThreeParts
<1>4. ASSUME NEW m \in Nat, m \in S, m < Len(tags) PROVE m + 1 \in S
  <2> DEFINE t == tags[m + 1]
             old == best[m][2]
  <2>1. /\ m + 1 \in 0 .. Len(tags) /\ m + 1 \in 1 .. Len(tags) /\ m \in 0 .. Len(tags)
        /\ m + 1 # 0 /\ (m + 1) - 1 = m
    BY <1>1, <1>4
  <2>2. Highest(m)
    BY <1>1, <1>4
  <2>3. t \in Seq(Nat) /\ Len(t) <= 3 /\ ~IsLegacyPreReset(t)
    BY <1>3, <2>1
  <2>4. best[m + 1] = IF best[m] = Nothing \/ VersionNewer(t, old)
                      THEN <<"tag", t>> ELSE best[m]
    BY <2>1 DEF Scanned
  <2>5. ASSUME m # 0 PROVE best[m] # Nothing /\ old \in Seq(Nat) /\ Len(old) <= 3
    <3>1. best[m] # Nothing /\ \E j \in 1 .. m : best[m] = <<"tag", tags[j]>>
      BY <2>1, <2>5, ScanFinds
    <3>2. PICK j \in 1 .. m : best[m] = <<"tag", tags[j]>>
      BY <3>1
    <3>3. old = tags[j] /\ j \in 1 .. Len(tags)
      BY <1>1, <1>4, <3>2
    <3>4. QED
      BY <1>3, <3>1, <3>3
  <2>6. m = 0 => best[m] = Nothing
    BY <2>1, ScanFinds
  <2> HIDE DEF t, old
  <2>7. ASSUME NEW j \in 1 .. m + 1 PROVE ~Above(tags[j], best[m + 1][2])
    <3>1. j = m + 1 \/ j \in 1 .. m
      OBVIOUS
    <3>2. j \in 1 .. Len(tags) /\ tags[j] \in Seq(Nat)
      BY <1>1, <1>3, <1>4
    <3>3. CASE m = 0
      <4>1. best[m + 1] = <<"tag", t>> /\ j = m + 1
        BY <2>4, <2>6, <3>1, <3>3
      <4>2. best[m + 1][2] = t /\ tags[j] = t
        BY <4>1 DEF t
      <4>3. QED
        BY <2>3, <4>2, AboveIsAnOrder
    <3>4. CASE m # 0 /\ VersionNewer(t, old)
      <4>1. best[m + 1][2] = t
        BY <2>4, <3>4
      <4>2. Above(t, old)
        BY <2>3, <2>5, <3>4, NewerIsAbove
      <4>3. CASE j = m + 1
        <5>1. tags[j] = t
          BY <4>3 DEF t
        <5>2. QED
          BY <2>3, <4>1, <5>1, AboveIsAnOrder
      <4>4. CASE j \in 1 .. m
        <5>1. ~Above(tags[j], old)
          BY <2>2, <4>4 DEF old
        <5>2. QED
          BY <2>3, <2>5, <3>2, <3>4, <4>1, <4>2, <5>1, AboveIsAnOrder
      <4>5. QED
        BY <3>1, <4>3, <4>4
    <3>5. CASE m # 0 /\ ~VersionNewer(t, old)
      <4>1. best[m + 1][2] = old
        <5>1. best[m + 1] = best[m]
          BY <2>4, <2>5, <3>5
        <5>2. QED
          BY <5>1 DEF old
      <4>2. CASE j = m + 1
        <5>1. tags[j] = t
          BY <4>2 DEF t
        <5>2. QED
          BY <2>3, <2>5, <3>5, <4>1, <5>1, NewerIsAbove
      <4>3. CASE j \in 1 .. m
        BY <2>2, <4>1, <4>3 DEF old
      <4>4. QED
        BY <3>1, <4>2, <4>3
    <3>6. QED
      BY <3>3, <3>4, <3>5
  <2>8. QED
    BY <2>7
<1> HIDE DEF Highest
<1>5. S \in SUBSET Nat
  OBVIOUS
<1>6. 0 .. Len(tags) \subseteq S
  <2> HIDE DEF S
  <2>1. QED
    BY <1>1, <1>2, <1>4, <1>5, UpTo
<1>7. Highest(Len(tags))
  BY <1>1, <1>6
<1>8. QED
  BY <1>7 DEF Highest

\* What the tags give is nothing, if there are none, or one of them.
LEMMA BestIsATag ==
    ASSUME NEW tags \in Seq(Tags)
    PROVE  /\ BestTag(tags) = Nothing <=> Len(tags) = 0
           /\ Len(tags) # 0 => \E i \in 1 .. Len(tags) : BestTag(tags) = <<"tag", tags[i]>>
           /\ BestTag(tags) \in Names
<1>1. PICK best : Scanned(tags, Len(tags), best) /\ BestTag(tags) = best[Len(tags)]
  BY BestIsScanned
<1>2. Len(tags) \in 0 .. Len(tags)
  OBVIOUS
<1>3. /\ BestTag(tags) = Nothing <=> Len(tags) = 0
      /\ Len(tags) # 0 => \E i \in 1 .. Len(tags) : BestTag(tags) = <<"tag", tags[i]>>
  BY <1>1, <1>2, ScanFinds
<1>4. BestTag(tags) \in Names
  <2>1. \A i \in 1 .. Len(tags) : tags[i] \in Tags
    OBVIOUS
  <2>2. QED
    BY <1>3, <2>1 DEF Names
<1>5. QED
  BY <1>3, <1>4

LEMMA GitHubTypes ==
    ASSUME NEW g \in GitHub
    PROVE  g.up \in BOOLEAN /\ g.latest \in Names /\ g.tags \in Seq(Tags)
<1>1. g.tags \in BoundedSeq(Tags, MaxTags)
  BY DEF GitHub
<1>2. PICK m \in 0 .. MaxTags : g.tags \in [1 .. m -> Tags]
  BY <1>1 DEF BoundedSeq, SeqOf
<1>3. QED
  BY <1>2 DEF GitHub

\* A name that is not Nothing has a tag.
LEMMA NamesHaveTags ==
    ASSUME NEW x \in Names, x # Nothing
    PROVE  x[2] \in Tags
BY DEF Names

LEMMA OfferFetched == OfferTypeOK => LatestCached \in Names
<1> SUFFICES ASSUME OfferTypeOK
             PROVE  LatestCached \in Names
  OBVIOUS
<1>1. github.latest \in Names /\ github.tags \in Seq(Tags)
  BY GitHubTypes DEF OfferTypeOK
<1>2. BestTag(github.tags) \in Names
  BY <1>1, BestIsATag
<1>3. Nothing \in Names
  BY DEF Names
<1>4. FetchLatest \in Names
  BY <1>1, <1>2, <1>3 DEF FetchLatest
<1>5. QED
  BY <1>4 DEF LatestCached, OfferTypeOK

LEMMA OfferTypeStep == OfferTypeOK /\ [OfferNext]_offerVars => OfferTypeOK'
<1> SUFFICES ASSUME OfferTypeOK, [OfferNext]_offerVars
             PROVE  OfferTypeOK'
  OBVIOUS
<1>1. CASE UNCHANGED offerVars
  BY <1>1 DEF offerVars, OfferTypeOK
<1>2. CASE UpdateStatus
  <2>1. LatestCached \in Names
    BY OfferFetched
  <2>2. QED
    BY <1>2, <2>1 DEF UpdateStatus, OfferTypeOK
<1>3. CASE HourPasses
  BY <1>3 DEF HourPasses, OfferTypeOK
<1>4. CASE GitHubChanges
  BY <1>4 DEF GitHubChanges, OfferTypeOK
<1>5. QED
  BY <1>1, <1>2, <1>3, <1>4 DEF OfferNext

LEMMA OfferKeeps == OfferInit /\ [][OfferNext]_offerVars => []OfferTypeOK
<1>1. OfferInit => OfferTypeOK
  BY DEF OfferInit, OfferTypeOK, Names
<1>2. QED
  BY <1>1, OfferTypeStep, PTL

LEMMA OfferIsNewer ==
    ASSUME ThreeParts, OfferTypeOK, LatestCached # Nothing,
           VersionNewer(LatestCached[2], Running)
    PROVE  Upgrade(LatestCached[2])
<1>1. LatestCached[2] \in Tags
  BY OfferFetched, NamesHaveTags
<1>2. /\ LatestCached[2] \in Seq(Nat) /\ Len(LatestCached[2]) <= 3
      /\ Running \in Seq(Nat) /\ Len(Running) <= 3
  BY <1>1, OfferAssumption DEF ThreeParts
<1>3. QED
  BY <1>2, NewerIsAbove DEF Upgrade

LEMMA OfferIsHighest ==
    ASSUME ThreeParts, NEW tags \in Seq(Tags),
           \A i \in DOMAIN tags : ~IsLegacyPreReset(tags[i]),
           \E i \in DOMAIN tags : Upgrade(tags[i])
    PROVE  /\ BestTag(tags) # Nothing /\ VersionNewer(BestTag(tags)[2], Running)
           /\ \A i \in DOMAIN tags : ~Above(tags[i], BestTag(tags)[2])
<1>1. DOMAIN tags = 1 .. Len(tags) /\ Len(tags) \in Nat
  OBVIOUS
<1>2. PICK k \in 1 .. Len(tags) : Upgrade(tags[k])
  BY <1>1
<1>3. PICK best : Scanned(tags, Len(tags), best) /\ BestTag(tags) = best[Len(tags)]
  BY BestIsScanned
<1>4. \A i \in 1 .. Len(tags) : ~Above(tags[i], BestTag(tags)[2])
  BY <1>1, <1>3, ScanIsHighest
<1>5. PICK j \in 1 .. Len(tags) : BestTag(tags) = <<"tag", tags[j]>>
  BY <1>1, <1>2, BestIsATag
<1>6. BestTag(tags) # Nothing /\ BestTag(tags)[2] = tags[j]
  BY <1>5 DEF Nothing
<1>7. /\ tags[j] \in Seq(Nat) /\ Len(tags[j]) <= 3 /\ ~IsLegacyPreReset(tags[j])
      /\ tags[k] \in Seq(Nat) /\ Running \in Seq(Nat) /\ Len(Running) <= 3
  <2>1. tags[j] \in Tags /\ tags[k] \in Tags
    OBVIOUS
  <2>2. QED
    BY <1>1, <2>1, OfferAssumption DEF ThreeParts
<1>8. Above(tags[k], Running) /\ ~Above(tags[k], tags[j])
  BY <1>2, <1>4, <1>6 DEF Upgrade
<1>9. Above(tags[j], Running)
  BY <1>7, <1>8, AboveIsAnOrder
<1>10. VersionNewer(tags[j], Running)
  BY <1>7, <1>9, NewerIsAbove
<1>11. QED
  BY <1>1, <1>4, <1>6, <1>10

LEMMA OffersRise ==
    ASSUME ThreeParts
    PROVE  OfferInit /\ [][OfferNext]_offerVars => OfferIsUpgrade
<1> DEFINE Rises ==
        UpdateStatus =>
          /\ offered'.available => Upgrade(offered'.latest[2])
          /\ /\ ~offerCache.fresh /\ github.up /\ github.latest = Nothing
             /\ \A i \in DOMAIN github.tags : ~IsLegacyPreReset(github.tags[i])
             /\ \E i \in DOMAIN github.tags : Upgrade(github.tags[i])
             => /\ offered'.available
                /\ \A i \in DOMAIN github.tags :
                      ~Above(github.tags[i], offered'.latest[2])
<1>1. OfferTypeOK => Rises
  <2> SUFFICES ASSUME OfferTypeOK, UpdateStatus
               PROVE  Rises
    OBVIOUS
  <2>1. /\ offered'.latest = LatestCached
        /\ offered'.available <=> LatestCached # Nothing
                                  /\ VersionNewer(LatestCached[2], Running)
    BY DEF UpdateStatus
  <2>2. offered'.available => Upgrade(offered'.latest[2])
    BY <2>1, OfferIsNewer
  <2>3. ASSUME ~offerCache.fresh, github.up, github.latest = Nothing,
               \A i \in DOMAIN github.tags : ~IsLegacyPreReset(github.tags[i]),
               \E i \in DOMAIN github.tags : Upgrade(github.tags[i])
        PROVE  /\ offered'.available
               /\ \A i \in DOMAIN github.tags : ~Above(github.tags[i], offered'.latest[2])
    <3>1. LatestCached = BestTag(github.tags)
      BY <2>3 DEF LatestCached, FetchLatest
    <3>2. github.tags \in Seq(Tags)
      BY GitHubTypes DEF OfferTypeOK
    <3>3. QED
      BY <2>1, <2>3, <3>1, <3>2, OfferIsHighest
  <2>4. QED
    BY <2>2, <2>3
<1>2. OfferTypeOK => [Rises]_offerVars
  BY <1>1
<1>3. OfferIsUpgrade <=> [][Rises]_offerVars
  BY DEF OfferIsUpgrade
<1> HIDE DEF Rises
<1>4. QED
  BY <1>2, <1>3, OfferKeeps, PTL

-----------------------------------------------------------------------------
(* The parts side by side.                                                 *)

\* A panel that is up on a database of its own.
LEMMA MigRests == MigAtRest => MigInv
<1> SUFFICES ASSUME MigAtRest PROVE MigInv
  OBVIOUS
<1> DEFINE d == database
           x == [name |-> "admin", owner |-> TRUE, password |-> TRUE]
           a == <<x>>
<1>1. /\ dotenv = Chosen(Environments) /\ given = {}
      /\ migration = [[at |-> "down", todo |-> <<>>, env |-> dotenv] EXCEPT !.at = "up"]
      /\ origin = [built |-> FALSE, env |-> dotenv, edited |-> FALSE]
      /\ d = [EmptyDatabase EXCEPT !.version = Head32, !.tables = 2,
                 !.extra = TRUE, !.columns = TRUE, !.ownerIndex = TRUE,
                 !.settings = TRUE, !.admins = a]
  BY DEF MigAtRest, MigIdle
<1>2. dotenv \in Environments
  BY <1>1, LegacyAssumption DEF Chosen
<1>3. /\ migration.at = "up" /\ migration.env = dotenv
      /\ ~origin.built /\ ~origin.edited /\ origin.env = dotenv
      /\ origin \in [built : BOOLEAN, env : Environments, edited : BOOLEAN]
      /\ migration \in [at : {"down", "running", "refused", "up"}, todo : Seq(Statements),
                        env : Environments]
  <2>1. migration = [at |-> "up", todo |-> <<>>, env |-> dotenv] /\ <<>> \in Seq(Statements)
    BY <1>1
  <2>2. /\ migration.at = "up" /\ migration.env = dotenv
        /\ migration \in [at : {"down", "running", "refused", "up"}, todo : Seq(Statements),
                          env : Environments]
    BY <2>1, <1>2
  <2>3. /\ ~origin.built /\ ~origin.edited /\ origin.env = dotenv
        /\ origin \in [built : BOOLEAN, env : Environments, edited : BOOLEAN]
    BY <1>1, <1>2
  <2>4. QED
    BY <2>2, <2>3
<1>4. x \in Admin
  BY DEF Admin
<1> HIDE DEF x
<1>5. a \in AdminLists /\ DOMAIN a = {1}
  <2>1. DOMAIN a = 1 .. 1 /\ a \in [1 .. 1 -> Admin] /\ 1 \in 0 .. 3
    BY <1>4
  <2>2. QED
    BY <2>1 DEF AdminLists
<1> HIDE DEF a, d
<1>6. Head32 \in 0 .. Head32 + 1 /\ 2 \in 0 .. 2
  BY DEF Head32
<1>7. /\ d \in MigDatabase /\ d.version = Head32 /\ d.tables = 2
      /\ d.extra /\ d.columns /\ d.ownerIndex /\ d.settings
      /\ d.admins = a /\ d.secret = "none" /\ ~d.oldSessions /\ d.automatic /\ d.users = {}
  BY <1>1, <1>5, <1>6, EmptyIs, DatabaseIs
<1>8. MigTypeOK
  BY <1>1, <1>2, <1>3, <1>7 DEF MigTypeOK, d
<1>9. UnderWay
  BY <1>3, <1>7 DEF UnderWay, d
<1>10. AdminsDiffer(d)
  <2>1. Distinct(d.admins)
    BY <1>5, <1>7 DEF Distinct
  <2>2. Owners(d) \subseteq {1}
    BY <1>5, <1>7 DEF Owners
  <2>3. Cardinality(Owners(d)) <= 1
    <3>1. IsFiniteSet({1}) /\ Cardinality({1}) = 1
      BY FS_Singleton
    <3>2. Cardinality(Owners(d)) <= Cardinality({1})
      BY <2>2, <3>1, FS_Subset
    <3>3. QED
      BY <3>1, <3>2
  <2>4. QED
    BY <2>1, <2>3 DEF AdminsDiffer
<1>11. Cleaned(d, origin) /\ OwnerKept(d, origin)
  <2>1. d.secret # "plain"
    BY <1>7
  <2>2. QED
    BY <1>3, <1>7, <2>1, Zenon DEF Cleaned, OwnerKept
<1>12. IdsKept(d, given)
  BY <1>1, <1>7 DEF IdsKept, Head32
<1>13. QED
  BY <1>1, <1>3, <1>8, <1>9, <1>10, <1>11, <1>12 DEF MigInv, d

LEMMA HostStart == HostInit => UpdInit /\ OfferInit /\ MigInv /\ TlsInit /\ BakInit
BY MigStarts, MigRests DEF HostInit

\* A step of the host is a step of one part and leaves the others alone.
LEMMA HostStep ==
    [HostNext]_hostVars => /\ [UpdNext]_updVars /\ [OfferNext]_offerVars
                           /\ [MigNext]_migVars /\ [TlsNext]_tlsVars
                           /\ [BakNext]_bakVars
BY DEF HostNext, UpdateMoves, OfferMoves, MigrationMoves, TlsMoves, BackupMoves, hostVars

LEMMA HostParts ==
    HostSpec => /\ UpdInit /\ [][UpdNext]_updVars
                /\ OfferInit /\ [][OfferNext]_offerVars
                /\ MigInv /\ [][MigNext]_migVars
                /\ TlsInit /\ [][TlsNext]_tlsVars
                /\ BakInit /\ [][BakNext]_bakVars
BY HostStart, HostStep, PTL DEF HostSpec

\* The installation, the offer, the database, the pair, the backups and what each
\* process remembers of them keep their types.
THEOREM HostTypes == HostSpec => []HostTypeOK
<1>1. UpdTypeOK /\ OfferTypeOK /\ MigTypeOK /\ TlsTypeOK /\ BakTypeOK => HostTypeOK
  BY DEF HostTypeOK
<1>2. QED
  BY <1>1, HostParts, UpdKeeps, OfferKeeps, MigKeeps, TlsKeeps, BakKeeps, PTL

\* For releases of up to three parts, whatever GitHub answers and for how long the
\* answer is kept: what is offered is an upgrade of the current line, and the
\* highest when it had to come from the tags (updater.go:93-113, 157-175).
THEOREM OffersAreUpgrades == ThreeParts => (HostSpec => OfferIsUpgrade)
<1> SUFFICES ASSUME ThreeParts
             PROVE  HostSpec => OfferIsUpgrade
  OBVIOUS
<1>1. QED
  BY HostParts, OffersRise, PTL

\* Whatever fails and wherever the command is killed, a release is on the disk
\* for the next run, and outside of an update's window every acknowledged write
\* is in the live database: of any number of runs with any releases and schemas
\* (update.go:183-199, 238-245).
THEOREM UpdateSafe == HostSpec => []UpdateKeepsAll
BY HostParts, UpdKeeps, PTL

\* A run reports "committed" only with the requested release answering, and
\* "failed_over" only with the release from before the run over a database it
\* knows (update.go:314-373).
THEOREM UpdateReports == HostSpec => UpdateEndsAsReported
BY HostParts, UpdKeeps, PTL

\* After a command that ended well and met no starting panel, every panel that
\* starts serves the installed pair, or plain HTTP after a removal (tls.go:26-39,
\* 60-76, main.go:308-330).
THEOREM TlsServesTold == HostSpec => TlsServesAsTold
BY HostParts, TlsKeeps, PTL

\* A recorded day has a verified backup, and while nothing went wrong the
\* automatic backups are of different days and a proven one leaves only because
\* the label is full (backup_worker.go:69-107, maintenance.go:134-146).
THEOREM BackupsRecorded == HostSpec => []BackupsAsRecorded
BY HostParts, BakKeeps, PTL

\* Whatever killed or refused the starts before it, and whatever database they
\* found, a panel that is up serves a whole schema with at most one owner, no
\* secret in the clear and no session of the retired roles; a database it built
\* itself has the owner its environment names (migrate.go:38-164).
THEOREM MigrationsWhole == HostSpec => []MigratedWhole
BY HostParts, MigKeeps, PTL

\* The id of a user that lives or can be restored is never given again, however
\* old the table and whatever was deleted before its rebuild (steps.go:399-403).
THEOREM IdsNotReissued == HostSpec => UserIdsNotReissued
BY HostParts, MigKeeps, PTL
=============================================================================
