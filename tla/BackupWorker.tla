---------------------------- MODULE BackupWorker ----------------------------
(***************************************************************************)
(* The daily backup (internal/panel/backup_worker.go): every minute a tick *)
(* looks whether the day's backup is due and not recorded, makes one,      *)
(* prunes the label, copies it to the offsite target and only then records *)
(* the day.  Backups made by hand share the directory under another label. *)
(* The day is recorded over the handle read when the tick began: a restore *)
(* in between leaves that handle closed and puts back an earlier record.   *)
(* The record's reading and its writing may fail, and neither is told.     *)
(* The time zone stays.                                                    *)
(***************************************************************************)
EXTENDS Naturals, Sequences, SequencesExt

CONSTANTS
    MaxDay,   \* bound: days
    AutoKeep, \* auto_backup_keep
    HandKeep  \* how many backups of the label "backup" a command keeps

ASSUME BackupAssumption ==
    MaxDay \in Nat \ {0} /\ AutoKeep \in Nat \ {0} /\ HandKeep \in Nat \ {0}

VARIABLES
    today, due,  \* the date in the panel's time zone; the time of day is past
    bakSettings, \* the settings a tick reads
    targetUp,    \* the offsite target takes copies
    backups,     \* per label, the days of its backups, oldest first
    offsite,     \* the days of which a copy reached the target
    recorded,    \* backup.last_success_day, 0 for none
    tick,        \* the tick under way
    spoiled,     \* history: a day may have been backed up twice, since a copy or
                 \* the record failed, a tick died or a restore came between
    bakProofs    \* history: days whose backup was verified and, if asked, copied

bakVars == <<today, due, bakSettings, targetUp, backups, offsite, recorded,
             tick, spoiled, bakProofs>>

Labels == {"auto", "backup"}
Days == 1 .. MaxDay

BakTypeOK ==
    /\ today \in Days /\ due \in BOOLEAN /\ targetUp \in BOOLEAN
    /\ bakSettings \in [enabled : BOOLEAN, target : BOOLEAN]
    /\ backups \in [Labels -> BoundedSeq(Days, AutoKeep + HandKeep)]
    /\ offsite \subseteq Days /\ recorded \in Days \cup {0}
    /\ tick \in [pc : {"idle", "made", "copied"}, day : Days \cup {0},
                 target : BOOLEAN, stale : BOOLEAN]
    /\ spoiled \in BOOLEAN /\ bakProofs \subseteq Days

NoTick == [pc |-> "idle", day |-> 0, target |-> FALSE, stale |-> FALSE]

BakInit ==
    /\ today = 1 /\ due = FALSE /\ targetUp = TRUE
    /\ bakSettings = [enabled |-> TRUE, target |-> TRUE]
    /\ backups = [l \in Labels |-> <<>>]
    /\ offsite = {} /\ recorded = 0 /\ tick = NoTick
    /\ spoiled = FALSE /\ bakProofs = {}

bakWorld == <<today, due, bakSettings, targetUp>>

\* Mutant: whatever the label, the oldest file goes.
PruneAnywhere(kept, l, keep) ==
    LET other == CHOOSE o \in Labels : o # l IN
    IF Len(kept[l]) <= keep THEN kept
    ELSE IF kept[other] # <<>> THEN [kept EXCEPT ![other] = Tail(@)]
                               ELSE [kept EXCEPT ![l] = Tail(@)]

\* The newest of the label stay.
Prune(kept, l, keep) ==
    IF Len(kept[l]) <= keep THEN kept
    ELSE [kept EXCEPT ![l] = SubSeq(@, Len(@) - keep + 1, Len(@))]

\* Mutant: nothing is pruned.
Unpruned(l, keep) == [backups EXCEPT ![l] = Append(@, today)]

\* createPanelBackup: snapshot, verify, then prune.
WithBackup(l, keep) == Prune([backups EXCEPT ![l] = Append(@, today)], l, keep)

-----------------------------------------------------------------------------
(* The tick.                                                               *)

\* Mutant: only the day after the recorded one counts.
NextDayOnly == due /\ recorded = today - 1

\* Past the time of day, and the day not recorded.
DayOpen == due /\ recorded # today

BakTickMakes ==
    /\ tick.pc = "idle"
    /\ bakSettings.enabled /\ DayOpen
    /\ backups' = WithBackup("auto", AutoKeep)
    /\ tick' = [NoTick EXCEPT !.pc = "made", !.day = today,
                              !.target = bakSettings.target]
    /\ UNCHANGED <<bakWorld, offsite, recorded, spoiled, bakProofs>>

\* The record cannot be read, which is taken for a day that is open.
BakTickMisreads ==
    /\ tick.pc = "idle"
    /\ bakSettings.enabled /\ due /\ recorded = today
    /\ backups' = WithBackup("auto", AutoKeep)
    /\ tick' = [NoTick EXCEPT !.pc = "made", !.day = today,
                              !.target = bakSettings.target]
    /\ spoiled' = TRUE
    /\ UNCHANGED <<bakWorld, offsite, recorded, bakProofs>>

\* The second verification fails: the file is removed, the day stays open.
BakTickRejects ==
    /\ tick.pc = "made"
    /\ backups' = [backups EXCEPT !["auto"] = Front(@)]
    /\ tick' = NoTick
    /\ spoiled' = TRUE
    /\ UNCHANGED <<bakWorld, offsite, recorded, bakProofs>>

BakTickCopies ==
    /\ tick.pc = "made" /\ (tick.target => targetUp)
    /\ offsite' = IF tick.target THEN offsite \cup {tick.day} ELSE offsite
    /\ bakProofs' = bakProofs \cup {tick.day}
    /\ tick' = [tick EXCEPT !.pc = "copied"]
    /\ UNCHANGED <<bakWorld, backups, recorded, spoiled>>

\* Mutant: a failed copy is logged, and the day recorded.
GoesOn == [tick EXCEPT !.pc = "copied"]

\* Local success is not offsite success.
DayLeftOpen == NoTick

BakCopyFails ==
    /\ tick.pc = "made" /\ tick.target /\ ~targetUp
    /\ tick' = DayLeftOpen
    /\ spoiled' = TRUE
    /\ UNCHANGED <<bakWorld, backups, offsite, recorded, bakProofs>>

\* writeSetting over the handle of the tick.
BakTickRecords ==
    /\ tick.pc = "copied" /\ ~tick.stale
    /\ recorded' = tick.day
    /\ tick' = NoTick
    /\ UNCHANGED <<bakWorld, backups, offsite, spoiled, bakProofs>>

\* The handle is of a pool that was replaced, or the statement fails: the error
\* is ignored, and the day stays open.
BakRecordFails ==
    /\ tick.pc = "copied"
    /\ tick' = NoTick
    /\ spoiled' = TRUE
    /\ UNCHANGED <<bakWorld, backups, offsite, recorded, bakProofs>>

-----------------------------------------------------------------------------
(* Around the tick.                                                        *)

\* `ovmanager backup` and POST /backup.
BakByHand ==
    /\ backups' = WithBackup("backup", HandKeep)
    /\ UNCHANGED <<bakWorld, offsite, recorded, tick, spoiled, bakProofs>>

\* The database goes back to an earlier record, and its pool is replaced.
BakRestore ==
    /\ recorded' \in {0} \cup {d \in bakProofs : d <= recorded}
    /\ tick' = [tick EXCEPT !.stale = tick.pc # "idle"]
    /\ spoiled' = TRUE
    /\ UNCHANGED <<bakWorld, backups, offsite, bakProofs>>

BakPanelRestarts ==
    /\ tick.pc # "idle"
    /\ tick' = NoTick /\ spoiled' = TRUE
    /\ UNCHANGED <<bakWorld, backups, offsite, recorded, bakProofs>>

BakTimePasses ==
    /\ \/ due' = TRUE /\ UNCHANGED today
       \/ today < MaxDay /\ today' = today + 1 /\ due' = FALSE
    /\ UNCHANGED <<bakSettings, targetUp, backups, offsite, recorded, tick,
                   spoiled, bakProofs>>

BakSettingsChange ==
    /\ bakSettings' \in [enabled : BOOLEAN, target : BOOLEAN]
    /\ targetUp' \in BOOLEAN
    /\ UNCHANGED <<today, due, backups, offsite, recorded, tick, spoiled,
                   bakProofs>>

BakTick ==
    \/ BakTickMakes \/ BakTickRejects \/ BakTickCopies \/ BakCopyFails
    \/ BakTickRecords \/ BakRecordFails

BakNext ==
    \/ BakTick \/ BakTickMisreads \/ BakByHand \/ BakRestore \/ BakPanelRestarts
    \/ BakTimePasses \/ BakSettingsChange

\* The ticker fires every minute, and a copy ends within its timeout.
BakFairness == WF_bakVars(BakTick)

-----------------------------------------------------------------------------
(* Properties.                                                             *)

LastOf(s, n) == {s[i] : i \in {j \in DOMAIN s : j > Len(s) - n}}

\* A recorded day has a verified backup, copied when a target was configured.
\* And as long as no copy, reading or writing of the record failed, no tick
\* died, and no restore put an earlier day in its place, the automatic backups
\* are of different days and backups made by hand take none of them
\* (backup_worker.go:69-107, maintenance.go:134-146).
BackupsAsRecorded ==
    /\ recorded = 0 \/ recorded \in bakProofs
    /\ ~spoiled => /\ IsInjective(backups["auto"])
                   /\ \A d \in bakProofs :
                         \/ d \in LastOf(backups["auto"], AutoKeep)
                         \/ Len(backups["auto"]) = AutoKeep

\* Once the target answers, the settings stay and nothing else happens, the day
\* that is due is recorded, and so by BackupsAsRecorded copied
\* (backup_worker.go:98-104: the day is left unset "so the next tick retries").
Settled == due /\ bakSettings.enabled /\ bakSettings.target /\ targetUp
BackupDayEnds ==
    <>[]Settled /\ <>[][BakTickMakes \/ BakTickCopies \/ BakTickRecords]_bakVars
        => <>[](recorded = today)
=============================================================================
