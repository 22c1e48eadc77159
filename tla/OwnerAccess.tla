----------------------------- MODULE OwnerAccess -----------------------------
(***************************************************************************)
(* How the owner gets into the panel (internal/auth): the setup key of the *)
(* command line, the claim and the recovery it opens, logins with their    *)
(* rate limit, and sessions.  Requests run side by side, and the slow      *)
(* parts of each lie between its reads and its writes.                     *)
(*                                                                         *)
(* Each of the three login buckets is checked and raised the same way; one *)
(* stands for them.                                                        *)
(***************************************************************************)
EXTENDS Naturals, FiniteSets

CONSTANTS
    Names,       \* user names an owner takes
    Secrets,     \* passwords
    Callers,     \* bound: the requests under way at once
    Tokens,      \* bound: the sessions ever opened
    MaxKeys,     \* bound: the setup keys ever made
    MaxRecoveries, \* bound: the recoveries
    MaxAttempts, \* maxAttempts
    MaxLost,     \* bound: the statements on the bucket's row that fail or cap it
    NoSecret     \* an owner row that is not claimed

ASSUME AccessAssumption ==
    /\ Names # {} /\ Secrets # {} /\ NoSecret \notin Secrets
    /\ MaxKeys \in Nat /\ MaxRecoveries \in Nat /\ MaxLost \in Nat
    /\ MaxAttempts \in Nat \ {0}
    /\ IsFiniteSet(Callers)

VARIABLES
    owner,     \* the is_owner row of admins
    keyFile,   \* the key in DATA_DIR, 0 for none
    keysMade,
    sessions,  \* the sessions table
    failures,  \* the bucket in memory
    stored,    \* its login_attempts row
    caller,    \* the requests under way
    recoveries, \* history: recoveries that set the credentials
    unrevoked, \* history: one died before it revoked the sessions or failed to,
               \* or a claim landed on a row that was claimed since it was read,
               \* and no recovery has revoked since
    lost,      \* history: statements on the bucket's row that failed or capped it
    spent      \* history: wrong passwords since a window or a success began; of
               \* those a failing database forgot, none

ownVars == <<owner, keyFile, keysMade, sessions, failures, stored, caller,
             recoveries, unrevoked, lost, spent>>
ownBucket == <<failures, stored, lost, spent>>

\* "check" is before the password is compared.
OwnCaller == [pc : {"none", "check", "failed", "rehash", "clear", "open", "claim",
                    "recover", "revoke", "unlink"},
              name : Names, secret : Secrets, login : BOOLEAN]
NotCalling(c) == caller[c].pc = "none"

\* A session: whose, and after how many recoveries it was opened.
OwnSession == [name : Names, since : 0 .. MaxRecoveries]
NoSession == [since |-> 0]

OwnTypeOK ==
    /\ owner \in [name : Names, secret : Secrets \cup {NoSecret}, weak : BOOLEAN]
    /\ keyFile \in 0 .. MaxKeys /\ keysMade \in 0 .. MaxKeys
    /\ sessions \in [Tokens -> OwnSession \cup {NoSession}]
    /\ failures \in Nat /\ stored \in Nat /\ lost \in 0 .. MaxLost
    /\ caller \in [Callers -> OwnCaller]
    /\ recoveries \in 0 .. MaxRecoveries /\ unrevoked \in BOOLEAN
    /\ spent \in 0 .. MaxAttempts + Cardinality(Callers)

Ended == [pc |-> "none", name |-> CHOOSE n \in Names : TRUE,
          secret |-> CHOOSE s \in Secrets : TRUE, login |-> FALSE]

\* A seeded owner row, or an imported credential of an older scheme.
OwnInit ==
    /\ \E s \in {Ended.secret, NoSecret} :
          owner = [name |-> Ended.name, secret |-> s, weak |-> s # NoSecret]
    /\ keyFile = 0 /\ keysMade = 0
    /\ sessions = [t \in Tokens |-> NoSession]
    /\ failures = 0 /\ stored = 0 /\ lost = 0 /\ spent = 0
    /\ caller = [c \in Callers |-> Ended]
    /\ recoveries = 0 /\ unrevoked = FALSE

Goes(c, pc) == caller' = [caller EXCEPT ![c].pc = pc]
Ends(c) == caller' = [caller EXCEPT ![c] = Ended]

\* The password is no longer needed.
Enters(c, pc) == caller' = [caller EXCEPT ![c].pc = pc, ![c].secret = Ended.secret]

\* `ovmanager auth key` keeps a key that is there, `auth reset` does not.
OwnMintKey(force) ==
    /\ force \/ keyFile = 0
    /\ keysMade < MaxKeys
    /\ keysMade' = keysMade + 1 /\ keyFile' = keysMade + 1
    /\ UNCHANGED <<owner, sessions, ownBucket, caller, recoveries, unrevoked>>

-----------------------------------------------------------------------------
(* Login.                                                                  *)

\* Mutant: a bucket that is not in memory is empty.
InMemory == failures

\* checkBucket: a bucket that is not in memory is read from its row.
Bucket == IF failures = 0 THEN stored ELSE failures

\* A row that cannot be read is taken for empty.
Buckets == {Bucket} \cup (IF failures = 0 /\ stored # 0 THEN {0} ELSE {})

\* The wrong passwords compared and not yet counted.
Uncounted == {c \in Callers : caller[c].pc = "failed"}

\* What the database forgot is no longer held against anybody.
Forgives(kept) == spent' = IF spent < kept THEN spent ELSE kept

\* The bucket is checked, and only then is the password compared.
OwnLogin(c, n, s) ==
    /\ NotCalling(c)
    /\ \E b \in Buckets :
          /\ b < MaxAttempts
          /\ failures' = b
          /\ IF b = Bucket THEN UNCHANGED <<lost, spent>>
             ELSE /\ lost < MaxLost /\ lost' = lost + 1
                  /\ Forgives(b + Cardinality(Uncounted))
    /\ caller' = [caller EXCEPT ![c] = [pc |-> "check", name |-> n, secret |-> s,
                                        login |-> TRUE]]
    /\ UNCHANGED <<owner, keyFile, keysMade, sessions, stored, recoveries, unrevoked>>

OwnLoginRefused(c) ==
    /\ NotCalling(c)
    /\ Bucket >= MaxAttempts
    /\ failures' = Bucket
    /\ UNCHANGED <<owner, keyFile, keysMade, sessions, stored, caller, recoveries,
                   unrevoked, lost, spent>>

\* Authenticate reads the row and compares.
OwnCompares(c) ==
    /\ caller[c].pc = "check"
    /\ LET right == owner.name = caller[c].name /\ owner.secret = caller[c].secret IN
       /\ IF ~right THEN caller' = [caller EXCEPT ![c] = [Ended EXCEPT !.pc = "failed"]]
          ELSE IF owner.weak THEN Goes(c, "rehash") ELSE Enters(c, "clear")
       /\ spent' = IF right THEN spent ELSE spent + 1
    /\ UNCHANGED <<owner, keyFile, keysMade, sessions, failures, stored, recoveries,
                   unrevoked, lost>>

\* The hash is brought up to date by name, whatever the row holds by now, or not
\* when that fails.
OwnRehashes(c) ==
    /\ caller[c].pc = "rehash"
    /\ \/ /\ owner.name = caller[c].name
          /\ owner' = [owner EXCEPT !.secret = caller[c].secret, !.weak = FALSE]
       \/ UNCHANGED owner
    /\ Enters(c, "clear")
    /\ UNCHANGED <<keyFile, keysMade, sessions, ownBucket, recoveries, unrevoked>>

\* incrementBucket, in memory and, if the statement does not fail, in the row.
OwnFails(c) ==
    /\ caller[c].pc = "failed"
    /\ \E b \in Buckets, saved \in BOOLEAN :
          /\ failures' = b + 1
          /\ stored' = IF saved THEN b + 1 ELSE stored
          /\ lost' = lost + Cardinality({b} \ {Bucket}) + Cardinality({saved} \ {TRUE})
          /\ lost' <= MaxLost
          /\ IF b = Bucket THEN UNCHANGED spent
             ELSE Forgives(b + Cardinality(Uncounted))
    /\ Ends(c)
    /\ UNCHANGED <<owner, keyFile, keysMade, sessions, recoveries, unrevoked>>

\* clearBucket, in memory; a wrong password not yet counted will be.
OwnClears(c) ==
    /\ caller[c].pc = "clear"
    /\ failures' = 0 /\ spent' = Cardinality(Uncounted)
    /\ Goes(c, "open")
    /\ UNCHANGED <<owner, keyFile, keysMade, sessions, stored, lost, recoveries, unrevoked>>

\* clearBucket, in the table, and IssueSession; either may fail.
OwnOpens(c) ==
    /\ caller[c].pc = "open"
    /\ \/ UNCHANGED sessions
       \/ \E t \in Tokens :
             /\ sessions[t] = NoSession
             /\ sessions' = [sessions EXCEPT ![t] =
                   [name |-> caller[c].name, since |-> recoveries]]
    /\ IF caller[c].login
       THEN /\ stored' \in {0, stored}
            /\ spent' = Cardinality(Uncounted)
            /\ UNCHANGED <<failures, lost>>
       ELSE UNCHANGED ownBucket
    /\ Ends(c)
    /\ UNCHANGED <<owner, keyFile, keysMade, recoveries, unrevoked>>

\* incrementBucket of another bucket drops this one, above maxBuckets.
OwnBucketEvicted ==
    /\ failures # 0 /\ failures' = 0
    /\ IF stored < failures THEN Forgives(stored + Cardinality(Uncounted))
                            ELSE UNCHANGED spent
    /\ UNCHANGED <<owner, keyFile, keysMade, sessions, stored, caller, recoveries,
                   unrevoked, lost>>

\* PurgeExpired keeps the newest maxLoginAttemptRows rows.
OwnRowCapped ==
    /\ stored # 0 /\ stored' = 0
    /\ lost < MaxLost /\ lost' = lost + 1
    /\ IF failures = 0 THEN Forgives(Cardinality(Uncounted)) ELSE UNCHANGED spent
    /\ UNCHANGED <<owner, keyFile, keysMade, sessions, failures, caller, recoveries,
                   unrevoked>>

\* lockoutSeconds after the last failure.
OwnWindowPasses ==
    /\ \A c \in Callers : caller[c].pc \notin {"check", "failed"}
    /\ failures' = 0 /\ stored' = 0 /\ spent' = 0
    /\ UNCHANGED <<owner, keyFile, keysMade, sessions, caller, recoveries, unrevoked,
                   lost>>

-----------------------------------------------------------------------------
(* Claim and recovery with the setup key.                                  *)

\* The key is compared, and the row decides between the two.
OwnPresentsKey(c, n, s) ==
    /\ NotCalling(c) /\ keyFile # 0
    /\ caller' = [caller EXCEPT ![c] =
          [pc |-> IF owner.secret = NoSecret THEN "claim" ELSE "recover",
           name |-> n, secret |-> s, login |-> FALSE]]
    /\ UNCHANGED <<owner, keyFile, keysMade, sessions, ownBucket, recoveries, unrevoked>>

\* A first claim revokes nothing: nobody could log in, unless another claim
\* landed meanwhile.
OwnClaims(c) ==
    /\ caller[c].pc = "claim"
    /\ owner' = [name |-> caller[c].name, secret |-> caller[c].secret, weak |-> FALSE]
    /\ unrevoked' = (unrevoked \/ owner.secret # NoSecret)
    /\ caller' = [caller EXCEPT ![c].pc = "unlink", ![c].secret = Ended.secret]
    /\ UNCHANGED <<keyFile, keysMade, sessions, ownBucket, recoveries>>

\* A name that is taken, or an error.
OwnTurnedAway(c) ==
    /\ caller[c].pc \in {"claim", "recover"}
    /\ Ends(c)
    /\ UNCHANGED <<owner, keyFile, keysMade, sessions, ownBucket, recoveries, unrevoked>>

OwnRecovers(c) ==
    /\ caller[c].pc = "recover" /\ recoveries < MaxRecoveries
    /\ owner' = [name |-> caller[c].name, secret |-> caller[c].secret, weak |-> FALSE]
    /\ recoveries' = recoveries + 1
    /\ caller' = [caller EXCEPT ![c].pc = "revoke", ![c].secret = Ended.secret]
    /\ UNCHANGED <<keyFile, keysMade, sessions, ownBucket, unrevoked>>

\* Mutant: under a new name, the old sessions are worthless already.
RevokedIfSame(n) ==
    IF n = Ended.name THEN {t \in Tokens : sessions[t] # NoSession
                                           /\ sessions[t].name = n} ELSE {}

\* The sessions of the name the owner has now.
Revoked(n) == {t \in Tokens : sessions[t] # NoSession /\ sessions[t].name = n}

\* RevokeUserSessions; that it failed is not looked at.
OwnRevokes(c) ==
    /\ caller[c].pc = "revoke"
    /\ \/ /\ sessions' = [t \in Tokens |-> IF t \in Revoked(caller[c].name)
                                           THEN NoSession ELSE sessions[t]]
          /\ unrevoked' = (unrevoked /\ caller[c].name # owner.name)
       \/ UNCHANGED sessions /\ unrevoked' = TRUE
    /\ Goes(c, "unlink")
    /\ UNCHANGED <<owner, keyFile, keysMade, ownBucket, recoveries>>

\* Whichever key is there by now; nor that this failed.
OwnUnlinks(c) ==
    /\ caller[c].pc = "unlink"
    /\ keyFile' \in {0, keyFile}
    /\ Enters(c, "open")
    /\ UNCHANGED <<owner, keysMade, sessions, ownBucket, recoveries, unrevoked>>

-----------------------------------------------------------------------------
(* Sessions and restarts.                                                  *)

\* RequireOwner: a session of the table whose name is the owner's.
Accepted(t) == sessions[t] # NoSession /\ sessions[t].name = owner.name

\* Logout, the idle timeout, the absolute cap and PurgeExpired.
OwnSessionEnds(t) ==
    /\ sessions[t] # NoSession
    /\ sessions' = [sessions EXCEPT ![t] = NoSession]
    /\ UNCHANGED <<owner, keyFile, keysMade, ownBucket, caller, recoveries, unrevoked>>

\* A wrong password that was not counted is lost with the panel.
OwnPanelRestarts ==
    /\ caller' = [c \in Callers |-> Ended]
    /\ failures' = 0
    /\ unrevoked' = (unrevoked \/ \E c \in Callers : caller[c].pc = "revoke")
    /\ LET counted == spent - Cardinality(Uncounted) IN
       spent' = IF stored < failures /\ stored < counted THEN stored ELSE counted
    /\ UNCHANGED <<owner, keyFile, keysMade, sessions, stored, recoveries, lost>>

OwnNext ==
    \/ \E f \in BOOLEAN : OwnMintKey(f)
    \/ \E c \in Callers :
          \/ \E n \in Names, s \in Secrets : OwnLogin(c, n, s) \/ OwnPresentsKey(c, n, s)
          \/ OwnLoginRefused(c) \/ OwnCompares(c) \/ OwnRehashes(c) \/ OwnFails(c)
          \/ OwnClears(c) \/ OwnOpens(c) \/ OwnClaims(c) \/ OwnTurnedAway(c)
          \/ OwnRecovers(c) \/ OwnRevokes(c) \/ OwnUnlinks(c)
    \/ OwnWindowPasses \/ OwnBucketEvicted \/ OwnRowCapped
    \/ \E t \in Tokens : OwnSessionEnds(t)
    \/ OwnPanelRestarts

OwnSpec == OwnInit /\ [][OwnNext]_ownVars

-----------------------------------------------------------------------------
(* Properties.                                                             *)

\* After a recovery no session that was opened before it is accepted, under
\* whatever names the owner took since: unless the last recovery died between the
\* two, or failed to revoke and did not notice, or a claim overlapped another
\* (claim.go:196-216, session.go:179-187, handler.go:144-155).
RecoveryEndsSessions ==
    \/ unrevoked \/ \E c \in Callers : caller[c].pc = "revoke"
    \/ \A t \in Tokens : Accepted(t) => sessions[t].since = recoveries

\* Within a window and since the last success no more wrong passwords are
\* compared than the limit and the other requests that run at once, whether or
\* not the panel restarts or drops the bucket from its memory; but for those whose
\* count the database failed to store or to read, or capped (handler.go:65-85,
\* 351-416: three checks, each under the lock).
LockoutHolds == spent < MaxAttempts + Cardinality(Callers)
=============================================================================
