------------------------- MODULE OwnerAccessProofs --------------------------
(***************************************************************************)
(* Theorems about OwnerAccess for any names, passwords, callers and        *)
(* limits: the types are kept, the login limit holds whatever logins and   *)
(* restarts interleave, and a recovery ends the sessions before it.        *)
(***************************************************************************)
EXTENDS OwnerAccess, FiniteSetTheorems, TLAPS

\* The types of all but the counters.
KeyTypes ==
    /\ owner \in [name : Names, secret : Secrets \cup {NoSecret}, weak : BOOLEAN]
    /\ keyFile \in 0 .. MaxKeys /\ keysMade \in 0 .. MaxKeys
    /\ sessions \in [Tokens -> OwnSession \cup {NoSession}]
    /\ caller \in [Callers -> OwnCaller]
    /\ recoveries \in 0 .. MaxRecoveries /\ unrevoked \in BOOLEAN

LEMMA EndedType == Ended \in OwnCaller /\ Ended.pc = "none"
                   /\ Ended.name \in Names /\ Ended.secret \in Secrets
<1>1. (CHOOSE n \in Names : TRUE) \in Names /\ (CHOOSE s \in Secrets : TRUE) \in Secrets
  BY AccessAssumption
<1>2. QED
  BY <1>1 DEF Ended, OwnCaller

\* What a step of one caller does to the callers.
LEMMA OneCaller ==
    ASSUME KeyTypes, NEW c \in Callers, NEW r,
           caller' = [caller EXCEPT ![c] = r]
    PROVE  /\ \A d \in Callers : caller'[d] = IF d = c THEN r ELSE caller[d]
           /\ r \in OwnCaller => caller' \in [Callers -> OwnCaller]
BY DEF KeyTypes

LEMMA GoesTo ==
    ASSUME KeyTypes, NEW c \in Callers, NEW pc, Goes(c, pc),
           pc \in {"rehash", "open", "unlink"}
    PROVE  \E r \in OwnCaller : r.pc = pc /\ r.name = caller[c].name
                                /\ caller' = [caller EXCEPT ![c] = r]
<1> DEFINE r == [caller[c] EXCEPT !.pc = pc]
<1>1. caller[c] \in OwnCaller
  BY DEF KeyTypes
<1>2. r \in OwnCaller /\ r.pc = pc /\ r.name = caller[c].name
  BY <1>1 DEF OwnCaller
<1>3. caller' = [caller EXCEPT ![c] = r]
  BY DEF Goes, KeyTypes
<1> HIDE DEF r
<1>4. QED
  BY <1>2, <1>3

\* Enters, and the statements that forget the password.
LEMMA SecretGone ==
    ASSUME KeyTypes, NEW c \in Callers, NEW pc, pc \in {"clear", "open", "unlink", "revoke"},
           caller' = [caller EXCEPT ![c].pc = pc, ![c].secret = Ended.secret]
    PROVE  \E r \in OwnCaller : r.pc = pc /\ r.name = caller[c].name
                                /\ caller' = [caller EXCEPT ![c] = r]
<1> DEFINE r == [caller[c] EXCEPT !.pc = pc, !.secret = Ended.secret]
<1>1. caller[c] \in OwnCaller
  BY DEF KeyTypes
<1>2. r \in OwnCaller /\ r.pc = pc /\ r.name = caller[c].name
  BY <1>1, EndedType DEF OwnCaller
<1>3. caller' = [caller EXCEPT ![c] = r]
  BY DEF KeyTypes
<1> HIDE DEF r
<1>4. QED
  BY <1>2, <1>3

LEMMA EntersTo ==
    ASSUME KeyTypes, NEW c \in Callers, NEW pc, pc \in {"clear", "open"}, Enters(c, pc)
    PROVE  \E r \in OwnCaller : r.pc = pc /\ r.name = caller[c].name
                                /\ caller' = [caller EXCEPT ![c] = r]
<1> DEFINE r == [caller[c] EXCEPT !.pc = pc, !.secret = Ended.secret]
<1>1. caller[c] \in OwnCaller
  BY DEF KeyTypes
<1>2. r \in OwnCaller /\ r.pc = pc /\ r.name = caller[c].name
  BY <1>1, EndedType DEF OwnCaller
<1>3. caller' = [caller EXCEPT ![c] = r]
  BY DEF KeyTypes, Enters
<1> HIDE DEF r
<1>4. QED
  BY <1>2, <1>3

\* How a caller moves: the program counter it had and the one it gets.
LEMMA LoginMoves ==
    ASSUME KeyTypes, NEW c \in Callers, NEW n \in Names, NEW s \in Secrets,
           OwnLogin(c, n, s)
    PROVE  \E r \in OwnCaller : r.pc = "check" /\ caller' = [caller EXCEPT ![c] = r]
<1> DEFINE r == [pc |-> "check", name |-> n, secret |-> s, login |-> TRUE]
<1>1. r \in OwnCaller /\ r.pc = "check"
  BY DEF OwnCaller
<1>2. caller' = [caller EXCEPT ![c] = r]
  BY DEF OwnLogin
<1> HIDE DEF r
<1>3. QED
  BY <1>1, <1>2

LEMMA KeyMoves ==
    ASSUME KeyTypes, NEW c \in Callers, NEW n \in Names, NEW s \in Secrets,
           OwnPresentsKey(c, n, s)
    PROVE  \E r \in OwnCaller : /\ r.pc = IF owner.secret = NoSecret THEN "claim"
                                                                     ELSE "recover"
                                /\ caller' = [caller EXCEPT ![c] = r]
<1> DEFINE pc == IF owner.secret = NoSecret THEN "claim" ELSE "recover"
           r == [pc |-> pc, name |-> n, secret |-> s, login |-> FALSE]
<1>1. r \in OwnCaller /\ r.pc = pc
  BY DEF OwnCaller
<1>2. caller' = [caller EXCEPT ![c] = r]
  BY DEF OwnPresentsKey
<1> HIDE DEF r
<1>3. QED
  BY <1>1, <1>2

LEMMA CompareMoves ==
    ASSUME KeyTypes, NEW c \in Callers, OwnCompares(c)
    PROVE  \E r \in OwnCaller :
              /\ caller' = [caller EXCEPT ![c] = r]
              /\ \/ r.pc = "failed" /\ spent' = spent + 1
                 \/ r.pc \in {"rehash", "clear"} /\ spent' = spent
                    /\ owner.secret # NoSecret
<1> DEFINE right == owner.name = caller[c].name /\ owner.secret = caller[c].secret
<1>1. CASE ~right
  <2> DEFINE r == [Ended EXCEPT !.pc = "failed"]
  <2>1. r \in OwnCaller /\ r.pc = "failed"
    BY EndedType DEF OwnCaller
  <2>2. caller' = [caller EXCEPT ![c] = r] /\ spent' = spent + 1
    BY <1>1 DEF OwnCompares
  <2> HIDE DEF r
  <2>3. QED
    BY <2>1, <2>2
<1>2. CASE right /\ owner.weak
  <2>1. owner.secret # NoSecret /\ Goes(c, "rehash") /\ spent' = spent
    BY <1>2, AccessAssumption DEF OwnCompares, KeyTypes, OwnCaller
  <2>2. QED
    BY <2>1, GoesTo
<1>3. CASE right /\ ~owner.weak
  <2>1. owner.secret # NoSecret /\ Enters(c, "clear") /\ spent' = spent
    BY <1>3, AccessAssumption DEF OwnCompares, KeyTypes, OwnCaller
  <2>2. QED
    BY <2>1, EntersTo
<1>4. QED
  BY <1>1, <1>2, <1>3

LEMMA EndMoves ==
    ASSUME KeyTypes, NEW c \in Callers, Ends(c)
    PROVE  \E r \in OwnCaller : r.pc = "none" /\ caller' = [caller EXCEPT ![c] = r]
BY EndedType DEF Ends

LEMMA WriteMoves ==
    ASSUME KeyTypes, NEW c \in Callers
    PROVE  /\ OwnRehashes(c) =>
                 \E r \in OwnCaller : r.pc = "clear" /\ caller' = [caller EXCEPT ![c] = r]
           /\ OwnClears(c) \/ OwnUnlinks(c) =>
                 \E r \in OwnCaller : r.pc = "open" /\ caller' = [caller EXCEPT ![c] = r]
           /\ OwnClaims(c) \/ OwnRevokes(c) =>
                 \E r \in OwnCaller : r.pc = "unlink" /\ caller' = [caller EXCEPT ![c] = r]
           /\ OwnRecovers(c) =>
                 \E r \in OwnCaller : r.pc = "revoke" /\ r.name = caller[c].name
                                      /\ caller' = [caller EXCEPT ![c] = r]
<1>1. (OwnRehashes(c) => Enters(c, "clear")) /\ (OwnUnlinks(c) => Enters(c, "open"))
  BY DEF OwnRehashes, OwnUnlinks
<1>2. (OwnRevokes(c) => Goes(c, "unlink")) /\ (OwnClears(c) => Goes(c, "open"))
  BY DEF OwnRevokes, OwnClears
<1>3. OwnClaims(c) =>
         caller' = [caller EXCEPT ![c].pc = "unlink", ![c].secret = Ended.secret]
  BY DEF OwnClaims
<1>4. OwnRecovers(c) =>
         caller' = [caller EXCEPT ![c].pc = "revoke", ![c].secret = Ended.secret]
  BY DEF OwnRecovers
<1>5. QED
  BY <1>1, <1>2, <1>3, <1>4, EntersTo, GoesTo, SecretGone

\* Every step of a caller keeps the callers' types.
LEMMA CallersType ==
    ASSUME KeyTypes, [OwnNext]_ownVars
    PROVE  caller' \in [Callers -> OwnCaller]
<1>1. CASE UNCHANGED caller
  BY <1>1 DEF KeyTypes
<1>2. ASSUME NEW c \in Callers,
             \/ \E n \in Names, s \in Secrets : OwnLogin(c, n, s) \/ OwnPresentsKey(c, n, s)
             \/ OwnCompares(c) \/ OwnRehashes(c) \/ OwnClaims(c) \/ OwnRecovers(c)
             \/ OwnRevokes(c) \/ OwnUnlinks(c) \/ OwnClears(c)
      PROVE  caller' \in [Callers -> OwnCaller]
  BY <1>2, LoginMoves, KeyMoves, CompareMoves, WriteMoves, OneCaller
<1>3. ASSUME NEW c \in Callers, OwnFails(c) \/ OwnOpens(c) \/ OwnTurnedAway(c)
      PROVE  caller' \in [Callers -> OwnCaller]
  BY <1>3, EndMoves, OneCaller DEF OwnFails, OwnOpens, OwnTurnedAway
<1>4. CASE OwnPanelRestarts
  BY <1>4, EndedType DEF OwnPanelRestarts
<1>5. (\E c \in Callers : OwnLoginRefused(c)) \/ (\E f \in BOOLEAN : OwnMintKey(f))
      \/ OwnWindowPasses \/ OwnBucketEvicted \/ OwnRowCapped
      \/ (\E t \in Tokens : OwnSessionEnds(t)) \/ UNCHANGED ownVars
         => UNCHANGED caller
  BY DEF OwnLoginRefused, OwnMintKey, OwnWindowPasses, OwnBucketEvicted, OwnRowCapped,
         OwnSessionEnds, ownVars
<1>6. QED
  BY <1>1, <1>2, <1>3, <1>4, <1>5 DEF OwnNext

LEMMA KeyTypesStep == KeyTypes /\ [OwnNext]_ownVars => KeyTypes'
<1> SUFFICES ASSUME KeyTypes, [OwnNext]_ownVars
             PROVE  KeyTypes'
  OBVIOUS
<1>1. caller' \in [Callers -> OwnCaller]
  BY CallersType
<1>2. \A c \in Callers : caller[c].name \in Names /\ caller[c].secret \in Secrets
  BY DEF KeyTypes, OwnCaller
<1>3. CASE UNCHANGED <<owner, keyFile, keysMade, sessions, recoveries, unrevoked>>
  BY <1>1, <1>3 DEF KeyTypes
<1>4. ASSUME NEW f \in BOOLEAN, OwnMintKey(f)
      PROVE  KeyTypes'
  BY <1>1, <1>4, AccessAssumption DEF OwnMintKey, KeyTypes
<1>5. ASSUME NEW c \in Callers, OwnRehashes(c)
      PROVE  KeyTypes'
  <2>1. owner' \in [name : Names, secret : Secrets \cup {NoSecret}, weak : BOOLEAN]
    BY <1>2, <1>5 DEF OwnRehashes, KeyTypes
  <2>2. QED
    BY <1>1, <1>5, <2>1 DEF OwnRehashes, KeyTypes
<1>6. ASSUME NEW c \in Callers, OwnClaims(c)
      PROVE  KeyTypes'
  BY <1>1, <1>2, <1>6 DEF OwnClaims, KeyTypes
<1>7. ASSUME NEW c \in Callers, OwnRecovers(c)
      PROVE  KeyTypes'
  BY <1>1, <1>2, <1>7, AccessAssumption DEF OwnRecovers, KeyTypes
<1>8. ASSUME NEW c \in Callers, OwnRevokes(c)
      PROVE  KeyTypes'
  BY <1>1, <1>8 DEF OwnRevokes, KeyTypes
<1>9. ASSUME NEW c \in Callers, OwnOpens(c)
      PROVE  KeyTypes'
  <2>1. [name |-> caller[c].name, since |-> recoveries] \in OwnSession
    BY <1>2 DEF OwnSession, KeyTypes
  <2>2. QED
    BY <1>1, <1>9, <2>1 DEF OwnOpens, KeyTypes
<1>10. ASSUME NEW c \in Callers, OwnUnlinks(c)
       PROVE  KeyTypes'
  BY <1>1, <1>10, AccessAssumption DEF OwnUnlinks, KeyTypes
<1>11. ASSUME NEW t \in Tokens, OwnSessionEnds(t)
       PROVE  KeyTypes'
  BY <1>1, <1>11 DEF OwnSessionEnds, KeyTypes
<1>12. CASE OwnPanelRestarts
  BY <1>1, <1>12 DEF OwnPanelRestarts, KeyTypes
<1>13. ASSUME NEW c \in Callers,
              \/ \E n \in Names, s \in Secrets : OwnLogin(c, n, s) \/ OwnPresentsKey(c, n, s)
              \/ OwnLoginRefused(c) \/ OwnCompares(c) \/ OwnFails(c)
              \/ OwnClears(c) \/ OwnTurnedAway(c)
       PROVE  UNCHANGED <<owner, keyFile, keysMade, sessions, recoveries, unrevoked>>
  BY <1>13 DEF OwnLogin, OwnPresentsKey, OwnLoginRefused, OwnCompares, OwnFails,
               OwnClears, OwnTurnedAway
<1>14. OwnWindowPasses \/ OwnBucketEvicted \/ OwnRowCapped \/ UNCHANGED ownVars
          => UNCHANGED <<owner, keyFile, keysMade, sessions, recoveries, unrevoked>>
  BY DEF OwnWindowPasses, OwnBucketEvicted, OwnRowCapped, ownVars
<1>15. QED
  BY <1>3, <1>4, <1>5, <1>6, <1>7, <1>8, <1>9, <1>10, <1>11, <1>12, <1>13, <1>14
     DEF OwnNext

LEMMA KeyTypesInit == OwnInit => KeyTypes
<1> SUFFICES ASSUME OwnInit
             PROVE  KeyTypes
  OBVIOUS
<1>1. owner \in [name : Names, secret : Secrets \cup {NoSecret}, weak : BOOLEAN]
  <2>1. PICK s \in {Ended.secret, NoSecret} :
           owner = [name |-> Ended.name, secret |-> s, weak |-> s # NoSecret]
    BY DEF OwnInit
  <2>2. s \in Secrets \cup {NoSecret} /\ Ended.name \in Names
    BY EndedType
  <2>3. QED
    BY <2>1, <2>2
<1>2. 0 \in 0 .. MaxKeys /\ 0 \in 0 .. MaxRecoveries
  BY AccessAssumption
<1>3. caller \in [Callers -> OwnCaller]
  BY EndedType DEF OwnInit
<1>4. QED
  BY <1>1, <1>2, <1>3 DEF OwnInit, KeyTypes

-----------------------------------------------------------------------------
(* The login limit.                                                        *)

\* The passwords that are about to be compared.
Checking == {c \in Callers : caller[c].pc = "check"}

\* What was compared is counted or about to be; and with what is about to be
\* compared it stays below the limit, since a password is compared only after the
\* bucket was.
LockInv ==
    /\ stored \in Nat /\ failures \in Nat /\ spent \in Nat /\ lost \in 0 .. MaxLost
    /\ Cardinality(Uncounted) <= spent
    /\ spent <= Bucket + Cardinality(Uncounted)
    /\ spent + Cardinality(Checking) < MaxAttempts + Cardinality(Callers)

LEMMA CountsAreNat ==
    /\ IsFiniteSet(Uncounted) /\ IsFiniteSet(Checking)
    /\ Cardinality(Uncounted) \in Nat /\ Cardinality(Checking) \in Nat
    /\ Cardinality(Callers) \in Nat
    /\ Cardinality(Uncounted) + Cardinality(Checking) <= Cardinality(Callers)
<1>1. Uncounted \cup Checking \subseteq Callers /\ Uncounted \cap Checking = {}
  BY DEF Uncounted, Checking
<1>2. IsFiniteSet(Callers)
  BY AccessAssumption
<1>3. IsFiniteSet(Uncounted) /\ IsFiniteSet(Checking)
      /\ Cardinality(Uncounted \cup Checking) <= Cardinality(Callers)
  BY <1>1, <1>2, FS_Subset
<1>4. Cardinality(Uncounted \cup Checking)
         = Cardinality(Uncounted) + Cardinality(Checking) - Cardinality({})
  BY <1>1, <1>3, FS_Union
<1>5. Cardinality({}) = 0 /\ Cardinality(Uncounted) \in Nat
      /\ Cardinality(Checking) \in Nat /\ Cardinality(Callers) \in Nat
  BY <1>2, <1>3, FS_EmptySet, FS_CardinalityType
<1>6. QED
  BY <1>3, <1>4, <1>5

\* The same after a step.
LEMMA CountsStayNat ==
    /\ Cardinality(Uncounted') \in Nat /\ Cardinality(Checking') \in Nat
    /\ Cardinality(Callers) \in Nat
    /\ Cardinality(Uncounted') + Cardinality(Checking') <= Cardinality(Callers)
<1>1. Uncounted' \cup Checking' \subseteq Callers /\ Uncounted' \cap Checking' = {}
  BY DEF Uncounted, Checking
<1>2. IsFiniteSet(Callers)
  BY AccessAssumption
<1>3. IsFiniteSet(Uncounted') /\ IsFiniteSet(Checking')
      /\ Cardinality(Uncounted' \cup Checking') <= Cardinality(Callers)
  BY <1>1, <1>2, FS_Subset
<1>4. Cardinality(Uncounted' \cup Checking')
         = Cardinality(Uncounted') + Cardinality(Checking') - Cardinality({})
  BY <1>1, <1>3, FS_Union
<1>5. Cardinality({}) = 0 /\ Cardinality(Uncounted') \in Nat
      /\ Cardinality(Checking') \in Nat /\ Cardinality(Callers) \in Nat
  BY <1>2, <1>3, FS_EmptySet, FS_CardinalityType
<1>6. QED
  BY <1>3, <1>4, <1>5

\* What the step of one caller does to the counts.
LEMMA CallerCounts ==
    ASSUME KeyTypes, NEW c \in Callers, NEW r \in OwnCaller,
           caller' = [caller EXCEPT ![c] = r]
    PROVE  /\ Uncounted' = IF r.pc = "failed" THEN Uncounted \cup {c}
                                              ELSE Uncounted \ {c}
           /\ Checking' = IF r.pc = "check" THEN Checking \cup {c}
                                            ELSE Checking \ {c}
BY OneCaller DEF Uncounted, Checking

LEMMA BucketIsNat == LockInv => Bucket \in Nat
BY DEF LockInv, Bucket

\* A caller that neither tries nor tried a password.
LEMMA LockOthers ==
    ASSUME KeyTypes, LockInv, NEW c \in Callers, NEW r \in OwnCaller,
           caller' = [caller EXCEPT ![c] = r],
           caller[c].pc \notin {"check", "failed"}, r.pc \notin {"check", "failed"},
           UNCHANGED ownBucket
    PROVE  LockInv'
<1>1. Uncounted' = Uncounted /\ Checking' = Checking
  BY CallerCounts DEF Uncounted, Checking
<1>2. QED
  BY <1>1 DEF LockInv, Bucket, ownBucket

LEMMA LockSame ==
    ASSUME LockInv, UNCHANGED <<caller, ownBucket>>
    PROVE  LockInv'
BY DEF LockInv, Uncounted, Checking, Bucket, ownBucket

LEMMA LockLogin ==
    ASSUME KeyTypes, LockInv, NEW c \in Callers, NEW n \in Names, NEW s \in Secrets,
           OwnLogin(c, n, s)
    PROVE  LockInv'
<1>1. PICK r \in OwnCaller : r.pc = "check" /\ caller' = [caller EXCEPT ![c] = r]
  BY LoginMoves
<1>2. Uncounted' = Uncounted /\ UNCHANGED stored
  BY <1>1, CallerCounts DEF OwnLogin, NotCalling, Uncounted
<1>3. PICK b \in Buckets :
         /\ b < MaxAttempts /\ failures' = b
         /\ IF b = Bucket THEN UNCHANGED <<lost, spent>>
            ELSE /\ lost < MaxLost /\ lost' = lost + 1
                 /\ Forgives(b + Cardinality(Uncounted))
  BY DEF OwnLogin
<1> DEFINE u == Cardinality(Uncounted)
           k == Cardinality(Checking')
           m == Cardinality(Callers)
<1>4. /\ u \in Nat /\ k \in Nat /\ m \in Nat /\ u + k <= m
      /\ MaxAttempts \in Nat /\ MaxLost \in Nat /\ Bucket \in Nat
  BY <1>2, CountsStayNat, AccessAssumption, BucketIsNat
<1>5. CASE b = Bucket
  <2>1. Bucket' = Bucket /\ failures' = Bucket /\ UNCHANGED <<lost, spent>>
    BY <1>2, <1>3, <1>5 DEF Bucket
  <2>2. spent \in Nat /\ u <= spent /\ spent <= Bucket + u /\ stored \in Nat
        /\ lost \in 0 .. MaxLost
    BY DEF LockInv
  <2>3. spent + k < MaxAttempts + m
    BY <1>3, <1>4, <1>5, <2>2
  <2>4. QED
    BY <1>2, <1>4, <2>1, <2>2, <2>3 DEF LockInv
<1>6. CASE b # Bucket
  <2>1. b = 0 /\ failures = 0
    BY <1>3, <1>6 DEF Buckets
  <2>2. Bucket' = Bucket /\ failures' = 0
    BY <1>2, <1>3, <2>1 DEF Bucket
  <2>3. lost \in 0 .. MaxLost /\ lost' \in 0 .. MaxLost
    BY <1>3, <1>4, <1>6 DEF LockInv
  <2>4. spent \in Nat /\ u <= spent /\ spent <= Bucket + u /\ stored \in Nat
    BY DEF LockInv
  <2>5. spent' = u
    BY <1>3, <1>4, <1>6, <2>1, <2>4 DEF Forgives
  <2>6. spent' + k < MaxAttempts + m /\ spent' <= Bucket + u
    BY <1>4, <2>5, AccessAssumption
  <2>7. QED
    BY <1>2, <1>4, <2>2, <2>3, <2>4, <2>5, <2>6 DEF LockInv
<1>7. QED
  BY <1>5, <1>6

LEMMA LockCompares ==
    ASSUME KeyTypes, LockInv, NEW c \in Callers, OwnCompares(c)
    PROVE  LockInv'
<1>1. PICK r \in OwnCaller :
         /\ caller' = [caller EXCEPT ![c] = r]
         /\ \/ r.pc = "failed" /\ spent' = spent + 1
            \/ r.pc \in {"rehash", "clear"} /\ spent' = spent
  BY CompareMoves
<1>2. c \notin Uncounted /\ c \in Checking /\ UNCHANGED <<stored, failures, lost>>
  BY DEF OwnCompares, Uncounted, Checking
<1>3. Checking' = Checking \ {c} /\ Bucket' = Bucket
  BY <1>1, <1>2, CallerCounts DEF Bucket
<1>4. Cardinality(Checking') = Cardinality(Checking) - 1
  BY <1>2, <1>3, CountsAreNat, FS_RemoveElement
<1>5. CASE r.pc = "failed" /\ spent' = spent + 1
  <2>1. Uncounted' = Uncounted \cup {c}
    BY <1>1, <1>5, CallerCounts
  <2>2. Cardinality(Uncounted') = Cardinality(Uncounted) + 1
    BY <1>2, <2>1, CountsAreNat, FS_AddElement
  <2>3. QED
    BY <1>2, <1>3, <1>4, <1>5, <2>2, CountsAreNat, BucketIsNat, AccessAssumption DEF LockInv
<1>6. CASE r.pc \in {"rehash", "clear"} /\ spent' = spent
  <2>1. Uncounted' = Uncounted \ {c} /\ Uncounted \ {c} = Uncounted
    BY <1>1, <1>2, <1>6, CallerCounts
  <2>2. Cardinality(Uncounted') = Cardinality(Uncounted)
    BY <2>1
  <2>3. QED
    BY <1>2, <1>3, <1>4, <1>6, <2>2, CountsAreNat, BucketIsNat, AccessAssumption DEF LockInv
<1>7. QED
  BY <1>1, <1>5, <1>6

LEMMA LockFails ==
    ASSUME KeyTypes, LockInv, NEW c \in Callers, OwnFails(c)
    PROVE  LockInv'
<1>1. PICK r \in OwnCaller : r.pc = "none" /\ caller' = [caller EXCEPT ![c] = r]
  BY EndMoves DEF OwnFails
<1>2. c \in Uncounted /\ c \notin Checking
  BY DEF OwnFails, Uncounted, Checking
<1>3. Uncounted' = Uncounted \ {c} /\ Checking' = Checking
  <2>1. Uncounted' = Uncounted \ {c} /\ Checking' = Checking \ {c}
    BY <1>1, CallerCounts
  <2>2. QED
    BY <1>2, <2>1
<1>4. Cardinality(Uncounted') = Cardinality(Uncounted) - 1
  BY <1>2, <1>3, CountsAreNat, FS_RemoveElement
<1>5. PICK b \in Buckets, saved \in BOOLEAN :
         /\ failures' = b + 1
         /\ stored' = IF saved THEN b + 1 ELSE stored
         /\ lost' = lost + Cardinality({b} \ {Bucket}) + Cardinality({saved} \ {TRUE})
         /\ lost' <= MaxLost
         /\ IF b = Bucket THEN UNCHANGED spent
            ELSE Forgives(b + Cardinality(Uncounted))
  BY DEF OwnFails
<1>6. b \in Nat /\ Bucket \in Nat /\ stored' \in Nat
  BY <1>5, BucketIsNat DEF Buckets, LockInv
<1>7. lost' \in 0 .. MaxLost
  <2>1. \A S, T : IsFiniteSet({S} \ {T}) /\ Cardinality({S} \ {T}) \in Nat
    <3>1. ASSUME NEW S, NEW T
          PROVE  IsFiniteSet({S} \ {T}) /\ Cardinality({S} \ {T}) \in Nat
      <4>1. IsFiniteSet({S}) /\ {S} \ {T} \subseteq {S}
        BY FS_Singleton
      <4>2. IsFiniteSet({S} \ {T})
        BY <4>1, FS_Subset
      <4>3. QED
        BY <4>2, FS_CardinalityType
    <3>2. QED
      BY <3>1
  <2>2. Cardinality({b} \ {Bucket}) \in Nat /\ Cardinality({saved} \ {TRUE}) \in Nat
    BY <2>1
  <2>3. lost \in Nat /\ MaxLost \in Nat
    BY AccessAssumption DEF LockInv
  <2> DEFINE x == Cardinality({b} \ {Bucket})
             y == Cardinality({saved} \ {TRUE})
  <2>4. x \in Nat /\ y \in Nat /\ lost' = lost + x + y /\ lost' <= MaxLost
    BY <1>5, <2>2
  <2> HIDE DEF x, y
  <2>5. QED
    BY <2>3, <2>4
<1>8. Bucket' = b + 1
  <2>1. failures' = b + 1 /\ failures' # 0
    BY <1>5, <1>6
  <2>2. QED
    BY <2>1 DEF Bucket
<1> DEFINE u == Cardinality(Uncounted)
           k == Cardinality(Checking)
           m == Cardinality(Callers)
<1>9. /\ u \in Nat /\ k \in Nat /\ m \in Nat /\ MaxAttempts \in Nat
      /\ Cardinality(Uncounted') = u - 1 /\ u - 1 \in Nat
  BY <1>4, CountsAreNat, CountsStayNat, AccessAssumption
<1>10. spent \in Nat /\ u <= spent /\ spent <= Bucket + u /\ spent + k < MaxAttempts + m
  BY DEF LockInv
<1>11. spent' \in Nat /\ u <= spent' /\ spent' <= b + u /\ spent' <= spent
  <2>1. CASE b = Bucket
    BY <1>5, <1>10, <2>1
  <2>2. CASE b # Bucket
    BY <1>5, <1>6, <1>9, <1>10, <2>2 DEF Forgives
  <2>3. QED
    BY <2>1, <2>2
<1>12. /\ Cardinality(Uncounted') <= spent' /\ spent' <= Bucket' + Cardinality(Uncounted')
       /\ spent' + Cardinality(Checking') < MaxAttempts + Cardinality(Callers)
  BY <1>3, <1>6, <1>8, <1>9, <1>10, <1>11
<1>13. QED
  BY <1>5, <1>6, <1>7, <1>11, <1>12 DEF LockInv

\* A success begins the count again.
LEMMA LockClears ==
    ASSUME KeyTypes, LockInv, NEW c \in Callers, OwnClears(c) \/ OwnOpens(c)
    PROVE  LockInv'
<1>1. PICK r \in OwnCaller : r.pc \in {"none", "open"}
                             /\ caller' = [caller EXCEPT ![c] = r]
  BY EndMoves, WriteMoves DEF OwnOpens
<1>2. caller[c].pc \in {"clear", "open"}
  BY DEF OwnClears, OwnOpens
<1>3. CASE OwnOpens(c) /\ ~caller[c].login
  BY <1>1, <1>2, <1>3, LockOthers DEF OwnOpens
<1>4. CASE OwnClears(c) \/ caller[c].login
  <2>1. Uncounted' = Uncounted
    BY <1>1, <1>2, CallerCounts DEF Uncounted
  <2>2. c \in Callers \ (Uncounted \cup Checking')
    BY <1>1, <1>2, CallerCounts DEF Uncounted
  <2>3. /\ failures' \in Nat /\ stored' \in Nat /\ UNCHANGED lost
        /\ spent' = Cardinality(Uncounted')
    BY <1>4, <2>1 DEF OwnClears, OwnOpens, LockInv
  <2>4. Bucket' \in Nat
    BY <2>3 DEF Bucket
  <2>5. QED
    BY <2>3, <2>4, CountsStayNat, AccessAssumption DEF LockInv
<1>5. QED
  BY <1>3, <1>4

\* The row or the memory of the bucket goes.
LEMMA LockForgets ==
    ASSUME KeyTypes, LockInv, OwnBucketEvicted \/ OwnRowCapped
    PROVE  LockInv'
<1>1. Uncounted' = Uncounted /\ Checking' = Checking
  BY DEF OwnBucketEvicted, OwnRowCapped, Uncounted, Checking
<1> DEFINE u == Cardinality(Uncounted)
           k == Cardinality(Checking)
           m == Cardinality(Callers)
<1>2. u \in Nat /\ k \in Nat /\ m \in Nat /\ MaxAttempts \in Nat /\ MaxLost \in Nat
  BY CountsAreNat, AccessAssumption
<1>3. /\ spent \in Nat /\ stored \in Nat /\ failures \in Nat /\ lost \in 0 .. MaxLost
      /\ u <= spent /\ spent <= Bucket + u /\ spent + k < MaxAttempts + m
  BY DEF LockInv
<1>4. CASE OwnBucketEvicted
  <2>1. Bucket = failures /\ Bucket' = stored /\ failures' = 0 /\ UNCHANGED <<stored, lost>>
    BY <1>4 DEF OwnBucketEvicted, Bucket
  <2>2. spent' \in Nat /\ u <= spent' /\ spent' <= stored + u /\ spent' <= spent
    <3>1. CASE stored < failures
      BY <1>2, <1>3, <1>4, <3>1 DEF OwnBucketEvicted, Forgives
    <3>2. CASE ~(stored < failures)
      BY <1>2, <1>3, <1>4, <2>1, <3>2 DEF OwnBucketEvicted
    <3>3. QED
      BY <3>1, <3>2
  <2>3. spent' + k < MaxAttempts + m
    BY <1>2, <1>3, <2>2
  <2>4. QED
    BY <1>1, <1>3, <2>1, <2>2, <2>3 DEF LockInv
<1>5. CASE OwnRowCapped
  <2>1. stored' = 0 /\ UNCHANGED failures /\ lost < MaxLost /\ lost' = lost + 1
    BY <1>5 DEF OwnRowCapped
  <2>2. lost' \in 0 .. MaxLost
    BY <1>2, <1>3, <2>1
  <2>3. Bucket' = failures
    BY <2>1 DEF Bucket
  <2>4. spent' \in Nat /\ u <= spent' /\ spent' <= Bucket' + u /\ spent' <= spent
    <3>1. CASE failures = 0
      BY <1>2, <1>3, <1>5, <2>3, <3>1 DEF OwnRowCapped, Forgives
    <3>2. CASE failures # 0
      BY <1>2, <1>3, <1>5, <2>3, <3>2 DEF OwnRowCapped, Bucket
    <3>3. QED
      BY <3>1, <3>2
  <2>5. spent' + k < MaxAttempts + m
    BY <1>2, <1>3, <2>4
  <2>6. QED
    BY <1>1, <1>3, <2>1, <2>2, <2>4, <2>5 DEF LockInv
<1>6. QED
  BY <1>4, <1>5

LEMMA LockRestart ==
    ASSUME KeyTypes, LockInv, OwnPanelRestarts
    PROVE  LockInv'
<1> DEFINE u == Cardinality(Uncounted)
           m == Cardinality(Callers)
<1>1. Uncounted' = {} /\ Checking' = {}
  BY EndedType DEF OwnPanelRestarts, Uncounted, Checking
<1>2. Cardinality(Uncounted') = 0 /\ Cardinality(Checking') = 0
  BY <1>1, FS_EmptySet
<1>3. stored' = stored /\ failures' = 0 /\ lost' = lost /\ Bucket' = stored
      /\ spent' = IF stored < failures /\ stored < spent - u THEN stored ELSE spent - u
  BY DEF OwnPanelRestarts, Bucket
<1>4. /\ u \in Nat /\ m \in Nat /\ MaxAttempts \in Nat
      /\ spent \in Nat /\ stored \in Nat /\ failures \in Nat /\ lost \in 0 .. MaxLost
      /\ u <= spent /\ spent <= Bucket + u /\ spent < MaxAttempts + m
  BY CountsAreNat, AccessAssumption DEF LockInv
<1>5. spent' \in Nat /\ spent' <= stored /\ spent' <= spent
  <2>1. CASE stored < failures
    BY <1>3, <1>4, <2>1
  <2>2. CASE ~(stored < failures)
    <3>1. Bucket <= stored /\ Bucket \in Nat
      BY <1>4, <2>2 DEF Bucket
    <3>2. QED
      BY <1>3, <1>4, <2>2, <3>1
  <2>3. QED
    BY <2>1, <2>2
<1>6. 0 <= spent' /\ spent' <= Bucket' + 0 /\ spent' + 0 < MaxAttempts + m
  BY <1>3, <1>4, <1>5
<1>7. QED
  BY <1>2, <1>3, <1>4, <1>5, <1>6 DEF LockInv

LEMMA LockStep == KeyTypes /\ LockInv /\ [OwnNext]_ownVars => LockInv'
<1> SUFFICES ASSUME KeyTypes, LockInv, [OwnNext]_ownVars
             PROVE  LockInv'
  OBVIOUS
<1>1. CASE UNCHANGED ownVars
  BY <1>1, LockSame DEF ownVars, ownBucket
<1>2. ASSUME NEW f \in BOOLEAN, OwnMintKey(f)
      PROVE  LockInv'
  BY <1>2, LockSame DEF OwnMintKey
<1>3. ASSUME NEW c \in Callers, OwnLoginRefused(c)
      PROVE  LockInv'
  <2>1. Uncounted' = Uncounted /\ Checking' = Checking /\ UNCHANGED <<stored, lost, spent>>
    BY <1>3 DEF OwnLoginRefused, Uncounted, Checking
  <2>2. failures' = Bucket /\ Bucket' = Bucket
    BY <1>3 DEF OwnLoginRefused, Bucket
  <2>3. QED
    BY <2>1, <2>2, BucketIsNat DEF LockInv
<1>4. ASSUME NEW c \in Callers, NEW n \in Names, NEW s \in Secrets, OwnPresentsKey(c, n, s)
      PROVE  LockInv'
  <2>1. PICK r \in OwnCaller : /\ r.pc = IF owner.secret = NoSecret THEN "claim"
                                                                   ELSE "recover"
                               /\ caller' = [caller EXCEPT ![c] = r]
    BY <1>4, KeyMoves
  <2>2. caller[c].pc = "none" /\ UNCHANGED ownBucket
    BY <1>4 DEF OwnPresentsKey, NotCalling
  <2>3. QED
    BY <2>1, <2>2, LockOthers
<1>5. ASSUME NEW c \in Callers, OwnRehashes(c) \/ OwnClaims(c) \/ OwnRecovers(c)
                                \/ OwnRevokes(c) \/ OwnUnlinks(c) \/ OwnTurnedAway(c)
      PROVE  LockInv'
  <2>1. PICK r \in OwnCaller : r.pc \in {"none", "clear", "open", "unlink", "revoke"}
                               /\ caller' = [caller EXCEPT ![c] = r]
    BY <1>5, WriteMoves, EndMoves DEF OwnTurnedAway
  <2>2. caller[c].pc \in {"rehash", "claim", "recover", "revoke", "unlink"}
        /\ UNCHANGED ownBucket
    BY <1>5 DEF OwnRehashes, OwnClaims, OwnRecovers, OwnRevokes, OwnUnlinks, OwnTurnedAway
  <2>3. QED
    BY <2>1, <2>2, LockOthers
<1>6. CASE OwnWindowPasses
  <2>1. Uncounted' = {} /\ Checking' = {}
    BY <1>6 DEF OwnWindowPasses, Uncounted, Checking
  <2>2. Cardinality(Uncounted') = 0 /\ Cardinality(Checking') = 0
    BY <2>1, FS_EmptySet
  <2>3. failures' = 0 /\ stored' = 0 /\ spent' = 0 /\ UNCHANGED lost /\ Bucket' = 0
    BY <1>6 DEF OwnWindowPasses, Bucket
  <2>4. QED
    BY <2>2, <2>3, CountsAreNat, AccessAssumption DEF LockInv
<1>7. ASSUME NEW t \in Tokens, OwnSessionEnds(t)
      PROVE  LockInv'
  BY <1>7, LockSame DEF OwnSessionEnds
<1>8. QED
  BY <1>1, <1>2, <1>3, <1>4, <1>5, <1>6, <1>7, LockLogin, LockCompares,
     LockFails, LockClears, LockForgets, LockRestart DEF OwnNext

LEMMA LockInit == OwnInit => LockInv
<1> SUFFICES ASSUME OwnInit
             PROVE  LockInv
  OBVIOUS
<1>1. Uncounted = {} /\ Checking = {}
  BY EndedType DEF OwnInit, Uncounted, Checking
<1>2. Cardinality(Uncounted) = 0 /\ Cardinality(Checking) = 0
  BY <1>1, FS_EmptySet
<1>3. QED
  BY <1>2, CountsAreNat, AccessAssumption DEF OwnInit, LockInv, Bucket

LEMMA LockAlways == OwnSpec => [](KeyTypes /\ LockInv)
BY KeyTypesInit, KeyTypesStep, LockInit, LockStep, PTL DEF OwnSpec

LEMMA LockSuffices == KeyTypes /\ LockInv => OwnTypeOK /\ LockoutHolds
BY CountsAreNat, AccessAssumption DEF KeyTypes, LockInv, OwnTypeOK, LockoutHolds

\* All types, the counters among them, which never pass the limit by more than
\* the requests that run at once.
THEOREM OwnTypeCorrect == OwnSpec => []OwnTypeOK
<1>1. KeyTypes /\ LockInv => OwnTypeOK
  BY LockSuffices
<1>2. QED
  BY <1>1, LockAlways, PTL

\* However checks, comparisons and counts of logins interleave, and whether or
\* not the panel restarts between them, no more wrong passwords are compared
\* than the limit and the other requests that run at once.
THEOREM LimitHolds == OwnSpec => []LockoutHolds
<1>1. KeyTypes /\ LockInv => LockoutHolds
  BY LockSuffices
<1>2. QED
  BY <1>1, LockAlways, PTL

-----------------------------------------------------------------------------
(* Recovery.                                                               *)

\* An owner nobody claimed has no sessions, and no caller comes to open one.
Unclaimed ==
    owner.secret = NoSecret =>
        /\ \A t \in Tokens : sessions[t] = NoSession
        /\ \A c \in Callers : caller[c].pc \in {"none", "check", "failed", "claim"}

\* Every session of the owner's name is of now, or the recovery that gave that
\* name has still to revoke.
SessionsOfNow ==
    \/ unrevoked
    \/ \E c \in Callers : caller[c].pc = "revoke" /\ caller[c].name = owner.name
    \/ \A t \in Tokens : Accepted(t) => sessions[t].since = recoveries

RecoveryInv == Unclaimed /\ SessionsOfNow

\* A caller that does not revoke moves on, and the owner stays.
LEMMA RecoveryOthers ==
    ASSUME KeyTypes, RecoveryInv, NEW c \in Callers, NEW r \in OwnCaller,
           caller' = [caller EXCEPT ![c] = r], caller[c].pc # "revoke",
           owner.secret = NoSecret => r.pc \in {"none", "check", "failed", "claim"},
           UNCHANGED <<owner, sessions, recoveries, unrevoked>>
    PROVE  RecoveryInv'
<1>1. \A d \in Callers : caller'[d] = IF d = c THEN r ELSE caller[d]
  BY OneCaller
<1>2. Unclaimed'
  BY <1>1 DEF RecoveryInv, Unclaimed
<1>3. SessionsOfNow'
  BY <1>1 DEF RecoveryInv, SessionsOfNow, Accepted
<1>4. QED
  BY <1>2, <1>3 DEF RecoveryInv

LEMMA RecoverySame ==
    ASSUME RecoveryInv, UNCHANGED <<owner, caller, recoveries, unrevoked>>,
           \A t \in Tokens : sessions'[t] = sessions[t] \/ sessions'[t] = NoSession
    PROVE  RecoveryInv'
BY DEF RecoveryInv, Unclaimed, SessionsOfNow, Accepted

LEMMA RecoveryRehash ==
    ASSUME KeyTypes, RecoveryInv, NEW c \in Callers, OwnRehashes(c)
    PROVE  RecoveryInv'
<1>1. PICK r \in OwnCaller : r.pc = "clear" /\ caller' = [caller EXCEPT ![c] = r]
  BY WriteMoves
<1>2. \A d \in Callers : caller'[d] = IF d = c THEN r ELSE caller[d]
  BY <1>1, OneCaller
<1>3. caller[c].pc = "rehash" /\ UNCHANGED <<sessions, recoveries, unrevoked>>
  BY DEF OwnRehashes
<1>4. owner.secret # NoSecret
  BY <1>3 DEF RecoveryInv, Unclaimed
<1>5. owner'.name = owner.name /\ owner'.secret # NoSecret
  <2>1. caller[c].secret \in Secrets
    BY DEF KeyTypes, OwnCaller
  <2>2. CASE owner' = [owner EXCEPT !.secret = caller[c].secret, !.weak = FALSE]
    BY <2>1, <2>2, AccessAssumption DEF KeyTypes
  <2>3. CASE UNCHANGED owner
    BY <1>4, <2>3
  <2>4. QED
    BY <2>2, <2>3 DEF OwnRehashes
<1>6. Unclaimed'
  BY <1>5 DEF Unclaimed
<1>7. SessionsOfNow'
  BY <1>2, <1>3, <1>5 DEF RecoveryInv, SessionsOfNow, Accepted
<1>8. QED
  BY <1>6, <1>7 DEF RecoveryInv

LEMMA RecoveryClaim ==
    ASSUME KeyTypes, RecoveryInv, NEW c \in Callers, OwnClaims(c)
    PROVE  RecoveryInv'
<1>1. owner' = [name |-> caller[c].name, secret |-> caller[c].secret, weak |-> FALSE]
      /\ unrevoked' = (unrevoked \/ owner.secret # NoSecret)
      /\ UNCHANGED <<sessions, recoveries>>
  BY DEF OwnClaims
<1>2. caller[c].secret \in Secrets
  BY DEF KeyTypes, OwnCaller
<1>3. Unclaimed'
  BY <1>1, <1>2, AccessAssumption DEF Unclaimed
<1>4. CASE owner.secret # NoSecret
  BY <1>1, <1>3, <1>4 DEF RecoveryInv, SessionsOfNow
<1>5. CASE owner.secret = NoSecret
  <2>1. \A t \in Tokens : sessions'[t] = NoSession
    BY <1>1, <1>5 DEF RecoveryInv, Unclaimed
  <2>2. QED
    BY <1>3, <2>1 DEF RecoveryInv, SessionsOfNow, Accepted
<1>6. QED
  BY <1>4, <1>5

LEMMA RecoveryRecovers ==
    ASSUME KeyTypes, RecoveryInv, NEW c \in Callers, OwnRecovers(c)
    PROVE  RecoveryInv'
<1>1. PICK r \in OwnCaller : r.pc = "revoke" /\ r.name = caller[c].name
                             /\ caller' = [caller EXCEPT ![c] = r]
  BY WriteMoves
<1>2. owner' = [name |-> caller[c].name, secret |-> caller[c].secret, weak |-> FALSE]
  BY DEF OwnRecovers
<1>3. caller'[c] = r /\ caller[c].secret \in Secrets
  BY <1>1, OneCaller DEF KeyTypes, OwnCaller
<1>4. caller'[c].pc = "revoke" /\ caller'[c].name = owner'.name
  BY <1>1, <1>2, <1>3
<1>5. owner'.secret # NoSecret
  BY <1>2, <1>3, AccessAssumption
<1>6. QED
  BY <1>4, <1>5 DEF RecoveryInv, Unclaimed, SessionsOfNow

LEMMA RecoveryRevokes ==
    ASSUME KeyTypes, RecoveryInv, NEW c \in Callers, OwnRevokes(c)
    PROVE  RecoveryInv'
<1>1. PICK r \in OwnCaller : r.pc = "unlink" /\ caller' = [caller EXCEPT ![c] = r]
  BY WriteMoves
<1>2. \A d \in Callers : caller'[d] = IF d = c THEN r ELSE caller[d]
  BY <1>1, OneCaller
<1>3. caller[c].pc = "revoke" /\ UNCHANGED <<owner, recoveries>>
  BY DEF OwnRevokes
<1>4. owner.secret # NoSecret
  BY <1>3 DEF RecoveryInv, Unclaimed
<1>5. Unclaimed'
  BY <1>3, <1>4 DEF Unclaimed
<1>6. SessionsOfNow'
  <2>1. CASE unrevoked'
    BY <2>1 DEF SessionsOfNow
  <2>2. CASE ~unrevoked'
    <3>1. /\ unrevoked' = (unrevoked /\ caller[c].name # owner.name)
          /\ \A t \in Tokens : sessions'[t] = IF t \in Revoked(caller[c].name)
                                              THEN NoSession ELSE sessions[t]
      BY <2>2 DEF OwnRevokes
    <3>2. CASE caller[c].name = owner.name
      <4>1. \A t \in Tokens : ~Accepted(t)'
        BY <1>3, <3>1, <3>2 DEF Accepted, Revoked
      <4>2. QED
        BY <4>1 DEF SessionsOfNow
    <3>3. CASE caller[c].name # owner.name
      <4>1. ~unrevoked
        BY <2>2, <3>1, <3>3
      <4>2. QED
        BY <1>1, <1>2, <1>3, <3>1, <3>3, <4>1 DEF RecoveryInv, SessionsOfNow, Accepted
    <3>4. QED
      BY <3>2, <3>3
  <2>3. QED
    BY <2>1, <2>2
<1>7. QED
  BY <1>5, <1>6 DEF RecoveryInv

LEMMA RecoveryOpens ==
    ASSUME KeyTypes, RecoveryInv, NEW c \in Callers, OwnOpens(c)
    PROVE  RecoveryInv'
<1>1. PICK r \in OwnCaller : r.pc = "none" /\ caller' = [caller EXCEPT ![c] = r]
  BY EndMoves DEF OwnOpens
<1>2. \A d \in Callers : caller'[d] = IF d = c THEN r ELSE caller[d]
  BY <1>1, OneCaller
<1>3. \A t \in Tokens : sessions'[t] = sessions[t] \/ sessions'[t].since = recoveries
  <2>1. CASE UNCHANGED sessions
    BY <2>1
  <2>2. ASSUME NEW t \in Tokens,
               sessions' = [sessions EXCEPT ![t] = [name |-> caller[c].name,
                                                    since |-> recoveries]]
        PROVE  \A u \in Tokens : \/ sessions'[u] = sessions[u]
                                 \/ sessions'[u].since = recoveries
    BY <2>2 DEF KeyTypes
  <2>3. QED
    BY <2>1, <2>2 DEF OwnOpens
<1>5. caller[c].pc = "open" /\ UNCHANGED <<owner, recoveries, unrevoked>>
  BY DEF OwnOpens
<1>6. owner.secret # NoSecret
  BY <1>5 DEF RecoveryInv, Unclaimed
<1>7. Unclaimed'
  BY <1>5, <1>6 DEF Unclaimed
<1>8. SessionsOfNow'
  BY <1>2, <1>3, <1>5 DEF RecoveryInv, SessionsOfNow, Accepted
<1>9. QED
  BY <1>7, <1>8 DEF RecoveryInv

LEMMA RecoveryRestart ==
    ASSUME KeyTypes, RecoveryInv, OwnPanelRestarts
    PROVE  RecoveryInv'
<1>1. /\ \A c \in Callers : caller'[c].pc = "none"
      /\ unrevoked' = (unrevoked \/ \E c \in Callers : caller[c].pc = "revoke")
      /\ UNCHANGED <<owner, sessions, recoveries>>
  BY EndedType DEF OwnPanelRestarts
<1>2. Unclaimed'
  BY <1>1 DEF RecoveryInv, Unclaimed
<1>3. SessionsOfNow'
  BY <1>1 DEF RecoveryInv, SessionsOfNow, Accepted
<1>4. QED
  BY <1>2, <1>3 DEF RecoveryInv

LEMMA RecoveryStep == KeyTypes /\ RecoveryInv /\ [OwnNext]_ownVars => RecoveryInv'
<1> SUFFICES ASSUME KeyTypes, RecoveryInv, [OwnNext]_ownVars
             PROVE  RecoveryInv'
  OBVIOUS
<1>1. CASE UNCHANGED <<owner, caller, sessions, recoveries, unrevoked>>
  BY <1>1, RecoverySame
<1>2. (\E f \in BOOLEAN : OwnMintKey(f)) \/ (\E c \in Callers : OwnLoginRefused(c))
      \/ OwnWindowPasses \/ OwnBucketEvicted \/ OwnRowCapped \/ UNCHANGED ownVars
         => UNCHANGED <<owner, caller, sessions, recoveries, unrevoked>>
  BY DEF OwnMintKey, OwnLoginRefused, OwnWindowPasses, OwnBucketEvicted, OwnRowCapped,
         ownVars
<1>3. ASSUME NEW c \in Callers, NEW n \in Names, NEW s \in Secrets,
             OwnLogin(c, n, s) \/ OwnPresentsKey(c, n, s)
      PROVE  RecoveryInv'
  <2>1. PICK r \in OwnCaller :
           /\ caller' = [caller EXCEPT ![c] = r]
           /\ owner.secret = NoSecret => r.pc \in {"none", "check", "failed", "claim"}
    BY <1>3, LoginMoves, KeyMoves
  <2>2. caller[c].pc # "revoke" /\ UNCHANGED <<owner, sessions, recoveries, unrevoked>>
    BY <1>3 DEF OwnLogin, OwnPresentsKey, NotCalling
  <2>3. QED
    BY <2>1, <2>2, RecoveryOthers
<1>4. ASSUME NEW c \in Callers,
             \/ OwnCompares(c) \/ OwnFails(c) \/ OwnClears(c)
             \/ OwnUnlinks(c) \/ OwnTurnedAway(c)
      PROVE  RecoveryInv'
  <2>1. /\ caller[c].pc # "revoke" /\ UNCHANGED <<owner, sessions, recoveries, unrevoked>>
        /\ OwnUnlinks(c) \/ OwnClears(c) => owner.secret # NoSecret
    BY <1>4 DEF OwnCompares, OwnFails, OwnClears, OwnUnlinks, OwnTurnedAway,
                RecoveryInv, Unclaimed
  <2>2. PICK r \in OwnCaller :
           /\ caller' = [caller EXCEPT ![c] = r]
           /\ owner.secret = NoSecret => r.pc \in {"none", "check", "failed", "claim"}
    BY <1>4, <2>1, CompareMoves, EndMoves, WriteMoves DEF OwnFails, OwnTurnedAway
  <2>3. QED
    BY <2>1, <2>2, RecoveryOthers
<1>5. ASSUME NEW t \in Tokens, OwnSessionEnds(t)
      PROVE  RecoveryInv'
  <2>1. \A u \in Tokens : sessions'[u] = sessions[u] \/ sessions'[u] = NoSession
    BY <1>5 DEF OwnSessionEnds, KeyTypes
  <2>2. QED
    BY <1>5, <2>1, RecoverySame DEF OwnSessionEnds
<1>6. QED
  BY <1>1, <1>2, <1>3, <1>4, <1>5, RecoveryRehash, RecoveryClaim, RecoveryRecovers,
     RecoveryRevokes, RecoveryOpens, RecoveryRestart DEF OwnNext

\* Whatever logins, claims, recoveries and restarts interleave, a recovery that
\* was not cut short ends every session that was opened before it.
THEOREM RecoveryHolds == OwnSpec => []RecoveryEndsSessions
<1>1. OwnInit => RecoveryInv
  <2> SUFFICES ASSUME OwnInit
               PROVE  RecoveryInv
    OBVIOUS
  <2>1. /\ \A t \in Tokens : sessions[t] = NoSession
        /\ \A c \in Callers : caller[c].pc = "none"
    BY EndedType DEF OwnInit
  <2>2. QED
    BY <2>1 DEF RecoveryInv, Unclaimed, SessionsOfNow, Accepted
<1>2. RecoveryInv => RecoveryEndsSessions
  BY DEF RecoveryInv, SessionsOfNow, RecoveryEndsSessions
<1>3. QED
  BY <1>1, <1>2, KeyTypesInit, KeyTypesStep, RecoveryStep, PTL DEF OwnSpec
=============================================================================
