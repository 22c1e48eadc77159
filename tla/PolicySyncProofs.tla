-------------------------- MODULE PolicySyncProofs --------------------------
(***************************************************************************)
(* Theorems about PolicySync for any nodes and callers: the types are      *)
(* kept, recorded hashes tell the truth and no owed revocation is dropped. *)
(***************************************************************************)
EXTENDS PolicySync, TLAPS

LEMMA IdleTypes == IdlePass \in Pass /\ IdleFetch \in Fetch
BY DEF IdlePass, IdleFetch, Pass, Fetch, Policies

LEMMA InitType == Init => TypeOK
BY IdleTypes DEF Init, TypeOK, Policies

\* The node's side keeps the type of the accounts.
LEMMA AppliesType ==
    ASSUME TypeOK, NEW n \in Nodes, NEW policy \in Policies \cup {"absent"},
           Applies(n, policy)
    PROVE  acct' \in [Nodes -> Policies \cup {"absent"}]
BY DEF Applies, TypeOK

LEMMA StopWaitingType ==
    ASSUME TypeOK, NEW p \in Passes, NEW n \in Nodes, NEW S \in SUBSET Nodes,
           StopWaiting(p, n, S)
    PROVE  pass' \in [Passes -> Pass]
<1>1. pass[p] \in Pass
  BY DEF TypeOK
<1> DEFINE rec == [pass[p] EXCEPT !.waiting = @ \ {n}, !.ok = @ \cup S]
<1>2. rec \in Pass
  BY <1>1 DEF Pass
<1>3. pass' = [pass EXCEPT ![p] = rec]
  BY <1>1 DEF StopWaiting, TypeOK, Pass
<1>4. QED
  BY <1>2, <1>3 DEF TypeOK

LEMMA StrayedType ==
    ASSUME TypeOK, NEW n \in Nodes, Strayed(n)
    PROVE  strays' \subseteq Nodes
BY DEF Strayed, TypeOK

\* The steps of a pass keep the types.
LEMMA PassStepType == TypeOK /\ PassStep => TypeOK'
<1> SUFFICES ASSUME TypeOK, PassStep
             PROVE  TypeOK'
  OBVIOUS
<1> USE DEF dbVars, nodeVars, histVars
<1>1. ASSUME NEW p \in Passes, NEW force \in BOOLEAN, BeginPass(p, force)
      PROVE  TypeOK'
  <2>1. [pc |-> "pushing", want |-> row, waiting |-> Jobs(force), ok |-> {}]
          \in Pass
    BY <1>1 DEF BeginPass, Found, Jobs, Pass, TypeOK
  <2>2. pass' \in [Passes -> Pass]
    BY <1>1, <2>1 DEF BeginPass, TypeOK
  <2>3. QED
    BY <1>1, <2>2 DEF BeginPass, TypeOK
<1>2. ASSUME NEW p \in Passes, NEW n \in Nodes, PushAnswered(p, n)
      PROVE  TypeOK'
  <2>1. pass[p].want \in Policies
    BY DEF TypeOK, Pass
  <2>2. pass' \in [Passes -> Pass]
    BY <1>2, StopWaitingType DEF PushAnswered
  <2>3. acct' \in [Nodes -> Policies \cup {"absent"}]
    BY <1>2, <2>1, AppliesType DEF PushAnswered
  <2>4. strays' \subseteq Nodes
    BY <1>2, StrayedType DEF PushAnswered
  <2>5. QED
    BY <1>2, <2>2, <2>3, <2>4 DEF PushAnswered, TypeOK
<1>3. ASSUME NEW p \in Passes, NEW n \in Nodes, PushFails(p, n)
      PROVE  TypeOK'
  <2>1. pass[p].want \in Policies
    BY DEF TypeOK, Pass
  <2>2. pass' \in [Passes -> Pass]
    BY <1>3, StopWaitingType DEF PushFails
  <2>3. /\ acct' \in [Nodes -> Policies \cup {"absent"}]
        /\ strays' \subseteq Nodes
        /\ doubt' \subseteq Nodes
    <3>1. CASE UNCHANGED <<acct, doubt, strays>>
      BY <3>1 DEF TypeOK
    <3>2. CASE /\ Applies(n, pass[p].want)
               /\ doubt' = doubt \cup {n}
               /\ Strayed(n)
      <4>1. doubt' \subseteq Nodes
        BY <3>2 DEF TypeOK
      <4>2. QED
        BY <2>1, <3>2, <4>1, AppliesType, StrayedType
    <3>3. QED
      BY <1>3, <3>1, <3>2 DEF PushFails
  <2>4. QED
    BY <1>3, <2>2, <2>3 DEF PushFails, TypeOK
<1>4. ASSUME NEW p \in Passes, NEW n \in Nodes, PushExpires(p, n)
      PROVE  TypeOK'
  <2>1. pass[p].want \in Policies
    BY DEF TypeOK, Pass
  <2>2. pass' \in [Passes -> Pass]
    BY <1>4, StopWaitingType DEF PushExpires
  <2>3. QED
    BY <1>4, <2>1, <2>2 DEF PushExpires, TypeOK
<1>5. ASSUME NEW p \in Passes, Merge(p)
      PROVE  TypeOK'
  <2>1. pass[p].want \in Policies /\ pass[p].ok \subseteq Nodes
    BY DEF TypeOK, Pass
  <2>2. pass' \in [Passes -> Pass]
    BY <1>5, IdleTypes DEF Merge, TypeOK
  <2>3. hash' \in [Nodes -> Policies \cup {"none"}] /\ doubt' \subseteq Nodes
    BY <1>5, <2>1 DEF Merge, TypeOK
  <2>4. QED
    BY <1>5, <2>2, <2>3 DEF Merge, TypeOK
<1>6. QED
  BY <1>1, <1>2, <1>3, <1>4, <1>5 DEF PassStep

\* Late calls and downloads keep the types.
LEMMA LateAndFetchType == TypeOK /\ (LateStep \/ FetchStep) => TypeOK'
<1> SUFFICES ASSUME TypeOK, LateStep \/ FetchStep
             PROVE  TypeOK'
  OBVIOUS
<1> USE DEF dbVars, memVars, nodeVars, histVars
<1>1. ASSUME NEW n \in Nodes, NEW policy \in Policies, LateLands(n, policy)
      PROVE  TypeOK'
  <2>1. acct' \in [Nodes -> Policies \cup {"absent"}] /\ strays' \subseteq Nodes
    BY <1>1, AppliesType, StrayedType DEF LateLands
  <2>2. QED
    BY <1>1, <2>1 DEF LateLands, TypeOK
<1>2. ASSUME NEW n \in Nodes, NEW policy \in Policies, LateDies(n, policy)
      PROVE  TypeOK'
  BY <1>2 DEF LateDies, TypeOK
<1>3. ASSUME NEW n \in Nodes, BeginFetch(n)
      PROVE  TypeOK'
  <2>1. [pc |-> "pushing", want |-> row] \in Fetch
    BY <1>3 DEF BeginFetch, Found, TypeOK, Fetch
  <2>2. fetch' \in [Nodes -> Fetch]
    BY <1>3, <2>1 DEF BeginFetch, TypeOK
  <2>3. QED
    BY <1>3, <2>2 DEF BeginFetch, TypeOK
<1>4. ASSUME NEW n \in Nodes, FetchPush(n)
      PROVE  TypeOK'
  <2>1. fetch[n] \in Fetch /\ fetch[n].want \in Policies
    BY DEF TypeOK, Fetch
  <2>2. fetch' \in [Nodes -> Fetch]
    BY <1>4, IdleTypes DEF FetchPush, TypeOK
  <2>3. /\ acct' \in [Nodes -> Policies \cup {"absent"}]
        /\ late' \subseteq Nodes \X Policies
        /\ strays' \subseteq Nodes
        /\ doubt' \subseteq Nodes
    <3>1. CASE /\ Applies(n, fetch[n].want)
               /\ doubt' = doubt \cup {n}
               /\ Strayed(n)
               /\ UNCHANGED late
      <4>1. doubt' \subseteq Nodes /\ late' \subseteq Nodes \X Policies
        BY <3>1 DEF TypeOK
      <4>2. QED
        BY <2>1, <3>1, <4>1, AppliesType, StrayedType
    <3>2. CASE UNCHANGED <<acct, late, histVars>>
      BY <3>2 DEF TypeOK
    <3>3. CASE /\ late' = late \cup {<<n, fetch[n].want>>}
               /\ UNCHANGED <<acct, histVars>>
      BY <2>1, <3>3 DEF TypeOK
    <3>4. QED
      BY <1>4, <3>1, <3>2, <3>3 DEF FetchPush
  <2>4. QED
    BY <1>4, <2>2, <2>3 DEF FetchPush, TypeOK
<1>5. QED
  BY <1>1, <1>2, <1>3, <1>4 DEF LateStep, FetchStep

\* Revocations keep the types.
LEMMA RevocationStepType == TypeOK /\ RevocationStep => TypeOK'
<1> SUFFICES ASSUME TypeOK, NEW n \in Nodes,
                    \/ BeginRevocation(n)
                    \/ RevocationDropped(n)
                    \/ RevocationAnswered(n)
                    \/ RevocationFails(n)
             PROVE  TypeOK'
  BY DEF RevocationStep
<1> USE DEF dbVars, memVars, histVars, nodeVars
<1>0. CASE RevocationDropped(n)
  BY <1>0 DEF RevocationDropped, TypeOK
<1>1. CASE BeginRevocation(n)
  BY <1>1 DEF BeginRevocation, TypeOK
<1>2. CASE RevocationAnswered(n)
  <2>1. acct' \in [Nodes -> Policies \cup {"absent"}]
    BY <1>2, AppliesType DEF RevocationAnswered
  <2>2. QED
    BY <1>2, <2>1 DEF RevocationAnswered, TypeOK
<1>3. CASE RevocationFails(n)
  <2>1. acct' \in [Nodes -> Policies \cup {"absent"}]
    BY <1>3, AppliesType DEF RevocationFails, TypeOK
  <2>2. QED
    BY <1>3, <2>1 DEF RevocationFails, JobsAfterFailure, TypeOK
<1>4. QED
  BY <1>0, <1>1, <1>2, <1>3

\* What people and failures do keeps the types.
LEMMA DisturbanceType == TypeOK /\ Disturbance => TypeOK'
<1> SUFFICES ASSUME TypeOK, Disturbance
             PROVE  TypeOK'
  OBVIOUS
<1> USE DEF dbVars, memVars, nodeVars, histVars
<1>1. CASE ChangePolicy
  BY <1>1 DEF ChangePolicy, TypeOK
<1>2. CASE DeleteUser
  BY <1>2 DEF DeleteUser, TypeOK
<1>3. CASE PanelRestart
  <2>1. /\ pass' \in [Passes -> Pass]
        /\ fetch' \in [Nodes -> Fetch]
    BY <1>3, IdleTypes DEF PanelRestart
  <2>2. late' \subseteq Nodes \X Policies
    BY <1>3 DEF PanelRestart, TypeOK
  <2>3. UNION {pass[p].ok : p \in Passes} \subseteq Nodes
    BY DEF TypeOK, Pass
  <2>4. doubt' \subseteq Nodes
    BY <1>3, <2>3 DEF PanelRestart, TypeOK
  <2>5. QED
    BY <1>3, <2>1, <2>2, <2>4 DEF PanelRestart, TypeOK
<1>4. ASSUME NEW n \in Removable, DeleteNode(n)
      PROVE  TypeOK'
  BY <1>4, ConstantsAssumption DEF DeleteNode, TypeOK
<1>5. ASSUME NEW n \in Removable, RestoreNode(n)
      PROVE  TypeOK'
  BY <1>5, ConstantsAssumption DEF RestoreNode, TypeOK
<1>6. ASSUME NEW n \in Removable, RebuildNode(n)
      PROVE  TypeOK'
  <2>1. n \in Nodes
    BY ConstantsAssumption
  <2>2. acct' \in [Nodes -> Policies \cup {"absent"}]
    BY <1>6, <2>1, AppliesType DEF RebuildNode
  <2>3. QED
    BY <1>6, <2>1, <2>2 DEF RebuildNode, TypeOK
<1>7. QED
  BY <1>1, <1>2, <1>3, <1>4, <1>5, <1>6 DEF Disturbance

LEMMA NextType == TypeOK /\ [Next]_vars => TypeOK'
<1>1. TypeOK /\ UNCHANGED vars => TypeOK'
  BY DEF vars, dbVars, memVars, nodeVars, histVars, TypeOK
<1>2. QED
  BY <1>1, PassStepType, LateAndFetchType, RevocationStepType, DisturbanceType
  DEF Next

\* Every variable keeps its type.
THEOREM TypeCorrect == Spec => []TypeOK
BY InitType, NextType, PTL DEF Spec

-----------------------------------------------------------------------------
(* No owed revocation is dropped.  RevocationOwed is not inductive: a node *)
(* that comes back into the table must be known to have lost its job.      *)

OwedInv ==
    /\ row = "absent" => Nodes \ registered \subseteq strays
    /\ RevocationOwed

\* A policy that lands leaves the account owed a revocation, or stray.
LEMMA AppliesOwed ==
    ASSUME TypeOK, OwedInv, NEW n \in Nodes, NEW policy \in Policies,
           Applies(n, policy), Strayed(n), UNCHANGED <<row, registered, pending>>
    PROVE  OwedInv'
BY DEF OwedInv, RevocationOwed, Applies, Strayed, TypeOK

LEMMA QuietOwed ==
    ASSUME OwedInv, UNCHANGED <<row, registered, pending, acct, strays>>
    PROVE  OwedInv'
BY DEF OwedInv, RevocationOwed

LEMMA PassStepOwed == TypeOK /\ OwedInv /\ PassStep => OwedInv'
<1> SUFFICES ASSUME TypeOK, OwedInv, NEW p \in Passes,
                    \/ \E force \in BOOLEAN : BeginPass(p, force)
                    \/ \E n \in Nodes : \/ PushAnswered(p, n)
                                        \/ PushFails(p, n)
                                        \/ PushExpires(p, n)
                    \/ Merge(p)
             PROVE  OwedInv'
  BY DEF PassStep
<1> USE DEF dbVars, nodeVars, histVars
<1>0. pass[p].want \in Policies
  BY DEF TypeOK, Pass
<1>1. ASSUME NEW force \in BOOLEAN, BeginPass(p, force)
      PROVE  OwedInv'
  BY <1>1, QuietOwed DEF BeginPass
<1>2. ASSUME NEW n \in Nodes, PushAnswered(p, n)
      PROVE  OwedInv'
  BY <1>0, <1>2, AppliesOwed DEF PushAnswered
<1>3. ASSUME NEW n \in Nodes, PushFails(p, n)
      PROVE  OwedInv'
  BY <1>0, <1>3, AppliesOwed, QuietOwed DEF PushFails
<1>4. ASSUME NEW n \in Nodes, PushExpires(p, n)
      PROVE  OwedInv'
  BY <1>4, QuietOwed DEF PushExpires
<1>5. CASE Merge(p)
  BY <1>5, QuietOwed DEF Merge
<1>6. QED
  BY <1>1, <1>2, <1>3, <1>4, <1>5

LEMMA LateAndFetchOwed ==
    TypeOK /\ OwedInv /\ (LateStep \/ FetchStep) => OwedInv'
<1> SUFFICES ASSUME TypeOK, OwedInv, LateStep \/ FetchStep
             PROVE  OwedInv'
  OBVIOUS
<1> USE DEF dbVars, memVars, nodeVars, histVars
<1>1. ASSUME NEW n \in Nodes, NEW policy \in Policies, LateLands(n, policy)
      PROVE  OwedInv'
  BY <1>1, AppliesOwed DEF LateLands
<1>2. ASSUME NEW n \in Nodes, NEW policy \in Policies, LateDies(n, policy)
      PROVE  OwedInv'
  BY <1>2, QuietOwed DEF LateDies
<1>3. ASSUME NEW n \in Nodes, BeginFetch(n)
      PROVE  OwedInv'
  BY <1>3, QuietOwed DEF BeginFetch
<1>4. ASSUME NEW n \in Nodes, FetchPush(n)
      PROVE  OwedInv'
  <2>1. fetch[n].want \in Policies
    BY DEF TypeOK, Fetch
  <2>2. QED
    BY <1>4, <2>1, AppliesOwed, QuietOwed DEF FetchPush
<1>5. QED
  BY <1>1, <1>2, <1>3, <1>4 DEF LateStep, FetchStep

\* A job ends with the acknowledged deletion, or with a node that cannot be
\* loaded, which is a stray from then on.
LEMMA RevocationStepOwed == TypeOK /\ OwedInv /\ RevocationStep => OwedInv'
<1> SUFFICES ASSUME TypeOK, OwedInv, NEW n \in Nodes,
                    \/ BeginRevocation(n)
                    \/ RevocationDropped(n)
                    \/ RevocationAnswered(n)
                    \/ RevocationFails(n)
             PROVE  OwedInv'
  BY DEF RevocationStep
<1> USE DEF dbVars, memVars, histVars, nodeVars, OwedInv, RevocationOwed
<1>0. CASE RevocationDropped(n)
  BY <1>0 DEF RevocationDropped
<1>1. CASE BeginRevocation(n)
  BY <1>1 DEF BeginRevocation
<1>2. CASE RevocationAnswered(n)
  BY <1>2 DEF RevocationAnswered, Applies, TypeOK
<1>3. CASE RevocationFails(n)
  BY <1>3 DEF RevocationFails, JobsAfterFailure, Applies, TypeOK
<1>4. QED
  BY <1>0, <1>1, <1>2, <1>3

LEMMA DisturbanceOwed == TypeOK /\ OwedInv /\ Disturbance => OwedInv'
<1> SUFFICES ASSUME TypeOK, OwedInv, Disturbance
             PROVE  OwedInv'
  OBVIOUS
<1> USE DEF dbVars, memVars, nodeVars, histVars, OwedInv, RevocationOwed
<1>1. CASE ChangePolicy
  BY <1>1 DEF ChangePolicy, Policies
<1>2. CASE DeleteUser
  BY <1>2 DEF DeleteUser
<1>3. CASE PanelRestart
  BY <1>3 DEF PanelRestart
<1>4. ASSUME NEW n \in Removable, DeleteNode(n)
      PROVE  OwedInv'
  BY <1>4 DEF DeleteNode
<1>5. ASSUME NEW n \in Removable, RestoreNode(n)
      PROVE  OwedInv'
  BY <1>5, ConstantsAssumption DEF RestoreNode
<1>6. ASSUME NEW n \in Removable, RebuildNode(n)
      PROVE  OwedInv'
  BY <1>6, ConstantsAssumption DEF RebuildNode, Applies, TypeOK
<1>7. QED
  BY <1>1, <1>2, <1>3, <1>4, <1>5, <1>6 DEF Disturbance

\* The job of a registered node that still has a deleted user's account is
\* never dropped, whatever calls fail and in whatever order nodes and users are
\* deleted and restored (revocations.go:78-92), but for the strays: nodes the
\* deletion did not know, nodes removed since, nodes that could not be loaded
\* when their job came up (revocations.go:71-76) and nodes an overtaken call
\* reached once their job was done.
THEOREM OwedRevocationsKept == Spec => []RevocationOwed
<1>1. Init => OwedInv
  BY DEF Init, OwedInv, RevocationOwed
<1>2. TypeOK /\ OwedInv /\ [Next]_vars => OwedInv'
  <2>1. OwedInv /\ UNCHANGED vars => OwedInv'
    BY QuietOwed DEF vars, dbVars, nodeVars, histVars
  <2>2. QED
    BY <2>1, PassStepOwed, LateAndFetchOwed, RevocationStepOwed, DisturbanceOwed
    DEF Next
<1>3. OwedInv => RevocationOwed
  BY DEF OwedInv
<1>4. QED
  BY <1>1, <1>2, <1>3, TypeCorrect, PTL DEF Spec

-----------------------------------------------------------------------------
(* Recorded hashes tell the truth.  Between a node's acknowledgement and   *)
(* the merge that records it the truth is in the pass, and the lock makes  *)
(* that pass the only one.                                                 *)

\* Nothing is recorded or revoked for a user that is not, or still, there.
Lifetime ==
    /\ row = "absent" => hash = [n \in Nodes |-> "none"]
    /\ row # "absent" => pending = {} /\ revoking = NoNode

\* Only the holder of policySyncLock has a pass under way.
Exclusive ==
    \A p \in Passes : pass[p] = IdlePass \/ lock = p

\* What a pass was told, and what is recorded, is what the node has.
Truth ==
    \A n \in Nodes \ doubt :
       /\ \A p \in Passes : (row # "absent" /\ n \in pass[p].ok)
                              => acct[n] = pass[p].want
       /\ (hash[n] # "none" /\ \A p \in Passes : n \notin pass[p].ok)
            => acct[n] = hash[n]

HashInv == Lifetime /\ Exclusive /\ Truth

LEMMA QuietHash ==
    ASSUME HashInv,
           UNCHANGED <<row, hash, pending, revoking, lock, pass, acct, doubt>>
    PROVE  HashInv'
BY DEF HashInv, Lifetime, Exclusive, Truth

\* Whatever lands outside a pass puts its node in doubt.
LEMMA DoubtedHash ==
    ASSUME TypeOK, HashInv, NEW n \in Nodes, NEW policy,
           Applies(n, policy), doubt' = doubt \cup {n},
           UNCHANGED <<row, hash, pending, revoking, lock, pass>>
    PROVE  HashInv'
<1>1. Lifetime' /\ Exclusive'
  BY DEF HashInv, Lifetime, Exclusive
<1>2. Truth'
  BY DEF HashInv, Truth, Applies, TypeOK
<1>3. QED
  BY <1>1, <1>2 DEF HashInv

\* A pass that stops waiting for a node still holds the lock.
LEMMA StopWaitingExclusive ==
    ASSUME TypeOK, Exclusive, NEW p \in Passes, NEW n \in Nodes,
           NEW S \in SUBSET Nodes,
           Awaits(p, n), StopWaiting(p, n, S), UNCHANGED lock
    PROVE  Exclusive'
<1>1. pass[p] # IdlePass
  BY DEF Awaits, IdlePass
<1>2. lock' = p
  BY <1>1 DEF Exclusive
<1>3. \A q \in Passes \ {p} : pass'[q] = pass[q]
  BY DEF StopWaiting, TypeOK
<1>4. QED
  BY <1>2, <1>3 DEF Exclusive

LEMMA PassStepHash == TypeOK /\ HashInv /\ PassStep => HashInv'
<1> SUFFICES ASSUME TypeOK, HashInv, NEW p \in Passes,
                    \/ \E force \in BOOLEAN : BeginPass(p, force)
                    \/ \E n \in Nodes : \/ PushAnswered(p, n)
                                        \/ PushFails(p, n)
                                        \/ PushExpires(p, n)
                    \/ Merge(p)
             PROVE  HashInv'
  BY DEF PassStep
<1> USE DEF dbVars, nodeVars, histVars
<1>0. pass[p] \in Pass
  BY DEF TypeOK
<1>1. ASSUME NEW force \in BOOLEAN, BeginPass(p, force)
      PROVE  HashInv'
  <2>1. Lifetime'
    BY <1>1 DEF BeginPass, HashInv, Lifetime
  <2>2. \A q \in Passes : pass[q] = IdlePass
    BY <1>1, ConstantsAssumption DEF BeginPass, LockFree, HashInv, Exclusive
  <2>3. \A q \in Passes : pass[q].ok = {} /\ pass'[q].ok = {}
    BY <1>1, <2>2 DEF BeginPass, IdlePass, TypeOK
  <2>4. Exclusive'
    BY <1>1, <2>2 DEF BeginPass, Exclusive, TypeOK
  <2>5. Truth'
    BY <1>1, <2>3 DEF BeginPass, HashInv, Truth
  <2>6. QED
    BY <2>1, <2>4, <2>5 DEF HashInv
<1>2. ASSUME NEW n \in Nodes, NEW S \in SUBSET Nodes,
             Awaits(p, n), StopWaiting(p, n, S)
      PROVE  /\ pass'[p].ok = pass[p].ok \cup S
             /\ pass'[p].want = pass[p].want
             /\ \A q \in Passes \ {p} : pass'[q] = pass[q] /\ pass[q].ok = {}
  <2>1. \A q \in Passes \ {p} : pass[q] = IdlePass
    BY <1>2, ConstantsAssumption DEF Awaits, HashInv, Exclusive, IdlePass
  <2>2. QED
    BY <1>0, <1>2, <2>1 DEF StopWaiting, TypeOK, IdlePass, Pass
<1>3. ASSUME NEW n \in Nodes, PushAnswered(p, n)
      PROVE  HashInv'
  <2>1. Lifetime' /\ Exclusive'
    BY <1>3, StopWaitingExclusive
    DEF PushAnswered, HashInv, Lifetime
  <2>2. /\ pass'[p].ok = pass[p].ok \cup {n}
        /\ pass'[p].want = pass[p].want
        /\ \A q \in Passes \ {p} : pass'[q] = pass[q] /\ pass[q].ok = {}
    BY <1>2, <1>3 DEF PushAnswered
  <2>3. /\ acct'[n] = pass[p].want
        /\ \A m \in Nodes \ {n} : acct'[m] = acct[m]
    BY <1>3 DEF PushAnswered, Applies, TypeOK
  <2>4. Truth'
    BY <1>3, <2>2, <2>3 DEF PushAnswered, HashInv, Truth
  <2>5. QED
    BY <2>1, <2>4 DEF HashInv
<1>4. ASSUME NEW n \in Nodes, PushFails(p, n) \/ PushExpires(p, n)
      PROVE  HashInv'
  <2>1. Lifetime' /\ Exclusive'
    BY <1>4, StopWaitingExclusive
    DEF PushFails, PushExpires, HashInv, Lifetime
  <2>2. /\ pass'[p].ok = pass[p].ok
        /\ pass'[p].want = pass[p].want
        /\ \A q \in Passes \ {p} : pass'[q] = pass[q] /\ pass[q].ok = {}
    BY <1>2, <1>4 DEF PushFails, PushExpires
  <2>3. /\ \A m \in Nodes \ doubt' : acct'[m] = acct[m]
        /\ doubt \subseteq doubt'
    BY <1>4 DEF PushFails, PushExpires, Applies, TypeOK
  <2>4. UNCHANGED <<row, hash>>
    BY <1>4 DEF PushFails, PushExpires
  <2>5. Truth'
    BY <2>2, <2>3, <2>4 DEF HashInv, Truth
  <2>6. QED
    BY <2>1, <2>5 DEF HashInv
<1>5. CASE Merge(p)
  <2>1. Lifetime'
    BY <1>5 DEF Merge, HashInv, Lifetime
  <2>2. \A q \in Passes : pass'[q] = IdlePass
    <3>1. lock = p
      BY <1>5 DEF Merge, HashInv, Exclusive, IdlePass
    <3>2. \A q \in Passes \ {p} : pass[q] = IdlePass
      BY <3>1 DEF HashInv, Exclusive
    <3>3. pass' = [pass EXCEPT ![p] = IdlePass]
      BY <1>5 DEF Merge
    <3>4. QED
      BY <3>2, <3>3 DEF TypeOK
  <2>3. Exclusive'
    BY <2>2 DEF Exclusive
  <2>4. \A q \in Passes : pass'[q].ok = {}
    BY <2>2 DEF IdlePass
  <2>5. \A q \in Passes \ {p} : pass[q].ok = {}
    BY <1>5, ConstantsAssumption DEF Merge, HashInv, Exclusive, IdlePass
  <2>6. Truth'
    BY <1>5, <2>4, <2>5 DEF Merge, Acknowledged, HashInv, Truth
  <2>7. QED
    BY <2>1, <2>3, <2>6 DEF HashInv
<1>6. QED
  BY <1>1, <1>3, <1>4, <1>5

LEMMA LateAndFetchHash ==
    TypeOK /\ HashInv /\ (LateStep \/ FetchStep) => HashInv'
<1> SUFFICES ASSUME TypeOK, HashInv, LateStep \/ FetchStep
             PROVE  HashInv'
  OBVIOUS
<1> USE DEF dbVars, memVars, nodeVars, histVars
<1>1. ASSUME NEW n \in Nodes, NEW policy \in Policies, LateLands(n, policy)
      PROVE  HashInv'
  BY <1>1, DoubtedHash DEF LateLands
<1>2. ASSUME NEW n \in Nodes, NEW policy \in Policies, LateDies(n, policy)
      PROVE  HashInv'
  BY <1>2, QuietHash DEF LateDies
<1>3. ASSUME NEW n \in Nodes, BeginFetch(n)
      PROVE  HashInv'
  BY <1>3, QuietHash DEF BeginFetch
<1>4. ASSUME NEW n \in Nodes, FetchPush(n)
      PROVE  HashInv'
  BY <1>4, DoubtedHash, QuietHash DEF FetchPush
<1>5. QED
  BY <1>1, <1>2, <1>3, <1>4 DEF LateStep, FetchStep

\* A revocation only ever touches the account of a user with no hash left.
LEMMA RevocationStepHash == TypeOK /\ HashInv /\ RevocationStep => HashInv'
<1> SUFFICES ASSUME TypeOK, HashInv, NEW n \in Nodes,
                    \/ BeginRevocation(n)
                    \/ RevocationDropped(n)
                    \/ RevocationAnswered(n)
                    \/ RevocationFails(n)
             PROVE  HashInv'
  BY DEF RevocationStep
<1> USE DEF dbVars, memVars, histVars, nodeVars
<1>1. row = "absent"
  BY ConstantsAssumption
  DEF BeginRevocation, RevocationDropped, RevocationAnswered, RevocationFails, HashInv, Lifetime
<1>2. UNCHANGED <<row, hash, lock, pass, doubt>>
  BY DEF BeginRevocation, RevocationDropped, RevocationAnswered, RevocationFails
<1>3. Lifetime' /\ Exclusive'
  BY <1>1, <1>2 DEF HashInv, Lifetime, Exclusive
<1>4. Truth'
  BY <1>1, <1>2 DEF HashInv, Lifetime, Truth
<1>5. QED
  BY <1>3, <1>4 DEF HashInv

LEMMA DisturbanceHash == TypeOK /\ HashInv /\ Disturbance => HashInv'
<1> SUFFICES ASSUME TypeOK, HashInv, Disturbance
             PROVE  HashInv'
  OBVIOUS
<1> USE DEF dbVars, memVars, nodeVars, histVars
<1>1. CASE ChangePolicy
  <2>1. row' # "absent"
    BY <1>1 DEF ChangePolicy, Policies
  <2>2. QED
    BY <1>1, <2>1 DEF ChangePolicy, HashInv, Lifetime, Exclusive, Truth
<1>2. CASE DeleteUser
  BY <1>2 DEF DeleteUser, HashInv, Lifetime, Exclusive, Truth
<1>3. CASE PanelRestart
  <2>1. \A p \in Passes : pass'[p] = IdlePass /\ pass'[p].ok = {}
    BY <1>3 DEF PanelRestart, IdlePass
  <2>2. Lifetime' /\ Exclusive'
    BY <1>3, <2>1 DEF PanelRestart, HashInv, Lifetime, Exclusive
  <2>3. \A n \in Nodes \ doubt' : n \notin doubt
                                  /\ \A p \in Passes : n \notin pass[p].ok
    BY <1>3 DEF PanelRestart
  <2>4. Truth'
    BY <1>3, <2>1, <2>3 DEF PanelRestart, HashInv, Truth
  <2>5. QED
    BY <2>2, <2>4 DEF HashInv
<1>4. ASSUME NEW n \in Removable, DeleteNode(n)
      PROVE  HashInv'
  <2>1. Lifetime' /\ Exclusive'
    BY <1>4, ConstantsAssumption
    DEF DeleteNode, HashInv, Lifetime, Exclusive, TypeOK
  <2>2. Truth'
    BY <1>4, ConstantsAssumption DEF DeleteNode, HashInv, Truth, TypeOK
  <2>3. QED
    BY <2>1, <2>2 DEF HashInv
<1>5. ASSUME NEW n \in Removable, RestoreNode(n)
      PROVE  HashInv'
  BY <1>5, QuietHash DEF RestoreNode
<1>6. ASSUME NEW n \in Removable, RebuildNode(n)
      PROVE  HashInv'
  BY <1>6, DoubtedHash, ConstantsAssumption DEF RebuildNode
<1>7. QED
  BY <1>1, <1>2, <1>3, <1>4, <1>5, <1>6 DEF Disturbance

\* What push_hash says of a node that is not in doubt is what the node has, so
\* a pass that skips on it (user_policy.go:169) skips rightly: this is what
\* policySyncLock and recording only acknowledged calls are for.
THEOREM HashesTrusted == Spec => []HashTrusted
<1>1. Init => HashInv
  BY DEF Init, HashInv, Lifetime, Exclusive, Truth, IdlePass
<1>2. TypeOK /\ HashInv /\ [Next]_vars => HashInv'
  <2>1. HashInv /\ UNCHANGED vars => HashInv'
    BY QuietHash DEF vars, dbVars, memVars, nodeVars, histVars
  <2>2. QED
    BY <2>1, PassStepHash, LateAndFetchHash, RevocationStepHash, DisturbanceHash
    DEF Next
<1>3. TypeOK /\ HashInv => HashTrusted
  BY DEF HashInv, Truth, HashTrusted, TypeOK
<1>4. QED
  BY <1>1, <1>2, <1>3, TypeCorrect, PTL DEF Spec

=============================================================================
