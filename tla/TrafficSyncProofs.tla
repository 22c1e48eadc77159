------------------------- MODULE TrafficSyncProofs --------------------------
(***************************************************************************)
(* Theorems about TrafficSync for any nodes, callers and bounds: the types *)
(* are kept, no byte is billed twice, and users.used is what was charged   *)
(* since the last reset.                                                   *)
(***************************************************************************)
EXTENDS TrafficRefinement, FiniteSetTheorems, TLAPS

\* Replacing one caller's record keeps the function's type.
LEMMA BecomeType ==
    ASSUME pass \in [Passes -> Pass], NEW p \in Passes, NEW rec \in Pass,
           Become(p, rec)
    PROVE  pass' \in [Passes -> Pass]
BY DEF Become

\* The values a fresh panel starts from are well typed.
LEMMA EmptyTypes == /\ EmptyRow \in Row
                    /\ IdlePass \in Pass
<1>1. AnyHash \in Hashes
  BY ConstantsAssumption DEF AnyHash
<1>2. EmptyRow.usage \in Usage /\ EmptyRow \in Row
  BY <1>1, ConstantsAssumption
  DEF EmptyRow, EmptyUsage, Row, Usage, NoBaseline, NoEpoch
<1>3. NoAnswer \in Answer
  BY ConstantsAssumption DEF NoAnswer, Answer, NoEpoch
<1>4. IdlePass \in Pass
  BY <1>2, <1>3, ConstantsAssumption DEF IdlePass, Pass
<1>5. QED
  BY <1>2, <1>4

\* What an attempt starts from, a well-typed node_usage again.
LEMMA ReseededType ==
    ASSUME NEW u \in Usage, NEW S \in SUBSET Nodes
    PROVE  Reseeded(u, S) \in Usage
<1>1. 0 \in 0 .. MaxRuns
  BY ConstantsAssumption
<1>2. [n \in Nodes |-> IF n \in S THEN u.epoch[n] ELSE NoEpoch]
        \in [Nodes -> 0 .. MaxRuns]
  BY <1>1 DEF Usage, NoEpoch
<1>3. [n \in Nodes |-> NoBaseline] \in [Nodes -> Nat \cup {NoBaseline}]
  OBVIOUS
<1>4. CASE u.reseed
  BY <1>2, <1>3, <1>4 DEF Reseeded, Usage
<1>5. CASE ~u.reseed
  BY <1>5 DEF Reseeded
<1>6. QED
  BY <1>4, <1>5

\* A charge is a number of bytes and the baseline it leaves is a counter.
LEMMA BillType ==
    ASSUME NEW q \in Answer, NEW b \in Nat \cup {NoBaseline},
           NEW f \in BOOLEAN
    PROVE  /\ Bill(q, b, f) \in Nat
           /\ Baseline(q, b, f) \in Nat
BY DEF Bill, Baseline, TotalDelta, HeldBaseline, NoBaseline, Answer

LEMMA InitType == Init => TypeOK
BY EmptyTypes, ConstantsAssumption DEF Init, TypeOK

\* An attempt's record is well typed.
LEMMA AttemptType ==
    ASSUME TypeOK, NEW p \in Passes, NEW r \in Row,
           Attempt(p, r)
    PROVE  pass' \in [Passes -> Pass]
<1>1. pass[p] \in Pass
  BY DEF TypeOK
<1>2. Reseeded(r.usage, pass[p].got) \in Usage
  BY <1>1, ReseededType DEF Row, Pass
<1> DEFINE rec == [pass[p] EXCEPT !.pc = "charging",
                              !.read = r,
                              !.work = Reseeded(r.usage, pass[p].got),
                              !.todo = pass[p].got,
                              !.due = [n \in Nodes |-> 0],
                              !.delta = 0,
                              !.tries = @ + 1]
<1>3. rec \in Pass
  <2>1. [n \in Nodes |-> 0] \in [Nodes -> Nat]
    OBVIOUS
  <2>2. pass[p].got \in SUBSET Nodes /\ pass[p].tries + 1 \in Nat
    BY <1>1 DEF Pass
  <2>3. QED
    BY <1>1, <1>2, <2>1, <2>2 DEF Pass
<1>4. QED
  BY <1>3, BecomeType DEF Attempt, TypeOK

LEMMA ReturnType ==
    ASSUME TypeOK, NEW p \in Passes, Return(p)
    PROVE  /\ pass' \in [Passes -> Pass]
           /\ lock' \in Passes \cup {NoPass}
BY EmptyTypes, BecomeType DEF Return, TypeOK

\* The steps of a pass keep the types.
LEMMA PassStepType ==
    ASSUME TypeOK, NEW p \in Passes, PassStep(p)
    PROVE  TypeOK'
<1> USE DEF nodeVars, histVars
<1>0. pass[p] \in Pass
  BY DEF TypeOK
<1>1. CASE StartPass(p)
  <2> DEFINE rec == [IdlePass EXCEPT !.pc = "polling", !.nodes = active,
                                     !.read = row]
  <2>1. rec \in Pass
    BY EmptyTypes DEF TypeOK, Pass
  <2>2. pass' \in [Passes -> Pass]
    BY <1>1, <2>1, BecomeType DEF StartPass, TypeOK
  <2>3. QED
    BY <1>1, <2>2 DEF StartPass, TypeOK
<1>2. ASSUME NEW n \in Nodes, NodeAnswers(p, n)
      PROVE  TypeOK'
  <2> DEFINE answer == [total |-> Counter(n), epoch |-> ReportedEpoch(n),
                        carried |-> sent[n]]
             rec == [pass[p] EXCEPT !.got = @ \cup {n}, !.poll[n] = answer]
  <2>1. answer \in Answer
    BY ConstantsAssumption
    DEF TypeOK, Answer, Counter, ReportedEpoch, NoEpoch
  <2>2. rec \in Pass
    BY <1>0, <2>1 DEF Pass
  <2>3. pass' \in [Passes -> Pass]
    BY <1>2, <2>2, BecomeType DEF NodeAnswers, TypeOK
  <2>4. QED
    BY <1>2, <2>3 DEF NodeAnswers, TypeOK
<1>3. ASSUME NEW n \in Nodes, ChargeNode(p, n)
      PROVE  TypeOK'
  <2> DEFINE q == pass[p].poll[n]
             b == pass[p].work.base[n]
             e == pass[p].work.epoch[n]
             f == q.epoch # NoEpoch /\ e # NoEpoch /\ q.epoch # e
             x == IF q.epoch = NoEpoch THEN e ELSE q.epoch
             rec == [pass[p] EXCEPT !.todo = @ \ {n},
                                    !.due[n] = Bill(q, b, f),
                                    !.delta = @ + Bill(q, b, f),
                                    !.work.base[n] = Baseline(q, b, f),
                                    !.work.epoch[n] = x]
  <2>1. /\ q \in Answer
        /\ b \in Nat \cup {NoBaseline}
        /\ x \in 0 .. MaxRuns
        /\ f \in BOOLEAN
    BY <1>0 DEF Pass, Usage, Answer
  <2>2. Bill(q, b, f) \in Nat /\ Baseline(q, b, f) \in Nat
    BY <2>1, BillType
  <2>3. rec \in Pass
    <3> DEFINE w == [pass[p].work EXCEPT !.base[n] = Baseline(q, b, f),
                                         !.epoch[n] = x]
               due == [pass[p].due EXCEPT ![n] = Bill(q, b, f)]
               delta == pass[p].delta + Bill(q, b, f)
    <3> HIDE DEF q, b, f, x
    <3>1. w \in Usage
      BY <1>0, <2>1, <2>2 DEF Pass, Usage
    <3>2. due \in [Nodes -> Nat] /\ delta \in Nat
      BY <1>0, <2>2 DEF Pass
    <3>3. rec = [pass[p] EXCEPT !.todo = pass[p].todo \ {n}, !.due = due,
                                !.delta = delta, !.work = w]
      BY <1>0 DEF Pass, Usage
    <3> HIDE DEF w, due, delta, rec
    <3>4. QED
      BY <1>0, <3>1, <3>2, <3>3 DEF Pass
  <2>4. Become(p, rec)
    BY <1>3 DEF ChargeNode
  <2>5. pass' \in [Passes -> Pass]
    BY <2>3, <2>4, BecomeType DEF TypeOK
  <2>6. QED
    BY <1>3, <2>5 DEF ChargeNode, TypeOK
<1>4. CASE Gather(p)
  <2>1. pass' \in [Passes -> Pass] /\ lock' \in Passes \cup {NoPass}
    BY <1>0, <1>4, ReturnType, AttemptType DEF Gather, TypeOK, Pass
  <2>2. QED
    BY <1>4, <2>1 DEF Gather, TypeOK
<1>5. CASE NothingToStore(p)
  BY <1>5, ReturnType DEF NothingToStore, TypeOK
<1>6. CASE Commit(p)
  <2>1. pass' \in [Passes -> Pass] /\ lock' \in Passes \cup {NoPass}
    BY <1>6, ReturnType DEF Commit
  <2>2. row' \in Row
    BY <1>0, <1>6 DEF Commit, Row, Pass
  <2>3. charged' \in [Nodes -> Nat] /\ mark' \in [Nodes -> Nat]
    BY <1>0, <1>6 DEF Commit, Pass, TypeOK
  <2>4. daily' \in Nat /\ lifetime' \in Nat /\ since' \in Nat
    BY <1>0, <1>6 DEF Commit, Pass, TypeOK
  <2>5. QED
    BY <1>6, <2>1, <2>2, <2>3, <2>4 DEF Commit, TypeOK
<1>7. CASE Miss(p)
  <2> DEFINE rec == [pass[p] EXCEPT !.pc = "missed"]
  <2>1. rec \in Pass
    BY <1>0 DEF Pass
  <2>2. pass' \in [Passes -> Pass] /\ lock' \in Passes \cup {NoPass}
    BY <1>7, <2>1, ReturnType, BecomeType DEF Miss, Missed, TypeOK
  <2>3. QED
    BY <1>7, <2>2 DEF Miss, TypeOK
<1>8. CASE Reread(p)
  <2>1. pass' \in [Passes -> Pass]
    BY <1>8, AttemptType DEF Reread, TypeOK
  <2>2. QED
    BY <1>8, <2>1 DEF Reread, TypeOK
<1>9. CASE DatabaseError(p)
  <2> DEFINE rec == [pass[p] EXCEPT !.pc = "missed"]
  <2>1. rec \in Pass
    BY <1>0 DEF Pass
  <2>2. pass' \in [Passes -> Pass] /\ lock' \in Passes \cup {NoPass}
    BY <1>9, <2>1, ReturnType, BecomeType DEF DatabaseError, Missed, TypeOK
  <2>3. QED
    BY <1>9, <2>2 DEF DatabaseError, RolledBackHistory, TypeOK
<1>10. QED
  BY <1>1, <1>2, <1>3, <1>4, <1>5, <1>6, <1>7, <1>8, <1>9 DEF PassStep

\* Every step keeps the types.
LEMMA StepType == TypeOK /\ [Next]_vars => TypeOK'
<1> SUFFICES ASSUME TypeOK, [Next]_vars
             PROVE  TypeOK'
  OBVIOUS
<1> USE DEF nodeVars, histVars
<1>1. ASSUME NEW n \in Nodes, Move(n)
      PROVE  TypeOK'
  BY <1>1 DEF Move, TypeOK
<1>2. ASSUME NEW n \in Nodes, CounterReset(n)
      PROVE  TypeOK'
  BY <1>2, ConstantsAssumption DEF CounterReset, TypeOK
<1>3. ASSUME NEW n \in Nodes, ReportEpochs(n)
      PROVE  TypeOK'
  BY <1>3 DEF ReportEpochs, TypeOK
<1>4. ASSUME NEW p \in Passes, PassStep(p)
      PROVE  TypeOK'
  BY <1>4, PassStepType
<1>5. CASE ResetUsage
  <2>1. row' \in Row
    BY <1>5 DEF ResetUsage, TypeOK, Row, Usage
  <2>2. QED
    BY <1>5, <2>1 DEF ResetUsage, TypeOK
<1>6. CASE MergePushHashes
  <2>1. row' \in Row
    BY <1>6 DEF MergePushHashes, TypeOK, Row, Usage
  <2>2. QED
    BY <1>6, <2>1 DEF MergePushHashes, TypeOK
<1>7. ASSUME NEW n \in Removable,
             DeleteNode(n) \/ RemoveBaseline(n) \/ RestoreNode(n)
      PROVE  TypeOK'
  <2>0. n \in Nodes
    BY ConstantsAssumption
  <2>1. CASE DeleteNode(n)
    BY <2>0, <2>1 DEF DeleteNode, TypeOK
  <2>2. CASE RemoveBaseline(n)
    <3>1. PICK h \in Hashes :
             row' = [row EXCEPT !.usage.base[n] = NoBaseline, !.usage.push = h]
      BY <2>2 DEF RemoveBaseline
    <3>2. [row.usage.base EXCEPT ![n] = NoBaseline]
            \in [Nodes -> Nat \cup {NoBaseline}]
      BY DEF TypeOK, Row, Usage
    <3>3. row' \in Row
      BY <3>1, <3>2 DEF TypeOK, Row, Usage
    <3>4. QED
      BY <2>0, <2>2, <3>3 DEF RemoveBaseline, TypeOK
  <2>3. CASE RestoreNode(n)
    BY <2>0, <2>3 DEF RestoreNode, TypeOK
  <2>4. QED
    BY <1>7, <2>1, <2>2, <2>3
<1>8. CASE PanelRestart
  BY <1>8, EmptyTypes DEF PanelRestart, TypeOK
<1>9. CASE UNCHANGED vars
  BY <1>9 DEF vars, TypeOK
<1>10. QED
  BY <1>1, <1>2, <1>3, <1>4, <1>5, <1>6, <1>7, <1>8, <1>9
  DEF Next, NodeStep, WriterStep

\* Every variable keeps its type, whatever the nodes, the callers and the
\* database do.
THEOREM TypeCorrect == Spec => []TypeOK
<1>1. QED
  BY InitType, StepType, PTL DEF Spec

-----------------------------------------------------------------------------
(* users.used and the charges.                                             *)

\* A step leaves used alone, adds to it what it adds to since, or clears both:
\* the guard of the write makes the row it adds to the row it read.
LEMMA UsedStep ==
    ASSUME TypeOK, [Next]_vars, UsedMatchesCharges
    PROVE  UsedMatchesCharges'
<1> USE DEF nodeVars, histVars, UsedMatchesCharges
<1>1. ASSUME NEW n \in Nodes,
             Move(n) \/ CounterReset(n) \/ ReportEpochs(n)
      PROVE  UsedMatchesCharges'
  BY <1>1 DEF Move, CounterReset, ReportEpochs
<1>2. ASSUME NEW p \in Passes, PassStep(p)
      PROVE  UsedMatchesCharges'
  <2>1. CASE Commit(p)
    BY <2>1 DEF Commit, RowUnmoved
  <2>2. CASE ~Commit(p)
    BY <1>2, <2>2 DEF PassStep, StartPass, NodeAnswers, ChargeNode, Gather,
                      NothingToStore, Miss, Missed, Reread, DatabaseError
  <2>3. QED
    BY <2>1, <2>2
<1>3. CASE ResetUsage
  BY <1>3 DEF ResetUsage
<1>4. CASE MergePushHashes
  BY <1>4 DEF MergePushHashes, TypeOK, Row
<1>5. ASSUME NEW n \in Removable,
             DeleteNode(n) \/ RemoveBaseline(n) \/ RestoreNode(n)
      PROVE  UsedMatchesCharges'
  BY <1>5 DEF DeleteNode, RemoveBaseline, RestoreNode, TypeOK, Row
<1>6. CASE PanelRestart
  BY <1>6 DEF PanelRestart
<1>7. CASE UNCHANGED vars
  BY <1>7 DEF vars
<1>8. QED
  BY <1>1, <1>2, <1>3, <1>4, <1>5, <1>6, <1>7 DEF Next, NodeStep, WriterStep

\* users.used is what was charged since the last reset, for any number of
\* nodes, callers and attempts: no charge is lost or resurrected.
THEOREM UsedIsCharges == Spec => []UsedMatchesCharges
<1>1. Init => UsedMatchesCharges
  BY DEF Init, UsedMatchesCharges, EmptyRow
<1>2. TypeOK /\ [Next]_vars /\ UsedMatchesCharges => UsedMatchesCharges'
  BY UsedStep
<1>3. QED
  BY <1>1, <1>2, TypeCorrect, PTL DEF Spec

-----------------------------------------------------------------------------
(* No byte is billed twice.                                                *)

\* What one contribution bills, in the three cases of the code.
LEMMA BillCases ==
    ASSUME NEW q \in Answer, NEW b \in Nat \cup {NoBaseline},
           NEW f \in BOOLEAN
    PROVE  \/ Bill(q, b, f) = 0 /\ Baseline(q, b, f) = q.total
           \/ Bill(q, b, f) = 0 /\ Baseline(q, b, f) = b
           \/ /\ b # NoBaseline
              /\ b <= q.total
              /\ Bill(q, b, f) = q.total - b
              /\ Baseline(q, b, f) = q.total
BY DEF Bill, Baseline, TotalDelta, HeldBaseline, NoBaseline, Answer

\* Steps that touch neither the row's baselines, the charges nor a pass, and
\* move sent and start at most forward.
LEMMA LedgerFrame ==
    ASSUME TypeOK, TypeOK', LedgerInv,
           UNCHANGED <<pass, lock, charged>>,
           \A n \in Nodes : row'.usage.base[n] \in {row.usage.base[n], NoBaseline},
           \A n \in Nodes : sent[n] <= sent'[n],
           \A n \in Nodes : start'[n] \in {start[n], sent[n]}
    PROVE  LedgerInv'
<1>1. LockHeld'
  BY DEF LedgerInv, LockHeld
<1>2. ASSUME NEW n \in Nodes PROVE Supported(n)'
  BY DEF LedgerInv, Supported, TypeOK, Row, Usage, NoBaseline
<1>3. ASSUME NEW p \in Passes, pass'[p].pc # "idle", NEW n \in pass'[p].got
      PROVE  AnswerSound(p, n)'
  <2>1. n \in Nodes /\ pass[p].poll[n] \in Answer
    BY DEF TypeOK, Pass
  <2>2. AnswerSound(p, n)
    BY <1>3 DEF LedgerInv
  <2>3. QED
    BY <2>1, <2>2 DEF AnswerSound, TypeOK, Answer, Row, Usage, NoBaseline
<1>4. ASSUME NEW p \in Passes, pass'[p].pc = "charging"
      PROVE  /\ \A n \in Nodes : Accounted(p, n)'
             /\ \A n \in pass'[p].todo : Untouched(p, n)'
  BY <1>4 DEF LedgerInv, Accounted, Untouched
<1>5. QED
  BY <1>1, <1>2, <1>3, <1>4 DEF LedgerInv

\* When every pass is idle again only the row and the charges matter.
LEMMA LedgerIdle ==
    ASSUME \A p \in Passes : pass'[p].pc = "idle",
           \A n \in Nodes : Supported(n)'
    PROVE  LedgerInv'
BY DEF LedgerInv, LockHeld

\* The lock admits one pass: when the holder returns, all are idle.
LEMMA ReturnIdle ==
    ASSUME TypeOK, LedgerInv, NEW p \in Passes, pass[p].pc # "idle", Return(p)
    PROVE  \A r \in Passes : pass'[r].pc = "idle"
BY DEF LedgerInv, LockHeld, Return, Become, IdlePass, TypeOK

\* A pass that returns without a write leaves the ledger sound.
LEMMA ReturnLedger ==
    ASSUME TypeOK, LedgerInv, NEW p \in Passes, pass[p].pc # "idle", Return(p),
           UNCHANGED <<row, charged, sent, start>>
    PROVE  LedgerInv'
<1>1. \A n \in Nodes : Supported(n)'
  BY DEF LedgerInv, Supported
<1>2. QED
  BY <1>1, ReturnIdle, LedgerIdle

\* So does the start of an attempt: its baselines are those of the row it
\* read, and the answers are kept.
LEMMA AttemptLedger ==
    ASSUME TypeOK, LedgerInv, NEW p \in Passes, NEW r \in Row,
           pass[p].pc # "idle", Attempt(p, r),
           UNCHANGED <<lock, row, charged, sent, start>>
    PROVE  LedgerInv'
<1>1. /\ pass'[p].pc = "charging"
      /\ pass'[p].got = pass[p].got
      /\ pass'[p].todo = pass[p].got
      /\ pass'[p].poll = pass[p].poll
      /\ pass'[p].read = r
      /\ pass'[p].work = Reseeded(r.usage, pass[p].got)
      /\ pass'[p].due = [n \in Nodes |-> 0]
      /\ \A o \in Passes \ {p} : pass'[o] = pass[o]
  BY DEF Attempt, Become, TypeOK, Pass
<1>2. \A n \in Nodes : pass'[p].work.base[n] \in {r.usage.base[n], NoBaseline}
  BY <1>1 DEF Reseeded, Row, Usage
<1>3. pass[p].got \subseteq Nodes
  BY DEF TypeOK, Pass
<1>4. LockHeld' /\ \A n \in Nodes : Supported(n)'
  BY <1>1 DEF LedgerInv, LockHeld, Supported
<1>5. ASSUME NEW o \in Passes, pass'[o].pc # "idle", NEW n \in pass'[o].got
      PROVE  AnswerSound(o, n)'
  BY <1>1, <1>5 DEF LedgerInv, AnswerSound
<1>6. ASSUME NEW o \in Passes, pass'[o].pc = "charging"
      PROVE  /\ \A n \in Nodes : Accounted(o, n)'
             /\ \A n \in pass'[o].todo : Untouched(o, n)'
  <2>1. CASE o = p
    BY <1>1, <1>2, <1>3, <2>1 DEF Accounted, Untouched
  <2>2. CASE o # p
    BY <1>1, <1>6, <2>2 DEF LedgerInv, Accounted, Untouched
  <2>3. QED
    BY <2>1, <2>2
<1>7. QED
  BY <1>4, <1>5, <1>6 DEF LedgerInv

\* Applying one contribution: BillCases are the disjuncts of Accounted.
LEMMA ChargeLedger ==
    ASSUME TypeOK, LedgerInv, NEW p \in Passes, NEW m \in Nodes,
           ChargeNode(p, m)
    PROVE  LedgerInv'
<1> DEFINE q == pass[p].poll[m]
           b == pass[p].work.base[m]
           e == pass[p].work.epoch[m]
           f == q.epoch # NoEpoch /\ e # NoEpoch /\ q.epoch # e
<1>0. /\ pass[p] \in Pass
      /\ q \in Answer
      /\ b \in Nat \cup {NoBaseline}
      /\ f \in BOOLEAN
  BY DEF TypeOK, Pass, Usage
<1>1. /\ pass[p].pc = "charging"
      /\ m \in pass[p].todo
      /\ pass'[p].pc = "charging"
      /\ pass'[p].got = pass[p].got
      /\ pass'[p].todo = pass[p].todo \ {m}
      /\ pass'[p].poll = pass[p].poll
      /\ pass'[p].read = pass[p].read
      /\ pass'[p].due = [pass[p].due EXCEPT ![m] = Bill(q, b, f)]
      /\ pass'[p].work.base = [pass[p].work.base EXCEPT ![m] = Baseline(q, b, f)]
      /\ \A o \in Passes \ {p} : pass'[o] = pass[o]
      /\ UNCHANGED <<lock, row, charged, sent, start>>
  BY <1>0 DEF ChargeNode, Become, TypeOK, Pass, Usage, nodeVars, histVars
<1>2. LockHeld' /\ \A n \in Nodes : Supported(n)'
  BY <1>1 DEF LedgerInv, LockHeld, Supported
<1>3. ASSUME NEW o \in Passes, pass'[o].pc # "idle", NEW n \in pass'[o].got
      PROVE  AnswerSound(o, n)'
  BY <1>1, <1>3 DEF LedgerInv, AnswerSound
<1>4. Untouched(p, m)
  BY <1>1 DEF LedgerInv
<1>5. Accounted(p, m)'
  <2>1. /\ pass'[p].due[m] = Bill(q, b, f)
        /\ pass'[p].work.base[m] = Baseline(q, b, f)
    BY <1>0, <1>1 DEF Pass, Usage
  <2>2. \/ Bill(q, b, f) = 0 /\ Baseline(q, b, f) = q.total
        \/ Bill(q, b, f) = 0 /\ Baseline(q, b, f) = b
        \/ /\ b # NoBaseline
           /\ b <= q.total
           /\ Bill(q, b, f) = q.total - b
           /\ Baseline(q, b, f) = q.total
    BY <1>0, BillCases
  <2> HIDE DEF b, f
  <2>3. b \in {pass[p].read.usage.base[m], NoBaseline} /\ m \in pass[p].got
    BY <1>4 DEF Untouched, b
  <2>4. QED
    BY <1>1, <2>1, <2>2, <2>3 DEF Accounted
<1>6. ASSUME NEW n \in Nodes, n # m
      PROVE  Accounted(p, n)'
  <2>1. Accounted(p, n)
    BY <1>1 DEF LedgerInv
  <2>2. /\ pass'[p].due[n] = pass[p].due[n]
        /\ pass'[p].work.base[n] = pass[p].work.base[n]
    BY <1>0, <1>1, <1>6 DEF Pass, Usage
  <2>3. QED
    BY <1>1, <2>1, <2>2 DEF Accounted
<1>7. ASSUME NEW n \in pass'[p].todo
      PROVE  Untouched(p, n)'
  <2>1. Untouched(p, n) /\ n # m /\ n \in Nodes
    BY <1>0, <1>1, <1>7 DEF LedgerInv, Pass
  <2>2. /\ pass'[p].due[n] = pass[p].due[n]
        /\ pass'[p].work.base[n] = pass[p].work.base[n]
    BY <1>0, <1>1, <2>1 DEF Pass, Usage
  <2>3. QED
    BY <1>1, <2>1, <2>2 DEF Untouched
<1>8. ASSUME NEW o \in Passes, o # p, pass'[o].pc = "charging"
      PROVE  /\ \A n \in Nodes : Accounted(o, n)'
             /\ \A n \in pass'[o].todo : Untouched(o, n)'
  BY <1>1, <1>8 DEF LedgerInv, Accounted, Untouched
<1>9. QED
  BY <1>2, <1>3, <1>5, <1>6, <1>7, <1>8 DEF LedgerInv

\* A pass that starts finds every other pass idle.
LEMMA StartLedger ==
    ASSUME TypeOK, LedgerInv, NEW p \in Passes, StartPass(p)
    PROVE  LedgerInv'
<1>1. /\ \A o \in Passes : pass[o].pc = "idle"
      /\ lock' = p
      /\ UNCHANGED <<row, charged, sent, start>>
  BY ConstantsAssumption
  DEF StartPass, LockFree, LedgerInv, LockHeld, nodeVars, histVars
<1>2. /\ pass'[p].pc = "polling"
      /\ pass'[p].got = {}
      /\ \A o \in Passes \ {p} : pass'[o] = pass[o]
  BY DEF StartPass, Become, TypeOK, IdlePass
<1>3. QED
  BY <1>1, <1>2 DEF LedgerInv, LockHeld, Supported

\* A new answer stands for everything the node carried, so for every charge.
LEMMA AnswerLedger ==
    ASSUME TypeOK, LedgerInv, NEW p \in Passes, NEW m \in Nodes,
           NodeAnswers(p, m)
    PROVE  LedgerInv'
<1>1. pass[p] \in Pass
  BY DEF TypeOK
<1> DEFINE answer == [total |-> Counter(m), epoch |-> ReportedEpoch(m),
                      carried |-> sent[m]]
<1>2. /\ pass[p].pc = "polling"
      /\ pass'[p].pc = "polling"
      /\ pass'[p].got = pass[p].got \cup {m}
      /\ pass'[p].poll = [pass[p].poll EXCEPT ![m] = answer]
      /\ \A o \in Passes \ {p} : pass'[o] = pass[o]
      /\ UNCHANGED <<lock, row, charged, sent, start>>
  BY <1>1 DEF NodeAnswers, Become, TypeOK, Pass, nodeVars, histVars
<1>3. LockHeld' /\ \A n \in Nodes : Supported(n)'
  BY <1>2 DEF LedgerInv, LockHeld, Supported
<1>4. AnswerSound(p, m)'
  <2>1. pass'[p].poll[m] = answer
    BY <1>1, <1>2 DEF Pass
  <2>2. Supported(m)
    BY DEF LedgerInv
  <2>3. QED
    BY <1>2, <2>1, <2>2
    DEF AnswerSound, Supported, Counter, TypeOK, Row, Usage, NoBaseline
<1>5. ASSUME NEW n \in pass[p].got, n # m
      PROVE  AnswerSound(p, n)'
  <2>1. pass'[p].poll[n] = pass[p].poll[n]
    BY <1>1, <1>2, <1>5 DEF Pass
  <2>2. QED
    BY <1>2, <2>1 DEF LedgerInv, AnswerSound
<1>6. ASSUME NEW o \in Passes, o # p, pass'[o].pc # "idle",
             NEW n \in pass'[o].got
      PROVE  AnswerSound(o, n)'
  BY <1>2, <1>6 DEF LedgerInv, AnswerSound
<1>7. ASSUME NEW o \in Passes, pass'[o].pc = "charging"
      PROVE  /\ \A n \in Nodes : Accounted(o, n)'
             /\ \A n \in pass'[o].todo : Untouched(o, n)'
  BY <1>2, <1>7 DEF LedgerInv, Accounted, Untouched
<1>8. QED
  BY <1>2, <1>3, <1>4, <1>5, <1>6, <1>7 DEF LedgerInv

\* The write: what was due was carried when the node answered, and the row it
\* replaces is the row it was computed from.
LEMMA CommitLedger ==
    ASSUME TypeOK, LedgerInv, NEW p \in Passes, Commit(p)
    PROVE  LedgerInv'
<1>1. /\ pass[p] \in Pass
      /\ pass[p].pc = "charging"
      /\ row = pass[p].read
      /\ row'.usage = pass[p].work
      /\ \A n \in Nodes : charged'[n] = charged[n] + pass[p].due[n]
      /\ UNCHANGED <<sent, start>>
      /\ Return(p)
  BY DEF Commit, Charged, RowUnmoved, TypeOK, nodeVars
<1>2. ASSUME NEW n \in Nodes PROVE Supported(n)'
  <2> DEFINE q == pass[p].poll[n]
             b == row.usage.base[n]
             w == pass[p].work.base[n]
             d == pass[p].due[n]
  <2>1. /\ q.total \in Nat /\ q.carried \in Nat
        /\ b \in Nat \cup {NoBaseline}
        /\ w \in Nat \cup {NoBaseline}
        /\ d \in Nat
        /\ sent[n] \in Nat /\ start[n] \in Nat /\ charged[n] \in Nat
    BY <1>1 DEF TypeOK, Pass, Answer, Row, Usage
  <2>2. \/ d = 0 /\ w \in {b, NoBaseline}
        \/ d = 0 /\ n \in pass[p].got /\ w = q.total
        \/ /\ n \in pass[p].got
           /\ b # NoBaseline
           /\ b <= q.total
           /\ d = q.total - b
           /\ w = q.total
    BY <1>1 DEF LedgerInv, Accounted
  <2>3. n \in pass[p].got
        => /\ charged[n] <= q.carried
           /\ q.carried <= sent[n]
           /\ q.carried <= start[n] + q.total
           /\ (b # NoBaseline /\ b <= q.total)
              => charged[n] + (q.total - b) <= q.carried
    BY <1>1 DEF LedgerInv, AnswerSound
  <2>4. /\ charged[n] <= sent[n]
        /\ b # NoBaseline => charged[n] <= start[n] + b
    BY DEF LedgerInv, Supported
  <2>5. /\ charged'[n] = charged[n] + d
        /\ row'.usage.base[n] = w
        /\ sent'[n] = sent[n] /\ start'[n] = start[n]
    BY <1>1
  <2> HIDE DEF q, b, w, d
  <2>6. /\ charged[n] + d <= sent[n]
        /\ w # NoBaseline => charged[n] + d <= start[n] + w
    <3>1. CASE d = 0 /\ w \in {b, NoBaseline}
      BY <2>1, <2>4, <3>1
    <3>2. CASE d = 0 /\ n \in pass[p].got /\ w = q.total
      BY <2>1, <2>3, <2>4, <3>2
    <3>3. CASE /\ n \in pass[p].got
               /\ b # NoBaseline
               /\ b <= q.total
               /\ d = q.total - b
               /\ w = q.total
      BY <2>1, <2>3, <3>3
    <3>4. QED
      BY <2>2, <3>1, <3>2, <3>3
  <2>7. QED
    BY <2>5, <2>6 DEF Supported
<1>3. \A o \in Passes : pass'[o].pc = "idle"
  BY <1>1, ReturnIdle
<1>4. QED
  BY <1>2, <1>3, LedgerIdle

\* A miss that is to be retried keeps answers and lock.
LEMMA RetryLedger ==
    ASSUME TypeOK, LedgerInv, NEW p \in Passes, pass[p].pc # "idle",
           Become(p, [pass[p] EXCEPT !.pc = "missed"]),
           UNCHANGED <<lock, row, charged, sent, start>>
    PROVE  LedgerInv'
<1>1. /\ pass'[p].pc = "missed"
      /\ pass'[p].got = pass[p].got
      /\ pass'[p].poll = pass[p].poll
      /\ \A o \in Passes \ {p} : pass'[o] = pass[o]
  BY DEF Become, TypeOK, Pass
<1>2. LockHeld' /\ \A n \in Nodes : Supported(n)'
  BY <1>1 DEF LedgerInv, LockHeld, Supported
<1>3. ASSUME NEW o \in Passes, pass'[o].pc # "idle", NEW n \in pass'[o].got
      PROVE  AnswerSound(o, n)'
  BY <1>1, <1>3 DEF LedgerInv, AnswerSound
<1>4. ASSUME NEW o \in Passes, pass'[o].pc = "charging"
      PROVE  /\ \A n \in Nodes : Accounted(o, n)'
             /\ \A n \in pass'[o].todo : Untouched(o, n)'
  BY <1>1, <1>4 DEF LedgerInv, Accounted, Untouched
<1>5. QED
  BY <1>2, <1>3, <1>4 DEF LedgerInv

LEMMA PassStepLedger ==
    ASSUME TypeOK, LedgerInv, NEW p \in Passes, PassStep(p)
    PROVE  LedgerInv'
<1> USE DEF nodeVars, histVars
<1>1. CASE StartPass(p)
  BY <1>1, StartLedger
<1>2. ASSUME NEW n \in Nodes, NodeAnswers(p, n) \/ ChargeNode(p, n)
      PROVE  LedgerInv'
  BY <1>2, AnswerLedger, ChargeLedger
<1>3. CASE Gather(p)
  <2>1. pass[p].pc # "idle" /\ pass[p].read \in Row
    BY <1>3 DEF Gather, TypeOK, Pass
  <2>2. CASE Return(p)
    BY <1>3, <2>1, <2>2, ReturnLedger DEF Gather
  <2>3. CASE Attempt(p, pass[p].read) /\ UNCHANGED lock
    BY <1>3, <2>1, <2>3, AttemptLedger DEF Gather
  <2>4. QED
    BY <1>3, <2>2, <2>3 DEF Gather
<1>4. CASE NothingToStore(p)
  BY <1>4, ReturnLedger DEF NothingToStore, Charged
<1>5. CASE Commit(p)
  BY <1>5, CommitLedger
<1>6. CASE Miss(p) \/ DatabaseError(p)
  <2>1. pass[p].pc # "idle" /\ UNCHANGED <<row, charged, sent, start>>
    BY <1>6 DEF Miss, DatabaseError, Charged
  <2>2. CASE Return(p)
    BY <2>1, <2>2, ReturnLedger
  <2>3. CASE Become(p, [pass[p] EXCEPT !.pc = "missed"]) /\ UNCHANGED lock
    BY <2>1, <2>3, RetryLedger
  <2>4. QED
    BY <1>6, <2>2, <2>3 DEF Miss, Missed, DatabaseError
<1>7. CASE Reread(p)
  BY <1>7, AttemptLedger DEF Reread, TypeOK
<1>8. QED
  BY <1>1, <1>2, <1>3, <1>4, <1>5, <1>6, <1>7 DEF PassStep

\* LedgerInv is inductive, relative to the types.
LEMMA LedgerStep ==
    ASSUME TypeOK, LedgerInv, [Next]_vars
    PROVE  LedgerInv'
<1> USE DEF nodeVars, histVars
<1>0. TypeOK'
  BY StepType
<1>1. ASSUME NEW n \in Nodes,
             Move(n) \/ CounterReset(n) \/ ReportEpochs(n)
      PROVE  LedgerInv'
  <2>1. /\ UNCHANGED <<pass, lock, charged, row>>
        /\ \A m \in Nodes : sent[m] <= sent'[m]
        /\ \A m \in Nodes : start'[m] \in {start[m], sent[m]}
    BY <1>1 DEF Move, CounterReset, ReportEpochs, TypeOK
  <2>2. QED
    BY <1>0, <2>1, LedgerFrame
<1>2. ASSUME NEW p \in Passes, PassStep(p)
      PROVE  LedgerInv'
  BY <1>2, PassStepLedger
<1>3. CASE WriterStep
  <2> DEFINE Kept == /\ UNCHANGED <<pass, lock, charged, sent, start>>
                     /\ \A m \in Nodes : row'.usage.base[m]
                                        \in {row.usage.base[m], NoBaseline}
  <2>1. Kept
    <3>1. CASE ResetUsage \/ MergePushHashes
      BY <3>1 DEF ResetUsage, MergePushHashes, TypeOK, Row, Usage
    <3>2. ASSUME NEW n \in Removable,
                 DeleteNode(n) \/ RestoreNode(n)
          PROVE  Kept
      BY <3>2 DEF DeleteNode, RestoreNode
    <3>3. ASSUME NEW n \in Removable, RemoveBaseline(n)
          PROVE  Kept
      <4>1. PICK h \in Hashes :
               row' = [row EXCEPT !.usage.base[n] = NoBaseline,
                                  !.usage.push = h]
        BY <3>3 DEF RemoveBaseline
      <4>2. row'.usage.base = [row.usage.base EXCEPT ![n] = NoBaseline]
        BY <4>1 DEF TypeOK, Row, Usage
      <4>3. QED
        BY <3>3, <4>2 DEF RemoveBaseline, TypeOK, Row, Usage
    <3>4. QED
      BY <1>3, <3>1, <3>2, <3>3 DEF WriterStep
  <2>2. \A m \in Nodes : sent[m] <= sent'[m] /\ start'[m] \in {start[m], sent[m]}
    BY <2>1 DEF TypeOK
  <2>3. QED
    BY <1>0, <2>1, <2>2, LedgerFrame
<1>4. CASE PanelRestart
  BY <1>4, LedgerIdle DEF PanelRestart, IdlePass, LedgerInv, Supported
<1>5. CASE UNCHANGED vars
  BY <1>5 DEF vars, LedgerInv, LockHeld, Supported, AnswerSound, Accounted,
              Untouched
<1>6. QED
  BY <1>1, <1>2, <1>3, <1>4, <1>5 DEF Next, NodeStep

LEMMA LedgerInit == Init => LedgerInv
<1>1. ASSUME Init PROVE LockHeld /\ \A p \in Passes : pass[p].pc = "idle"
  BY <1>1 DEF Init, IdlePass, LockHeld
<1>2. ASSUME Init, NEW n \in Nodes PROVE Supported(n)
  BY <1>2 DEF Init, Supported, EmptyRow, EmptyUsage, NoBaseline
<1>3. QED
  BY <1>1, <1>2 DEF LedgerInv

\* No byte is billed twice, for any number of nodes, callers and attempts and
\* any interleaving of passes with resets, merges, removals and restarts.
THEOREM NoDoubleBilling == Spec => []NoOvercharge
<1>1. Init => LedgerInv
  BY LedgerInit
<1>2. TypeOK /\ LedgerInv /\ [Next]_vars => LedgerInv'
  BY LedgerStep
<1>3. LedgerInv => NoOvercharge
  BY DEF LedgerInv, Supported, NoOvercharge
<1>4. QED
  BY <1>1, <1>2, <1>3, TypeCorrect, PTL DEF Spec
-----------------------------------------------------------------------------
(* The daily history and the baselines.                                    *)

\* What the removal of a node's entry leaves as it was.
LEMMA RemoveBaselineFrame ==
    ASSUME TypeOK, NEW n \in Nodes, RemoveBaseline(n)
    PROVE  /\ UNCHANGED <<pass, daily, lifetime>>
           /\ row'.usage.base = [row.usage.base EXCEPT ![n] = NoBaseline]
<1>1. PICK h \in Hashes :
         row' = [row EXCEPT !.usage.base[n] = NoBaseline, !.usage.push = h]
  BY Zenon DEF RemoveBaseline
<1>2. row'.usage.base = [row.usage.base EXCEPT ![n] = NoBaseline]
  BY <1>1 DEF TypeOK, Row, Usage
<1>3. UNCHANGED <<pass, daily, lifetime>>
  BY Zenon DEF RemoveBaseline, histVars
<1>4. QED
  BY <1>2, <1>3

\* Only the transaction of a charge writes the history, and a rolled back one
\* leaves it as it was.
LEMMA HistoryStep ==
    ASSUME TypeOK, [Next]_vars, HistoryWithinCharges
    PROVE  HistoryWithinCharges'
<1> USE DEF nodeVars, histVars, HistoryWithinCharges
<1>1. ASSUME NEW n \in Nodes,
             Move(n) \/ CounterReset(n) \/ ReportEpochs(n)
      PROVE  HistoryWithinCharges'
  BY <1>1 DEF Move, CounterReset, ReportEpochs
<1>2. ASSUME NEW p \in Passes, PassStep(p)
      PROVE  HistoryWithinCharges'
  <2>1. CASE Commit(p)
    <3>1. pass[p].delta \in Nat /\ daily \in Nat /\ lifetime \in Nat
      BY DEF TypeOK, Pass
    <3>2. QED
      BY <2>1, <3>1 DEF Commit
  <2>2. CASE ~Commit(p)
    BY <1>2, <2>2 DEF PassStep, StartPass, NodeAnswers, ChargeNode, Gather,
                      NothingToStore, Miss, Reread, DatabaseError, RolledBackHistory
  <2>3. QED
    BY <2>1, <2>2
<1>3. CASE ResetUsage \/ MergePushHashes
  BY <1>3 DEF ResetUsage, MergePushHashes
<1>4. ASSUME NEW n \in Removable,
             DeleteNode(n) \/ RemoveBaseline(n) \/ RestoreNode(n)
      PROVE  HistoryWithinCharges'
  BY <1>4, RemoveBaselineFrame, ConstantsAssumption DEF DeleteNode, RestoreNode
<1>5. CASE PanelRestart
  BY <1>5 DEF PanelRestart
<1>6. CASE UNCHANGED vars
  BY <1>6 DEF vars
<1>7. QED
  BY <1>1, <1>2, <1>3, <1>4, <1>5, <1>6 DEF Next, NodeStep, WriterStep

\* user_traffic_daily never holds bytes that were not charged, and holds all of
\* them as long as its statement does not fail: an attempt that misses never
\* writes it, and a COMMIT that fails takes it back.
THEOREM HistoryIsCharges == Spec => []HistoryWithinCharges
<1>1. Init => HistoryWithinCharges
  BY DEF Init, HistoryWithinCharges
<1>2. TypeOK /\ [Next]_vars /\ HistoryWithinCharges => HistoryWithinCharges'
  BY HistoryStep
<1>3. QED
  BY <1>1, <1>2, TypeCorrect, PTL DEF Spec

\* The other callers' records do not matter to one caller's step.
LEMMA HeldBecomes ==
    ASSUME TypeOK, HeldInv, NEW p \in Passes, NEW rec, Become(p, rec),
           pass'[p].pc = "charging" =>
              /\ \A n \in Nodes : HeldBack(p, n)'
              /\ \A n \in pass'[p].todo : AsRead(p, n)'
    PROVE  HeldInv'
<1>1. \A o \in Passes \ {p} : pass'[o] = pass[o]
  BY DEF Become, TypeOK
<1>2. ASSUME NEW o \in Passes \ {p}, pass'[o].pc = "charging"
      PROVE  /\ \A n \in Nodes : HeldBack(o, n)'
             /\ \A n \in pass'[o].todo : AsRead(o, n)'
  BY <1>1, <1>2 DEF HeldInv, HeldBack, AsRead
<1>3. QED
  BY <1>2 DEF HeldInv

\* An attempt starts from the row, but for what the reset marker drops.
LEMMA HeldAttempt ==
    ASSUME TypeOK, HeldInv, NEW p \in Passes, NEW r \in Row, Attempt(p, r)
    PROVE  HeldInv'
<1>1. /\ pass'[p].read = r
      /\ pass'[p].work = Reseeded(r.usage, pass[p].got)
      /\ pass'[p].todo = pass[p].got
  BY DEF Attempt, Become, TypeOK, Pass
<1>2. pass[p].got \subseteq Nodes
  BY DEF TypeOK, Pass
<1>3. ASSUME NEW n \in Nodes PROVE AsRead(p, n)' /\ HeldBack(p, n)'
  <2>1. r.usage \in Usage
    BY DEF Row
  <2>2. CASE r.usage.reseed
    BY <1>1, <2>2 DEF AsRead, HeldBack
  <2>3. CASE ~r.usage.reseed
    <3>1. pass'[p].work = r.usage
      BY <1>1, <2>3 DEF Reseeded
    <3>2. QED
      BY <1>1, <2>1, <3>1 DEF AsRead, HeldBack, Usage, NoBaseline
  <2>4. QED
    BY <2>2, <2>3
<1>4. QED
  BY <1>1, <1>2, <1>3, HeldBecomes DEF Attempt

\* One contribution: a decrease holds the baseline, an explicit reset comes with
\* another epoch.
LEMMA HeldCharge ==
    ASSUME TypeOK, HeldInv, NEW p \in Passes, NEW m \in Nodes, ChargeNode(p, m)
    PROVE  HeldInv'
<1> DEFINE q == pass[p].poll[m]
           b == pass[p].work.base[m]
           e == pass[p].work.epoch[m]
           f == q.epoch # NoEpoch /\ e # NoEpoch /\ q.epoch # e
           x == IF q.epoch = NoEpoch THEN e ELSE q.epoch
<1>0. /\ pass[p] \in Pass
      /\ q \in Answer
      /\ b \in Nat \cup {NoBaseline}
  BY DEF TypeOK, Pass, Usage
<1>1. /\ pass[p].pc = "charging"
      /\ m \in pass[p].todo
      /\ pass'[p].todo = pass[p].todo \ {m}
      /\ pass'[p].read = pass[p].read
      /\ pass'[p].work.base = [pass[p].work.base EXCEPT ![m] = Baseline(q, b, f)]
      /\ pass'[p].work.epoch = [pass[p].work.epoch EXCEPT ![m] = x]
  BY <1>0 DEF ChargeNode, Become, TypeOK, Pass, Usage
<1>2. AsRead(p, m)
  BY <1>1 DEF HeldInv
<1>3. pass'[p].work.base[m] = Baseline(q, b, f) /\ pass'[p].work.epoch[m] = x
  BY <1>0, <1>1 DEF Pass, Usage
<1>4. f => x # e
  OBVIOUS
<1>5. ~f /\ b # NoBaseline => b <= Baseline(q, b, f)
  BY <1>0 DEF Baseline, HeldBaseline, NoBaseline, Answer
<1>6. HeldBack(p, m)'
  <2> HIDE DEF f, x
  <2>1. QED
    BY <1>1, <1>2, <1>3, <1>4, <1>5 DEF AsRead, HeldBack
<1>7. ASSUME NEW n \in Nodes, n # m PROVE HeldBack(p, n)' /\ (AsRead(p, n) => AsRead(p, n)')
  <2>1. /\ pass'[p].work.base[n] = pass[p].work.base[n]
        /\ pass'[p].work.epoch[n] = pass[p].work.epoch[n]
    BY <1>0, <1>1, <1>7 DEF Pass, Usage
  <2>2. HeldBack(p, n)
    BY <1>1 DEF HeldInv
  <2>3. QED
    BY <1>1, <2>1, <2>2 DEF HeldBack, AsRead
<1>8. \A n \in pass'[p].todo : n # m /\ n \in Nodes /\ AsRead(p, n)
  BY <1>0, <1>1 DEF HeldInv, Pass
<1>9. QED
  BY <1>6, <1>7, <1>8, HeldBecomes DEF ChargeNode

\* Nodes and writers leave the passes alone.
LEMMA OthersKeepPasses ==
    ASSUME TypeOK, NodeStep \/ WriterStep
    PROVE  UNCHANGED pass
<1>1. ASSUME NEW n \in Removable,
             DeleteNode(n) \/ RemoveBaseline(n) \/ RestoreNode(n)
      PROVE  UNCHANGED pass
  BY <1>1, RemoveBaselineFrame, ConstantsAssumption DEF DeleteNode, RestoreNode
<1>2. ASSUME NEW n \in Nodes,
             Move(n) \/ CounterReset(n) \/ ReportEpochs(n)
      PROVE  UNCHANGED pass
  BY <1>2 DEF Move, CounterReset, ReportEpochs
<1>3. ResetUsage \/ MergePushHashes => UNCHANGED pass
  BY DEF ResetUsage, MergePushHashes
<1>4. QED
  BY <1>1, <1>2, <1>3 DEF NodeStep, WriterStep

LEMMA HeldStep == TypeOK /\ HeldInv /\ [Next]_vars => HeldInv'
<1> SUFFICES ASSUME TypeOK, HeldInv, [Next]_vars
             PROVE  HeldInv'
  OBVIOUS
<1>1. ASSUME NEW p \in Passes, PassStep(p)
      PROVE  HeldInv'
  <2>0. pass[p] \in Pass /\ row \in Row
    BY DEF TypeOK
  <2>1. CASE StartPass(p)
    <3>1. pass'[p].pc = "polling"
      BY <2>1 DEF StartPass, Become, TypeOK, IdlePass
    <3>2. QED
      BY <2>1, <3>1, HeldBecomes DEF StartPass
  <2>2. CASE Return(p)
    <3>1. pass'[p].pc = "idle"
      BY <2>2 DEF Return, Become, TypeOK, IdlePass
    <3>2. QED
      BY <2>2, <3>1, HeldBecomes DEF Return
  <2>3. CASE \E r \in {pass[p].read, row} : Attempt(p, r)
    BY <2>0, <2>3, HeldAttempt DEF Pass
  <2>4. ASSUME NEW n \in Nodes, NodeAnswers(p, n)
        PROVE  HeldInv'
    <3>1. pass'[p].pc = "polling"
      BY <2>0, <2>4 DEF NodeAnswers, Become, TypeOK, Pass
    <3>2. QED
      BY <2>4, <3>1, HeldBecomes DEF NodeAnswers
  <2>5. ASSUME NEW n \in Nodes, ChargeNode(p, n)
        PROVE  HeldInv'
    BY <2>5, HeldCharge
  <2>6. CASE Become(p, [pass[p] EXCEPT !.pc = "missed"])
    <3>1. pass'[p].pc = "missed"
      BY <2>0, <2>6 DEF Become, TypeOK, Pass
    <3>2. QED
      BY <2>6, <3>1, HeldBecomes
  <2>7. QED
    BY <1>1, <2>1, <2>2, <2>3, <2>4, <2>5, <2>6
    DEF PassStep, Gather, NothingToStore, Commit, Miss, Missed, Reread, DatabaseError
<1>2. CASE NodeStep \/ WriterStep
  BY <1>2, OthersKeepPasses DEF HeldInv, HeldBack, AsRead
<1>3. CASE PanelRestart
  BY <1>3 DEF PanelRestart, HeldInv, IdlePass
<1>4. CASE UNCHANGED vars
  BY <1>4 DEF vars, HeldInv, HeldBack, AsRead
<1>5. QED
  BY <1>1, <1>2, <1>3, <1>4 DEF Next

\* The formula BaselineHolds says of every step.
NoneLowered ==
    \A n \in Nodes :
       LET b == row.usage.base[n]
           c == row'.usage.base[n]
       IN  (b # NoBaseline /\ c # NoBaseline /\ c < b)
           => \/ row.usage.reseed
              \/ row'.usage.epoch[n] # row.usage.epoch[n]

\* The writes of the row: only a charge stores baselines, the others keep them
\* or take one away.
LEMMA BaselineStep == TypeOK /\ HeldInv /\ [Next]_vars => [NoneLowered]_row
<1> SUFFICES ASSUME TypeOK, HeldInv, [Next]_vars, row' # row
             PROVE  NoneLowered
  OBVIOUS
<1>0. row \in Row /\ row' \in Row
  BY StepType DEF TypeOK
<1>1. ASSUME NEW p \in Passes, PassStep(p)
      PROVE  NoneLowered
  <2>1. Commit(p)
    BY <1>1 DEF PassStep, StartPass, NodeAnswers, ChargeNode, Gather, NothingToStore,
                Miss, Reread, DatabaseError
  <2>2. /\ row = pass[p].read /\ row'.usage = pass[p].work
        /\ pass[p].pc = "charging"
    BY <2>1 DEF Commit, RowUnmoved, Charged
  <2>3. \A n \in Nodes : HeldBack(p, n)
    BY <2>2 DEF HeldInv
  <2>4. QED
    BY <1>0, <2>2, <2>3 DEF NoneLowered, HeldBack, Row, Usage, NoBaseline
<1>2. CASE ResetUsage \/ MergePushHashes
  <2>1. row'.usage.base = row.usage.base
    BY <1>0, <1>2 DEF ResetUsage, MergePushHashes, Row, Usage
  <2>2. QED
    BY <1>0, <2>1 DEF NoneLowered, Row, Usage, NoBaseline
<1>3. ASSUME NEW m \in Nodes, RemoveBaseline(m)
      PROVE  NoneLowered
  <2>1. row'.usage.base = [row.usage.base EXCEPT ![m] = NoBaseline]
    BY <1>3, RemoveBaselineFrame
  <2>2. QED
    BY <1>0, <2>1 DEF NoneLowered, Row, Usage, NoBaseline
<1>4. QED
  BY <1>1, <1>2, <1>3, ConstantsAssumption
  DEF Next, NodeStep, WriterStep, Move, CounterReset, ReportEpochs, DeleteNode,
      RestoreNode, PanelRestart, vars

\* A baseline moves back only with a reset of the row or a new epoch of the node,
\* for any number of nodes, callers and attempts: no shrinking total and no
\* stale writer lowers one.
THEOREM BaselinesNeverLowered == Spec => BaselineHolds
<1>1. Init => HeldInv
  BY DEF Init, HeldInv, IdlePass
<1>2. [NoneLowered]_row => [\A n \in Nodes :
          LET b == row.usage.base[n]
              c == row'.usage.base[n]
          IN  (b # NoBaseline /\ c # NoBaseline /\ c < b)
              => \/ row.usage.reseed
                 \/ row'.usage.epoch[n] # row.usage.epoch[n]]_row
  BY DEF NoneLowered
<1>3. QED
  BY <1>1, <1>2, HeldStep, BaselineStep, TypeCorrect, PTL DEF Spec, BaselineHolds

-----------------------------------------------------------------------------
(***************************************************************************)
(* Sums, for the refinement of UsageMeter.  FoldFunction is defined by     *)
(* recursion over the subsets of its domain, which have a sum because the  *)
(* domain is finite; the facts follow by considering a smallest subset for *)
(* which they would fail.                                                  *)
(***************************************************************************)

\* The element a sum over T takes first.
First(T) == CHOOSE n \in T : TRUE

\* g gives the sum of d over every subset of S.
Sums(g, d, S) ==
    g = [T \in SUBSET S |->
           IF T = {} THEN 0 ELSE d[First(T)] + g[T \ {First(T)}]]

Adds(g, d, S) ==
    /\ g[{}] = 0
    /\ \A T \in SUBSET S : T # {} => g[T] = d[First(T)] + g[T \ {First(T)}]

LEMMA TotalDef ==
    ASSUME NEW S, NEW d, DOMAIN d = S
    PROVE  Meter!Total(d) = (CHOOSE g : Sums(g, d, S))[S]
BY Zenon DEF Meter!Total, Meter!FoldFunction, Meter!FoldFunctionOnSet,
             Meter!MapThenFoldSet, Sums, First

\* A finite set has no endless chain of subsets: among some of them one has none
\* of the others below it.
LEMMA SmallestSubset ==
    ASSUME NEW S, IsFiniteSet(S), NEW C \in SUBSET SUBSET S, C # {}
    PROVE  \E T \in C : \A U \in C : U \subseteq T => U = T
<1>1. IsWellFoundedOn(StrictSubsetOrdering(S), SUBSET S)
  BY FS_StrictSubsetOrderingWellFounded, FS_FiniteSubsetsOfFinite
<1>2. PICK T \in C : \A U \in C : ~(<<U, T>> \in StrictSubsetOrdering(S))
  BY <1>1, WFMin
<1>3. QED
  BY <1>2 DEF StrictSubsetOrdering

LEMMA FirstIn == ASSUME NEW T, T # {} PROVE First(T) \in T
BY DEF First

LEMMA SumsValues ==
    ASSUME NEW S, NEW d, NEW g, Sums(g, d, S)
    PROVE  Adds(g, d, S)
<1>1. \A T \in SUBSET S :
         g[T] = IF T = {} THEN 0 ELSE d[First(T)] + g[T \ {First(T)}]
  BY Zenon DEF Sums
<1>2. {} \in SUBSET S
  OBVIOUS
<1>3. g[{}] = 0
  BY <1>1, <1>2, Zenon
<1>4. QED
  BY <1>1, <1>3, Zenon DEF Adds

\* The sums over the subsets of S are numbers and exist once.
LEMMA SumsUnique ==
    ASSUME NEW S, IsFiniteSet(S), NEW d,
           NEW g, Sums(g, d, S), NEW h, Sums(h, d, S)
    PROVE  g = h
<1> DEFINE C == {T \in SUBSET S : g[T] # h[T]}
<1>0. Adds(g, d, S) /\ Adds(h, d, S)
  BY SumsValues, Zenon
<1>1. ASSUME C # {} PROVE FALSE
  <2>1. PICK T \in C : \A U \in C : U \subseteq T => U = T
    <3> C \in SUBSET SUBSET S
      OBVIOUS
    <3> HIDE DEF C
    <3> QED
      BY <1>1, SmallestSubset
  <2>2. CASE T = {}
    BY <1>0, <2>1, <2>2 DEF Adds
  <2>3. CASE T # {}
    <3> DEFINE U == T \ {First(T)}
    <3>1. U \in SUBSET S /\ U \subseteq T /\ U # T
      BY <2>1, <2>3, FirstIn
    <3>2. g[U] = h[U]
      BY <2>1, <3>1
    <3>3. g[T] = d[First(T)] + g[U] /\ h[T] = d[First(T)] + h[U]
      BY <1>0, <2>1, <2>3 DEF Adds
    <3>4. QED
      BY <2>1, <3>2, <3>3
  <2>4. QED
    BY <2>2, <2>3
<1>2. \A T \in SUBSET S : g[T] = h[T]
  BY <1>1
<1>3. QED
  BY <1>2 DEF Sums

LEMMA SumsType ==
    ASSUME NEW S, IsFiniteSet(S), NEW d \in [S -> Int], NEW g, Sums(g, d, S)
    PROVE  g \in [SUBSET S -> Int]
<1> DEFINE C == {T \in SUBSET S : g[T] \notin Int}
<1>0. Adds(g, d, S)
  BY SumsValues, Zenon
<1>1. ASSUME C # {} PROVE FALSE
  <2>1. PICK T \in C : \A U \in C : U \subseteq T => U = T
    <3> C \in SUBSET SUBSET S
      OBVIOUS
    <3> HIDE DEF C
    <3> QED
      BY <1>1, SmallestSubset
  <2>2. CASE T = {}
    BY <1>0, <2>1, <2>2 DEF Adds
  <2>3. CASE T # {}
    <3> DEFINE U == T \ {First(T)}
    <3>1. U \in SUBSET S /\ U \subseteq T /\ U # T /\ First(T) \in S
      BY <2>1, <2>3, FirstIn
    <3>2. g[U] \in Int
      BY <2>1, <3>1
    <3>3. g[T] = d[First(T)] + g[U]
      BY <1>0, <2>1, <2>3 DEF Adds
    <3>4. QED
      BY <2>1, <3>1, <3>2, <3>3
  <2>4. QED
    BY <2>2, <2>3
<1>2. QED
  BY <1>1 DEF Sums

SumOver(d, S) == (CHOOSE g : Sums(g, d, S))[S]

\* The sum over a set is its first element's value and the sum over the rest.
LEMMA SumOverStep ==
    ASSUME NEW S, IsFiniteSet(S), S # {}, NEW d,
           \E g : Sums(g, d, S), \E g : Sums(g, d, S \ {First(S)})
    PROVE  SumOver(d, S) = d[First(S)] + SumOver(d, S \ {First(S)})
<1> DEFINE R == S \ {First(S)}
           k == CHOOSE g : Sums(g, d, S)
           r == CHOOSE g : Sums(g, d, R)
           s == [T \in SUBSET R |-> k[T]]
<1>1. Sums(k, d, S) /\ Sums(r, d, R)
  BY Zenon
<1>2. Adds(k, d, S)
  BY <1>1, SumsValues, Zenon
<1>3. Sums(s, d, R)
  <2> HIDE DEF k
  <2>1. ASSUME NEW T \in SUBSET R
        PROVE  s[T] = IF T = {} THEN 0 ELSE d[First(T)] + s[T \ {First(T)}]
    BY <1>2 DEF Adds
  <2>2. s = [T \in SUBSET R |->
               IF T = {} THEN 0 ELSE d[First(T)] + s[T \ {First(T)}]]
    BY <2>1
  <2>3. QED
    BY <2>2 DEF Sums
<1>4. IsFiniteSet(R)
  BY FS_Difference
<1>5. s = r
  <2> HIDE DEF s, r
  <2>1. QED
    BY <1>1, <1>3, <1>4, SumsUnique
<1>6. r[R] = k[R]
  <2> HIDE DEF r, k
  <2>1. QED
    BY <1>5
<1>7. k[S] = d[First(S)] + k[R]
  BY <1>2 DEF Adds
<1>8. SumOver(d, S) = k[S] /\ SumOver(d, R) = r[R]
  BY DEF SumOver
<1>9. QED
  <2> HIDE DEF k, r, R
  <2>1. QED
    BY <1>6, <1>7, <1>8 DEF R

LEMMA SumsExist ==
    ASSUME NEW S, IsFiniteSet(S), NEW d
    PROVE  \E g : Sums(g, d, S)
<1> DEFINE C == {T \in SUBSET S : ~\E g : Sums(g, d, T)}
<1>1. ASSUME C # {} PROVE FALSE
  <2>1. PICK T \in C : \A U \in C : U \subseteq T => U = T
    <3> C \in SUBSET SUBSET S
      OBVIOUS
    <3> HIDE DEF C
    <3> QED
      BY <1>1, SmallestSubset
  <2>2. T \in SUBSET S /\ IsFiniteSet(T) /\ ~\E g : Sums(g, d, T)
    BY <2>1, FS_Subset
  <2>3. ASSUME NEW U \in SUBSET T, U # T
        PROVE  IsFiniteSet(U) /\ \E g : Sums(g, d, U)
    BY <2>1, <2>2, <2>3, FS_Subset
  <2> DEFINE G == [U \in SUBSET T |->
                     IF U # T THEN SumOver(d, U)
                     ELSE IF T = {} THEN 0
                     ELSE d[First(T)] + SumOver(d, T \ {First(T)})]
  <2>4. ASSUME NEW U \in SUBSET T
        PROVE  G[U] = IF U = {} THEN 0 ELSE d[First(U)] + G[U \ {First(U)}]
    <3>1. CASE U = {}
      <4>1. CASE T = {}
        BY <3>1, <4>1
      <4>2. CASE T # {}
        <5>1. PICK g : Sums(g, d, {})
          BY <2>3, <4>2
        <5> DEFINE h == CHOOSE x : Sums(x, d, {})
        <5>2. Sums(h, d, {})
          BY <5>1, Zenon
        <5>3. Adds(h, d, {})
          BY <5>2, SumsValues, Zenon
        <5>4. SumOver(d, {}) = 0
          BY <5>3 DEF SumOver, Adds
        <5>5. QED
          BY <3>1, <4>2, <5>4
      <4>3. QED
        BY <4>1, <4>2
    <3>2. CASE U # {} /\ U # T
      <4> DEFINE V == U \ {First(U)}
      <4>1. First(U) \in U /\ V \in SUBSET T /\ V # T
        BY <3>2, FirstIn
      <4>2. SumOver(d, U) = d[First(U)] + SumOver(d, V)
        <5>1. IsFiniteSet(U) /\ (\E g : Sums(g, d, U)) /\ \E g : Sums(g, d, V)
          BY <2>3, <3>2, <4>1
        <5>2. QED
          BY <3>2, <5>1, SumOverStep
      <4>3. G[U] = SumOver(d, U) /\ G[V] = SumOver(d, V)
        BY <3>2, <4>1
      <4>4. QED
        BY <3>2, <4>2, <4>3
    <3>3. CASE U # {} /\ U = T
      <4> DEFINE V == T \ {First(T)}
      <4>1. First(T) \in T /\ V \in SUBSET T /\ V # T
        BY <3>3, FirstIn
      <4>2. G[T] = d[First(T)] + SumOver(d, V) /\ G[V] = SumOver(d, V)
        BY <3>3, <4>1
      <4>3. QED
        BY <3>3, <4>2
    <3>4. QED
      BY <3>1, <3>2, <3>3
  <2>5. G = [U \in SUBSET T |->
               IF U = {} THEN 0 ELSE d[First(U)] + G[U \ {First(U)}]]
    BY <2>4
  <2>6. Sums(G, d, T)
    BY <2>5 DEF Sums
  <2>7. QED
    BY <2>2, <2>6
<1>2. QED
  BY <1>1

\* The sum of a function is the last of its partial sums.
LEMMA TotalSums ==
    ASSUME NEW S, IsFiniteSet(S), NEW d \in [S -> Int]
    PROVE  \E g \in [SUBSET S -> Int] : Adds(g, d, S) /\ Meter!Total(d) = g[S]
<1> DEFINE h == CHOOSE g : Sums(g, d, S)
<1>1. Sums(h, d, S)
  BY SumsExist, Zenon
<1>2. Meter!Total(d) = h[S]
  BY TotalDef
<1> HIDE DEF h
<1>3. h \in [SUBSET S -> Int] /\ Adds(h, d, S)
  BY <1>1, SumsType, SumsValues
<1>4. QED
  BY <1>2, <1>3

LEMMA TotalZero ==
    ASSUME NEW S, IsFiniteSet(S)
    PROVE  Meter!Total([n \in S |-> 0]) = 0
<1> DEFINE z == [n \in S |-> 0]
<1>1. PICK g \in [SUBSET S -> Int] : Adds(g, z, S) /\ Meter!Total(z) = g[S]
  BY TotalSums
<1> DEFINE C == {T \in SUBSET S : g[T] # 0}
<1>2. ASSUME C # {} PROVE FALSE
  <2>1. PICK T \in C : \A U \in C : U \subseteq T => U = T
    <3> C \in SUBSET SUBSET S
      OBVIOUS
    <3> HIDE DEF C
    <3> QED
      BY <1>2, SmallestSubset
  <2>2. CASE T = {}
    BY <1>1, <2>1, <2>2 DEF Adds
  <2>3. CASE T # {}
    <3> DEFINE U == T \ {First(T)}
    <3>1. U \in SUBSET S /\ U \subseteq T /\ U # T /\ First(T) \in S
      BY <2>1, <2>3, FirstIn
    <3>2. g[U] = 0
      BY <2>1, <3>1
    <3>3. g[T] = z[First(T)] + g[U]
      BY <1>1, <2>1, <2>3 DEF Adds
    <3>4. QED
      BY <2>1, <3>1, <3>2, <3>3
  <2>4. QED
    BY <2>2, <2>3
<1>3. QED
  BY <1>1, <1>2

\* Raising one value from 0 raises the sum by as much, whatever the order in
\* which the sum takes the values.
LEMMA TotalAdd ==
    ASSUME NEW S, IsFiniteSet(S), NEW d \in [S -> Int],
           NEW m \in S, d[m] = 0, NEW v \in Int
    PROVE  Meter!Total([d EXCEPT ![m] = v]) = Meter!Total(d) + v
<1> DEFINE e == [d EXCEPT ![m] = v]
<1>1. PICK g \in [SUBSET S -> Int] : Adds(g, d, S) /\ Meter!Total(d) = g[S]
  BY TotalSums
<1>2. PICK h \in [SUBSET S -> Int] : Adds(h, e, S) /\ Meter!Total(e) = h[S]
  BY TotalSums
<1> DEFINE add(T) == IF m \in T THEN v ELSE 0
           C == {T \in SUBSET S : h[T] # g[T] + add(T)}
<1>3. ASSUME C # {} PROVE FALSE
  <2>1. PICK T \in C : \A U \in C : U \subseteq T => U = T
    <3> C \in SUBSET SUBSET S
      OBVIOUS
    <3> HIDE DEF C
    <3> QED
      BY <1>3, SmallestSubset
  <2>2. CASE T = {}
    BY <1>1, <1>2, <2>1, <2>2 DEF Adds
  <2>3. CASE T # {}
    <3> DEFINE n == First(T)
               U == T \ {n}
    <3>1. U \in SUBSET S /\ U \subseteq T /\ U # T /\ n \in S /\ n \in T
      BY <2>1, <2>3, FirstIn
    <3>2. h[U] = g[U] + add(U)
      BY <2>1, <3>1
    <3>3. g[T] = d[n] + g[U] /\ h[T] = e[n] + h[U]
      BY <1>1, <1>2, <2>1, <2>3 DEF Adds
    <3>4. e[n] + add(U) = d[n] + add(T)
      BY <3>1
    <3>5. h[T] = g[T] + add(T)
      <4>1. /\ g[U] \in Int /\ add(U) \in Int /\ add(T) \in Int
            /\ d[n] \in Int /\ e[n] \in Int
        BY <3>1
      <4> HIDE DEF add, e, n, U
      <4>2. QED
        BY <3>2, <3>3, <3>4, <4>1
    <3>6. QED
      BY <2>1, <3>5
  <2>4. QED
    BY <2>2, <2>3
<1>4. h[S] = g[S] + v
  BY <1>3
<1>5. QED
  BY <1>1, <1>2, <1>4

-----------------------------------------------------------------------------
(* The refinement.                                                         *)

LEMMA DueBecomes ==
    ASSUME TypeOK, DueInv, NEW p \in Passes, NEW rec, Become(p, rec),
           pass'[p].pc = "charging" =>
              /\ pass'[p].delta = Meter!Total(pass'[p].due)
              /\ \A n \in pass'[p].todo : pass'[p].due[n] = 0
    PROVE  DueInv'
<1>1. \A o \in Passes \ {p} : pass'[o] = pass[o]
  BY DEF Become, TypeOK
<1>2. QED
  BY <1>1 DEF DueInv

LEMMA DueAttempt ==
    ASSUME TypeOK, DueInv, NEW p \in Passes, NEW r \in Row, Attempt(p, r)
    PROVE  DueInv'
<1>1. /\ pass'[p].due = [n \in Nodes |-> 0]
      /\ pass'[p].delta = 0
      /\ pass'[p].todo \subseteq Nodes
  BY DEF Attempt, Become, TypeOK, Pass
<1>2. Meter!Total(pass'[p].due) = 0
  BY <1>1, TotalZero, NodesFinite
<1>3. QED
  BY <1>1, <1>2, DueBecomes DEF Attempt

\* One contribution adds to the charge what it adds to the node's share.
LEMMA DueCharge ==
    ASSUME TypeOK, DueInv, NEW p \in Passes, NEW m \in Nodes, ChargeNode(p, m)
    PROVE  DueInv'
<1> DEFINE q == pass[p].poll[m]
           b == pass[p].work.base[m]
           e == pass[p].work.epoch[m]
           f == q.epoch # NoEpoch /\ e # NoEpoch /\ q.epoch # e
           v == Bill(q, b, f)
<1>0. /\ pass[p] \in Pass
      /\ q \in Answer
      /\ b \in Nat \cup {NoBaseline}
      /\ f \in BOOLEAN
  BY DEF TypeOK, Pass, Usage
<1>1. v \in Nat
  BY <1>0, BillType
<1>2. /\ pass[p].pc = "charging"
      /\ m \in pass[p].todo
      /\ pass'[p].todo = pass[p].todo \ {m}
      /\ pass'[p].due = [pass[p].due EXCEPT ![m] = v]
      /\ pass'[p].delta = pass[p].delta + v
  BY <1>0 DEF ChargeNode, Become, TypeOK, Pass, Usage
<1>3. /\ pass[p].due \in [Nodes -> Int]
      /\ pass[p].todo \subseteq Nodes
  BY <1>0 DEF Pass
<1>4. /\ pass[p].delta = Meter!Total(pass[p].due)
      /\ \A n \in pass[p].todo : pass[p].due[n] = 0
  BY <1>2 DEF DueInv
<1> HIDE DEF v
<1>5. Meter!Total(pass'[p].due) = Meter!Total(pass[p].due) + v
  <2>1. pass[p].due[m] = 0 /\ v \in Int
    BY <1>1, <1>2, <1>4
  <2>2. Meter!Total([pass[p].due EXCEPT ![m] = v]) = Meter!Total(pass[p].due) + v
    BY <1>3, <2>1, TotalAdd, NodesFinite
  <2>3. QED
    BY <1>2, <2>2
<1>6. \A n \in pass'[p].todo : pass'[p].due[n] = 0
  BY <1>2, <1>3, <1>4
<1>7. QED
  BY <1>2, <1>4, <1>5, <1>6, DueBecomes DEF ChargeNode

LEMMA DueStep == TypeOK /\ DueInv /\ [Next]_vars => DueInv'
<1> SUFFICES ASSUME TypeOK, DueInv, [Next]_vars
             PROVE  DueInv'
  OBVIOUS
<1>1. ASSUME NEW p \in Passes, PassStep(p)
      PROVE  DueInv'
  <2>0. pass[p] \in Pass /\ row \in Row
    BY DEF TypeOK
  <2>1. CASE StartPass(p)
    <3>1. pass'[p].pc = "polling"
      BY <2>1 DEF StartPass, Become, TypeOK, IdlePass
    <3>2. QED
      BY <2>1, <3>1, DueBecomes DEF StartPass
  <2>2. CASE Return(p)
    <3>1. pass'[p].pc = "idle"
      BY <2>2 DEF Return, Become, TypeOK, IdlePass
    <3>2. QED
      BY <2>2, <3>1, DueBecomes DEF Return
  <2>3. CASE \E r \in {pass[p].read, row} : Attempt(p, r)
    BY <2>0, <2>3, DueAttempt DEF Pass
  <2>4. ASSUME NEW n \in Nodes, NodeAnswers(p, n)
        PROVE  DueInv'
    <3>1. pass'[p].pc = "polling"
      BY <2>0, <2>4 DEF NodeAnswers, Become, TypeOK, Pass
    <3>2. QED
      BY <2>4, <3>1, DueBecomes DEF NodeAnswers
  <2>5. ASSUME NEW n \in Nodes, ChargeNode(p, n)
        PROVE  DueInv'
    BY <2>5, DueCharge
  <2>6. CASE Become(p, [pass[p] EXCEPT !.pc = "missed"])
    <3>1. pass'[p].pc = "missed"
      BY <2>0, <2>6 DEF Become, TypeOK, Pass
    <3>2. QED
      BY <2>6, <3>1, DueBecomes
  <2>7. QED
    BY <1>1, <2>1, <2>2, <2>3, <2>4, <2>5, <2>6
    DEF PassStep, Gather, NothingToStore, Commit, Miss, Missed, Reread, DatabaseError
<1>2. CASE NodeStep \/ WriterStep
  BY <1>2, OthersKeepPasses DEF DueInv
<1>3. CASE PanelRestart
  BY <1>3 DEF PanelRestart, DueInv, IdlePass
<1>4. CASE UNCHANGED vars
  BY <1>4 DEF vars, DueInv
<1>5. QED
  BY <1>1, <1>2, <1>3, <1>4 DEF Next

\* The write of a pass is a charge of the meter.
LEMMA CommitCharges ==
    ASSUME TypeOK, TypeOK', LedgerInv', DueInv, NEW p \in Passes, Commit(p)
    PROVE  Meter!Charge
<1>1. /\ pass[p] \in Pass
      /\ row'.used = row.used + pass[p].delta
      /\ charged' = [n \in Nodes |-> charged[n] + pass[p].due[n]]
      /\ UNCHANGED sent
      /\ pass[p].delta = Meter!Total(pass[p].due)
  BY DEF Commit, Charged, RowUnmoved, TypeOK, nodeVars, DueInv
<1>2. pass[p].due \in [Nodes -> Nat]
  BY <1>1 DEF Pass
<1>3. pass[p].due = [n \in Nodes |-> charged'[n] - charged[n]]
  BY <1>1, <1>2 DEF TypeOK
<1>4. \A n \in Nodes : charged'[n] \in charged[n] .. sent[n]
  BY <1>1, <1>2 DEF TypeOK, LedgerInv, Supported
<1>5. charged' \in [Nodes -> Nat]
  BY DEF TypeOK
<1>6. row'.used = row.used + Meter!Total([n \in Nodes |-> charged'[n] - charged[n]])
  BY <1>1, <1>3
<1>7. QED
  BY <1>1, <1>4, <1>5, <1>6 DEF Meter!Charge

\* Every step is one of the meter's or leaves the meter as it is.
LEMMA MeterStep ==
    ASSUME TypeOK, TypeOK', LedgerInv', DueInv, [Next]_vars
    PROVE  [Meter!MeterNext]_(Meter!meterVars)
<1> USE DEF nodeVars, histVars
<1>1. ASSUME UNCHANGED <<sent, charged, row>>
      PROVE  UNCHANGED Meter!meterVars
  BY <1>1 DEF Meter!meterVars
<1>2. ASSUME NEW n \in Nodes, Move(n)
      PROVE  Meter!Carry(n)
  BY <1>2 DEF Move, Meter!Carry
<1>3. ASSUME NEW n \in Nodes, CounterReset(n) \/ ReportEpochs(n)
      PROVE  UNCHANGED <<sent, charged, row>>
  BY <1>3 DEF CounterReset, ReportEpochs
<1>4. ASSUME NEW p \in Passes, PassStep(p), ~Commit(p)
      PROVE  UNCHANGED <<sent, charged, row>>
  BY <1>4 DEF PassStep, StartPass, NodeAnswers, ChargeNode, Gather, NothingToStore,
              Miss, Reread, DatabaseError
<1>5. CASE ResetUsage
  <2>1. Meter!Forgive
    BY <1>5 DEF ResetUsage, Meter!Forgive
  <2>2. QED
    BY <2>1 DEF Meter!MeterNext
<1>6. ASSUME \/ MergePushHashes
             \/ \E n \in Removable : RemoveBaseline(n)
      PROVE  UNCHANGED Meter!meterVars
  <2>1. UNCHANGED <<sent, charged>>
    BY <1>6, Zenon DEF MergePushHashes, RemoveBaseline
  <2>2. row'.used = row.used
    BY <1>6 DEF MergePushHashes, RemoveBaseline, TypeOK, Row
  <2>3. QED
    BY <2>1, <2>2 DEF Meter!meterVars
<1>7. ASSUME NEW n \in Removable, DeleteNode(n) \/ RestoreNode(n)
      PROVE  UNCHANGED <<sent, charged, row>>
  BY <1>7 DEF DeleteNode, RestoreNode
<1>8. PanelRestart \/ UNCHANGED vars => UNCHANGED <<sent, charged, row>>
  BY DEF PanelRestart, vars
<1>9. ASSUME NEW p \in Passes, Commit(p)
      PROVE  Meter!MeterNext
  BY <1>9, CommitCharges DEF Meter!MeterNext
<1>10. QED
  BY <1>1, <1>2, <1>3, <1>4, <1>5, <1>6, <1>7, <1>8, <1>9
  DEF Next, NodeStep, WriterStep, Meter!MeterNext

\* Passes, retries, resets, restarts and node removals together are a meter, for
\* any finite set of nodes: users.used moves only by the sum of single charges
\* for bytes that were carried, or back to 0.
THEOREM RefinesMeter == Spec => ImplementsMeter
<1>1. Init => Meter!MeterInit
  BY DEF Init, EmptyRow, Meter!MeterInit
<1>2. Init => LedgerInv
  BY LedgerInit
<1>3. Init => DueInv
  BY DEF Init, DueInv, IdlePass
<1>4. Spec => [](TypeOK /\ LedgerInv /\ DueInv)
  BY <1>2, <1>3, TypeCorrect, LedgerStep, DueStep, PTL DEF Spec
<1>5. TypeOK /\ TypeOK' /\ LedgerInv' /\ DueInv /\ [Next]_vars
      => [Meter!MeterNext]_(Meter!meterVars)
  BY MeterStep
<1>6. QED
  BY <1>1, <1>4, <1>5, PTL DEF Spec, ImplementsMeter, Meter!MeterSpec
=============================================================================
