------------------------ MODULE RevocationQueueProofs -----------------------
(***************************************************************************)
(* Theorems about RevocationQueue for any nodes, accounts and bounds: the  *)
(* types are kept, and no revocation ever hits a user that exists.         *)
(***************************************************************************)
EXTENDS RevocationQueue, TLAPS

LEMMA InitType == Init => TypeOK
BY ConstantsAssumption DEF Init, TypeOK, NoId

\* A new row takes the next id.
LEMMA InsertType ==
    ASSUME TypeOK, NEW a \in Accounts, InsertRow(a)
    PROVE  /\ id' \in [Accounts -> Ids \cup {NoId}]
           /\ lastId' = lastId + 1
           /\ lastId' \in 0 .. MaxId
BY ConstantsAssumption DEF InsertRow, NextId, Ids, TypeOK

LEMMA AccountStepType == TypeOK /\ AccountStep => TypeOK'
<1> SUFFICES ASSUME TypeOK, AccountStep
             PROVE  TypeOK'
  OBVIOUS
<1> USE DEF nodeVars, dbVars, pushVars
<1>1. ASSUME NEW a \in Accounts, CreateUser(a)
      PROVE  TypeOK'
  BY <1>1, InsertType DEF CreateUser, TypeOK
<1>2. ASSUME NEW a \in Accounts, RestoreUser(a)
      PROVE  TypeOK'
  <2>1. undo' \subseteq Accounts
    BY <1>2 DEF RestoreUser, TypeOK
  <2>2. QED
    BY <1>2, <2>1, InsertType DEF RestoreUser, TypeOK
<1>3. ASSUME NEW a \in Accounts, ForgetSnapshot(a)
      PROVE  TypeOK'
  BY <1>3 DEF ForgetSnapshot, TypeOK
<1>4. ASSUME NEW a \in Accounts, NEW keepOne \in BOOLEAN, DeleteUser(a, keepOne)
      PROVE  TypeOK'
  <2>1. id[a] \in Ids
    BY <1>4 DEF DeleteUser, Deletes, TypeOK
  <2>2. \A n \in registered : [at |-> now, node |-> n, user |-> id[a]] \in Job
    BY <2>1 DEF Job, TypeOK
  <2>3. jobs' \subseteq Job
    BY <1>4, <2>2 DEF DeleteUser, Indebted, TypeOK
  <2>4. id' \in [Accounts -> Ids \cup {NoId}]
    BY <1>4 DEF DeleteUser, TypeOK
  <2>5. QED
    BY <1>4, <2>3, <2>4 DEF DeleteUser, TypeOK
<1>5. QED
  BY <1>1, <1>2, <1>3, <1>4 DEF AccountStep

LEMMA PushStepType == TypeOK /\ PushStep => TypeOK'
<1> SUFFICES ASSUME TypeOK, NEW n \in Nodes,
                    \/ \E a \in Accounts : PushUser(n, a)
                    \/ \E i \in Ids : PushLands(n, i) \/ PushLost(n, i)
             PROVE  TypeOK'
  BY DEF PushStep
<1> USE DEF nodeVars, dbVars
<1>1. ASSUME NEW a \in Accounts, PushUser(n, a)
      PROVE  TypeOK'
  <2>1. <<n, id[a]>> \in Nodes \X Ids
    BY <1>1 DEF PushUser, TypeOK
  <2>2. calls' \subseteq Nodes \X Ids
    BY <1>1, <2>1 DEF PushUser, TypeOK
  <2>3. QED
    BY <1>1, <2>2 DEF PushUser, TypeOK
<1>2. ASSUME NEW i \in Ids, PushLands(n, i)
      PROVE  TypeOK'
  BY <1>2 DEF PushLands, TypeOK
<1>3. ASSUME NEW i \in Ids, PushLost(n, i)
      PROVE  TypeOK'
  BY <1>3 DEF PushLost, TypeOK
<1>4. QED
  BY <1>1, <1>2, <1>3

\* A pass takes jobs from the table and drops them there and from its batch.
LEMMA PassStepShrinks ==
    ASSUME PassStep
    PROVE  /\ jobs' \subseteq jobs
           /\ batch' \subseteq jobs \cup batch
           /\ acct' \subseteq acct
           /\ UNCHANGED <<id, lastId, undo, registered, now, up, unreadable>>
           /\ UNCHANGED <<calls, revived>>
<1> USE DEF nodeVars, dbVars, pushVars
<1>1. CASE StartPass
  BY <1>1 DEF StartPass, Taken
<1>2. CASE DropJob
  BY <1>2 DEF DropJob, Done
<1>3. CASE Acknowledged
  BY <1>3 DEF Acknowledged, Done
<1>4. CASE Failed
  BY <1>4 DEF Failed, AfterFailure
<1>5. QED
  BY <1>1, <1>2, <1>3, <1>4 DEF PassStep

LEMMA NodeStepShrinks ==
    ASSUME NodeStep
    PROVE  jobs' \subseteq jobs /\ UNCHANGED <<id, lastId, batch, calls, revived>>
BY DEF NodeStep, NodeDown, NodeUp, DeleteNode, RestoreNode, Unreadable,
       ReadableAgain, dbVars, pushVars

\* Pushes concern the nodes and nobody else.
LEMMA PushStepKeeps ==
    ASSUME PushStep
    PROVE  UNCHANGED <<id, lastId, undo, registered, jobs, batch, now, up, unreadable>>
BY DEF PushStep, PushUser, PushLands, PushLost, dbVars, nodeVars

LEMMA NextType == TypeOK /\ [Next]_vars => TypeOK'
<1> SUFFICES ASSUME TypeOK, [Next]_vars
             PROVE  TypeOK'
  OBVIOUS
<1> USE DEF nodeVars, dbVars, pushVars
<1>1. CASE PassStep
  BY <1>1, PassStepShrinks DEF TypeOK
<1>2. CASE AccountStep
  BY <1>2, AccountStepType
<1>3. CASE NodeStep
  <2>1. /\ registered' \subseteq Nodes /\ up' \subseteq Nodes
        /\ unreadable' \subseteq Nodes
        /\ UNCHANGED <<undo, now, acct>>
    BY <1>3, ConstantsAssumption
    DEF NodeStep, NodeDown, NodeUp, DeleteNode, RestoreNode, Unreadable, ReadableAgain, TypeOK
  <2>2. QED
    BY <1>3, <2>1, NodeStepShrinks DEF TypeOK
<1>4. CASE Tick
  BY <1>4, ConstantsAssumption DEF Tick, TypeOK
<1>5. CASE PanelRestart
  BY <1>5 DEF PanelRestart, TypeOK
<1>6. CASE UNCHANGED vars
  BY <1>6 DEF vars, TypeOK
<1>7. CASE PushStep
  BY <1>7, PushStepType
<1>8. QED
  BY <1>1, <1>2, <1>3, <1>4, <1>5, <1>6, <1>7 DEF Next

\* Every variable keeps its type.
THEOREM TypeCorrect == Spec => []TypeOK
BY InitType, NextType, PTL DEF Spec

-----------------------------------------------------------------------------
(* No revocation hits a user that exists.  Ids are handed out once: those  *)
(* of jobs, batches and rows are all at most lastId, and no two rows share *)
(* one.                                                                    *)

IdInv ==
    /\ \A a \in Accounts : id[a] <= lastId
    /\ \A a, b \in Accounts : id[a] = id[b] /\ id[a] # NoId => a = b
    /\ \A j \in jobs \cup batch :
          j.user <= lastId /\ \A a \in Accounts : id[a] # j.user

LEMMA InsertIdInv ==
    ASSUME TypeOK, IdInv, NEW a \in Accounts, InsertRow(a), UNCHANGED <<jobs, batch>>
    PROVE  IdInv'
<1>1. id' = [id EXCEPT ![a] = lastId + 1] /\ lastId' = lastId + 1
  BY InsertType DEF InsertRow, NextId
<1>2. lastId \in Nat /\ \A b \in Accounts : id[b] \in Nat
  BY ConstantsAssumption DEF TypeOK, Ids, NoId
<1>3. \A j \in jobs \cup batch : j.user \in Nat
  BY ConstantsAssumption DEF TypeOK, Job, Ids
<1>4. \A b \in Accounts : id'[b] = IF b = a THEN lastId + 1 ELSE id[b]
  BY <1>1 DEF TypeOK
<1>5. QED
  BY <1>1, <1>2, <1>3, <1>4 DEF IdInv

LEMMA DeleteIdInv ==
    ASSUME TypeOK, IdInv, NEW a \in Accounts, NEW keepOne \in BOOLEAN,
           DeleteUser(a, keepOne)
    PROVE  IdInv'
<1>1. id[a] # NoId /\ lastId' = lastId /\ batch' = batch
  BY DEF DeleteUser, Deletes
<1>2. \A b \in Accounts : id'[b] = IF b = a THEN NoId ELSE id[b]
  BY DEF DeleteUser, TypeOK
<1>3. \A j \in jobs' : j \in jobs \/ j.user = id[a]
  BY DEF DeleteUser
<1>4. lastId \in Nat /\ \A b \in Accounts : id[b] \in Nat
  BY ConstantsAssumption DEF TypeOK, Ids, NoId
<1>5. \A j \in jobs \cup batch : j.user \in Nat /\ j.user # NoId
  BY ConstantsAssumption DEF TypeOK, Job, Ids, NoId
<1>6. QED
  BY <1>1, <1>2, <1>3, <1>4, <1>5 DEF IdInv, NoId

LEMMA NextIdInv == TypeOK /\ IdInv /\ [Next]_vars => IdInv'
<1> SUFFICES ASSUME TypeOK, IdInv, [Next]_vars
             PROVE  IdInv'
  OBVIOUS
<1> USE DEF nodeVars, dbVars, pushVars
<1>1. CASE PassStep
  BY <1>1, PassStepShrinks DEF IdInv
<1>2. CASE NodeStep
  BY <1>2, NodeStepShrinks DEF IdInv
<1>3. ASSUME NEW a \in Accounts, CreateUser(a) \/ RestoreUser(a)
      PROVE  IdInv'
  BY <1>3, InsertIdInv DEF CreateUser, RestoreUser
<1>4. ASSUME NEW a \in Accounts, NEW keepOne \in BOOLEAN, DeleteUser(a, keepOne)
      PROVE  IdInv'
  BY <1>4, DeleteIdInv
<1>5. ASSUME \/ PushStep
             \/ \E a \in Accounts : ForgetSnapshot(a)
      PROVE  IdInv'
  BY <1>5, PushStepKeeps DEF ForgetSnapshot, IdInv
<1>6. CASE Tick \/ PanelRestart
  BY <1>6 DEF Tick, PanelRestart, IdInv
<1>7. CASE UNCHANGED vars
  BY <1>7 DEF vars, IdInv
<1>8. QED
  BY <1>1, <1>2, <1>3, <1>4, <1>5, <1>6, <1>7 DEF Next, AccountStep

\* A revocation never hits a user that exists, whatever was deleted, restored
\* or created since the job was written or the batch was read: this is what the
\* AUTOINCREMENT of users.id (migrate.go:366-370) is for.
THEOREM RevocationsSpareLiveUsers == Spec => []LiveUsersSafe
<1>1. Init => IdInv
  BY DEF Init, IdInv, NoId
<1>2. IdInv => LiveUsersSafe
  BY DEF IdInv, LiveUsersSafe, Live
<1>3. QED
  BY <1>1, <1>2, NextIdInv, TypeCorrect, PTL DEF Spec

-----------------------------------------------------------------------------
(* No debt is lost.  A node outside Removable keeps its row and its key, so *)
(* that every deletion writes it a job and only its acknowledgement, which *)
(* takes the account along, ends one.  What a push brings back later is    *)
(* either owed still or revived.                                           *)

NodesKept == \A n \in Nodes \ Removable : n \in registered \ unreadable

LEMMA NodesKeptStep ==
    ASSUME NodesKept, [Next]_vars
    PROVE  NodesKept'
<1> USE DEF nodeVars, dbVars, pushVars
<1>1. CASE PassStep
  BY <1>1, PassStepShrinks DEF NodesKept
<1>2. ASSUME NEW a \in Accounts,
             \/ CreateUser(a) \/ RestoreUser(a) \/ ForgetSnapshot(a)
             \/ \E keepOne \in BOOLEAN : DeleteUser(a, keepOne)
      PROVE  NodesKept'
  BY <1>2 DEF CreateUser, RestoreUser, ForgetSnapshot, DeleteUser, NodesKept
<1>3. ASSUME NEW n \in Flaky, NodeDown(n) \/ NodeUp(n)
      PROVE  NodesKept'
  BY <1>3 DEF NodeDown, NodeUp, NodesKept
<1>4. ASSUME NEW n \in Removable, DeleteNode(n) \/ RestoreNode(n) \/ Unreadable(n) \/ ReadableAgain(n)
      PROVE  NodesKept'
  BY <1>4 DEF DeleteNode, RestoreNode, Unreadable, ReadableAgain, NodesKept
<1>5. CASE Tick \/ PanelRestart
  BY <1>5 DEF Tick, PanelRestart, NodesKept
<1>6. CASE UNCHANGED vars
  BY <1>6 DEF vars, NodesKept
<1>7. CASE PushStep
  BY <1>7, PushStepKeeps DEF NodesKept
<1>8. QED
  BY <1>1, <1>2, <1>3, <1>4, <1>5, <1>6, <1>7 DEF Next, AccountStep, NodeStep

\* How a job leaves the table.
LEMMA JobsEnd ==
    ASSUME [Next]_vars, NEW j \in jobs, j \notin jobs'
    PROVE  \/ <<j.node, j.user>> \notin acct' /\ acct' \subseteq acct
           \/ ~Loadable(j.node)'
<1> USE DEF nodeVars, dbVars, pushVars
<1>1. CASE DropJob
  BY <1>1 DEF DropJob, Loadable
<1>2. CASE Acknowledged
  BY <1>2 DEF Acknowledged, Acknowledges
<1>3. CASE StartPass \/ Failed
  BY <1>3 DEF StartPass, Failed
<1>4. ASSUME NEW n \in Removable, DeleteNode(n)
      PROVE  ~Loadable(j.node)'
  BY <1>4 DEF DeleteNode, Loadable
<1>5. ASSUME NEW n \in Removable, RestoreNode(n) \/ Unreadable(n) \/ ReadableAgain(n)
      PROVE  FALSE
  BY <1>5 DEF RestoreNode, Unreadable, ReadableAgain
<1>6. ASSUME NEW n \in Flaky, NodeDown(n) \/ NodeUp(n)
      PROVE  FALSE
  BY <1>6 DEF NodeDown, NodeUp
<1>7. ASSUME NEW a \in Accounts,
             \/ CreateUser(a) \/ RestoreUser(a) \/ ForgetSnapshot(a)
             \/ \E keepOne \in BOOLEAN : DeleteUser(a, keepOne)
      PROVE  FALSE
  BY <1>7 DEF CreateUser, RestoreUser, ForgetSnapshot, DeleteUser
<1>8. CASE Tick \/ PanelRestart \/ PushStep \/ UNCHANGED vars
  BY <1>8, PushStepKeeps DEF Tick, PanelRestart, vars
<1>9. QED
  BY <1>1, <1>2, <1>3, <1>4, <1>5, <1>6, <1>7, <1>8
  DEF Next, PassStep, AccountStep, NodeStep

\* A job ends when the node has lost the account, or cannot be asked: a failed
\* call, a restart in the middle of a batch and another pass never end one.
THEOREM JobsAreDelivered == Spec => JobsEndDelivered
<1>1. [Next]_vars => [\A j \in jobs : j \in jobs' \/ <<j.node, j.user>> \notin acct'
                                       \/ ~Loadable(j.node)']_vars
  BY JobsEnd
<1>2. QED
  BY <1>1, PTL DEF Spec, JobsEndDelivered

\* What appears on a node is a live user's, owed already or revived, and who stops
\* being live is owed.
LEMMA OwedStep ==
    ASSUME TypeOK, NodesKept, DeletedAreOwed, [Next]_vars,
           NEW n \in Nodes \ Removable, NEW i \in Ids \ Live',
           <<n, i>> \in acct' \ revived'
    PROVE  \E j \in jobs' : j.node = n /\ j.user = i
<1> USE DEF nodeVars, dbVars, pushVars
<1>1. ASSUME NEW a \in Accounts, NEW keepOne \in BOOLEAN, DeleteUser(a, keepOne)
      PROVE  \E j \in jobs' : j.node = n /\ j.user = i
  <2>1. CASE i = id[a]
    <3>1. [at |-> now, node |-> n, user |-> id[a]] \in jobs'
      BY <1>1 DEF DeleteUser, Indebted, NodesKept
    <3>2. QED
      BY <2>1, <3>1
  <2>2. CASE i # id[a]
    <3>1. i \notin Live
      BY <1>1, <2>2 DEF DeleteUser, Live, TypeOK
    <3>2. <<n, i>> \in acct \ revived /\ jobs \subseteq jobs'
      BY <1>1 DEF DeleteUser
    <3>3. QED
      BY <3>1, <3>2 DEF DeletedAreOwed
  <2>3. QED
    BY <2>1, <2>2
<1>2. ASSUME NEW m \in Nodes, NEW k \in Ids, PushLands(m, k)
      PROVE  \E j \in jobs' : j.node = n /\ j.user = i
  <2>1. Live' = Live /\ jobs' = jobs /\ i \in Ids \ Live
    BY <1>2 DEF PushLands, Live
  <2>2. CASE <<n, i>> \in acct \ revived
    BY <2>1, <2>2 DEF DeletedAreOwed
  <2>3. CASE <<n, i>> \notin acct \ revived
    <3>1. m = n /\ k = i
      BY <1>2, <2>3 DEF PushLands
    <3>2. ~Unowed(n, i)
      BY <1>2, <2>1, <3>1 DEF PushLands
    <3>3. QED
      BY <2>1, <3>2 DEF Unowed
  <2>4. QED
    BY <2>2, <2>3
<1>3. ASSUME NEW a \in Accounts, CreateUser(a) \/ RestoreUser(a)
      PROVE  \E j \in jobs' : j.node = n /\ j.user = i
  <2>1. id[a] = NoId /\ \A b \in Accounts \ {a} : id'[b] = id[b]
    BY <1>3 DEF CreateUser, RestoreUser, InsertRow, TypeOK
  <2>2. Live \subseteq Live'
    BY <2>1 DEF Live
  <2>3. jobs' = jobs /\ acct' = acct /\ revived' = revived
    BY <1>3 DEF CreateUser, RestoreUser
  <2>4. QED
    BY <2>2, <2>3 DEF DeletedAreOwed
<1>4. ASSUME acct' \subseteq acct, UNCHANGED <<id, revived>>
      PROVE  \E j \in jobs' : j.node = n /\ j.user = i
  <2>1. Live' = Live
    BY <1>4 DEF Live
  <2>2. PICK j \in jobs : j.node = n /\ j.user = i
    BY <1>4, <2>1 DEF DeletedAreOwed
  <2>3. Loadable(n)'
    BY NodesKeptStep DEF NodesKept, Loadable
  <2>4. QED
    BY <2>2, <2>3, JobsEnd
<1>5. CASE PassStep
  BY <1>4, <1>5, PassStepShrinks
<1>6. ASSUME NEW m \in Flaky, NodeDown(m) \/ NodeUp(m)
      PROVE  acct' \subseteq acct /\ UNCHANGED <<id, revived>>
  BY <1>6 DEF NodeDown, NodeUp
<1>7. ASSUME NEW m \in Removable, DeleteNode(m) \/ RestoreNode(m) \/ Unreadable(m) \/ ReadableAgain(m)
      PROVE  acct' \subseteq acct /\ UNCHANGED <<id, revived>>
  BY <1>7 DEF DeleteNode, RestoreNode, Unreadable, ReadableAgain
<1>8. ASSUME NEW a \in Accounts, ForgetSnapshot(a)
      PROVE  acct' \subseteq acct /\ UNCHANGED <<id, revived>>
  BY <1>8 DEF ForgetSnapshot
<1>9. Tick \/ PanelRestart \/ UNCHANGED vars
      => acct' \subseteq acct /\ UNCHANGED <<id, revived>>
  BY DEF Tick, PanelRestart, vars
<1>10. ASSUME NEW m \in Nodes,
              \/ \E a \in Accounts : PushUser(m, a)
              \/ \E k \in Ids : PushLost(m, k)
       PROVE  acct' \subseteq acct /\ UNCHANGED <<id, revived>>
  BY <1>10 DEF PushUser, PushLost
<1>11. QED
  BY <1>1, <1>2, <1>3, <1>4, <1>5, <1>6, <1>7, <1>8, <1>9, <1>10
  DEF Next, AccountStep, PushStep, NodeStep

\* Deletions leave no account behind without its job on a node whose row could
\* always be loaded, for any nodes, accounts and number of jobs: restarts, failed
\* calls, undos and restored nodes lose no debt.  What is left without one came
\* with a push that outlived the deletion and its job.
THEOREM DeletionsAreOwed == Spec => []DeletedAreOwed
<1>1. Init => NodesKept /\ DeletedAreOwed
  BY DEF Init, NodesKept, DeletedAreOwed
<1>2. TypeOK /\ NodesKept /\ DeletedAreOwed /\ [Next]_vars => DeletedAreOwed'
  BY OwedStep DEF DeletedAreOwed
<1>3. NodesKept /\ [Next]_vars => NodesKept'
  BY NodesKeptStep
<1>4. QED
  BY <1>1, <1>2, <1>3, TypeCorrect, PTL DEF Spec
=============================================================================
