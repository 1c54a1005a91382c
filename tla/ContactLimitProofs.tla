------------------------- MODULE ContactLimitProofs -------------------------
(***************************************************************************)
(* Proofs about ContactLimit, for every number of users, values and        *)
(* concurrent transactions, every lock key function and every MaxShared.   *)
(***************************************************************************)
EXTENDS ContactLimit, FiniteSetTheorems, TLAPS

\* Type correctness: begin with the lemmas on the two ways a transaction moves.
LEMMA BeginType ==
    ASSUME TypeOK, NEW t \in Txn, NEW u \in User, NEW want \in Column,
           NEW p \in Value \cup {None}, NEW locks \in SUBSET Kind,
           NEW counts \in SUBSET Kind, Begin(t, u, want, p, locks, counts)
    PROVE  TypeOK'
<1> DEFINE r == [pc |-> IF locks # {} THEN "lock"
                        ELSE IF counts # {} THEN "count" ELSE "save",
                 user |-> u, want |-> want, read |-> Touched(u, want),
                 readPending |-> pending[u], newPending |-> p,
                 todo |-> IF locks # {} THEN locks ELSE counts]
<1>1. Touched(u, want) \in Column /\ pending[u] \in Value \cup {None}
  BY DEF TypeOK, Touched, Column, Wanted
<1>2. r \in Request
  BY <1>1 DEF Request
<1>3. tx' = [tx EXCEPT ![t] = r]
  BY DEF Begin
<1>4. tx' \in [Txn -> Request \cup {Idle}]
  BY <1>2, <1>3 DEF TypeOK
<1>5. QED
  BY <1>4 DEF TypeOK, Begin

LEMMA FinishType ==
    ASSUME TypeOK, NEW t \in Txn, Finish(t)
    PROVE  /\ tx' \in [Txn -> Request \cup {Idle}]
           /\ holder' \in [Lock -> Txn \cup {None}]
BY DEF TypeOK, Finish, Unlocked

\* What every request looks like when it begins, whichever handler it is for.
Fresh(t, u, want, p, locks) ==
    /\ u \in User
    /\ want \in Column
    /\ p \in Value \cup {None}
    /\ locks = IF u \in Student THEN Wanted(want) ELSE {}
    /\ \E counts \in SUBSET Kind :
           /\ counts \subseteq Wanted(want)
           /\ u \in Student => counts = Wanted(want)
           /\ Begin(t, u, want, p, locks, counts)

LEMMA ArriveIsFresh ==
    ASSUME TypeOK, NEW t \in Txn, Arrive(t)
    PROVE  \E u, want, p, locks : Fresh(t, u, want, p, locks)
<1>1. PICK u \in User :
          \/ \E want \in Column : RegisterUser(t, u, want)
          \/ \E v \in Value : UpdateUser(t, u, v)
          \/ \E v \in Value \cup {None} : UpdateUserCredentials(t, u, v)
          \/ \E v \in Value : UpdateMeCredentials(t, u, v)
          \/ ConfirmEmailChange(t, u)
  BY DEF Arrive
<1> DEFINE Changing(want) == IF u \in Student THEN Wanted(want) ELSE {}
<1>2. pending[u] \in Value \cup {None}
  BY DEF TypeOK
<1>3. ASSUME NEW want \in Column, NEW p \in Value \cup {None},
             ContactChange(t, u, want, p)
      PROVE  Fresh(t, u, want, p, Changing(want))
  <2>1. Changing(want) \subseteq Wanted(want) /\ Wanted(want) \subseteq Kind
    BY DEF Wanted
  <2>2. Begin(t, u, want, p, Changing(want), Changing(want))
    BY <1>3 DEF ContactChange
  <2>3. QED
    BY <2>1, <2>2 DEF Fresh
<1>4. CASE \E want \in Column : RegisterUser(t, u, want)
  <2>1. PICK want \in Column : RegisterUser(t, u, want)
    BY <1>4
  <2>2. /\ Wanted(want) = Kind
        /\ Begin(t, u, want, None, IF u \in Student THEN Kind ELSE {}, Kind)
    BY <2>1 DEF RegisterUser
  <2>3. Fresh(t, u, want, None, IF u \in Student THEN Kind ELSE {})
    BY <2>2 DEF Fresh
  <2>4. QED
    BY <2>3
<1>5. CASE \E v \in Value : UpdateUser(t, u, v)
  <2>1. PICK v \in Value : UpdateUser(t, u, v)
    BY <1>5
  <2>2. [NoRow EXCEPT !["phone"] = v] \in Column
    BY DEF NoRow, Column
  <2>3. QED
    BY <1>2, <1>3, <2>1, <2>2 DEF UpdateUser
<1>6. CASE \E v \in Value \cup {None} : UpdateUserCredentials(t, u, v)
  <2>1. PICK v \in Value \cup {None} : UpdateUserCredentials(t, u, v)
    BY <1>6
  <2>2. [NoRow EXCEPT !["email"] = v] \in Column
    BY DEF NoRow, Column
  <2>3. QED
    BY <1>3, <2>1, <2>2 DEF UpdateUserCredentials
<1>7. CASE \E v \in Value : UpdateMeCredentials(t, u, v)
  <2>1. NoRow \in Column
    BY DEF NoRow, Column
  <2>2. QED
    BY <1>3, <1>7, <2>1 DEF UpdateMeCredentials
<1>8. CASE ConfirmEmailChange(t, u)
  <2>1. [NoRow EXCEPT !["email"] = pending[u]] \in Column
    BY <1>2 DEF NoRow, Column
  <2>2. QED
    BY <1>3, <1>8, <2>1 DEF ConfirmEmailChange
<1>9. QED
  BY <1>1, <1>4, <1>5, <1>6, <1>7, <1>8

LEMMA InitType == Init => TypeOK
BY DEF Init, TypeOK, NoRow, Column

LEMMA StepType ==
    ASSUME TypeOK, NEW t \in Txn, Step(t) \/ Abort(t)
    PROVE  TypeOK'
<1>1. CASE AcquireStudentContactLock(t)
  <2> DEFINE r == tx[t]
             k == First(r.todo)
             rest == r.todo \ {k}
             s == [r EXCEPT !.pc = IF rest = {} THEN "count" ELSE "lock",
                            !.todo = IF rest = {} THEN Wanted(r.want) ELSE rest]
  <2>1. r \in Request
    BY <1>1 DEF AcquireStudentContactLock, TypeOK, Idle
  <2>2. Wanted(r.want) \subseteq Kind /\ rest \subseteq Kind
    BY <2>1 DEF Wanted, Request
  <2>3. s \in Request
    BY <2>1, <2>2 DEF Request
  <2>4. tx' = [tx EXCEPT ![t] = s]
    BY <1>1, <2>1 DEF AcquireStudentContactLock, TypeOK
  <2>5. tx' \in [Txn -> Request \cup {Idle}]
    BY <2>3, <2>4 DEF TypeOK
  <2>6. holder' \in [Lock -> Txn \cup {None}]
    BY <1>1 DEF AcquireStudentContactLock, TypeOK
  <2>7. QED
    BY <1>1, <2>5, <2>6 DEF AcquireStudentContactLock, TypeOK
<1>2. CASE CheckContactLimit(t)
  <2> DEFINE r == tx[t]
             k == First(r.todo)
             rest == r.todo \ {k}
             s == [r EXCEPT !.pc = IF rest = {} THEN "save" ELSE "count",
                            !.todo = rest]
  <2>1. r \in Request
    BY <1>2 DEF CheckContactLimit, TypeOK, Idle
  <2>2. s \in Request
    BY <2>1 DEF Request
  <2>3. CASE Finish(t)
    BY <1>2, <2>3, FinishType DEF CheckContactLimit, TypeOK
  <2>4. CASE tx' = [tx EXCEPT ![t] = s] /\ UNCHANGED holder
    <3>1. tx' \in [Txn -> Request \cup {Idle}]
      BY <2>2, <2>4 DEF TypeOK
    <3>2. QED
      BY <1>2, <2>4, <3>1 DEF CheckContactLimit, TypeOK
  <2>5. QED
    BY <1>2, <2>1, <2>3, <2>4 DEF CheckContactLimit, TypeOK
<1>3. CASE Save(t)
  <2> DEFINE r == tx[t]
  <2>1. r \in Request
    BY <1>3 DEF Save, TypeOK, Idle
  <2>2. NewRow(r) \in Column /\ NewPending(r) \in Value \cup {None}
    BY <2>1 DEF NewRow, NewPending, Request, TypeOK, Column
  <2>3. QED
    BY <1>3, <2>2, FinishType DEF Save, TypeOK
<1>4. CASE Abort(t)
  BY <1>4, FinishType DEF Abort, TypeOK
<1>5. QED
  BY <1>1, <1>2, <1>3, <1>4 DEF Step

LEMMA TypeInvariant == TypeOK /\ [Next]_vars => TypeOK'
<1> SUFFICES ASSUME TypeOK, [Next]_vars PROVE TypeOK'
  OBVIOUS
<1>1. CASE UNCHANGED vars
  BY <1>1 DEF vars, TypeOK
<1>2. ASSUME NEW t \in Txn, Arrive(t)
      PROVE  TypeOK'
  <2>1. PICK u, want, p, locks : Fresh(t, u, want, p, locks)
    BY <1>2, ArriveIsFresh
  <2>2. locks \subseteq Kind
    BY <2>1 DEF Fresh, Wanted
  <2>3. QED
    BY <2>1, <2>2, BeginType DEF Fresh
<1>3. QED
  BY <1>1, <1>2, StepType DEF Next

\* The variables keep their types.
THEOREM TypeCorrect == Spec => []TypeOK
BY InitType, TypeInvariant, PTL DEF Spec

-----------------------------------------------------------------------------
(* The locks. *)

\* A request that has just begun has all its locks still to take.
LEMMA BeginLocks ==
    ASSUME TypeOK, LockInv, NEW t \in Txn, Arrive(t)
    PROVE  LockInv'
<1>1. PICK u, want, p, locks : Fresh(t, u, want, p, locks)
  BY ArriveIsFresh
<1>2. PICK counts \in SUBSET Kind :
          /\ counts \subseteq Wanted(want)
          /\ u \in Student => counts = Wanted(want)
          /\ Begin(t, u, want, p, locks, counts)
  BY <1>1 DEF Fresh
<1>3. locks \subseteq Wanted(want) /\ (u \notin Student => locks = {})
  BY <1>1 DEF Fresh
<1>4. u \in Student => locks = Wanted(want)
  BY <1>1 DEF Fresh
<1>5. /\ tx'[t].pc = IF locks # {} THEN "lock"
                     ELSE IF counts # {} THEN "count" ELSE "save"
      /\ tx'[t].user = u
      /\ tx'[t].want = want
      /\ tx'[t].todo = IF locks # {} THEN locks ELSE counts
  BY <1>2 DEF Begin, TypeOK
<1>6. tx[t] = Idle /\ holder' = holder /\ \A s \in Txn \ {t} : tx'[s] = tx[s]
  BY <1>2 DEF Begin, TypeOK
<1>7. TodoOK'
  BY <1>2, <1>3, <1>5, <1>6 DEF LockInv, TodoOK
<1>8. LocksHeld'
  <2> SUFFICES ASSUME NEW s \in Txn, tx'[s] # Idle, tx'[s].user \in Student,
                      NEW k \in Wanted(tx'[s].want),
                      tx'[s].pc # "lock" \/ k \notin tx'[s].todo
               PROVE  holder'[LockOf(k, tx'[s].want[k])] = s
    BY DEF LocksHeld, Wanted, LockOf
  <2>1. CASE s = t
    BY <1>2, <1>4, <1>5, <2>1
  <2>2. CASE s # t
    BY <1>6, <2>2 DEF LockInv, LocksHeld
  <2>3. QED
    BY <2>1, <2>2
<1>9. HolderOrder'
  BY <1>6 DEF LockInv, HolderOrder
<1>10. QED
  BY <1>7, <1>8, <1>9 DEF LockInv

\* The end of a transaction frees its own locks and nobody else's.
LEMMA FinishLocks ==
    ASSUME TypeOK, LockInv, NEW t \in Txn, Finish(t)
    PROVE  LockInv'
<1>1. tx'[t] = Idle /\ \A s \in Txn \ {t} : tx'[s] = tx[s]
  BY DEF Finish, TypeOK
<1>2. \A l \in Lock : holder'[l] = IF holder[l] = t THEN None ELSE holder[l]
  BY DEF Finish, Unlocked
<1>3. TodoOK'
  BY <1>1 DEF LockInv, TodoOK
<1>4. LocksHeld'
  <2> SUFFICES ASSUME NEW s \in Txn, tx'[s] # Idle, tx'[s].user \in Student,
                      NEW k \in Wanted(tx'[s].want),
                      tx'[s].pc # "lock" \/ k \notin tx'[s].todo
               PROVE  holder'[LockOf(k, tx'[s].want[k])] = s
    BY DEF LocksHeld, Wanted, LockOf
  <2>1. s # t /\ tx'[s] = tx[s]
    BY <1>1
  <2>2. holder[LockOf(k, tx[s].want[k])] = s
    BY <2>1 DEF LockInv, LocksHeld
  <2>3. LockOf(k, tx[s].want[k]) \in Lock
    <3>1. tx[s].want \in Column
      BY <2>1 DEF TypeOK, Request
    <3>2. k \in Kind /\ tx[s].want[k] \in Value
      BY <2>1, <3>1 DEF Wanted, Column
    <3>3. QED
      BY <3>2 DEF LockOf, Lock
  <2>4. QED
    BY <1>2, <2>1, <2>2, <2>3
<1>5. HolderOrder'
  BY <1>1, <1>2, TxnAssumption DEF LockInv, HolderOrder
<1>6. QED
  BY <1>3, <1>4, <1>5 DEF LockInv

LEMMA AcquireLocks ==
    ASSUME TypeOK, LockInv, NEW t \in Txn, AcquireStudentContactLock(t)
    PROVE  LockInv'
<1> DEFINE r == tx[t]
           k == First(r.todo)
           l == LockOf(k, r.want[k])
           rest == r.todo \ {k}
<1>1. r \in Request /\ r # Idle /\ r.pc = "lock" /\ holder[l] \in {None, t}
  BY DEF AcquireStudentContactLock, TypeOK, Idle
<1>2. r.todo \subseteq Kind /\ r.todo # {} /\ r.todo \subseteq Wanted(r.want)
  BY <1>1 DEF LockInv, TodoOK, Request
<1>3. k \in r.todo /\ (k = "phone" \/ (k = "email" /\ rest = {}))
  BY <1>2 DEF First, Kind
<1>4. l \in Lock /\ l[1] = k
  <2>1. k \in Kind /\ r.want[k] \in Value
    BY <1>1, <1>2, <1>3 DEF Wanted, Request, Column
  <2>2. QED
    BY <2>1 DEF LockOf, Lock
<1>5. holder'[l] = t /\ \A m \in Lock \ {l} : holder'[m] = holder[m]
  BY <1>4 DEF AcquireStudentContactLock, TypeOK
<1>6. /\ tx'[t].pc = IF rest = {} THEN "count" ELSE "lock"
      /\ tx'[t].todo = IF rest = {} THEN Wanted(r.want) ELSE rest
      /\ tx'[t].user = r.user
      /\ tx'[t].want = r.want
      /\ tx'[t] # Idle
  BY <1>1 DEF AcquireStudentContactLock, TypeOK, Request, Idle
<1>7. \A s \in Txn \ {t} : tx'[s] = tx[s]
  BY DEF AcquireStudentContactLock, TypeOK
<1>8. TodoOK'
  <2> SUFFICES ASSUME NEW s \in Txn, tx'[s] # Idle
               PROVE  /\ tx'[s].todo \subseteq Wanted(tx'[s].want)
                      /\ tx'[s].todo = {} <=> tx'[s].pc = "save"
                      /\ tx'[s].pc = "lock" => tx'[s].user \in Student
    BY DEF TodoOK, Wanted
  <2>1. CASE s = t
    BY <1>1, <1>2, <1>6, <2>1 DEF LockInv, TodoOK
  <2>2. CASE s # t
    BY <1>7, <2>2 DEF LockInv, TodoOK
  <2>3. QED
    BY <2>1, <2>2
<1>9. LocksHeld'
  <2> SUFFICES ASSUME NEW s \in Txn, tx'[s] # Idle, tx'[s].user \in Student,
                      NEW j \in Wanted(tx'[s].want),
                      tx'[s].pc # "lock" \/ j \notin tx'[s].todo
               PROVE  holder'[LockOf(j, tx'[s].want[j])] = s
    BY DEF LocksHeld, Wanted, LockOf
  <2>1. tx'[s].want = tx[s].want /\ tx'[s].user = tx[s].user /\ tx[s] # Idle
    BY <1>1, <1>6, <1>7
  <2>2. LockOf(j, tx[s].want[j]) \in Lock
    <3>1. tx[s].want \in Column
      BY <2>1 DEF TypeOK, Request
    <3>2. j \in Kind /\ tx[s].want[j] \in Value
      BY <2>1, <3>1 DEF Wanted, Column
    <3>3. QED
      BY <3>2 DEF LockOf, Lock
  <2>3. CASE s = t /\ j = k
    BY <1>5, <2>1, <2>3
  <2>4. CASE s # t \/ j # k
    <3>1. tx[s].pc # "lock" \/ j \notin tx[s].todo
      BY <1>6, <1>7, <2>4
    <3>2. holder[LockOf(j, tx[s].want[j])] = s
      BY <2>1, <3>1 DEF LockInv, LocksHeld
    <3>3. holder[l] # t
      BY <1>1, <1>3, <1>4, <2>4 DEF LockInv, HolderOrder
    <3>4. LockOf(j, tx[s].want[j]) = l => s = t
      BY <1>1, <3>2, TxnAssumption
    <3>5. QED
      BY <1>5, <2>1, <2>2, <3>2, <3>3, <3>4
  <2>5. QED
    BY <2>3, <2>4
<1>10. HolderOrder'
  <2> SUFFICES ASSUME NEW m \in Lock, NEW s \in Txn, holder'[m] = s
               PROVE  /\ tx'[s] # Idle
                      /\ tx'[s].pc = "lock" =>
                             m[1] = "phone" /\ "phone" \notin tx'[s].todo
    BY DEF HolderOrder
  <2>1. CASE m = l
    BY <1>3, <1>4, <1>5, <1>6, <2>1
  <2>2. CASE m # l
    BY <1>1, <1>3, <1>5, <1>6, <1>7, <2>2 DEF LockInv, HolderOrder
  <2>3. QED
    BY <2>1, <2>2
<1>11. QED
  BY <1>8, <1>9, <1>10 DEF LockInv

LEMMA CheckLocks ==
    ASSUME TypeOK, LockInv, NEW t \in Txn, CheckContactLimit(t)
    PROVE  LockInv'
<1> DEFINE r == tx[t]
           rest == r.todo \ {First(r.todo)}
<1>1. CASE Finish(t)
  BY <1>1, FinishLocks
<1>2. CASE ~Finish(t)
  <2>1. r \in Request /\ r # Idle /\ r.pc = "count"
    BY DEF CheckContactLimit, TypeOK, Idle
  <2>2. /\ tx' = [tx EXCEPT ![t].pc = IF rest = {} THEN "save" ELSE "count",
                            ![t].todo = rest]
        /\ holder' = holder
    BY <1>2 DEF CheckContactLimit
  <2>3. /\ tx'[t].pc = IF rest = {} THEN "save" ELSE "count"
        /\ tx'[t].todo = rest
        /\ tx'[t].user = r.user
        /\ tx'[t].want = r.want
    BY <2>1, <2>2 DEF TypeOK, Request
  <2>4. \A s \in Txn \ {t} : tx'[s] = tx[s]
    BY <2>2 DEF TypeOK
  <2>5. TodoOK'
    <3> SUFFICES ASSUME NEW s \in Txn, tx'[s] # Idle
                 PROVE  /\ tx'[s].todo \subseteq Wanted(tx'[s].want)
                        /\ tx'[s].todo = {} <=> tx'[s].pc = "save"
                        /\ tx'[s].pc = "lock" => tx'[s].user \in Student
      BY DEF TodoOK, Wanted
    <3>1. CASE s = t
      BY <2>1, <2>3, <3>1 DEF LockInv, TodoOK
    <3>2. CASE s # t
      BY <2>4, <3>2 DEF LockInv, TodoOK
    <3>3. QED
      BY <3>1, <3>2
  <2>6. LocksHeld'
    <3> SUFFICES ASSUME NEW s \in Txn, tx'[s] # Idle, tx'[s].user \in Student,
                        NEW k \in Wanted(tx'[s].want),
                        tx'[s].pc # "lock" \/ k \notin tx'[s].todo
                 PROVE  holder'[LockOf(k, tx'[s].want[k])] = s
      BY DEF LocksHeld, Wanted, LockOf
    <3>1. CASE s = t
      BY <2>1, <2>2, <2>3, <3>1 DEF LockInv, LocksHeld
    <3>2. CASE s # t
      BY <2>2, <2>4, <3>2 DEF LockInv, LocksHeld
    <3>3. QED
      BY <3>1, <3>2
  <2>7. HolderOrder'
    <3> SUFFICES ASSUME NEW m \in Lock, NEW s \in Txn, holder'[m] = s
                 PROVE  /\ tx'[s] # Idle
                        /\ tx'[s].pc = "lock" =>
                               m[1] = "phone" /\ "phone" \notin tx'[s].todo
      BY DEF HolderOrder
    <3>1. CASE s = t
      <4>1. tx'[s].pc # "lock"
        BY <2>3, <3>1
      <4>2. tx'[s] # Idle
        BY <2>1, <2>2, <3>1 DEF TypeOK, Request, Idle
      <4>3. QED
        BY <4>1, <4>2
    <3>2. CASE s # t
      BY <2>2, <2>4, <3>2 DEF LockInv, HolderOrder
    <3>3. QED
      BY <3>1, <3>2
  <2>8. QED
    BY <2>5, <2>6, <2>7 DEF LockInv
<1>3. QED
  BY <1>1, <1>2

LEMMA LockInvariant == TypeOK /\ LockInv /\ [Next]_vars => LockInv'
<1> SUFFICES ASSUME TypeOK, LockInv, [Next]_vars PROVE LockInv'
  OBVIOUS
<1>1. CASE UNCHANGED vars
  BY <1>1 DEF vars, LockInv, TodoOK, LocksHeld, HolderOrder, Wanted, LockOf
<1>2. ASSUME NEW t \in Txn, Save(t) \/ Abort(t)
      PROVE  LockInv'
  BY <1>2, FinishLocks DEF Save, Abort
<1>3. QED
  BY <1>1, <1>2, BeginLocks, AcquireLocks, CheckLocks DEF Next, Step

LEMMA LockInit == Init => LockInv
BY TxnAssumption DEF Init, LockInv, TodoOK, LocksHeld, HolderOrder

\* In every reachable state: who holds which lock, at which stage.
THEOREM LocksCorrect == Spec => [](TypeOK /\ LockInv)
<1>1. Init => TypeOK /\ LockInv
  BY InitType, LockInit
<1>2. TypeOK /\ LockInv /\ [Next]_vars => (TypeOK /\ LockInv)'
  BY TypeInvariant, LockInvariant
<1>3. QED
  BY <1>1, <1>2, PTL DEF Spec

\* Phone locks are taken before email locks, so transactions never wait for one
\* another in a circle.
THEOREM DeadlockFree == Spec => []NoDeadlock
<1>1. TypeOK /\ LockInv => NoDeadlock
  <2> SUFFICES ASSUME TypeOK, LockInv, NEW S \in SUBSET Txn, S # {},
                      \A t \in S : \E s \in S : WaitsFor(t, s)
               PROVE  FALSE
    BY DEF NoDeadlock
  <2> DEFINE Awaited(t) == LockOf(First(tx[t].todo),
                                  tx[t].want[First(tx[t].todo)])
  <2>1. ASSUME NEW t \in S
        PROVE  /\ tx[t] # Idle /\ tx[t].pc = "lock"
               /\ Awaited(t) \in Lock
               /\ Awaited(t)[1] = First(tx[t].todo)
    <3>1. tx[t] # Idle /\ tx[t].pc = "lock"
      BY DEF WaitsFor
    <3>2. tx[t].want \in Column /\ tx[t].todo \subseteq Kind
      BY <3>1 DEF TypeOK, Request
    <3>3. First(tx[t].todo) \in Wanted(tx[t].want)
      BY <3>1, <3>2 DEF LockInv, TodoOK, First, Kind
    <3>4. First(tx[t].todo) \in Kind /\ tx[t].want[First(tx[t].todo)] \in Value
      BY <3>2, <3>3 DEF Wanted, Column
    <3>5. QED
      BY <3>1, <3>4 DEF LockOf, Lock
  <2>2. PICK t \in S : TRUE
    OBVIOUS
  <2>3. PICK s \in S : holder[Awaited(t)] = s
    BY DEF WaitsFor
  <2>4. PICK q \in S : holder[Awaited(s)] = q
    BY DEF WaitsFor
  <2>5. First(tx[s].todo) = "email"
    BY <2>1, <2>3 DEF LockInv, HolderOrder, First
  <2>6. Awaited(s)[1] = "phone"
    BY <2>1, <2>4 DEF LockInv, HolderOrder
  <2>7. QED
    BY <2>1, <2>5, <2>6
<1>2. QED
  BY <1>1, LocksCorrect, PTL

-----------------------------------------------------------------------------
(* The limit. *)

LEMMA OthersFinite ==
    ASSUME NEW u \in User, NEW k, NEW v
    PROVE  /\ IsFiniteSet(Others(u, k, v))
           /\ Cardinality(Others(u, k, v)) \in Nat
<1>1. Others(u, k, v) \subseteq User
  BY ContactAssumption DEF Others, Peers
<1>2. QED
  BY <1>1, ContactAssumption, FS_Subset, FS_CardinalityType

\* A commit that changes contacts, seen from outside the transaction.
Commits(t) ==
    /\ Save(t)
    /\ ~BreaksUniqueIndex(tx[t])

LEMMA ContactSteps ==
    ASSUME [Next]_vars
    PROVE  contact' = contact \/ \E t \in Txn : Commits(t)
<1>1. ASSUME NEW t \in Txn, Arrive(t)
      PROVE  contact' = contact
  BY <1>1 DEF Arrive, RegisterUser, UpdateUser, UpdateUserCredentials,
     UpdateMeCredentials, ConfirmEmailChange, ContactChange, Begin
<1>2. ASSUME NEW t \in Txn, Save(t), ~Commits(t)
      PROVE  contact' = contact
  BY <1>2 DEF Save, Commits
<1>3. QED
  BY <1>1, <1>2 DEF Next, Step, AcquireStudentContactLock, CheckContactLimit,
     Abort, vars

LEMMA CommitEffect ==
    ASSUME TypeOK, LockInv, NEW t \in Txn, Commits(t)
    PROVE  /\ tx[t] \in Request /\ tx[t] # Idle
           /\ tx[t].pc = "save" /\ tx[t].todo = {}
           /\ contact' = [contact EXCEPT ![tx[t].user] = NewRow(tx[t])]
           /\ \A u \in User \ {tx[t].user} : contact'[u] = contact[u]
           /\ \A k \in Kind : contact'[tx[t].user][k] =
                  IF k \in Flushed(tx[t]) THEN tx[t].want[k]
                                          ELSE contact[tx[t].user][k]
<1>1. tx[t] \in Request /\ tx[t] # Idle /\ tx[t].pc = "save"
  BY DEF Commits, Save, TypeOK, Idle
<1>2. tx[t].todo = {}
  BY <1>1 DEF LockInv, TodoOK
<1>3. contact' = [contact EXCEPT ![tx[t].user] = NewRow(tx[t])]
  BY DEF Commits, Save
<1>4. tx[t].user \in User
  BY <1>1 DEF Request
<1>5. QED
  BY <1>1, <1>2, <1>3, <1>4 DEF TypeOK, NewRow

\* A commit never adds a student to a contact somebody else has counted and
\* still holds the lock of.
LEMMA CommitKeepsCounts ==
    ASSUME TypeOK, LockInv, NEW t \in Txn, Commits(t),
           NEW s \in Txn \ {t}, tx[s] # Idle, tx[s].user \in Student,
           NEW k \in Wanted(tx[s].want), tx[s].pc # "lock"
    PROVE  {w \in Student \ {tx[s].user} : contact'[w][k] = tx[s].want[k]}
               \subseteq Others(tx[s].user, k, tx[s].want[k])
<1> DEFINE u == tx[t].user
           v == tx[s].want[k]
<1>1. SUFFICES ASSUME u \in Student, u # tx[s].user, contact'[u][k] = v
               PROVE  contact[u][k] = v
  BY ContactAssumption, CommitEffect DEF Others, Peers
<1>2. k \in Kind
  BY DEF Wanted
<1>3. CASE k \in Flushed(tx[t])
  <2>1. k \in Wanted(tx[t].want) /\ tx[t].want[k] = v
    BY <1>1, <1>2, <1>3, CommitEffect DEF Flushed
  <2>2. holder[LockOf(k, v)] = t
    BY <1>1, <2>1, CommitEffect DEF LockInv, LocksHeld
  <2>3. holder[LockOf(k, v)] = s
    BY DEF LockInv, LocksHeld
  <2>4. QED
    BY <2>2, <2>3
<1>4. CASE k \notin Flushed(tx[t])
  BY <1>1, <1>2, <1>4, CommitEffect
<1>5. QED
  BY <1>3, <1>4

\* The students a transaction has counted, as the next state sees them.
Counted(s, k) ==
    /\ tx[s] # Idle
    /\ tx[s].pc \in {"count", "save"}
    /\ tx[s].user \in Student
    /\ k \in Wanted(tx[s].want) \ tx[s].todo

LEMMA OthersOfStudent ==
    ASSUME NEW u \in Student, NEW k, NEW v
    PROVE  Others(u, k, v) = {w \in Student \ {u} : contact[w][k] = v}
BY DEF Others, Peers

\* The step of one transaction leaves the others where they were.
LEMMA OtherTransactions ==
    ASSUME TypeOK, NEW t \in Txn, Arrive(t) \/ Step(t) \/ Abort(t)
    PROVE  \A s \in Txn \ {t} : tx'[s] = tx[s]
<1>1. CASE Arrive(t)
  BY <1>1 DEF Arrive, RegisterUser, UpdateUser, UpdateUserCredentials,
     UpdateMeCredentials, ConfirmEmailChange, ContactChange, Begin, TypeOK
<1>2. CASE Step(t) \/ Abort(t)
  BY <1>2 DEF Step, Abort, AcquireStudentContactLock, CheckContactLimit, Save,
     Finish, TypeOK
<1>3. QED
  BY <1>1, <1>2

\* A student's transaction counts a contact only by way of CheckContactLimit.
LEMMA NewlyCounted ==
    ASSUME TypeOK, LockInv, NEW t \in Txn, Arrive(t) \/ Step(t) \/ Abort(t),
           NEW k, Counted(t, k)'
    PROVE  /\ CheckContactLimit(t)
           /\ tx'[t].user = tx[t].user /\ tx'[t].want = tx[t].want
           /\ \/ Counted(t, k)
              \/ /\ k = First(tx[t].todo)
                 /\ Cardinality(Others(tx[t].user, k, tx[t].want[k])) < MaxShared
<1>1. tx'[t] # Idle /\ tx'[t].pc \in {"count", "save"} /\ tx'[t].user \in Student
      /\ k \in Wanted(tx'[t].want) \ tx'[t].todo
  BY DEF Counted, Wanted
<1>2. ASSUME Arrive(t) PROVE FALSE
  <2>1. PICK u, want, p, locks : Fresh(t, u, want, p, locks)
    BY <1>2, ArriveIsFresh
  <2>2. PICK counts \in SUBSET Kind :
            /\ u \in Student => counts = Wanted(want)
            /\ Begin(t, u, want, p, locks, counts)
    BY <2>1 DEF Fresh
  <2>3. /\ tx'[t].pc = IF locks # {} THEN "lock"
                       ELSE IF counts # {} THEN "count" ELSE "save"
        /\ tx'[t].user = u
        /\ tx'[t].want = want
        /\ tx'[t].todo = IF locks # {} THEN locks ELSE counts
    BY <2>2 DEF Begin, TypeOK
  <2>4. QED
    BY <1>1, <2>2, <2>3
<1>3. ASSUME Save(t) \/ Abort(t) PROVE FALSE
  BY <1>1, <1>3 DEF Save, Abort, Finish, TypeOK
<1>4. ASSUME AcquireStudentContactLock(t) PROVE FALSE
  <2>1. tx[t] \in Request
    BY <1>4 DEF AcquireStudentContactLock, TypeOK, Idle
  <2> DEFINE rest == tx[t].todo \ {First(tx[t].todo)}
  <2>2. /\ tx'[t].pc = IF rest = {} THEN "count" ELSE "lock"
        /\ tx'[t].todo = IF rest = {} THEN Wanted(tx[t].want) ELSE rest
        /\ tx'[t].want = tx[t].want
    BY <1>4, <2>1 DEF AcquireStudentContactLock, TypeOK, Request
  <2>3. QED
    BY <1>1, <2>2
<1>5. CheckContactLimit(t)
  BY <1>2, <1>3, <1>4 DEF Step
<1>6. ~Finish(t)
  BY <1>1 DEF Finish, TypeOK
<1> DEFINE r == tx[t]
           rest == r.todo \ {First(r.todo)}
<1>7. r \in Request /\ r # Idle /\ r.pc = "count"
  BY <1>5 DEF CheckContactLimit, TypeOK, Idle
<1>8. /\ tx' = [tx EXCEPT ![t].pc = IF rest = {} THEN "save" ELSE "count",
                          ![t].todo = rest]
      /\ ~(Cardinality(Others(r.user, First(r.todo), r.want[First(r.todo)]))
              >= MaxAllowed(r.user))
  BY <1>5, <1>6 DEF CheckContactLimit
<1>9. tx'[t].todo = rest /\ tx'[t].user = r.user /\ tx'[t].want = r.want
  BY <1>7, <1>8 DEF TypeOK, Request
<1>10. CASE k = First(r.todo)
  <2>1. r.user \in User /\ MaxAllowed(r.user) = MaxShared
    BY <1>1, <1>7, <1>9 DEF MaxAllowed, Request
  <2>2. Cardinality(Others(r.user, k, r.want[k])) \in Nat
    BY <2>1, OthersFinite
  <2>3. QED
    BY <1>5, <1>8, <1>9, <1>10, <2>1, <2>2, ContactAssumption
<1>11. CASE k # First(r.todo)
  <2>1. Counted(t, k)
    BY <1>1, <1>7, <1>9, <1>11 DEF Counted
  <2>2. QED
    BY <1>5, <1>9, <2>1
<1>12. QED
  BY <1>10, <1>11

LEMMA CountStep ==
    ASSUME TypeOK, LockInv, CountStillValid, [Next]_vars
    PROVE  CountStillValid'
<1> SUFFICES ASSUME NEW s \in Txn, NEW k, Counted(s, k)'
             PROVE  Cardinality(Others(tx[s].user, k, tx[s].want[k]))' < MaxShared
  BY DEF CountStillValid, Counted, Wanted, Others, Peers
<1>1. CASE UNCHANGED vars
  BY <1>1 DEF vars, CountStillValid, Counted, Wanted, Others, Peers
<1>2. ASSUME NEW t \in Txn, Arrive(t) \/ Step(t) \/ Abort(t)
      PROVE  Cardinality(Others(tx[s].user, k, tx[s].want[k]))' < MaxShared
  <2>1. CASE s = t
    <3>1. /\ CheckContactLimit(t)
          /\ tx'[t].user = tx[t].user /\ tx'[t].want = tx[t].want
          /\ \/ Counted(t, k)
             \/ /\ k = First(tx[t].todo)
                /\ Cardinality(Others(tx[t].user, k, tx[t].want[k])) < MaxShared
      BY <1>2, <2>1, NewlyCounted
    <3>2. contact' = contact
      BY <3>1 DEF CheckContactLimit
    <3>3. Cardinality(Others(tx[t].user, k, tx[t].want[k])) < MaxShared
      BY <3>1 DEF CountStillValid, Counted
    <3>4. Others(tx[s].user, k, tx[s].want[k])'
            = Others(tx[t].user, k, tx[t].want[k])
      BY <2>1, <3>1, <3>2 DEF Others, Peers
    <3>5. QED
      BY <3>3, <3>4
  <2>2. CASE s # t
    <3>1. tx'[s] = tx[s]
      BY <1>2, <2>2, OtherTransactions
    <3>2. Counted(s, k)
      BY <3>1 DEF Counted, Wanted
    <3>3. /\ tx[s] \in Request /\ tx[s].user \in Student
          /\ k \in Wanted(tx[s].want) /\ tx[s].pc # "lock" /\ tx[s] # Idle
      BY <3>2 DEF Counted, TypeOK
    <3> DEFINE u == tx[s].user
               v == tx[s].want[k]
    <3>4. u \in User
      BY <3>3 DEF Request
    <3>5. Cardinality(Others(u, k, v)) < MaxShared
      BY <3>2 DEF CountStillValid, Counted
    <3>6. {w \in Student \ {u} : contact'[w][k] = v} \subseteq Others(u, k, v)
      <4>1. CASE contact' = contact
        BY <3>3, <4>1, OthersOfStudent
      <4>2. CASE Commits(t)
        BY <2>2, <3>3, <4>2, CommitKeepsCounts
      <4>3. contact' = contact \/ Commits(t)
        BY <1>2 DEF Commits, Save, Step, Abort, AcquireStudentContactLock,
           CheckContactLimit, Arrive, RegisterUser, UpdateUser,
           UpdateUserCredentials, UpdateMeCredentials, ConfirmEmailChange,
           ContactChange, Begin
      <4>4. QED
        BY <4>1, <4>2, <4>3
    <3>7. /\ IsFiniteSet(Others(u, k, v))
          /\ Cardinality(Others(u, k, v)) \in Nat
      BY <3>4, OthersFinite
    <3>8. Others(u, k, v)' = {w \in Student \ {u} : contact'[w][k] = v}
      BY <3>1, <3>3 DEF Others, Peers
    <3> DEFINE T == {w \in Student \ {u} : contact'[w][k] = v}
    <3>9. Cardinality(T) <= Cardinality(Others(u, k, v)) /\ IsFiniteSet(T)
      BY <3>6, <3>7, FS_Subset
    <3>10. Cardinality(T) \in Nat
      BY <3>9, FS_CardinalityType
    <3>11. Cardinality(T) < MaxShared
      BY <3>5, <3>7, <3>9, <3>10, ContactAssumption
    <3>12. Others(tx[s].user, k, tx[s].want[k])' = T
      BY <3>1, <3>3 DEF Others, Peers
    <3>13. QED
      BY <3>11, <3>12
  <2>3. QED
    BY <2>1, <2>2
<1>3. QED
  BY <1>1, <1>2 DEF Next

LEMMA LimitStep ==
    ASSUME TypeOK, LockInv, CountStillValid, StudentContactLimit, [Next]_vars
    PROVE  StudentContactLimit'
<1> SUFFICES ASSUME NEW k \in Kind, NEW v \in Value
             PROVE  Cardinality({w \in Student : contact'[w][k] = v}) <= MaxShared
  BY DEF StudentContactLimit
<1> DEFINE Now == {w \in Student : contact[w][k] = v}
           Then == {w \in Student : contact'[w][k] = v}
<1>1. IsFiniteSet(Now) /\ Cardinality(Now) \in Nat /\ Cardinality(Now) <= MaxShared
  BY ContactAssumption, FS_Subset, FS_CardinalityType DEF StudentContactLimit
<1>2. IsFiniteSet(Then) /\ Cardinality(Then) \in Nat
  BY ContactAssumption, FS_Subset, FS_CardinalityType
<1>3. CASE Then \subseteq Now
  <2>1. Cardinality(Then) <= Cardinality(Now)
    BY <1>1, <1>3, FS_Subset
  <2>2. QED
    BY <1>1, <1>2, <2>1, ContactAssumption
<1>4. CASE ~(Then \subseteq Now)
  <2>1. PICK t \in Txn : Commits(t)
    BY <1>4, ContactSteps
  <2> DEFINE r == tx[t]
             u == r.user
  <2>2. /\ r \in Request /\ r # Idle /\ r.pc = "save" /\ r.todo = {}
        /\ \A w \in User \ {u} : contact'[w] = contact[w]
        /\ contact'[u][k] = IF k \in Flushed(r) THEN r.want[k]
                                                ELSE contact[u][k]
    BY <2>1, CommitEffect
  <2>3. u \in Student /\ k \in Flushed(r) /\ r.want[k] = v
    BY <1>4, <2>2, ContactAssumption
  <2>4. k \in Wanted(r.want) /\ u \in User
    BY <2>2, <2>3 DEF Flushed, Request
  <2>5. Cardinality(Others(u, k, v)) < MaxShared
    BY <2>2, <2>3, <2>4 DEF CountStillValid
  <2>6. IsFiniteSet(Others(u, k, v)) /\ Cardinality(Others(u, k, v)) \in Nat
    BY <2>4, OthersFinite
  <2>7. Then = Others(u, k, v) \cup {u}
    BY <2>2, <2>3, OthersOfStudent, ContactAssumption
  <2>8. u \notin Others(u, k, v)
    BY DEF Others
  <2>9. Cardinality(Then) = Cardinality(Others(u, k, v)) + 1
    BY <2>6, <2>7, <2>8, FS_AddElement
  <2>10. QED
    BY <2>5, <2>6, <2>9, ContactAssumption
<1>5. QED
  BY <1>3, <1>4

LEMMA LimitInit == Init => CountStillValid /\ StudentContactLimit
<1> SUFFICES ASSUME Init PROVE CountStillValid /\ StudentContactLimit
  OBVIOUS
<1>1. CountStillValid
  BY DEF Init, CountStillValid
<1>2. ASSUME NEW k \in Kind, NEW v \in Value
      PROVE  {w \in Student : contact[w][k] = v} = {}
  BY ContactAssumption DEF Init, NoRow
<1>3. StudentContactLimit
  <2>1. Cardinality({}) = 0 /\ 0 <= MaxShared
    BY FS_EmptySet, ContactAssumption
  <2>2. ASSUME NEW k \in Kind, NEW v \in Value
        PROVE  Cardinality({w \in Student : contact[w][k] = v}) <= MaxShared
    <3>1. {w \in Student : contact[w][k] = v} = {}
      BY <1>2
    <3>2. QED
      BY <2>1, <3>1
  <2>3. QED
    BY <2>2 DEF StudentContactLimit
<1>4. QED
  BY <1>1, <1>3

ContactInv == TypeOK /\ LockInv /\ CountStillValid /\ StudentContactLimit

LEMMA ContactInvariant == Spec => []ContactInv
<1>1. Init => ContactInv
  BY InitType, LockInit, LimitInit DEF ContactInv
<1>2. ContactInv /\ [Next]_vars => ContactInv'
  BY TypeInvariant, LockInvariant, CountStep, LimitStep DEF ContactInv
<1>3. QED
  BY <1>1, <1>2, PTL DEF Spec

\* What was counted under the lock is still true when the transaction commits.
THEOREM CountsStayValid == Spec => []CountStillValid
BY ContactInvariant, PTL DEF ContactInv

\* At most MaxShared students share a phone number or an email address.
THEOREM ContactLimitHolds == Spec => []StudentContactLimit
BY ContactInvariant, PTL DEF ContactInv

-----------------------------------------------------------------------------
(* The refinement of ContactRegistry. *)

LEMMA RowsStep ==
    ASSUME TypeOK, LockInv, RowsFull, [Next]_vars
    PROVE  RowsFull'
<1>1. CASE UNCHANGED vars
  BY <1>1 DEF vars, RowsFull, Exists, Flushed, Wanted
<1>2. ASSUME NEW t \in Txn, contact' = contact, pending' = pending,
             tx'[t] = Idle, \A s \in Txn \ {t} : tx'[s] = tx[s]
      PROVE  RowsFull'
  BY <1>2 DEF RowsFull, Exists, Flushed, Wanted
<1>3. ASSUME NEW t \in Txn, Arrive(t)
      PROVE  RowsFull'
  <2>1. PICK u \in User :
            \/ \E want \in Column : RegisterUser(t, u, want)
            \/ \E v \in Value : UpdateUser(t, u, v)
            \/ \E v \in Value \cup {None} : UpdateUserCredentials(t, u, v)
            \/ \E v \in Value : UpdateMeCredentials(t, u, v)
            \/ ConfirmEmailChange(t, u)
    BY <1>3 DEF Arrive
  <2>2. /\ contact' = contact /\ pending' = pending
        /\ \A s \in Txn \ {t} : tx'[s] = tx[s]
    BY <1>3, OtherTransactions DEF Arrive, RegisterUser, UpdateUser,
       UpdateUserCredentials, UpdateMeCredentials, ConfirmEmailChange,
       ContactChange, Begin
  <2>3. tx'[t].user = u
    <3>1. \E want, p, locks, counts : Begin(t, u, want, p, locks, counts)
      BY <2>1 DEF RegisterUser, UpdateUser, UpdateUserCredentials,
         UpdateMeCredentials, ConfirmEmailChange, ContactChange
    <3>2. QED
      BY <3>1 DEF Begin, TypeOK
  <2>4. CASE Exists(u)
    BY <2>2, <2>3, <2>4 DEF RowsFull, Exists, Flushed, Wanted
  <2>5. CASE ~Exists(u)
    <3>1. PICK want \in Column : RegisterUser(t, u, want)
      BY <2>1, <2>5 DEF RowsFull, UpdateUser, UpdateUserCredentials,
         UpdateMeCredentials, ConfirmEmailChange
    <3>2. /\ tx'[t].want = want /\ tx'[t].read = Touched(u, want)
          /\ tx'[t].newPending = None
      BY <3>1 DEF RegisterUser, Begin, TypeOK
    <3>3. Flushed(tx[t])' = Kind
      <4>1. \A k \in Kind : want[k] # None /\ Touched(u, want)[k] = None
        BY <2>5, <3>1 DEF RegisterUser, Wanted, Touched, Exists, NoRow
      <4>2. QED
        BY <3>2, <4>1 DEF Flushed, Wanted
    <3>4. QED
      BY <2>2, <3>2, <3>3 DEF RowsFull, Exists, Flushed, Wanted
  <2>6. QED
    BY <2>4, <2>5
<1>4. ASSUME NEW t \in Txn, AcquireStudentContactLock(t) \/ CheckContactLimit(t),
             ~Finish(t)
      PROVE  RowsFull'
  <2>1. tx[t] \in Request /\ tx[t] # Idle
    BY <1>4 DEF AcquireStudentContactLock, CheckContactLimit, TypeOK, Idle
  <2>2. /\ contact' = contact /\ pending' = pending
        /\ \A s \in Txn \ {t} : tx'[s] = tx[s]
    BY <1>4, OtherTransactions DEF Step, AcquireStudentContactLock,
       CheckContactLimit
  <2>3. /\ tx'[t].user = tx[t].user /\ tx'[t].want = tx[t].want
        /\ tx'[t].read = tx[t].read /\ tx'[t].newPending = tx[t].newPending
    BY <1>4, <2>1 DEF AcquireStudentContactLock, CheckContactLimit, TypeOK, Request
  <2>4. QED
    BY <2>1, <2>2, <2>3 DEF RowsFull, Exists, Flushed, Wanted
<1>5. ASSUME NEW t \in Txn, Finish(t), UNCHANGED <<contact, pending>>
      PROVE  RowsFull'
  BY <1>2, <1>5 DEF Finish, TypeOK
<1>6. ASSUME NEW t \in Txn, Commits(t)
      PROVE  RowsFull'
  <2> DEFINE r == tx[t]
             u == r.user
  <2>1. /\ r \in Request /\ r # Idle
        /\ \A w \in User \ {u} : contact'[w] = contact[w]
        /\ contact' = [contact EXCEPT ![u] = NewRow(r)]
        /\ u \in User
    BY <1>6, CommitEffect DEF Request
  <2>2. /\ pending' = [pending EXCEPT ![u] = NewPending(r)]
        /\ tx'[t] = Idle /\ \A s \in Txn \ {t} : tx'[s] = tx[s]
    BY <1>6, <2>1 DEF Commits, Save, Finish, TypeOK
  <2>3. NewRow(r) \in [Kind -> Value]
    <3>1. \A k \in Flushed(r) : r.want[k] \in Value
      BY <2>1 DEF Flushed, Wanted, Request, Column
    <3>2. Flushed(r) = Kind \/ contact[u] \in [Kind -> Value]
      BY <2>1 DEF RowsFull, Exists
    <3>3. QED
      BY <3>1, <3>2 DEF NewRow
  <2>4. contact'[u] = NewRow(r) /\ NewRow(r) # NoRow
    BY <2>1, <2>3, ContactAssumption DEF TypeOK, NoRow, Kind
  <2>5. \A w \in User : contact[w] # NoRow => contact'[w] # NoRow
    BY <2>1, <2>4
  <2>6. QED
    <3>1. \A w \in User : contact'[w] = NoRow \/ contact'[w] \in [Kind -> Value]
      BY <2>1, <2>3, <2>4 DEF RowsFull
    <3>2. \A w \in User : pending'[w] # None => contact'[w] # NoRow
      BY <2>2, <2>4, <2>5 DEF RowsFull, Exists, TypeOK
    <3>3. ASSUME NEW s \in Txn, tx'[s] # Idle
          PROVE  \/ contact'[tx'[s].user] # NoRow
                 \/ Flushed(tx[s])' = Kind /\ tx'[s].newPending = None
      <4>1. s # t /\ tx'[s] = tx[s]
        BY <2>2, <3>3
      <4>2. tx[s].user \in User
        BY <3>3, <4>1 DEF TypeOK, Request
      <4>3. QED
        BY <2>5, <3>3, <4>1, <4>2 DEF RowsFull, Exists, Flushed, Wanted
    <3>4. QED
      BY <3>1, <3>2, <3>3 DEF RowsFull, Exists
<1>7. QED
  BY <1>1, <1>3, <1>4, <1>5, <1>6
     DEF Next, Step, CheckContactLimit, AcquireStudentContactLock, Save, Abort, Commits

\* ContactRegistry counts with its own instance of FiniteSets.
LEMMA SameCardinality == \A S : Registry!Cardinality(S) = Cardinality(S)
BY Zenon DEF Registry!Cardinality, Cardinality

\* A commit is one assignment of the registry, made under its condition.
LEMMA CommitAssigns ==
    ASSUME ContactInv, RowsFull, NEW t \in Txn, Commits(t), contact' # contact
    PROVE  Registry!Next
<1> DEFINE r == tx[t]
           u == r.user
<1>1. /\ r \in Request /\ r # Idle /\ r.pc = "save" /\ r.todo = {}
      /\ contact' = [contact EXCEPT ![u] = NewRow(r)]
      /\ u \in User
  BY CommitEffect DEF ContactInv, Request
<1>2. NewRow(r) \in [Kind -> Value]
  <2>1. \A k \in Flushed(r) : r.want[k] \in Value
    BY <1>1 DEF Flushed, Wanted, Request, Column
  <2>2. Flushed(r) = Kind \/ contact[u] \in [Kind -> Value]
    BY <1>1 DEF RowsFull, Exists
  <2>3. QED
    BY <2>1, <2>2 DEF NewRow
<1>3. ASSUME NEW k \in Kind, NewRow(r)[k] # contact[u][k]
      PROVE  Cardinality(Registry!Sharing(u, k, NewRow(r)[k])) < Registry!MaxAllowed(u)
  <2>1. k \in Flushed(r) /\ NewRow(r)[k] = r.want[k] /\ k \in Wanted(r.want)
    BY <1>3 DEF NewRow, Flushed
  <2>2. Registry!Sharing(u, k, r.want[k]) = Others(u, k, r.want[k])
    BY DEF Registry!Sharing, Registry!Peers, Others, Peers
  <2>3. CASE u \in Student
    <3>1. Cardinality(Others(u, k, r.want[k])) < MaxShared
      BY <1>1, <2>1, <2>3 DEF ContactInv, CountStillValid
    <3>2. QED
      BY <2>1, <2>2, <2>3, <3>1 DEF Registry!MaxAllowed
  <2>4. CASE u \notin Student
    <3>1. Others(u, k, r.want[k]) = {}
      BY <2>1, <2>4 DEF Commits, BreaksUniqueIndex
    <3>2. QED
      BY <2>1, <2>2, <2>4, <3>1, FS_EmptySet DEF Registry!MaxAllowed
  <2>5. QED
    BY <2>3, <2>4
<1>4. Registry!Assign(u, NewRow(r))
  BY <1>1, <1>3, SameCardinality DEF Registry!Assign, Registry!Kind, Kind
<1>5. QED
  BY <1>1, <1>2, <1>4 DEF Registry!Next, Registry!Kind, Kind

\* Counting, waiting and writing in separate statements is as good as doing
\* all of it at once: the transactions implement the registry.
THEOREM RefinesRegistry == Spec => RegistrySpec
<1>1. Init => Registry!Init
  BY DEF Init, Registry!Init, NoRow, Registry!NoRow, Kind, Registry!Kind
<1>2. Init => RowsFull
  BY DEF Init, RowsFull
<1>3. ContactInv /\ RowsFull /\ [Next]_vars => RowsFull'
  BY RowsStep DEF ContactInv
<1>4. ContactInv /\ RowsFull /\ [Next]_vars => [Registry!Next]_contact
  BY ContactSteps, CommitAssigns
<1>5. QED
  BY <1>1, <1>2, <1>3, <1>4, ContactInvariant, PTL
     DEF Spec, RegistrySpec, Registry!Spec

=============================================================================
