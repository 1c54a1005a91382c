-------------------------- MODULE EmailOutboxProofs --------------------------
(* Proofs about EmailOutbox, for any number of emails, retries and faults.   *)
EXTENDS EmailOutbox, TLAPS

\* The types of the pieces that the steps put together.
LEMMA FlushType ==
    ASSUME row \in [Mail -> Row], NEW m \in Mail, NEW new \in Row,
           NEW loaded, Flush(m, new, loaded)
    PROVE  row' \in [Mail -> Row]
  BY DEF Flush, Row

LEMMA MarkFailedType ==
    ASSUME NEW r \in Row, r.tries < MaxAttempts
    PROVE  /\ MarkFailedAttempt(r) \in Row
           /\ MarkFailedAttempt(r).status \in {"FAILED", r.status}
           /\ MarkFailedAttempt(r).tries = r.tries + 1
  BY OutboxAssumption DEF MarkFailedAttempt, Row

LEMMA MarkSentType ==
    ASSUME NEW r \in Row
    PROVE  /\ MarkSent(r) \in Row
           /\ MarkSent(r).status = "SENT"
  BY DEF MarkSent, Row

LEMMA ResetType == \A r : ResetForRetry(r) \in Row
  BY OutboxAssumption DEF ResetForRetry, Row

LEMMA DeliveredType ==
    ASSUME delivered \in [Mail -> Nat], NEW m \in Mail
    PROVE  [delivered EXCEPT ![m] = @ + 1] \in [Mail -> Nat]
  OBVIOUS

IInv == TypeOK /\ WorkerInv

\* The inductive invariant holds at the start.
LEMMA InitInv == Init => IInv
  <1> SUFFICES ASSUME Init PROVE IInv
    OBVIOUS
  <1>1. row \in [Mail -> Row]
    BY OutboxAssumption DEF Init, Row
  <1>2. worker \in Worker
    BY <1>1 DEF Init, Worker
  <1>3. TypeOK
    BY <1>1, <1>2, OutboxAssumption DEF Init, TypeOK
  <1>4. WorkerInv
    BY DEF Init, WorkerInv
  <1> QED BY <1>3, <1>4 DEF IInv

\* A step that leaves the worker alone and keeps what it holds PENDING.
LEMMA WorkerUntouched ==
    ASSUME WorkerInv, UNCHANGED worker,
           \A m \in worker.todo : row'[m].status = "PENDING",
           \A m \in worker.todo : delivered'[m] = delivered[m]
    PROVE  WorkerInv'
  BY DEF WorkerInv, Current

\* The email that is marked was PENDING when it was loaded and still is; it
\* stays PENDING, is SENT after a delivery, or FAILED.
LEMMA MarkRow ==
    ASSUME IInv, NEW m \in Mail, Mark(m)
    PROVE  /\ row' \in [Mail -> Row]
           /\ \A n \in Mail \ {m} : row'[n] = row[n]
           /\ row[m].status = "PENDING"
           /\ row'[m].status \in {"PENDING", "SENT", "FAILED"}
           /\ row'[m].status = "SENT" => delivered[m] > 0
           /\ row'[m].status = "PENDING" => row'[m].tries < MaxAttempts
  <1> DEFINE loaded == worker.seen[m]
             new == IF worker.pc = "sent" THEN MarkSent(loaded)
                                          ELSE MarkFailedAttempt(loaded)
  <1>1. /\ m \in worker.todo /\ Current(m) /\ Flush(m, new, loaded)
        /\ worker.pc \in {"sent", "failed"}
    BY DEF Mark, Current
  <1>2. /\ loaded \in Row /\ loaded.status = "PENDING"
        /\ loaded.tries < MaxAttempts
        /\ row[m].status = "PENDING"
        /\ worker.pc = "sent" => delivered[m] > 0
    BY <1>1 DEF IInv, TypeOK, WorkerInv, Worker
  <1>3. /\ new \in Row
        /\ worker.pc = "sent" => new.status = "SENT"
        /\ worker.pc # "sent" =>
               /\ new.status \in {"FAILED", "PENDING"}
               /\ new.tries # loaded.tries
               /\ new.status = "PENDING" => new.tries < MaxAttempts
    BY <1>2, MarkSentType, MarkFailedType, OutboxAssumption DEF MarkFailedAttempt, Row
  <1>4. row \in [Mail -> Row]
    BY DEF IInv, TypeOK
  <1> HIDE DEF loaded, new
  <1>5. row' \in [Mail -> Row]
    BY <1>1, <1>3, <1>4, FlushType
  <1>6. row'[m].status = IF new.status # loaded.status THEN new.status
                                                       ELSE row[m].status
    BY <1>1, <1>4 DEF Flush, Row
  <1>7. \A n \in Mail \ {m} : row'[n] = row[n]
    BY <1>1, <1>4 DEF Flush
  <1>8. row'[m].tries = IF new.tries # loaded.tries THEN new.tries ELSE row[m].tries
    BY <1>1, <1>4 DEF Flush, Row
  <1> QED BY <1>1, <1>2, <1>3, <1>5, <1>6, <1>7, <1>8

\* What a retry does to the row: PENDING stays, anything else may become it.
LEMMA ResetRow ==
    ASSUME IInv, NEW a \in Admin, Reset(a)
    PROVE  /\ row' \in [Mail -> Row]
           /\ admin[a].mail \in Mail
           /\ \A n \in Mail \ {admin[a].mail} : row'[n] = row[n]
           /\ row'[admin[a].mail].status \in
                  {"PENDING", row[admin[a].mail].status}
           /\ row'[admin[a].mail].tries =
                  IF admin[a].snap.tries # 0 THEN 0 ELSE row[admin[a].mail].tries
           /\ admin[a].snap.status = "PENDING" =>
                  row'[admin[a].mail].status = row[admin[a].mail].status
  <1> DEFINE m == admin[a].mail
             snap == admin[a].snap
  <1>1. Flush(m, ResetForRetry(snap), snap) /\ admin[a] # Idle
    BY DEF Reset
  <1>2. m \in Mail /\ snap \in Row
    BY <1>1 DEF IInv, TypeOK, Retry
  <1>3. row \in [Mail -> Row]
    BY DEF IInv, TypeOK
  <1> HIDE DEF m, snap
  <1>4. row' \in [Mail -> Row]
    BY <1>1, <1>2, <1>3, FlushType, ResetType
  <1>5. row'[m].status = IF ResetForRetry(snap).status # snap.status
                         THEN ResetForRetry(snap).status ELSE row[m].status
    BY <1>1, <1>2, <1>3 DEF Flush, Row
  <1>6. \A n \in Mail \ {m} : row'[n] = row[n]
    BY <1>1, <1>2, <1>3 DEF Flush
  <1>7. ResetForRetry(snap).status = "PENDING" /\ ResetForRetry(snap).tries = 0
    BY DEF ResetForRetry
  <1>8. row'[m].tries = IF ResetForRetry(snap).tries # snap.tries
                        THEN ResetForRetry(snap).tries ELSE row[m].tries
    BY <1>1, <1>2, <1>3 DEF Flush, Row
  <1> QED BY <1>2, <1>4, <1>5, <1>6, <1>7, <1>8 DEF m, snap

\* The counts of deliveries after a retry.
LEMMA ResetDelivered ==
    ASSUME IInv, NEW a \in Admin, Reset(a)
    PROVE  /\ delivered' \in [Mail -> Nat]
           /\ \A n \in worker.todo : delivered'[n] = delivered[n]
           /\ \A n \in worker.todo : row'[n].status = "PENDING"
  <1>1. \A n \in worker.todo : n \in Mail /\ row[n].status = "PENDING"
    BY DEF IInv, TypeOK, WorkerInv, Worker
  <1>2. \A n \in worker.todo : row'[n].status = "PENDING"
    BY <1>1, ResetRow
  <1>3. delivered' = IF row[admin[a].mail].status # row'[admin[a].mail].status
                     THEN [delivered EXCEPT ![admin[a].mail] = 0]
                     ELSE delivered
    BY DEF Reset
  <1>4. delivered \in [Mail -> Nat] /\ admin[a].mail \in Mail
    BY ResetRow DEF IInv, TypeOK
  <1>5. delivered' \in [Mail -> Nat]
    BY <1>3, <1>4
  <1>6. ASSUME NEW n \in worker.todo PROVE delivered'[n] = delivered[n]
    <2>1. CASE n = admin[a].mail
      BY <2>1, <1>1, <1>2, <1>3
    <2>2. CASE n # admin[a].mail
      BY <2>2, <1>1, <1>3, <1>4
    <2> QED BY <2>1, <2>2
  <1> QED BY <1>2, <1>5, <1>6

\* A batch that is lost leaves no email behind with the worker.
LEMMA LoseStep ==
    ASSUME IInv, LoseBatch
    PROVE  /\ worker' \in Worker
           /\ worker'.pc = "poll" /\ worker'.todo = {}
           /\ delivered' \in [Mail -> Nat]
  BY DeliveredType DEF IInv, TypeOK, LoseBatch, Worker

-----------------------------------------------------------------------------
\* Every step keeps the inductive invariant.
LEMMA NextInv == IInv /\ [Next]_vars => IInv'
  <1> SUFFICES ASSUME IInv, [Next]_vars PROVE IInv'
    OBVIOUS
  <1> USE DEF IInv
  <1>0. TypeOK /\ WorkerInv
    OBVIOUS
  <1>1. ASSUME NEW m \in Mail, Enqueue(m) PROVE IInv'
    <2>1. row' \in [Mail -> Row]
      BY <1>1, OutboxAssumption DEF Enqueue, TypeOK, Row
    <2>2. TypeOK'
      BY <1>1, <2>1 DEF Enqueue, TypeOK
    <2>3. \A n \in worker.todo : row'[n].status = "PENDING"
      BY <1>1 DEF Enqueue, Exists, TypeOK, WorkerInv, Worker
    <2>4. WorkerInv'
      BY <1>1, <2>3, WorkerUntouched DEF Enqueue
    <2> QED BY <2>2, <2>4
  <1>2. ASSUME NEW n \in Notice, CreateTask(n) \/ SendSafe(n) PROVE IInv'
    <2>1. notice' \in [Notice -> {"none", "task", "delivered", "gone"}]
      BY <1>2 DEF CreateTask, SendSafe, TypeOK
    <2>2. UNCHANGED <<row, worker, admin, delivered, crossed, retries, faults>>
      BY <1>2 DEF CreateTask, SendSafe
    <2>3. TypeOK'
      BY <2>1, <2>2 DEF TypeOK
    <2>4. WorkerInv'
      BY <2>2 DEF WorkerInv, Current
    <2> QED BY <2>3, <2>4
  <1>3. CASE PollOutbox
    <2>1. Batch \subseteq Mail /\ Batch # {}
      BY <1>3 DEF Batch, Ready, PollOutbox
    <2>2. worker' \in Worker
      BY <1>3, <2>1 DEF PollOutbox, TypeOK, Worker
    <2>3. TypeOK'
      BY <1>3, <2>2 DEF PollOutbox, TypeOK
    <2>4. \A m \in Batch : row[m].status = "PENDING"
                           /\ row[m].tries < MaxAttempts
      BY DEF Batch, Ready
    <2>5. WorkerInv'
      BY <1>3, <2>1, <2>4 DEF PollOutbox, WorkerInv
    <2> QED BY <2>3, <2>5
  <1>4. ASSUME NEW m \in Mail, Send(m) PROVE IInv'
    <2>1. delivered' \in [Mail -> Nat]
      BY <1>4, DeliveredType DEF Send, TypeOK
    <2>2. /\ worker' \in Worker /\ worker'.todo = worker.todo
          /\ worker'.seen = worker.seen /\ worker'.pc \in {"sent", "failed"}
      BY <1>4 DEF Send, TypeOK, Worker
    <2>3. TypeOK'
      BY <1>4, <2>1, <2>2 DEF Send, TypeOK
    <2>4. \A n \in worker'.todo :
              /\ row'[n].status = "PENDING"
              /\ worker'.seen[n].status = "PENDING"
              /\ worker'.seen[n].tries < MaxAttempts
      BY <1>4, <2>2 DEF Send, WorkerInv
    <2>5. ASSUME NEW n \in worker'.todo, worker'.pc = "sent", Current(n)'
          PROVE  delivered'[n] > 0
      <3>1. n = m
        <4>1. n \in Nat /\ m \in Nat
          BY <1>4, <2>2, <2>5, OutboxAssumption DEF Worker
        <4>2. n <= m /\ m <= n
          BY <1>4, <2>2, <2>5 DEF Send, Current
        <4> QED BY <4>1, <4>2
      <3>2. delivered' = [delivered EXCEPT ![m] = @ + 1]
        BY <1>4, <2>5 DEF Send, TypeOK, Worker
      <3> QED BY <3>1, <3>2 DEF TypeOK
    <2>6. worker'.pc = "poll" <=> worker'.todo = {}
      BY <1>4, <2>2 DEF Send, Current
    <2>7. WorkerInv'
      BY <2>4, <2>5, <2>6 DEF WorkerInv
    <2> QED BY <2>3, <2>7
  <1>5. ASSUME NEW m \in Mail, Mark(m) PROVE IInv'
    <2>1. row' \in [Mail -> Row] /\ \A n \in Mail \ {m} : row'[n] = row[n]
      BY <1>5, MarkRow
    <2>2. /\ worker' \in Worker /\ worker'.todo = worker.todo \ {m}
          /\ worker'.seen = worker.seen
          /\ worker'.pc = IF worker'.todo = {} THEN "poll" ELSE "send"
      BY <1>5 DEF Mark, TypeOK, Worker
    <2>3. TypeOK'
      BY <1>5, <2>1, <2>2 DEF Mark, TypeOK
    <2>4. \A n \in worker'.todo :
              /\ row'[n].status = "PENDING"
              /\ worker'.seen[n].status = "PENDING"
              /\ worker'.seen[n].tries < MaxAttempts
      BY <2>1, <2>2 DEF WorkerInv, Worker, TypeOK
    <2>5. WorkerInv'
      BY <2>2, <2>4 DEF WorkerInv
    <2> QED BY <2>3, <2>5
  <1>6. ASSUME NEW a \in Admin, NEW m \in Mail, RetryFailedEmail(a, m)
        PROVE  IInv'
    <2>1. [pc |-> "reset", mail |-> m, snap |-> row[m], stale |-> FALSE] \in Retry
      BY DEF TypeOK, Retry
    <2>2. admin' \in [Admin -> Retry \cup {Idle}]
      BY <1>6, <2>1 DEF RetryFailedEmail, TypeOK
    <2>3. retries' \in 0..MaxRetries
      BY <1>6, OutboxAssumption DEF RetryFailedEmail, TypeOK
    <2>4. TypeOK'
      BY <1>6, <2>2, <2>3 DEF RetryFailedEmail, TypeOK
    <2>5. WorkerInv'
      BY <1>6 DEF RetryFailedEmail, WorkerInv, Current
    <2> QED BY <2>4, <2>5
  <1>7. ASSUME NEW a \in Admin, Reset(a) PROVE IInv'
    <2>1. row' \in [Mail -> Row]
      BY <1>7, ResetRow
    <2>2. admin' \in [Admin -> Retry \cup {Idle}]
      <3> SUFFICES ASSUME NEW b \in Admin PROVE admin'[b] \in Retry \cup {Idle}
        BY <1>7 DEF Reset
      <3>1. admin'[b] \in {Idle, admin[b], [admin[b] EXCEPT !.stale = TRUE]}
        BY <1>7 DEF Reset
      <3>2. admin[b] # Idle => [admin[b] EXCEPT !.stale = TRUE] \in Retry
        BY DEF TypeOK, Retry
      <3>3. admin[b] = Idle => admin'[b] = Idle
        BY <1>7 DEF Reset
      <3> QED BY <3>1, <3>2, <3>3 DEF TypeOK
    <2>3. crossed' \subseteq Mail
      BY <1>7, ResetRow DEF Reset, TypeOK
    <2>4. TypeOK'
      BY <1>7, <2>1, <2>2, <2>3, ResetDelivered DEF Reset, TypeOK
    <2>5. WorkerInv'
      BY <1>7, ResetDelivered, WorkerUntouched DEF Reset
    <2> QED BY <2>4, <2>5
  <1>8. CASE WorkerError
    <2>1. faults' \in 0..MaxFaults
      BY <1>8, OutboxAssumption DEF WorkerError, TypeOK
    <2>2. TypeOK'
      BY <1>8, <2>1, LoseStep DEF WorkerError, TypeOK
    <2>3. WorkerInv'
      BY <1>8, LoseStep DEF WorkerError, WorkerInv
    <2> QED BY <2>2, <2>3
  <1>9. CASE Crash
    <2>1. faults' \in 0..MaxFaults
      BY <1>9, OutboxAssumption DEF Crash, TypeOK
    <2>2. /\ worker' \in Worker /\ worker'.pc = "poll" /\ worker'.todo = {}
          /\ delivered' \in [Mail -> Nat]
      <3>1. CASE LoseBatch
        BY <3>1, LoseStep
      <3>2. CASE worker.pc = "poll" /\ UNCHANGED <<worker, delivered>>
        BY <3>2 DEF TypeOK, WorkerInv
      <3> QED BY <1>9, <3>1, <3>2 DEF Crash
    <2>3. admin' \in [Admin -> Retry \cup {Idle}]
      BY <1>9 DEF Crash
    <2>4. notice' \in [Notice -> {"none", "task", "delivered", "gone"}]
      BY <1>9 DEF Crash, TypeOK
    <2>5. TypeOK'
      BY <1>9, <2>1, <2>2, <2>3, <2>4 DEF Crash, TypeOK
    <2>6. WorkerInv'
      BY <2>2 DEF WorkerInv
    <2> QED BY <2>5, <2>6
  <1>10. CASE UNCHANGED vars
    BY <1>10 DEF vars, TypeOK, WorkerInv, Current
  <1> QED
    BY <1>1, <1>2, <1>3, <1>4, <1>5, <1>6, <1>7, <1>8, <1>9, <1>10
       DEF Next, Work

\* Both parts of the invariant hold in every reachable state.
LEMMA Invariant == Spec => []IInv
  BY InitInv, NextInv, PTL DEF Spec

\* Type correctness: the worker never raises retry_count above MaxAttempts.
THEOREM TypeCorrect == Spec => []TypeOK
  BY Invariant, PTL DEF IInv

\* The worker never holds an email that is not PENDING, whatever retries,
\* crashes and new emails come between its steps.
THEOREM WorkerCorrect == Spec => []WorkerInv
  BY Invariant, PTL DEF IInv

-----------------------------------------------------------------------------
Stranded(r) == r.status = "PENDING" /\ r.tries >= MaxAttempts

\* What the row that was read says about the row there is, while no other retry
\* has committed: the worker takes no row that is not PENDING, so that one is
\* unchanged, and it strands none.
Knows(snap, r) ==
    /\ snap.status # "PENDING" => r = snap /\ snap.status # "ABSENT"
    /\ Stranded(r) => snap.tries # 0

RetryInv ==
    \A a \in Admin :
        admin[a] # Idle /\ ~admin[a].stale => Knows(admin[a].snap, row[admin[a].mail])

LEMMA InitRetry == Init => RetryInv /\ NoneStranded
  BY DEF Init, RetryInv, NoneStranded

\* Who resets an email makes the other retries of it stale.
LEMMA ResetAdmin ==
    ASSUME TypeOK, NEW a \in Admin, Reset(a), NEW b \in Admin,
           admin'[b] # Idle, ~admin'[b].stale
    PROVE  admin[b] # Idle /\ admin'[b] = admin[b] /\ admin[b].mail # admin[a].mail
  <1>1. b # a
    BY DEF Reset
  <1>2. admin'[b] = IF admin[b] # Idle /\ admin[b].mail = admin[a].mail
                    THEN [admin[b] EXCEPT !.stale = TRUE] ELSE admin[b]
    BY <1>1 DEF Reset
  <1>3. admin[b] \in Retry \cup {Idle}
    BY DEF TypeOK
  <1> QED BY <1>2, <1>3 DEF Retry

\* Only a retry that another one overtook can strand an email.
LEMMA RetryStep ==
    ASSUME IInv, RetryInv, NoneStranded, [Next]_vars
    PROVE  RetryInv' /\ NoneStranded'
  <1>0. /\ TypeOK /\ WorkerInv /\ row \in [Mail -> Row]
        /\ \A a \in Admin : admin[a] # Idle =>
               /\ admin[a].mail \in Mail
               /\ admin[a].snap \in Row /\ admin[a].snap.tries \in Nat
    BY DEF IInv, TypeOK, Retry, Row
  <1>1. ASSUME NEW m \in Mail, row'[m].status # "PENDING" \/ row'[m].tries < MaxAttempts,
               \A n \in Mail \ {m} : row'[n] = row[n], row' \in [Mail -> Row],
               row[m].status = "PENDING" \/ ~Exists(m), UNCHANGED <<admin, crossed>>
        PROVE  RetryInv' /\ NoneStranded'
    <2>1. ~Stranded(row'[m])
      BY <1>1, OutboxAssumption DEF Stranded, Row
    <2>2. RetryInv'
      <3> SUFFICES ASSUME NEW a \in Admin, admin[a] # Idle, ~admin[a].stale
                   PROVE  Knows(admin[a].snap, row'[admin[a].mail])
        BY <1>1 DEF RetryInv
      <3>1. Knows(admin[a].snap, row[admin[a].mail])
        BY DEF RetryInv
      <3>2. CASE admin[a].mail = m
        BY <1>1, <2>1, <3>1, <3>2 DEF Knows, Exists
      <3>3. CASE admin[a].mail # m
        BY <1>0, <1>1, <3>1, <3>3
      <3> QED BY <3>2, <3>3
    <2>3. NoneStranded'
      BY <1>1 DEF NoneStranded
    <2> QED BY <2>2, <2>3
  <1>2. ASSUME NEW m \in Mail, Enqueue(m) PROVE RetryInv' /\ NoneStranded'
    <2>1. row' = [row EXCEPT ![m] = [status |-> "PENDING", tries |-> 0]]
          /\ ~Exists(m) /\ UNCHANGED <<admin, crossed>>
      BY <1>2 DEF Enqueue
    <2>2. /\ row'[m].tries < MaxAttempts /\ row' \in [Mail -> Row]
          /\ \A n \in Mail \ {m} : row'[n] = row[n]
      BY <1>0, <2>1, OutboxAssumption DEF Row
    <2> QED BY <1>1, <2>1, <2>2
  <1>3. ASSUME NEW m \in Mail, Mark(m) PROVE RetryInv' /\ NoneStranded'
    BY <1>1, <1>3, MarkRow DEF Mark
  <1>4. ASSUME NEW a \in Admin, NEW m \in Mail, RetryFailedEmail(a, m)
        PROVE  RetryInv' /\ NoneStranded'
    <2>1. /\ admin' = [admin EXCEPT ![a] = [pc |-> "reset", mail |-> m,
                                            snap |-> row[m], stale |-> FALSE]]
          /\ Exists(m) /\ UNCHANGED <<row, crossed>>
      BY <1>4 DEF RetryFailedEmail
    <2>2. NoneStranded'
      BY <2>1 DEF NoneStranded
    <2>3. Knows(row[m], row[m])
      BY <1>0, <2>1, OutboxAssumption DEF Knows, Stranded, Row, Exists
    <2>4. RetryInv'
      <3> SUFFICES ASSUME NEW b \in Admin, admin'[b] # Idle, ~admin'[b].stale
                   PROVE  Knows(admin'[b].snap, row[admin'[b].mail])
        BY <2>1 DEF RetryInv
      <3>1. CASE b = a
        BY <1>0, <2>1, <2>3, <3>1 DEF TypeOK
      <3>2. CASE b # a
        BY <1>0, <2>1, <3>2 DEF RetryInv, TypeOK
      <3> QED BY <3>1, <3>2
    <2> QED BY <2>2, <2>4
  <1>5. ASSUME NEW a \in Admin, Reset(a) PROVE RetryInv' /\ NoneStranded'
    <2> DEFINE m == admin[a].mail
               snap == admin[a].snap
    <2>1. /\ admin[a] # Idle /\ m \in Mail /\ snap \in Row
          /\ \A n \in Mail \ {m} : row'[n] = row[n]
          /\ row' \in [Mail -> Row]
          /\ row'[m].tries = IF snap.tries # 0 THEN 0 ELSE row[m].tries
          /\ snap.status = "PENDING" => row'[m].status = row[m].status
      BY <1>0, <1>5, ResetRow DEF Reset
    <2>2. RetryInv'
      <3> SUFFICES ASSUME NEW b \in Admin, admin'[b] # Idle, ~admin'[b].stale
                   PROVE  Knows(admin'[b].snap, row'[admin'[b].mail])
        BY DEF RetryInv
      <3>1. /\ admin[b] # Idle /\ admin'[b] = admin[b] /\ admin[b].mail # m
            /\ ~admin[b].stale
        BY <1>0, <1>5, ResetAdmin
      <3>2. row'[admin[b].mail] = row[admin[b].mail]
        BY <1>0, <2>1, <3>1
      <3> QED BY <3>1, <3>2 DEF RetryInv
    <2>3. ASSUME NEW n \in Mail, n \notin crossed', row'[n].status = "PENDING"
          PROVE  row'[n].tries < MaxAttempts
      <3>1. crossed' = IF admin[a].stale THEN crossed \cup {m} ELSE crossed \ {m}
        BY <1>5 DEF Reset
      <3>2. CASE n # m
        BY <2>1, <2>3, <3>1, <3>2 DEF NoneStranded
      <3>3. CASE n = m /\ ~admin[a].stale
        <4>1. /\ snap.status # "PENDING" => row[m] = snap
              /\ Stranded(row[m]) => snap.tries # 0
          BY <2>1, <3>3 DEF RetryInv, Knows
        <4>2. CASE snap.status # "PENDING"
          <5>1. row'[m].tries = 0
            BY <2>1, <4>1, <4>2
          <5> QED BY <3>3, <5>1, OutboxAssumption
        <4>3. CASE snap.status = "PENDING" /\ snap.tries # 0
          <5>1. row'[m].tries = 0
            BY <2>1, <4>3
          <5> QED BY <3>3, <5>1, OutboxAssumption
        <4>4. CASE snap.status = "PENDING" /\ snap.tries = 0
          <5>1. ~Stranded(row[m]) /\ row[m].status = "PENDING" /\ row'[m].tries = row[m].tries
            BY <2>1, <2>3, <3>3, <4>1, <4>4
          <5>2. row[m].tries \in Nat /\ MaxAttempts \in Nat
            BY <1>0, <2>1, OutboxAssumption DEF Row
          <5> QED BY <3>3, <5>1, <5>2 DEF Stranded
        <4> QED BY <4>2, <4>3, <4>4
      <3> QED BY <2>3, <3>1, <3>2, <3>3
    <2> QED BY <2>2, <2>3 DEF NoneStranded
  <1>6. CASE UNCHANGED <<row, crossed>> /\ (UNCHANGED admin \/ admin' = [a \in Admin |-> Idle])
    BY <1>6 DEF RetryInv, NoneStranded
  <1>7. \/ \E m \in Mail : Enqueue(m) \/ Mark(m)
        \/ \E a \in Admin, m \in Mail : RetryFailedEmail(a, m)
        \/ \E a \in Admin : Reset(a)
        \/ UNCHANGED <<row, crossed>> /\ (UNCHANGED admin \/ admin' = [a \in Admin |-> Idle])
    BY DEF Next, Work, vars, CreateTask, SendSafe, PollOutbox, Send, WorkerError, Crash
  <1> QED BY <1>2, <1>3, <1>4, <1>5, <1>6, <1>7

\* No email waits in vain: a PENDING email has attempts left, and the worker's
\* next poll can see it, however its attempts, crashes and retries fall, unless
\* one retry overtook another between what retry_failed_email reads and resets.
THEOREM NobodyStranded == Spec => []NoneStranded
  BY InitRetry, RetryStep, Invariant, PTL DEF Spec

-----------------------------------------------------------------------------
\* No delivery is counted for an email that is not in the outbox yet.
NotYetDelivered == \A m \in Mail : row[m].status = "ABSENT" => delivered[m] = 0

\* The email the worker is at is in its hands, so it is PENDING.
LEMMA CurrentPending ==
    ASSUME IInv, NEW m \in Mail, Current(m)
    PROVE  row[m].status = "PENDING"
  BY DEF IInv, WorkerInv, Current

\* A delivery is one of the email the worker is at.
LEMMA Deliveries ==
    ASSUME IInv, [Next]_vars
    PROVE  \/ UNCHANGED delivered
           \/ \E m \in Mail : /\ row[m].status = "PENDING"
                              /\ delivered' = [delivered EXCEPT ![m] = @ + 1]
                              /\ UNCHANGED row
           \/ \E a \in Admin : Reset(a)
  <1>1. ASSUME NEW m \in Mail, Send(m)
        PROVE  \/ UNCHANGED delivered
               \/ /\ row[m].status = "PENDING"
                  /\ delivered' = [delivered EXCEPT ![m] = @ + 1]
                  /\ UNCHANGED row
    BY <1>1, CurrentPending DEF Send
  <1>2. ASSUME LoseBatch, UNCHANGED row
        PROVE  \/ UNCHANGED delivered
               \/ \E m \in Mail : /\ row[m].status = "PENDING"
                                  /\ delivered' = [delivered EXCEPT ![m] = @ + 1]
                                  /\ UNCHANGED row
    BY <1>2, CurrentPending DEF LoseBatch
  <1>3. CASE WorkerError
    BY <1>2, <1>3 DEF WorkerError
  <1>4. CASE Crash
    BY <1>2, <1>4 DEF Crash
  <1>5. CASE ~(WorkerError \/ Crash \/ \E m \in Mail : Send(m))
    BY <1>5 DEF Next, Work, vars, Enqueue, CreateTask, SendSafe, PollOutbox,
                Mark, RetryFailedEmail
  <1> QED BY <1>1, <1>3, <1>4, <1>5

\* Each step changes the row of one email at most, in one of four ways.
LEMMA RowChanges ==
    ASSUME IInv, [Next]_vars
    PROVE  \/ UNCHANGED row
           \/ \E m \in Mail : Enqueue(m) \/ Mark(m)
           \/ \E a \in Admin : Reset(a)
  BY DEF Next, Work, vars, CreateTask, SendSafe, PollOutbox, Send,
         RetryFailedEmail, WorkerError, Crash

LEMMA NotYetDeliveredStep ==
    ASSUME IInv, NotYetDelivered, [Next]_vars
    PROVE  NotYetDelivered'
  <1> SUFFICES ASSUME NEW n \in Mail, row'[n].status = "ABSENT"
               PROVE  delivered'[n] = 0
    BY DEF NotYetDelivered
  <1>0. row \in [Mail -> Row] /\ delivered \in [Mail -> Nat]
    BY DEF IInv, TypeOK
  <1>1. row[n].status = "ABSENT"
    <2>1. ASSUME NEW m \in Mail, Enqueue(m) PROVE row[n].status = "ABSENT"
      BY <1>0, <2>1 DEF Enqueue
    <2>2. ASSUME NEW m \in Mail, Mark(m) PROVE row[n].status = "ABSENT"
      BY <2>2, MarkRow
    <2>3. ASSUME NEW a \in Admin, Reset(a) PROVE row[n].status = "ABSENT"
      BY <2>3, ResetRow
    <2> QED BY <2>1, <2>2, <2>3, RowChanges
  <1>2. delivered[n] = 0
    BY <1>1 DEF NotYetDelivered
  <1>3. ASSUME NEW m \in Mail, row[m].status = "PENDING",
               delivered' = [delivered EXCEPT ![m] = @ + 1]
        PROVE  delivered'[n] = 0
    BY <1>0, <1>1, <1>2, <1>3
  <1>4. ASSUME NEW a \in Admin, Reset(a) PROVE delivered'[n] = 0
    BY <1>0, <1>2, <1>4, ResetRow DEF Reset
  <1> QED BY <1>2, <1>3, <1>4, Deliveries

\* If one row changes, the status of one email does.
LEMMA StatusOf ==
    ASSUME NEW m \in Mail, \A n \in Mail \ {m} : row'[n] = row[n]
    PROVE  [n \in Mail |-> row[n].status]' =
           [[n \in Mail |-> row[n].status] EXCEPT ![m] = row'[m].status]
  OBVIOUS

\* The outbox implements EmailDelivery: at-least-once delivery of what is
\* PENDING, for any number of emails, retries and faults.
THEOREM RefinesDelivery == Spec => DeliverySpec
  <1> DEFINE status == [m \in Mail |-> row[m].status]
  <1>1. Init => Delivery!Init
    BY DEF Init, Delivery!Init
  <1>2. Init => NotYetDelivered
    BY DEF Init, NotYetDelivered
  <1>3. IInv /\ NotYetDelivered /\ [Next]_vars => NotYetDelivered'
    BY NotYetDeliveredStep
  <1>4. IInv /\ NotYetDelivered /\ [Next]_vars => [Delivery!Next]_(Delivery!vars)
    <2> SUFFICES ASSUME IInv, NotYetDelivered, [Next]_vars
                 PROVE  [Delivery!Next]_(Delivery!vars)
      OBVIOUS
    <2>0. row \in [Mail -> Row] /\ delivered \in [Mail -> Nat]
      BY DEF IInv, TypeOK
    <2>1. ASSUME NEW m \in Mail, Enqueue(m) PROVE Delivery!Request(m)
      <3>1. status[m] # "PENDING"
        BY <2>1 DEF Enqueue, Exists
      <3>2. status' = [status EXCEPT ![m] = "PENDING"]
        BY <2>0, <2>1, StatusOf DEF Enqueue
      <3>3. delivered' = [delivered EXCEPT ![m] = 0]
        BY <2>0, <2>1 DEF Enqueue, Exists, NotYetDelivered
      <3> QED BY <3>1, <3>2, <3>3 DEF Delivery!Request
    <2>2. ASSUME NEW m \in Mail, Mark(m)
          PROVE  [Delivery!Next]_(Delivery!vars)
      <3>1. UNCHANGED delivered
        BY <2>2 DEF Mark
      <3>2. status' = [status EXCEPT ![m] = row'[m].status]
        BY <2>2, MarkRow, StatusOf
      <3>3. status[m] = "PENDING"
        BY <2>2, MarkRow
      <3>4. CASE row'[m].status = "PENDING"
        BY <3>1, <3>2, <3>3, <3>4 DEF Delivery!vars
      <3>5. CASE row'[m].status = "SENT"
        BY <2>2, <3>1, <3>2, <3>3, <3>5, MarkRow
           DEF Delivery!Next, Delivery!MarkSent
      <3>6. CASE row'[m].status = "FAILED"
        BY <3>1, <3>2, <3>3, <3>6 DEF Delivery!Next, Delivery!GiveUp
      <3> QED BY <2>2, <3>4, <3>5, <3>6, MarkRow
    <2>3. ASSUME NEW a \in Admin, Reset(a)
          PROVE  [Delivery!Next]_(Delivery!vars)
      <3> DEFINE m == admin[a].mail
      <3>1. /\ m \in Mail
            /\ row'[m].status \in {"PENDING", row[m].status}
            /\ \A n \in Mail \ {m} : row'[n] = row[n]
        BY <2>3, ResetRow
      <3>2. status' = [status EXCEPT ![m] = row'[m].status]
        BY <3>1, StatusOf
      <3>3. delivered' = IF row[m].status # row'[m].status
                         THEN [delivered EXCEPT ![m] = 0] ELSE delivered
        BY <2>3 DEF Reset
      <3> HIDE DEF m
      <3>4. CASE row'[m].status = row[m].status
        BY <3>1, <3>2, <3>3, <3>4 DEF Delivery!vars
      <3>5. CASE row'[m].status # row[m].status
        BY <3>1, <3>2, <3>3, <3>5 DEF Delivery!Next, Delivery!Request
      <3> QED BY <3>4, <3>5
    <2>4. CASE UNCHANGED row
      <3>1. UNCHANGED status
        BY <2>4
      <3>2. CASE UNCHANGED delivered
        BY <3>1, <3>2 DEF Delivery!vars
      <3>3. ASSUME NEW m \in Mail, row[m].status = "PENDING",
                   delivered' = [delivered EXCEPT ![m] = @ + 1]
            PROVE  Delivery!Deliver(m)
        BY <3>1, <3>3 DEF Delivery!Deliver
      <3> QED BY <2>3, <3>2, <3>3, Deliveries DEF Delivery!Next
    <2> QED BY <2>1, <2>2, <2>3, <2>4, RowChanges DEF Delivery!Next
  <1>5. Spec => []NotYetDelivered
    BY <1>2, <1>3, Invariant, PTL DEF Spec
  <1> QED
    BY <1>1, <1>4, <1>5, Invariant, PTL DEF Spec, DeliverySpec, Delivery!Spec
=============================================================================
