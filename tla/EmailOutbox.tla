----------------------------- MODULE EmailOutbox -----------------------------
(***************************************************************************)
(* Email delivery: the pending_emails outbox, its one background worker,   *)
(* the administrators' retries, and the notices that bypass the outbox.    *)
(*                                                                         *)
(* The worker loads a batch in one database session and keeps what it      *)
(* loaded while it sends the emails one after the other; a retry is a      *)
(* transaction of its own.  Both flush only the columns whose new value is *)
(* not the one they loaded.  The process may stop between any two steps.   *)
(***************************************************************************)
EXTENDS Naturals, FiniteSets

CONSTANTS
    Mail,           \* the emails of the outbox, numbered by created_at
    Notice,         \* the emails sent by a background task, without a row
    Admin,          \* concurrent requests to retry, each with its session
    BatchSize,      \* BATCH_SIZE
    MaxAttempts,    \* the literal 3 of emails/repository.py
    MaxRetries,     \* bound on the retries that are asked for
    MaxFaults       \* bound on crashes and lost batches

ASSUME OutboxAssumption ==
    /\ Mail \subseteq Nat
    /\ BatchSize \in Nat \ {0}
    /\ MaxAttempts \in Nat \ {0}
    /\ MaxRetries \in Nat
    /\ MaxFaults \in Nat

VARIABLES
    row,        \* the committed rows of pending_emails
    worker,     \* the worker: the emails it still has to deal with and the
                \* rows it loaded
    admin,      \* the retries in progress
    notice,     \* what has become of each notice
    delivered,  \* history: deliveries since the email last became PENDING
    crossed,    \* history: emails whose last retry had read a row that another
                \* retry had reset by the time it committed
    retries,    \* retries asked for
    faults      \* crashes and lost batches

vars == <<row, worker, admin, notice, delivered, crossed, retries, faults>>

Row == [status: {"ABSENT", "PENDING", "SENT", "FAILED"}, tries: 0..MaxAttempts]

Worker == [pc: {"poll", "send", "sent", "failed"}, todo: SUBSET Mail,
           seen: [Mail -> Row]]

\* A retry in progress: the row it read, and whether another retry of the email
\* has committed since (history).
Retry == [pc: {"reset"}, mail: Mail, snap: Row, stale: BOOLEAN]

Idle == [pc |-> "idle"]

Exists(m) == row[m].status # "ABSENT"

\* Mutant: a poll without the filter.
ReadyUnfiltered == {m \in Mail : Exists(m)}

Ready == {m \in Mail : row[m].status = "PENDING" /\ row[m].tries < MaxAttempts}

\* get_pending_emails: the oldest BatchSize of the emails that are ready.
Batch == {m \in Ready : Cardinality({n \in Ready : n < m}) < BatchSize}

\* The email the worker is at.
Current(m) == m \in worker.todo /\ \A n \in worker.todo : m <= n

MarkSent(r) == [r EXCEPT !.status = "SENT"]

\* Mutant: the last attempt is taken for the last but one.
MarkFailedAttemptLate(r) ==
    [tries |-> r.tries + 1,
     status |-> IF r.tries + 1 > MaxAttempts THEN "FAILED" ELSE r.status]

MarkFailedAttempt(r) ==
    [tries |-> r.tries + 1,
     status |-> IF r.tries + 1 >= MaxAttempts THEN "FAILED" ELSE r.status]

\* Mutant: the attempts are not reset.
ResetForRetryKeepsTries(r) == [status |-> "PENDING", tries |-> r.tries]

ResetForRetry(r) == [status |-> "PENDING", tries |-> 0]

\* A flush writes the columns that changed, over whatever is there by now.
Flush(m, new, loaded) ==
    row' = [row EXCEPT
        ![m].status = IF new.status # loaded.status THEN new.status ELSE @,
        ![m].tries = IF new.tries # loaded.tries THEN new.tries ELSE @]

Init ==
    /\ row = [m \in Mail |-> [status |-> "ABSENT", tries |-> 0]]
    /\ worker = [pc |-> "poll", todo |-> {}, seen |-> row]
    /\ admin = [a \in Admin |-> Idle]
    /\ notice = [n \in Notice |-> "none"]
    /\ delivered = [m \in Mail |-> 0]
    /\ crossed = {}
    /\ retries = 0
    /\ faults = 0

-----------------------------------------------------------------------------
\* register_user, update_user_credentials, create_reset_password_request and
\* resend_activation_invite commit the email with what it is about.
Enqueue(m) ==
    /\ ~Exists(m)
    /\ row' = [row EXCEPT ![m] = [status |-> "PENDING", tries |-> 0]]
    /\ UNCHANGED <<worker, admin, notice, delivered, crossed, retries, faults>>

\* The other operations commit, and then create a task that sends the email.
CreateTask(n) ==
    /\ notice[n] = "none"
    /\ notice' = [notice EXCEPT ![n] = "task"]
    /\ UNCHANGED <<row, worker, admin, delivered, crossed, retries, faults>>

\* send_safe: one attempt, whose error is logged.
SendSafe(n) ==
    /\ notice[n] = "task"
    /\ \E result \in {"delivered", "gone"} :
           notice' = [notice EXCEPT ![n] = result]
    /\ UNCHANGED <<row, worker, admin, delivered, crossed, retries, faults>>

-----------------------------------------------------------------------------
\* process_batch loads a batch.
PollOutbox ==
    /\ worker.pc = "poll"
    /\ Batch # {}
    /\ worker' = [pc |-> "send", todo |-> Batch, seen |-> row]
    /\ UNCHANGED <<row, admin, notice, delivered, crossed, retries, faults>>

\* Mutant: the error of an attempt is swallowed, as send_safe does.
SendSwallowsError(m) ==
    /\ worker.pc = "send"
    /\ Current(m)
    /\ worker' = [worker EXCEPT !.pc = "sent"]
    /\ delivered' \in {delivered, [delivered EXCEPT ![m] = @ + 1]}
    /\ UNCHANGED <<row, admin, notice, crossed, retries, faults>>

\* send: an attempt that raises may have delivered the email all the same.
Send(m) ==
    /\ worker.pc = "send"
    /\ Current(m)
    /\ \/ /\ worker' = [worker EXCEPT !.pc = "sent"]
          /\ delivered' = [delivered EXCEPT ![m] = @ + 1]
       \/ /\ worker' = [worker EXCEPT !.pc = "failed"]
          /\ delivered' \in {delivered, [delivered EXCEPT ![m] = @ + 1]}
    /\ UNCHANGED <<row, admin, notice, crossed, retries, faults>>

\* mark_sent or mark_failed_attempt on the row that was loaded, and commit.
Mark(m) ==
    LET loaded == worker.seen[m]
        new == IF worker.pc = "sent" THEN MarkSent(loaded)
                                     ELSE MarkFailedAttempt(loaded)
        rest == worker.todo \ {m}
    IN  /\ worker.pc \in {"sent", "failed"}
        /\ Current(m)
        /\ Flush(m, new, loaded)
        /\ worker' = [worker EXCEPT !.todo = rest,
                                    !.pc = IF rest = {} THEN "poll" ELSE "send"]
        /\ UNCHANGED <<admin, notice, delivered, crossed, retries, faults>>

\* retry_failed_email reads the row, whatever its status, ...
RetryFailedEmail(a, m) ==
    /\ admin[a] = Idle
    /\ Exists(m)
    /\ retries < MaxRetries
    /\ retries' = retries + 1
    /\ admin' = [admin EXCEPT ![a] = [pc |-> "reset", mail |-> m, snap |-> row[m],
                                      stale |-> FALSE]]
    /\ UNCHANGED <<row, worker, notice, delivered, crossed, faults>>

\* ... and resets what it read.
Reset(a) ==
    LET m == admin[a].mail
        snap == admin[a].snap
    IN  /\ admin[a] # Idle
        /\ Flush(m, ResetForRetry(snap), snap)
        /\ delivered' = IF row[m].status # row'[m].status
                        THEN [delivered EXCEPT ![m] = 0] ELSE delivered
        /\ admin' = [b \in Admin |->
                         IF b = a THEN Idle
                         ELSE IF admin[b] # Idle /\ admin[b].mail = m
                              THEN [admin[b] EXCEPT !.stale = TRUE] ELSE admin[b]]
        /\ crossed' = IF admin[a].stale THEN crossed \cup {m} ELSE crossed \ {m}
        /\ UNCHANGED <<worker, notice, retries, faults>>

-----------------------------------------------------------------------------
\* The worker loses its batch: the commit fails, which the handler of the
\* exception cannot repair in the same session, or the worker is cancelled.
\* The email it was sending may be out.
LoseBatch ==
    /\ worker.pc # "poll"
    /\ worker' = [worker EXCEPT !.pc = "poll", !.todo = {}]
    /\ \/ UNCHANGED delivered
       \/ \E m \in Mail : /\ worker.pc = "send"
                          /\ Current(m)
                          /\ delivered' = [delivered EXCEPT ![m] = @ + 1]

WorkerError ==
    /\ faults < MaxFaults
    /\ faults' = faults + 1
    /\ LoseBatch
    /\ UNCHANGED <<row, admin, notice, crossed, retries>>

\* The process stops and starts again: requests and tasks are gone with it.
Crash ==
    /\ faults < MaxFaults
    /\ faults' = faults + 1
    /\ \/ LoseBatch
       \/ worker.pc = "poll" /\ UNCHANGED <<worker, delivered>>
    /\ admin' = [a \in Admin |-> Idle]
    /\ notice' = [n \in Notice |-> IF notice[n] = "task" THEN "gone"
                                                         ELSE notice[n]]
    /\ UNCHANGED <<row, crossed, retries>>

Work == PollOutbox \/ \E m \in Mail : Send(m) \/ Mark(m)

Next ==
    \/ \E m \in Mail : Enqueue(m)
    \/ \E n \in Notice : CreateTask(n) \/ SendSafe(n)
    \/ Work
    \/ \E a \in Admin, m \in Mail : RetryFailedEmail(a, m)
    \/ \E a \in Admin : Reset(a)
    \/ WorkerError
    \/ Crash

Spec == Init /\ [][Next]_vars

\* The worker polls for ever, and the provider answers or times out.
FairSpec == Spec /\ WF_vars(Work)

-----------------------------------------------------------------------------
TypeOK ==
    /\ row \in [Mail -> Row]
    /\ worker \in Worker
    /\ admin \in [Admin -> Retry \cup {Idle}]
    /\ notice \in [Notice -> {"none", "task", "delivered", "gone"}]
    /\ delivered \in [Mail -> Nat]
    /\ crossed \subseteq Mail
    /\ retries \in 0..MaxRetries
    /\ faults \in 0..MaxFaults

\* While the worker holds an email its row stays PENDING, whatever retries
\* commit meanwhile, and it was delivered before it is marked.
WorkerInv ==
    /\ worker.pc = "poll" <=> worker.todo = {}
    /\ \A m \in worker.todo :
           /\ row[m].status = "PENDING"
           /\ worker.seen[m].status = "PENDING"
           /\ worker.seen[m].tries < MaxAttempts
           /\ worker.pc = "sent" /\ Current(m) => delivered[m] > 0

\* The outbox only does what EmailDelivery allows: an email is SENT only after
\* a delivery that was asked for, and none is delivered that is not PENDING,
\* although the worker acts on rows it loaded long ago.
Delivery == INSTANCE EmailDelivery WITH
                status <- [m \in Mail |-> row[m].status]

DeliverySpec == Delivery!Spec

\* An email that waits is one that the worker will pick up: PENDING never goes
\* with attempts used up, unless the retry that made it PENDING had read a row
\* which another retry reset meanwhile.  The next retry mends that.
NoneStranded ==
    \A m \in Mail \ crossed :
        row[m].status = "PENDING" => row[m].tries < MaxAttempts

\* Every email that is waiting is SENT in the end, or FAILED after its attempts,
\* if no two retries of it cross and faults do not go on for ever.
EveryEmailResolved ==
    \A m \in Mail :
        row[m].status = "PENDING"
            ~> row[m].status \in {"SENT", "FAILED"} \/ m \in crossed

=============================================================================
