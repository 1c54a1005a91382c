---------------------------- MODULE ContactLimit ----------------------------
(***************************************************************************)
(* Contact sharing: at most MaxShared students may have the same phone     *)
(* number or the same email address, and staff share with nobody.          *)
(*                                                                         *)
(* A request that gives a user a new contact runs in one READ COMMITTED    *)
(* transaction of several awaited statements: it takes a transaction-level *)
(* advisory lock per contact (phone first), counts the other users that    *)
(* have it, and commits, which also releases the locks.  Any number of     *)
(* such transactions interleave between the statements.                    *)
(***************************************************************************)
EXTENDS Integers, FiniteSets

CONSTANTS
    User,       \* the rows of table users that may ever exist
    Student,    \* the users whose role is STUDENT; no operation changes a role
    Value,      \* contact values (phone numbers, email addresses)
    Key,        \* _compute_lock_key: the lock key of a value; keys may collide
    Txn,        \* concurrent requests, each with a database session of its own
    MaxShared,  \* STUDENT_MAX_SHARED_CONTACT
    None        \* SQL NULL

ASSUME ContactAssumption ==
    /\ IsFiniteSet(User)
    /\ Student \subseteq User
    /\ None \notin Value
    /\ Key \in [Value -> Int]
    /\ MaxShared \in Nat \ {0}

ASSUME TxnAssumption == None \notin Txn

VARIABLES
    contact,    \* committed users.phone_number and users.email
    pending,    \* committed user_sessions.pending_new_email
    holder,     \* the transaction that holds each advisory lock
    tx          \* the transactions in progress

vars == <<contact, pending, holder, tx>>

Kind == {"phone", "email"}

\* An advisory lock is a namespace (one per kind of contact) and a key.
Lock == Kind \X {Key[v] : v \in Value}

Column == [Kind -> Value \cup {None}]

NoRow == [k \in Kind |-> None]

Exists(u) == contact[u] # NoRow

\* A transaction: whom it is about, the contacts it wants (None: leave alone),
\* the row it read, what it read and will leave in pending_new_email, and the
\* kinds it has still to lock or to count.
Request == [pc: {"lock", "count", "save"}, user: User, want: Column,
            read: Column, readPending: Value \cup {None},
            newPending: Value \cup {None}, todo: SUBSET Kind]

Idle == [pc |-> "idle"]

Wanted(want) == {k \in Kind : want[k] # None}

\* What matters of the row that was read: the columns it is about to set.
Touched(u, want) ==
    [k \in Kind |-> IF k \in Wanted(want) THEN contact[u][k] ELSE None]

First(todo) == IF "phone" \in todo THEN "phone" ELSE "email"

\* The rows count_users_with_contact counts when it excludes user u: students
\* for a student, everybody else for staff.
Peers(u) == IF u \in Student THEN Student ELSE User \ Student

Others(u, k, v) == {w \in Peers(u) \ {u} : contact[w][k] = v}

MaxAllowed(u) == IF u \in Student THEN MaxShared ELSE 1

\* Mutant: no namespace for the kind, so a phone lock may be an email lock.
LockOfWithoutNamespace(k, v) == <<"phone", Key[v]>>

LockOf(k, v) == <<k, Key[v]>>

\* Changing columns are those whose new value is not the one that was read.
\* The session flushes these and no others.
Flushed(r) == {k \in Wanted(r.want) : r.want[k] # r.read[k]}

NewRow(r) == [k \in Kind |-> IF k \in Flushed(r) THEN r.want[k]
                                                 ELSE contact[r.user][k]]

NewPending(r) == IF r.newPending # r.readPending THEN r.newPending
                                                 ELSE pending[r.user]

-----------------------------------------------------------------------------
Init ==
    /\ contact = [u \in User |-> NoRow]
    /\ pending = [u \in User |-> None]
    /\ holder = [l \in Lock |-> None]
    /\ tx = [t \in Txn |-> Idle]

\* Begin a request of transaction t on user u: what comes first depends on the
\* locks to take (locks) and on the contacts to count (want).
Begin(t, u, want, newPending, locks, counts) ==
    /\ tx[t] = Idle
    /\ tx' = [tx EXCEPT ![t] =
            [pc |-> IF locks # {} THEN "lock"
                    ELSE IF counts # {} THEN "count" ELSE "save",
             user |-> u, want |-> want, read |-> Touched(u, want),
             readPending |-> pending[u], newPending |-> newPending,
             todo |-> IF locks # {} THEN locks ELSE counts]]
    /\ UNCHANGED <<contact, pending, holder>>

ContactChange(t, u, want, newPending) ==
    LET changing == IF u \in Student THEN Wanted(want) ELSE {}
    IN  Begin(t, u, want, newPending, changing, changing)

\* register_user: a new row, locked (students only) and counted under both
\* contacts.  The id comes from a sequence, so no other request has it.
RegisterUser(t, u, want) ==
    /\ ~Exists(u)
    /\ \A s \in Txn : tx[s] # Idle => tx[s].user # u
    /\ Wanted(want) = Kind
    /\ Begin(t, u, want, None, IF u \in Student THEN Kind ELSE {}, Kind)

\* Mutant: the number is counted without the lock.
UpdateUserWithoutLock(t, u, v) ==
    /\ Exists(u)
    /\ v # contact[u]["phone"]
    /\ LET want == [NoRow EXCEPT !["phone"] = v]
       IN  Begin(t, u, want, pending[u], {}, Wanted(want))

\* update_user with a phone number other than the one it read.
UpdateUser(t, u, v) ==
    /\ Exists(u)
    /\ v # contact[u]["phone"]
    /\ ContactChange(t, u, [NoRow EXCEPT !["phone"] = v], pending[u])

\* update_user_credentials: a new email, or only a new username (v = None);
\* both cancel the email change the user had pending.
UpdateUserCredentials(t, u, v) ==
    /\ Exists(u)
    /\ v # contact[u]["email"]
    /\ ContactChange(t, u, [NoRow EXCEPT !["email"] = v], None)

\* update_me_credentials with an email other than the current one: no lock and
\* no count until the change is confirmed.
UpdateMeCredentials(t, u, v) ==
    /\ Exists(u)
    /\ v # contact[u]["email"]
    /\ ContactChange(t, u, NoRow, v)

\* Mutant: the limit is not checked again when the change is confirmed.
ConfirmEmailChangeUnchecked(t, u) ==
    /\ pending[u] # None
    /\ Begin(t, u, [NoRow EXCEPT !["email"] = pending[u]], None, {}, {})

\* confirm_email_change: the pending email is read before the lock is awaited.
ConfirmEmailChange(t, u) ==
    /\ pending[u] # None
    /\ ContactChange(t, u, [NoRow EXCEPT !["email"] = pending[u]], None)

-----------------------------------------------------------------------------
\* Mutant: session-level locks, which the end of a transaction does not free.
UnlockedNever(t) == holder

Unlocked(t) == [l \in Lock |-> IF holder[l] = t THEN None ELSE holder[l]]

\* Mutant: what the transaction knew survives it.
FinishWithoutReset(t) ==
    /\ tx' = [tx EXCEPT ![t].pc = "idle"]
    /\ holder' = Unlocked(t)

\* The transaction ends, and PostgreSQL frees its advisory locks.
Finish(t) ==
    /\ tx' = [tx EXCEPT ![t] = Idle]
    /\ holder' = Unlocked(t)

\* acquire_student_contact_lock: one awaited pg_advisory_xact_lock per contact.
\* PostgreSQL grants a lock again to the transaction that has it.
AcquireStudentContactLock(t) ==
    LET r == tx[t]
        k == First(r.todo)
        l == LockOf(k, r.want[k])
        rest == r.todo \ {k}
    IN  /\ r.pc = "lock"
        /\ holder[l] \in {None, t}
        /\ holder' = [holder EXCEPT ![l] = t]
        /\ tx' = [tx EXCEPT ![t].pc = IF rest = {} THEN "count" ELSE "lock",
                            ![t].todo = IF rest = {} THEN Wanted(r.want)
                                                     ELSE rest]
        /\ UNCHANGED <<contact, pending>>

\* check_contact_limit: one COUNT statement per contact, each of which sees
\* what is committed when it runs.
CheckContactLimit(t) ==
    LET r == tx[t]
        k == First(r.todo)
        rest == r.todo \ {k}
    IN  /\ r.pc = "count"
        /\ IF Cardinality(Others(r.user, k, r.want[k])) >= MaxAllowed(r.user)
           THEN Finish(t)
           ELSE /\ tx' = [tx EXCEPT ![t].pc = IF rest = {} THEN "save"
                                                           ELSE "count",
                                    ![t].todo = rest]
                /\ UNCHANGED holder
        /\ UNCHANGED <<contact, pending>>

\* Mutant: the tables lack the partial unique indexes.
BreaksNothing(r) == FALSE

\* The partial unique indexes on the contacts of staff.
BreaksUniqueIndex(r) ==
    /\ r.user \notin Student
    /\ \E k \in Flushed(r) : Others(r.user, k, r.want[k]) # {}

\* Flush and commit, or roll back on an IntegrityError.
Save(t) ==
    LET r == tx[t]
    IN  /\ r.pc = "save"
        /\ IF BreaksUniqueIndex(r)
           THEN UNCHANGED <<contact, pending>>
           ELSE /\ contact' = [contact EXCEPT ![r.user] = NewRow(r)]
                /\ pending' = [pending EXCEPT ![r.user] = NewPending(r)]
        /\ Finish(t)

\* Any other end: a username that is taken, a lost connection, a cancelled
\* request, a crash of the server.
Abort(t) ==
    /\ tx[t] # Idle
    /\ Finish(t)
    /\ UNCHANGED <<contact, pending>>

Step(t) == AcquireStudentContactLock(t) \/ CheckContactLimit(t) \/ Save(t)

Arrive(t) ==
    \E u \in User :
        \/ \E want \in Column : RegisterUser(t, u, want)
        \/ \E v \in Value : UpdateUser(t, u, v)
        \/ \E v \in Value \cup {None} : UpdateUserCredentials(t, u, v)
        \/ \E v \in Value : UpdateMeCredentials(t, u, v)
        \/ ConfirmEmailChange(t, u)

Next == \E t \in Txn : Arrive(t) \/ Step(t) \/ Abort(t)

Spec == Init /\ [][Next]_vars

\* Statements return.  A lock wait is granted in the order of the queue of the
\* lock, so a transaction is not passed over for ever.
Fairness ==
    \A t \in Txn : /\ WF_vars(CheckContactLimit(t) \/ Save(t))
                   /\ SF_vars(AcquireStudentContactLock(t))

FairSpec == Spec /\ Fairness

-----------------------------------------------------------------------------
TypeOK ==
    /\ contact \in [User -> Column]
    /\ pending \in [User -> Value \cup {None}]
    /\ holder \in [Lock -> Txn \cup {None}]
    /\ tx \in [Txn -> Request \cup {Idle}]

\* No phone number and no email address belongs to more than MaxShared
\* students, however the registrations, updates and confirmations of different
\* students interleave (README.md, "Advisory Locking for Student Contact
\* Limits").
StudentContactLimit ==
    \A k \in Kind, v \in Value :
        Cardinality({u \in Student : contact[u][k] = v}) <= MaxShared

\* What a transaction counted under the lock stays true until it commits:
\* nobody else has taken the place it is about to use.
CountStillValid ==
    \A t \in Txn :
        /\ tx[t] # Idle
        /\ tx[t].pc \in {"count", "save"}
        /\ tx[t].user \in Student
        => \A k \in Wanted(tx[t].want) \ tx[t].todo :
               Cardinality(Others(tx[t].user, k, tx[t].want[k])) < MaxShared

\* A student's transaction holds the lock of every contact it has counted or
\* is about to count.
LocksHeld ==
    \A t \in Txn :
        tx[t] # Idle /\ tx[t].user \in Student =>
            \A k \in Wanted(tx[t].want) :
                tx[t].pc # "lock" \/ k \notin tx[t].todo
                => holder[LockOf(k, tx[t].want[k])] = t

\* While a transaction still waits for a lock, all it holds is a phone lock,
\* and then what it waits for is an email lock.
HolderOrder ==
    \A l \in Lock, t \in Txn :
        holder[l] = t =>
            /\ tx[t] # Idle
            /\ tx[t].pc = "lock" => l[1] = "phone" /\ "phone" \notin tx[t].todo

TodoOK ==
    \A t \in Txn :
        tx[t] # Idle =>
            /\ tx[t].todo \subseteq Wanted(tx[t].want)
            /\ tx[t].todo = {} <=> tx[t].pc = "save"
            /\ tx[t].pc = "lock" => tx[t].user \in Student

LockInv == TodoOK /\ LocksHeld /\ HolderOrder

\* A row has both contacts or does not exist yet; whoever is about to commit
\* leaves it with both.
RowsFull ==
    /\ \A u \in User : contact[u] = NoRow \/ contact[u] \in [Kind -> Value]
    /\ \A u \in User : pending[u] # None => Exists(u)
    /\ \A t \in Txn :
           tx[t] # Idle =>
               \/ Exists(tx[t].user)
               \/ /\ Flushed(tx[t]) = Kind
                  /\ tx[t].newPending = None

WaitsFor(t, s) ==
    /\ tx[t] # Idle
    /\ tx[t].pc = "lock"
    /\ s # t
    /\ holder[LockOf(First(tx[t].todo), tx[t].want[First(tx[t].todo)])] = s

\* No set of transactions waits for locks held inside the set: taking the phone
\* lock before the email lock rules out deadlock, even when keys collide.
NoDeadlock ==
    \A S \in (SUBSET Txn) \ {{}} :
        \E t \in S : \A s \in S : ~WaitsFor(t, s)

\* The transactions, read as a whole, only make the changes of ContactRegistry:
\* counting, waiting and writing in three awaited statements is as good as
\* counting and writing at once.
Registry == INSTANCE ContactRegistry

RegistrySpec == Registry!Spec

\* Every request ends, in a commit or in an error: nobody waits for a lock for
\* ever.
RequestsEnd == \A t \in Txn : tx[t] # Idle ~> tx[t] = Idle

=============================================================================
