---------------------------- MODULE EntityCache ----------------------------
(***************************************************************************)
(* The read-through caches of users, groups, subjects and emails: one row, *)
(* and the Redis entry that one audience reads it through.                 *)
(*                                                                         *)
(* A read asks Redis, then the database, then stores what it loaded; an    *)
(* update commits and then deletes the keys it knows of.  Nothing ties the *)
(* steps of the two together, and Redis may fail at any of them.           *)
(***************************************************************************)
EXTENDS Naturals

CONSTANTS
    Entity,     \* pairs of a kind of row and an audience, to start from
    Reader,     \* concurrent reads
    Writer,     \* concurrent changes
    Value,      \* what a column may hold
    RedisFails, \* whether calls to Redis may fail
    None,       \* no row, no entry, no value
    Same        \* a column that an UPDATE does not set

VARIABLES
    entity,     \* the kind of the row and the audience of the entry; constant
    row,        \* the committed row, or None before it is created
    entry,      \* what Redis holds for the audience, or None
    missed,     \* history: a deletion of the key has failed or was never sent
                \* since the last one that succeeded
    reader,     \* the reads in progress
    writer      \* the changes in progress

vars == <<entity, row, entry, missed, reader, writer>>

\* "teacher" is everybody who is not a student.
Users == {"teacher", "student"}
Archivable == {"group", "subject"}
Kind == Users \cup Archivable \cup {"email"}

\* The keys of cache_keys.py: a teacher and a student share their three.
Keys(kind) == CASE kind \in Users -> {"admin", "staff", "self"}
                [] kind \in Archivable -> {"admin", "staff"}
                [] OTHER -> {"admin"}

ASSUME EntityAssumption ==
    /\ \A e \in Entity : e.kind \in Kind /\ e.aud \in Keys(e.kind)
    /\ RedisFails \in BOOLEAN
    /\ None \notin Value
    /\ Same \notin Value \cup {None} \cup BOOLEAN

\* data: what an update writes (for an email: status, attempts and error);
\* active: is_active with status, or that is_archived is false;
\* stamp: archived_at;  group: the data of a student's group.
Row == [data: Value, active: BOOLEAN, stamp: Value \cup {None}, group: Value]

ASSUME NoneAssumption == None \notin Row

\* What the response schema of the audience shows.
Shown == CASE entity.kind \in Archivable ->
                  IF entity.aud = "admin" THEN {"data", "active", "stamp"}
                                          ELSE {"data", "active"}
           [] entity.kind = "email" -> {"data"}
           [] entity.aud = "self" -> {"data", "group"}
           [] OTHER -> {"data", "active", "group"}

View(r) == [c \in Shown |-> r[c]]

\* overtaken: history, the key was deleted between the load and the fill.
Entry == [view: [Shown -> UNION {Value, BOOLEAN, {None}}], overtaken: BOOLEAN]

\* The UPDATE that a handler will commit.
Update == [data: Value \cup {Same}, active: BOOLEAN \cup {Same},
           stamp: Value \cup {None, Same}, group: Value \cup {Same}]

\* What a read asks for: the endpoints of teachers and students share keys, and
\* only a student gets as far as the handler of students/me.
Wants == CASE entity = [kind |-> "teacher", aud |-> "self"] -> {"teacher"}
           [] entity.kind \in Users -> Users
           [] OTHER -> {entity.kind}

Idle == [pc |-> "idle"]

-----------------------------------------------------------------------------
\* Mutant: an update deletes the administrator's key only.
PurgesForAdmin(op) ==
    CASE op = "deactivate" -> Keys(entity.kind)
      [] op \in {"update", "activate", "archive", "restore"} -> {"admin"}
      [] OTHER -> {}

\* The keys a change deletes after its commit.  activate_account, an update of
\* the student's group, and the worker and retry of an email delete none.
Purges(op) ==
    CASE op \in {"update", "deactivate"} -> Keys(entity.kind)
      [] op \in {"activate", "archive", "restore"} -> {"admin"}
      [] OTHER -> {}

\* What a call to Redis leaves there when it is meant to leave value.
Redis(value) == IF RedisFails THEN {value, entry} ELSE {value}

\* A flush sets the columns that differ from what the handler loaded.
Changed(new) ==
    [data |-> IF new.data # row.data THEN new.data ELSE Same,
     active |-> IF new.active # row.active THEN new.active ELSE Same,
     stamp |-> IF new.stamp # row.stamp THEN new.stamp ELSE Same,
     group |-> IF new.group # row.group THEN new.group ELSE Same]

\* The row after an UPDATE, which merges with whatever is there by now.
Updated(set) ==
    [data |-> IF set.data # Same THEN set.data ELSE row.data,
     active |-> IF set.active # Same THEN set.active ELSE row.active,
     stamp |-> IF set.stamp # Same THEN set.stamp ELSE row.stamp,
     group |-> IF set.group # Same THEN set.group ELSE row.group]

Init ==
    /\ entity \in Entity
    /\ row = None
    /\ entry = None
    /\ missed = FALSE
    /\ reader = [r \in Reader |-> Idle]
    /\ writer = [w \in Writer |-> Idle]

\* register_user, create_group, create_subject, or an email that is enqueued.
Create ==
    /\ row = None
    /\ \E v, g \in Value :
           row' = [data |-> v, active |-> entity.kind \notin Users,
                   stamp |-> None, group |-> g]
    /\ UNCHANGED <<entity, entry, missed, reader, writer>>

-----------------------------------------------------------------------------
\* A handler that changes the row, from its read to its commit.
Begin(w, op, new) ==
    /\ writer[w] = Idle
    /\ writer' = [writer EXCEPT
                    ![w] = [pc |-> "commit", set |-> Changed(new),
                            purges |-> entity.aud \in Purges(op)]]
    /\ UNCHANGED <<entity, row, entry, missed, reader>>

\* update_user, update_user_credentials, update_me_credentials,
\* confirm_email_change, update_group, update_subject.  A request that changes
\* nothing is refused.
UpdateEntity(w) ==
    /\ entity.kind # "email"
    /\ \E v \in Value \ {row.data} : Begin(w, "update", [row EXCEPT !.data = v])

\* archive_group refuses a group that is archived and says since when.
ArchiveGroup(w) ==
    /\ entity.kind = "group"
    /\ row.active \/ row.stamp = None
    /\ \E t \in Value :
           Begin(w, "archive", [row EXCEPT !.active = FALSE, !.stamp = t])

\* archive_subject refuses a subject that is archived or has a date.
ArchiveSubject(w) ==
    /\ entity.kind = "subject"
    /\ row.active /\ row.stamp = None
    /\ \E t \in Value :
           Begin(w, "archive", [row EXCEPT !.active = FALSE, !.stamp = t])

\* Mutant: the date of the archiving is left behind.
RestoreGroupKeepsDate(w) ==
    /\ entity.kind = "group"
    /\ ~row.active \/ row.stamp # None
    /\ Begin(w, "restore", [row EXCEPT !.active = TRUE])

RestoreGroup(w) ==
    /\ entity.kind = "group"
    /\ ~row.active \/ row.stamp # None
    /\ Begin(w, "restore", [row EXCEPT !.active = TRUE, !.stamp = None])

RestoreSubject(w) ==
    /\ entity.kind = "subject"
    /\ ~row.active /\ row.stamp # None
    /\ Begin(w, "restore", [row EXCEPT !.active = TRUE, !.stamp = None])

DeactivateUser(w) ==
    /\ entity.kind \in Users
    /\ row.active
    /\ Begin(w, "deactivate", [row EXCEPT !.active = FALSE])

ActivateUser(w) ==
    /\ entity.kind \in Users
    /\ ~row.active
    /\ Begin(w, "activate", [row EXCEPT !.active = TRUE])

\* activate_account, for which the invite counts and not the status.
ActivateAccount(w) ==
    /\ entity.kind \in Users
    /\ Begin(w, "invite", [row EXCEPT !.active = TRUE])

\* update_group, seen from a student of the group.
UpdateGroupOfStudent(w) ==
    /\ entity.kind = "student"
    /\ \E g \in Value \ {row.group} :
           Begin(w, "regroup", [row EXCEPT !.group = g])

\* process_batch or retry_failed_email.
MarkEmail(w) ==
    /\ entity.kind = "email"
    /\ \E v \in Value : Begin(w, "mark", [row EXCEPT !.data = v])

Commit(w) ==
    /\ writer[w].pc = "commit"
    /\ row' = Updated(writer[w].set)
    /\ writer' = [writer EXCEPT
                    ![w] = IF writer[w].purges THEN [pc |-> "purge"] ELSE Idle]
    /\ UNCHANGED <<entity, entry, missed, reader>>

\* A read that has loaded the row and not yet stored it.
Filling(r) == reader[r].pc = "fill"

\* delete_cache, whose errors are swallowed.
Purge(w) ==
    /\ writer[w].pc = "purge"
    /\ writer' = [writer EXCEPT ![w] = Idle]
    /\ \/ /\ entry' = None
          /\ missed' = FALSE
          /\ reader' = [r \in Reader |->
                           IF Filling(r) THEN [reader[r] EXCEPT !.overtaken = TRUE]
                                         ELSE reader[r]]
       \/ /\ RedisFails
          /\ missed' = TRUE
          /\ UNCHANGED <<entry, reader>>
    /\ UNCHANGED <<entity, row>>

-----------------------------------------------------------------------------
\* get_teacher_by_id, get_student_by_id, get_my_profile, get_my_student_profile,
\* get_group_by_id, get_subject_by_id, get_email_by_id.
Get(r) ==
    /\ reader[r] = Idle
    /\ \E k \in Wants :
           reader' = [reader EXCEPT ![r] = [pc |-> "get", want |-> k]]
    /\ UNCHANGED <<entity, row, entry, missed, writer>>

\* get_cache: a hit is answered as it is, an error of Redis is a miss.
CheckCache(r) ==
    /\ reader[r].pc = "get"
    /\ \/ /\ entry # None
          /\ reader' = [reader EXCEPT ![r].pc = "hit"]
       \/ /\ entry = None \/ RedisFails
          /\ reader' = [reader EXCEPT ![r].pc = "load"]
    /\ UNCHANGED <<entity, row, entry, missed, writer>>

\* A miss selects the row, of the role the endpoint is for; otherwise it is 404.
Load(r) ==
    /\ reader[r].pc = "load"
    /\ reader' = [reader EXCEPT ![r] =
                     IF reader[r].want = entity.kind /\ row # None
                     THEN [pc |-> "fill", view |-> View(row), overtaken |-> FALSE]
                     ELSE Idle]
    /\ UNCHANGED <<entity, row, entry, missed, writer>>

\* Mutant: what is stored is not what the schema of the entry says.
FillUnvalidated(r) ==
    /\ Filling(r)
    /\ entry' \in Redis(reader[r])
    /\ reader' = [reader EXCEPT ![r] = Idle]
    /\ UNCHANGED <<entity, row, missed, writer>>

\* set_cache with its time to live, and the answer.
Fill(r) ==
    /\ Filling(r)
    /\ entry' \in Redis([view |-> reader[r].view,
                         overtaken |-> reader[r].overtaken])
    /\ reader' = [reader EXCEPT ![r] = Idle]
    /\ UNCHANGED <<entity, row, missed, writer>>

\* The answer from the cache.
Answer(r) ==
    /\ reader[r].pc = "hit"
    /\ reader' = [reader EXCEPT ![r] = Idle]
    /\ UNCHANGED <<entity, row, entry, missed, writer>>

Read(r) == CheckCache(r) \/ Load(r) \/ Fill(r) \/ Answer(r)

Edit(w) ==
    /\ row # None
    /\ \/ UpdateEntity(w)
       \/ ArchiveGroup(w)
       \/ ArchiveSubject(w)
       \/ RestoreGroup(w)
       \/ RestoreSubject(w)
       \/ DeactivateUser(w)
       \/ ActivateUser(w)
       \/ ActivateAccount(w)
       \/ UpdateGroupOfStudent(w)
       \/ MarkEmail(w)

Write(w) == Commit(w) \/ Purge(w)

\* A request dies: client gone, database error, invalid token, crash.  A change
\* that is not committed is rolled back, one that is leaves the key alone.
DropReader(r) ==
    /\ reader[r] # Idle
    /\ reader' = [reader EXCEPT ![r] = Idle]
    /\ UNCHANGED <<entity, row, entry, missed, writer>>

DropWriter(w) ==
    /\ writer[w] # Idle
    /\ writer' = [writer EXCEPT ![w] = Idle]
    /\ missed' = (missed \/ writer[w].pc = "purge")
    /\ UNCHANGED <<entity, row, entry, reader>>

\* Mutant: the entry is stored without a time to live.
ExpireNever == entry # entry /\ UNCHANGED vars

\* The time to live of the entry runs out.
Expire ==
    /\ entry # None
    /\ entry' = None
    /\ UNCHANGED <<entity, row, missed, reader, writer>>

Next ==
    \/ Create
    \/ \E r \in Reader : Get(r) \/ Read(r) \/ DropReader(r)
    \/ \E w \in Writer : Edit(w) \/ Write(w) \/ DropWriter(w)
    \/ Expire

Spec == Init /\ [][Next]_vars

\* Awaited calls return, and Redis expires its keys.
Fairness ==
    /\ WF_vars(Expire)
    /\ \A r \in Reader : WF_vars(Read(r))
    /\ \A w \in Writer : WF_vars(Write(w))

FairSpec == Spec /\ Fairness

-----------------------------------------------------------------------------
Reading ==
    {Idle} \cup [pc: {"get", "load", "hit"}, want: Kind]
           \cup [pc: {"fill"}, view: [Shown -> UNION {Value, BOOLEAN, {None}}],
                 overtaken: BOOLEAN]

Writing ==
    {Idle, [pc |-> "purge"]}
    \cup [pc: {"commit"}, set: Update, purges: BOOLEAN]

TypeOK ==
    /\ entity \in Entity
    /\ row \in Row \cup {None}
    /\ entry \in Entry \cup {None}
    /\ missed \in BOOLEAN
    /\ reader \in [Reader -> Reading]
    /\ writer \in [Writer -> Writing]

\* A group or subject has a date of archiving exactly while it is archived,
\* although archive and restore overlap and flush the two columns on their own.
ArchiveColumnsAgree ==
    entity.kind \in Archivable /\ row # None => (row.active <=> row.stamp = None)

\* The columns that are only ever changed by handlers that delete this key.
Covered ==
    CASE entity.kind \in Users -> {"data"}
      [] entity.kind \in Archivable ->
             IF entity.aud = "admin" THEN {"data", "active", "stamp"} ELSE {"data"}
      [] OTHER -> {}

Pending == \E w \in Writer : writer[w].pc = "purge"

\* Explicit invalidation works but for two gaps: in the columns whose changes
\* delete this key, an entry differs from the row only while a deletion is
\* still to come, after one has failed, or if a deletion overtook the fill.
CoveredColumnsFresh ==
    entry # None /\ ~entry.overtaken /\ ~missed /\ ~Pending =>
        \A c \in Covered : entry.view[c] = row[c]

\* When changes stop, what the audience reads is the row in the end, for every
\* column, whatever was not deleted and whoever filled it late.
StaleEntriesGo ==
    <>[][row' = row]_row => <>[](entry # None => entry.view = View(row))

-----------------------------------------------------------------------------
\* A claim of the tests that the code does not keep.

\* "test_student_gets_404_on_me": an endpoint answers for users of its role
\* only.  The role is checked on a miss; a hit is whatever the key holds.
AnsweredInRole ==
    \A r \in Reader : reader[r].pc = "hit" => reader[r].want = entity.kind

=============================================================================
