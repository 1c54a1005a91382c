-------------------------- MODULE EntityCacheProofs --------------------------
(***************************************************************************)
(* Proofs about EntityCache, for any entities, values and numbers of       *)
(* overlapping reads and changes, with Redis failing or not.               *)
(***************************************************************************)
EXTENDS EntityCache, TLAPS

\* An UPDATE sets both columns of an archiving or none, and to a pair.
ArchivesWhole(set) ==
    /\ set.active = Same <=> set.stamp = Same
    /\ set.active # Same => (set.active <=> set.stamp = None)

\* The UPDATE of a handler that will not delete this key leaves alone what is
\* covered.
LeavesCovered(set) == \A c \in Covered : set[c] = Same

WriterInv ==
    \A w \in Writer :
        writer[w].pc = "commit" =>
            /\ entity.kind \in Archivable => ArchivesWhole(writer[w].set)
            /\ ~writer[w].purges => LeavesCovered(writer[w].set)

\* What has been loaded is as fresh as what is stored.
LoadedFresh ==
    \A r \in Reader :
        Filling(r) /\ ~reader[r].overtaken /\ ~missed /\ ~Pending =>
            \A c \in Covered : reader[r].view[c] = row[c]

\* An entry, or a row that has been loaded, exists only once the row does.
RowFirst ==
    row = None => /\ entry = None
                  /\ \A r \in Reader : ~Filling(r)
                  /\ \A w \in Writer : writer[w] = Idle

CacheInv == /\ TypeOK
            /\ ArchiveColumnsAgree
            /\ WriterInv
            /\ LoadedFresh
            /\ RowFirst
            /\ CoveredColumnsFresh

-----------------------------------------------------------------------------
LEMMA EntityTypes ==
    ASSUME TypeOK
    PROVE  /\ entity.kind \in Kind
           /\ Shown \subseteq {"data", "active", "stamp", "group"}
           /\ Covered \subseteq Shown
BY EntityAssumption
   DEF TypeOK, Shown, Covered, Kind, Keys, Users, Archivable

\* The entity is chosen once and for all.
LEMMA EntityConstant ==
    ASSUME entity' = entity
    PROVE  /\ Shown' = Shown
           /\ Covered' = Covered
           /\ Entry' = Entry
           /\ Reading' = Reading
<1>1. Shown' = Shown /\ Covered' = Covered
  BY DEF Shown, Covered
<1>2. QED
  BY <1>1 DEF Entry, Reading

LEMMA ViewType ==
    ASSUME TypeOK, row # None
    PROVE  /\ View(row) \in [Shown -> UNION {Value, BOOLEAN, {None}}]
           /\ \A c \in Covered : View(row)[c] = row[c]
<1>1. row \in Row
  BY DEF TypeOK
<1>2. \A c \in {"data", "active", "stamp", "group"} :
          row[c] \in UNION {Value, BOOLEAN, {None}}
  BY <1>1 DEF Row
<1>3. QED
  BY <1>2, EntityTypes DEF View

LEMMA InitInv == Init => CacheInv
<1> SUFFICES ASSUME Init PROVE CacheInv
  OBVIOUS
<1>1. /\ \A r \in Reader : reader[r] = Idle /\ ~Filling(r)
      /\ \A w \in Writer : writer[w] = Idle /\ writer[w].pc # "commit"
  BY DEF Init, Idle, Filling
<1>2. TypeOK
  BY DEF Init, TypeOK, Reading, Writing
<1>3. QED
  BY <1>1, <1>2
     DEF Init, CacheInv, ArchiveColumnsAgree, WriterInv, LoadedFresh, RowFirst,
         CoveredColumnsFresh

LEMMA CreateInv == ASSUME CacheInv, Create PROVE CacheInv'
<1>1. PICK v \in Value, g \in Value :
          row' = [data |-> v, active |-> entity.kind \notin Users,
                  stamp |-> None, group |-> g]
  BY DEF Create
<1>2. row' \in Row /\ row'.stamp = None /\ row'.active = (entity.kind \notin Users)
  BY <1>1 DEF Row
<1>3. row = None /\ UNCHANGED <<entity, entry, missed, reader, writer>>
  BY DEF Create
<1>4. TypeOK'
  BY <1>2, <1>3, EntityConstant DEF CacheInv, TypeOK
<1>5. ArchiveColumnsAgree'
  <2>1. entity.kind \in Archivable => entity.kind \notin Users
    BY DEF Archivable, Users
  <2>2. QED
    BY <1>2, <1>3, <2>1 DEF ArchiveColumnsAgree
<1>6. QED
  BY <1>3, <1>4, <1>5, NoneAssumption
     DEF CacheInv, WriterInv, LoadedFresh, RowFirst, CoveredColumnsFresh, Idle, Filling

\* A handler that begins keeps the invariant if what it is about to set is of
\* its type, archives whole, and leaves alone what its deletion does not cover.
LEMMA BeginInv ==
    ASSUME CacheInv, row # None, NEW w \in Writer, NEW op, NEW new \in Row,
           Begin(w, op, new),
           entity.kind \in Archivable => ArchivesWhole(Changed(new)),
           entity.aud \notin Purges(op) => LeavesCovered(Changed(new))
    PROVE  CacheInv'
<1> DEFINE record == [pc |-> "commit", set |-> Changed(new),
                      purges |-> entity.aud \in Purges(op)]
<1>1. row \in Row
  BY DEF CacheInv, TypeOK
<1>2. Changed(new) \in Update
  BY <1>1 DEF Changed, Update, Row
<1>3. record \in Writing /\ record.pc = "commit"
  BY <1>2 DEF Writing
<1>4. /\ writer \in [Writer -> Writing]
      /\ writer[w] = Idle
      /\ writer' = [writer EXCEPT ![w] = record]
      /\ UNCHANGED <<entity, row, entry, missed, reader>>
  BY DEF Begin, CacheInv, TypeOK
<1> HIDE DEF record
<1>5. TypeOK'
  BY <1>3, <1>4, EntityConstant DEF CacheInv, TypeOK
<1>6. Pending' <=> Pending
  BY <1>3, <1>4 DEF Pending, Idle
<1>7. WriterInv'
  <2>1. record.set = Changed(new) /\ (record.purges <=> entity.aud \in Purges(op))
    BY DEF record
  <2>2. QED
    BY <1>4, <2>1, EntityConstant
       DEF CacheInv, WriterInv, ArchivesWhole, LeavesCovered
<1>8. QED
  BY <1>4, <1>5, <1>6, <1>7, EntityConstant
     DEF CacheInv, ArchiveColumnsAgree, LoadedFresh, RowFirst, CoveredColumnsFresh,
         Filling

\* What an UPDATE does not change it does not set.
LEMMA ChangedColumns ==
    ASSUME row \in Row, NEW new \in Row
    PROVE  /\ \A c \in {"data", "active", "stamp", "group"} :
                 new[c] = row[c] => Changed(new)[c] = Same
           /\ new.active # row.active => Changed(new).active = new.active
           /\ new.stamp # row.stamp => Changed(new).stamp = new.stamp
BY DEF Changed, Row

LEMMA EditInv ==
    ASSUME CacheInv, NEW w \in Writer, Edit(w)
    PROVE  CacheInv'
<1> USE DEF Kind, Users, Archivable
<1>1. row \in Row /\ row # None /\ Same \notin Value \cup {None} \cup BOOLEAN
  BY EntityAssumption DEF Edit, CacheInv, TypeOK
<1>2. entity.kind \in Kind /\ entity.aud \in Keys(entity.kind)
  BY EntityAssumption DEF CacheInv, TypeOK
\* Handlers that write data or the group.
<1>3. CASE \E op \in {"update", "mark", "regroup"}, new \in Row :
                            /\ Begin(w, op, new)
                            /\ new.active = row.active
                            /\ new.stamp = row.stamp
                            /\ op = "update" => entity.kind # "email"
                            /\ op = "mark" => entity.kind = "email"
                            /\ op = "regroup" => /\ entity.kind = "student"
                                                /\ new.data = row.data
  <2>1. PICK op \in {"update", "mark", "regroup"}, new \in Row :
            /\ Begin(w, op, new)
            /\ new.active = row.active
            /\ new.stamp = row.stamp
            /\ op = "mark" => entity.kind = "email"
            /\ op = "regroup" => /\ entity.kind = "student"
                                /\ new.data = row.data
    BY <1>3
  <2>2. ArchivesWhole(Changed(new))
    BY <1>1, <2>1, ChangedColumns DEF ArchivesWhole
  <2>3. entity.aud \notin Purges(op) => LeavesCovered(Changed(new))
    <3>1. CASE op = "update"
      BY <1>2, <3>1 DEF Purges
    <3>2. CASE op = "mark"
      BY <2>1, <3>2 DEF LeavesCovered, Covered
    <3>3. CASE op = "regroup"
      BY <1>1, <2>1, <3>3, ChangedColumns DEF LeavesCovered, Covered
    <3>4. QED
      BY <3>1, <3>2, <3>3
  <2>4. QED
    BY <1>1, <2>1, <2>2, <2>3, BeginInv
\* Handlers that archive or restore.
<1>4. CASE \E op \in {"archive", "restore"}, new \in Row :
                            /\ Begin(w, op, new)
                            /\ entity.kind \in Archivable
                            /\ new.data = row.data
                            /\ new.active # row.active
                            /\ new.stamp # row.stamp
                            /\ (new.active <=> new.stamp = None)
  <2>1. PICK op \in {"archive", "restore"}, new \in Row :
            /\ Begin(w, op, new)
            /\ entity.kind \in Archivable
            /\ new.data = row.data
            /\ new.active # row.active
            /\ new.stamp # row.stamp
            /\ (new.active <=> new.stamp = None)
    BY <1>4
  <2>2. new.active # Same /\ new.stamp # Same
    BY <1>1 DEF Row
  <2>3. Changed(new).active = new.active /\ Changed(new).stamp = new.stamp
    BY <1>1, <2>1, ChangedColumns
  <2>4. ArchivesWhole(Changed(new))
    BY <2>1, <2>2, <2>3 DEF ArchivesWhole
  <2>5. entity.aud \notin Purges(op) => LeavesCovered(Changed(new))
    BY <1>1, <1>2, <2>1, ChangedColumns DEF Purges, Keys, LeavesCovered, Covered
  <2>6. QED
    BY <1>1, <2>1, <2>4, <2>5, BeginInv
\* Handlers that activate or deactivate a user.
<1>5. CASE \E op \in {"deactivate", "activate", "invite"}, new \in Row :
                            /\ Begin(w, op, new)
                            /\ entity.kind \in Users
                            /\ new.data = row.data
  <2>1. PICK op \in {"deactivate", "activate", "invite"}, new \in Row :
            /\ Begin(w, op, new)
            /\ entity.kind \in Users
            /\ new.data = row.data
    BY <1>5
  <2>2. LeavesCovered(Changed(new))
    BY <1>1, <2>1, ChangedColumns DEF LeavesCovered, Covered
  <2>3. QED
    BY <1>1, <2>1, <2>2, BeginInv
<1>6. CASE UpdateEntity(w) \/ UpdateGroupOfStudent(w) \/ MarkEmail(w)
  <2>1. \/ \E v \in Value : /\ Begin(w, "update", [row EXCEPT !.data = v])
                           /\ entity.kind # "email"
        \/ \E v \in Value : /\ Begin(w, "mark", [row EXCEPT !.data = v])
                           /\ entity.kind = "email"
        \/ \E v \in Value : /\ Begin(w, "regroup", [row EXCEPT !.group = v])
                           /\ entity.kind = "student"
    BY <1>6 DEF UpdateEntity, UpdateGroupOfStudent, MarkEmail
  <2>2. \A v \in Value :
            LET data == [row EXCEPT !.data = v]
                group == [row EXCEPT !.group = v]
            IN  /\ data \in Row /\ group \in Row
                /\ data.active = row.active /\ data.stamp = row.stamp
                /\ group.active = row.active /\ group.stamp = row.stamp
                /\ group.data = row.data
    BY <1>1 DEF Row
  <2>3. CASE \E v \in Value : /\ Begin(w, "update", [row EXCEPT !.data = v])
                             /\ entity.kind # "email"
    BY <1>3, <2>2, <2>3
  <2>4. CASE \E v \in Value : /\ Begin(w, "mark", [row EXCEPT !.data = v])
                             /\ entity.kind = "email"
    BY <1>3, <2>2, <2>4
  <2>5. CASE \E v \in Value : /\ Begin(w, "regroup", [row EXCEPT !.group = v])
                             /\ entity.kind = "student"
    BY <1>3, <2>2, <2>5
  <2>6. QED
    BY <2>1, <2>3, <2>4, <2>5
<1>7. entity.kind \in Archivable => (row.active <=> row.stamp = None)
  BY <1>1 DEF CacheInv, ArchiveColumnsAgree
<1>8. CASE ArchiveGroup(w) \/ ArchiveSubject(w)
  <2>1. PICK t \in Value :
            /\ Begin(w, "archive", [row EXCEPT !.active = FALSE, !.stamp = t])
            /\ entity.kind \in Archivable
            /\ row.active
            /\ row.stamp = None
    BY <1>7, <1>8 DEF ArchiveGroup, ArchiveSubject
  <2>2. t # None
    BY EntityAssumption
  <2> DEFINE new == [row EXCEPT !.active = FALSE, !.stamp = t]
  <2>3. /\ new \in Row
        /\ new.data = row.data
        /\ new.active # row.active
        /\ new.stamp # row.stamp
        /\ new.active <=> new.stamp = None
    BY <1>1, <2>1, <2>2 DEF Row
  <2>4. Begin(w, "archive", new)
    BY <2>1
  <2> HIDE DEF new
  <2>5. QED
    BY <1>4, <2>1, <2>3, <2>4
<1>9. CASE RestoreGroup(w) \/ RestoreSubject(w)
  <2>1. /\ Begin(w, "restore", [row EXCEPT !.active = TRUE, !.stamp = None])
        /\ entity.kind \in Archivable
        /\ ~row.active
        /\ row.stamp # None
    BY <1>7, <1>9 DEF RestoreGroup, RestoreSubject
  <2> DEFINE new == [row EXCEPT !.active = TRUE, !.stamp = None]
  <2>2. /\ new \in Row
        /\ new.data = row.data
        /\ new.active # row.active
        /\ new.stamp # row.stamp
        /\ new.active <=> new.stamp = None
    BY <1>1, <2>1 DEF Row
  <2>3. Begin(w, "restore", new)
    BY <2>1
  <2> HIDE DEF new
  <2>4. QED
    BY <1>4, <2>1, <2>2, <2>3
<1>10. CASE DeactivateUser(w) \/ ActivateUser(w) \/ ActivateAccount(w)
  <2>1. PICK op \in {"deactivate", "activate", "invite"}, b \in BOOLEAN :
            /\ Begin(w, op, [row EXCEPT !.active = b])
            /\ entity.kind \in Users
    BY <1>10 DEF DeactivateUser, ActivateUser, ActivateAccount
  <2>2. /\ [row EXCEPT !.active = b] \in Row
        /\ [row EXCEPT !.active = b].data = row.data
    BY <1>1 DEF Row
  <2>3. QED
    BY <1>5, <2>1, <2>2
<1>11. QED
  BY <1>6, <1>8, <1>9, <1>10 DEF Edit

\* A commit that covers the key leaves a deletion to come, one that does not
\* leaves the covered columns alone.
LEMMA CommitInv == ASSUME CacheInv, NEW w \in Writer, Commit(w) PROVE CacheInv'
<1> DEFINE set == writer[w].set
           next == IF writer[w].purges THEN [pc |-> "purge"] ELSE Idle
<1>1. /\ writer[w] \in [pc: {"commit"}, set: Update, purges: BOOLEAN]
      /\ writer \in [Writer -> Writing]
  BY DEF Commit, CacheInv, TypeOK, Writing, Idle
<1>2. row \in Row
  <2>1. writer[w] # Idle
    BY <1>1 DEF Idle
  <2>2. QED
    BY <2>1 DEF CacheInv, TypeOK, RowFirst
<1>3. /\ row' = Updated(set)
      /\ writer' = [writer EXCEPT ![w] = next]
      /\ UNCHANGED <<entity, entry, missed, reader>>
  BY DEF Commit
<1>4. set \in Update /\ writer[w].purges \in BOOLEAN
  BY <1>1
<1>5. row' \in Row
  BY <1>2, <1>3, <1>4 DEF Updated, Update, Row
<1>6. next \in Writing /\ next.pc # "commit"
  BY DEF Writing, Idle
<1>7. TypeOK'
  BY <1>1, <1>3, <1>5, <1>6, EntityConstant DEF CacheInv, TypeOK
<1>8. ArchiveColumnsAgree'
  <2> SUFFICES ASSUME entity.kind \in Archivable
               PROVE  row'.active <=> row'.stamp = None
    BY <1>3 DEF ArchiveColumnsAgree
  <2>1. ArchivesWhole(set) /\ (row.active <=> row.stamp = None)
    BY <1>1, <1>2, NoneAssumption DEF CacheInv, WriterInv, ArchiveColumnsAgree
  <2>2. CASE set.active = Same
    BY <1>3, <2>1, <2>2 DEF Updated, ArchivesWhole
  <2>3. CASE set.active # Same
    BY <1>3, <2>1, <2>3 DEF Updated, ArchivesWhole
  <2>4. QED
    BY <2>2, <2>3
<1>9. WriterInv'
  BY <1>1, <1>3, <1>6, EntityConstant
     DEF CacheInv, WriterInv, ArchivesWhole, LeavesCovered
<1>10. CASE writer[w].purges
  <2>1. Pending'
    BY <1>1, <1>3, <1>10 DEF Pending
  <2>2. QED
    BY <1>3, <1>5, <1>7, <1>8, <1>9, <2>1, NoneAssumption
       DEF CacheInv, LoadedFresh, CoveredColumnsFresh, RowFirst
<1>11. CASE ~writer[w].purges
  <2>1. \A c \in Covered : row'[c] = row[c]
    <3>1. LeavesCovered(set) /\ Covered \subseteq {"data", "active", "stamp", "group"}
      BY <1>1, <1>11, EntityTypes DEF CacheInv, WriterInv
    <3>2. QED
      BY <1>3, <3>1 DEF Updated, LeavesCovered
  <2>2. Pending' <=> Pending
    BY <1>1, <1>3, <1>11 DEF Pending, Idle
  <2>3. LoadedFresh' /\ CoveredColumnsFresh'
    BY <1>3, <2>1, <2>2, EntityConstant
       DEF CacheInv, LoadedFresh, CoveredColumnsFresh, Filling
  <2>4. QED
    BY <1>3, <1>5, <1>7, <1>8, <1>9, <2>3, NoneAssumption DEF CacheInv, RowFirst
<1>12. QED
  BY <1>4, <1>10, <1>11

\* A deletion empties the key and marks the fills it overtakes, or is recorded
\* as missed.
LEMMA PurgeInv == ASSUME CacheInv, NEW w \in Writer, Purge(w) PROVE CacheInv'
<1>1. /\ writer' = [writer EXCEPT ![w] = Idle]
      /\ writer[w] # Idle
      /\ UNCHANGED <<entity, row>>
      /\ row # None
  BY DEF Purge, CacheInv, RowFirst, Idle
<1>2. writer' \in [Writer -> Writing] /\ WriterInv'
  BY <1>1, EntityConstant
     DEF CacheInv, TypeOK, Writing, WriterInv, Idle, ArchivesWhole, LeavesCovered
<1>3. CASE /\ entry' = None
           /\ missed' = FALSE
           /\ reader' = [r \in Reader |->
                            IF Filling(r) THEN [reader[r] EXCEPT !.overtaken = TRUE]
                                          ELSE reader[r]]
  <2>1. \A r \in Reader : reader'[r] \in Reading
    <3>1. SUFFICES ASSUME NEW r \in Reader PROVE reader'[r] \in Reading
      OBVIOUS
    <3>2. CASE Filling(r)
      <4>1. reader[r] \in [pc: {"fill"}, view: [Shown -> UNION {Value, BOOLEAN, {None}}],
                           overtaken: BOOLEAN]
        BY <3>2 DEF CacheInv, TypeOK, Reading, Filling, Idle
      <4>2. QED
        BY <1>3, <3>2, <4>1 DEF Reading
    <3>3. CASE ~Filling(r)
      BY <1>3, <3>3 DEF CacheInv, TypeOK
    <3>4. QED
      BY <3>2, <3>3
  <2>2. \A r \in Reader : Filling(r)' => reader'[r].overtaken
    <3>1. SUFFICES ASSUME NEW r \in Reader, Filling(r)' PROVE reader'[r].overtaken
      OBVIOUS
    <3>2. Filling(r)
      BY <1>3, <3>1 DEF Filling
    <3>3. reader[r] \in [pc: {"fill"}, view: [Shown -> UNION {Value, BOOLEAN, {None}}],
                         overtaken: BOOLEAN]
      BY <3>2 DEF CacheInv, TypeOK, Reading, Filling, Idle
    <3>4. QED
      BY <1>3, <3>2, <3>3
  <2>3. TypeOK'
    BY <1>1, <1>2, <1>3, <2>1, EntityConstant DEF CacheInv, TypeOK
  <2>4. QED
    BY <1>1, <1>2, <1>3, <2>2, <2>3
       DEF CacheInv, ArchiveColumnsAgree, LoadedFresh, RowFirst, CoveredColumnsFresh
<1>4. CASE missed' = TRUE /\ UNCHANGED <<entry, reader>>
  BY <1>1, <1>2, <1>4, EntityConstant
     DEF CacheInv, TypeOK, ArchiveColumnsAgree, LoadedFresh, RowFirst,
         CoveredColumnsFresh
<1>5. QED
  BY <1>3, <1>4 DEF Purge

\* A step of one read that neither stores nor deletes anything.
LEMMA ReaderStep ==
    ASSUME CacheInv, NEW r \in Reader, NEW next \in Reading,
           reader' = [reader EXCEPT ![r] = next],
           UNCHANGED <<entity, row, entry, missed, writer>>,
           next.pc = "fill" => /\ row # None
                               /\ \A c \in Covered : next.view[c] = row[c]
    PROVE  CacheInv'
<1>1. TypeOK'
  BY EntityConstant DEF CacheInv, TypeOK
<1>2. \A q \in Reader : reader'[q] = IF q = r THEN next ELSE reader[q]
  BY DEF CacheInv, TypeOK
<1>3. (Pending' <=> Pending) /\ Covered' = Covered
  BY EntityConstant DEF Pending
<1>4. LoadedFresh' /\ RowFirst'
  BY <1>2, <1>3 DEF CacheInv, LoadedFresh, RowFirst, Filling
<1>5. QED
  BY <1>1, <1>3, <1>4, EntityConstant
     DEF CacheInv, ArchiveColumnsAgree, WriterInv, CoveredColumnsFresh,
         ArchivesWhole, LeavesCovered

LEMMA IdleReading == Idle \in Reading /\ Idle.pc = "idle"
BY DEF Reading, Idle

LEMMA LoadInv == ASSUME CacheInv, NEW r \in Reader, Load(r) PROVE CacheInv'
<1> DEFINE record == [pc |-> "fill", view |-> View(row), overtaken |-> FALSE]
           loads == reader[r].want = entity.kind /\ row # None
<1>1. /\ reader' = [reader EXCEPT ![r] = IF loads THEN record ELSE Idle]
      /\ UNCHANGED <<entity, row, entry, missed, writer>>
  BY DEF Load
<1>2. CASE loads
  <2>1. record \in Reading
    BY <1>2, ViewType DEF Reading, CacheInv
  <2>2. row # None /\ \A c \in Covered : record.view[c] = row[c]
    BY <1>2, ViewType DEF CacheInv
  <2> HIDE DEF record
  <2>3. QED
    BY <1>1, <1>2, <2>1, <2>2, ReaderStep
<1>3. CASE ~loads
  BY <1>1, <1>3, IdleReading, ReaderStep
<1>4. QED
  BY <1>2, <1>3

LEMMA ReadInv == ASSUME CacheInv, NEW r \in Reader, Read(r) PROVE CacheInv'
<1>1. CASE CheckCache(r)
  <2>1. PICK pc \in {"hit", "load"} :
            /\ reader' = [reader EXCEPT ![r].pc = pc]
            /\ UNCHANGED <<entity, row, entry, missed, writer>>
    BY <1>1 DEF CheckCache
  <2>2. reader[r] \in [pc: {"get", "load", "hit"}, want: Kind]
    BY <1>1 DEF CheckCache, CacheInv, TypeOK, Reading, Idle
  <2> DEFINE next == [reader[r] EXCEPT !.pc = pc]
  <2>3. next \in Reading /\ next.pc # "fill"
    BY <2>2 DEF Reading
  <2>4. reader' = [reader EXCEPT ![r] = next]
    BY <2>1
  <2> HIDE DEF next
  <2>5. QED
    BY <2>1, <2>3, <2>4, ReaderStep
<1>2. CASE Load(r)
  BY <1>2, LoadInv
<1>3. CASE Fill(r)
  <2> DEFINE stored == [view |-> reader[r].view, overtaken |-> reader[r].overtaken]
  <2>1. reader[r] \in [pc: {"fill"}, view: [Shown -> UNION {Value, BOOLEAN, {None}}],
                       overtaken: BOOLEAN]
    BY <1>3 DEF Fill, Filling, CacheInv, TypeOK, Reading, Idle
  <2>2. stored \in Entry
    BY <2>1 DEF Entry
  <2>3. /\ entry' \in {stored, entry}
        /\ reader' = [reader EXCEPT ![r] = Idle]
        /\ UNCHANGED <<entity, row, missed, writer>>
        /\ Filling(r)
    BY <1>3 DEF Fill, Redis
  <2>4. row # None
    BY <2>3 DEF CacheInv, RowFirst
  <2>5. TypeOK'
    BY <2>2, <2>3, IdleReading, EntityConstant DEF CacheInv, TypeOK
  <2>6. (Pending' <=> Pending) /\ Covered' = Covered
    BY <2>3, EntityConstant DEF Pending
  <2>7. \A q \in Reader : Filling(q)' => Filling(q) /\ reader'[q] = reader[q]
    BY <2>3, IdleReading DEF CacheInv, TypeOK, Filling
  <2>8. LoadedFresh'
    BY <2>3, <2>6, <2>7 DEF CacheInv, LoadedFresh
  <2>9. CoveredColumnsFresh'
    <3>1. CASE entry' = entry
      BY <2>3, <2>6, <3>1 DEF CacheInv, CoveredColumnsFresh
    <3>2. CASE entry' = stored
      <4>1. /\ entry'.view = reader[r].view
            /\ entry'.overtaken = reader[r].overtaken
        BY <3>2
      <4>2. QED
        BY <2>3, <2>6, <4>1 DEF CacheInv, LoadedFresh, CoveredColumnsFresh
    <3>3. QED
      BY <2>3, <3>1, <3>2
  <2>10. QED
    BY <2>3, <2>4, <2>5, <2>8, <2>9, EntityConstant
       DEF CacheInv, ArchiveColumnsAgree, WriterInv, RowFirst, ArchivesWhole,
           LeavesCovered
<1>4. CASE Answer(r)
  BY <1>4, IdleReading, ReaderStep DEF Answer
<1>5. QED
  BY <1>1, <1>2, <1>3, <1>4 DEF Read

LEMMA GetInv == ASSUME CacheInv, NEW r \in Reader, Get(r) PROVE CacheInv'
<1>1. PICK k \in Wants : reader' = [reader EXCEPT ![r] = [pc |-> "get", want |-> k]]
  BY DEF Get
<1>2. k \in Kind
  BY EntityTypes DEF Wants, Kind, CacheInv
<1>3. [pc |-> "get", want |-> k] \in Reading
  BY <1>2 DEF Reading
<1>4. QED
  BY <1>1, <1>3, ReaderStep DEF Get

LEMMA DropWriterInv ==
    ASSUME CacheInv, NEW w \in Writer, DropWriter(w) PROVE CacheInv'
<1>1. /\ writer' = [writer EXCEPT ![w] = Idle]
      /\ missed' = (missed \/ writer[w].pc = "purge")
      /\ UNCHANGED <<entity, row, entry, reader>>
      /\ writer[w] # Idle
  BY DEF DropWriter
<1>2. missed' \in BOOLEAN
  BY <1>1
<1>3. writer' \in [Writer -> Writing] /\ WriterInv'
  BY <1>1, EntityConstant
     DEF CacheInv, TypeOK, Writing, WriterInv, Idle, ArchivesWhole, LeavesCovered
<1>4. Pending => Pending' \/ missed'
  BY <1>1 DEF Pending, CacheInv, TypeOK
<1>5. missed => missed'
  BY <1>1
<1>6. QED
  BY <1>1, <1>2, <1>3, <1>4, <1>5, EntityConstant
     DEF CacheInv, TypeOK, ArchiveColumnsAgree, LoadedFresh, RowFirst,
         CoveredColumnsFresh, Filling

LEMMA NextInv == ASSUME CacheInv, [Next]_vars PROVE CacheInv'
<1>1. CASE Create
  BY <1>1, CreateInv
<1>2. ASSUME NEW r \in Reader, Get(r) \/ Read(r) \/ DropReader(r) PROVE CacheInv'
  <2>1. CASE DropReader(r)
    BY <2>1, IdleReading, ReaderStep DEF DropReader
  <2>2. QED
    BY <1>2, <2>1, GetInv, ReadInv
<1>3. ASSUME NEW w \in Writer, Edit(w) \/ Write(w) \/ DropWriter(w) PROVE CacheInv'
  BY <1>3, EditInv, CommitInv, PurgeInv, DropWriterInv DEF Write
<1>4. CASE Expire
  BY <1>4, EntityConstant
     DEF Expire, CacheInv, TypeOK, ArchiveColumnsAgree, WriterInv, LoadedFresh,
         RowFirst, CoveredColumnsFresh, Pending, Filling, ArchivesWhole,
         LeavesCovered
<1>5. CASE UNCHANGED vars
  BY <1>5, EntityConstant
     DEF vars, CacheInv, TypeOK, ArchiveColumnsAgree, WriterInv, LoadedFresh,
         RowFirst, CoveredColumnsFresh, Pending, Filling, ArchivesWhole,
         LeavesCovered
<1>6. QED
  BY <1>1, <1>2, <1>3, <1>4, <1>5 DEF Next

\* The invariant holds in every state.
THEOREM CacheCorrect == Spec => []CacheInv
BY InitInv, NextInv, PTL DEF Spec

-----------------------------------------------------------------------------
\* Type correctness: what is stored always has the shape its schema expects.
THEOREM TypeCorrect == Spec => []TypeOK
<1>1. CacheInv => TypeOK
  BY DEF CacheInv
<1>2. QED
  BY <1>1, CacheCorrect, PTL

\* is_archived and archived_at stay a pair, however archive_group,
\* restore_group and their counterparts for subjects overlap.
THEOREM ArchiveColumnsStayPaired == Spec => []ArchiveColumnsAgree
<1>1. CacheInv => ArchiveColumnsAgree
  BY DEF CacheInv
<1>2. QED
  BY <1>1, CacheCorrect, PTL

\* Explicit invalidation: an entry that no deletion overtook, of a key whose
\* deletions all succeeded, shows the covered columns of the row.
THEOREM CoveredColumnsStayFresh == Spec => []CoveredColumnsFresh
<1>1. CacheInv => CoveredColumnsFresh
  BY DEF CacheInv
<1>2. QED
  BY <1>1, CacheCorrect, PTL

=============================================================================
