-------------------------- MODULE AuthSessionProofs --------------------------
(***************************************************************************)
(* Proofs about AuthSession, for any number of overlapping requests and    *)
(* any bounds.                                                             *)
(***************************************************************************)
EXTENDS AuthSession, TLAPS

\* Besides its type, a request that is past reading has a snapshot, and the two
\* columns of the session agree in it: what it leaves alone agreed when it was
\* read.
SnapshotsAgree ==
    \A r \in Req :
        req[r] # Idle =>
            /\ req[r].pc \in {"fill", "commit", "purge"} => req[r].snap # None
            /\ req[r].snap # None => req[r].snap.hash = req[r].snap.fam

SessionInv == TypeOK /\ RefreshColumnsAgree /\ SnapshotsAgree

Snapshot(r) == req[r].snap

LEMMA InitInv == Init => SessionInv
BY AuthAssumption
   DEF Init, SessionInv, TypeOK, Row, Gap, RefreshColumnsAgree, SnapshotsAgree

\* A request begins, and it either has no snapshot or has the row.
LEMMA BeginInv ==
    ASSUME SessionInv, NEW r \in Req, NEW pc \in {"auth", "commit"}, NEW op \in Op,
           NEW ver \in Nat, NEW tok \in Nat, NEW snap \in {row, None},
           pc = "commit" => snap = row, Begin(r, pc, op, ver, tok, snap)
    PROVE  SessionInv'
<1> DEFINE new == [pc |-> pc, op |-> op, ver |-> ver, tok |-> tok,
                   snap |-> snap, overtaken |-> FALSE]
<1>1. row \in Row /\ row # None /\ row.hash = row.fam
  BY NoneAssumption DEF SessionInv, TypeOK, RefreshColumnsAgree
<1>3. new \in Request
  BY <1>1 DEF Request
<1>4. req' = [req EXCEPT ![r] = new]
  BY DEF Begin
<1>5. TypeOK'
  BY <1>3, <1>4 DEF Begin, SessionInv, TypeOK
<1>6. SnapshotsAgree'
  BY <1>1, <1>4 DEF SessionInv, SnapshotsAgree, TypeOK
<1>7. QED
  BY <1>5, <1>6 DEF SessionInv, RefreshColumnsAgree, Begin

LEMMA ArriveInv == ASSUME SessionInv, NEW r \in Req, Arrive(r) PROVE SessionInv'
<1>1. CASE PresentAccessToken(r)
  <2>1. PICK op \in SelfOp, v \in granted : Begin(r, "auth", op, v, 0, None)
    BY <1>1 DEF PresentAccessToken
  <2>2. op \in Op /\ v \in Nat
    BY DEF Op, SessionInv, TypeOK
  <2>3. QED
    BY <2>1, <2>2, BeginInv
<1>2. CASE RefreshToken(r)
  <2>1. PICK tok \in 1..issued, op \in {"refresh", "invalidate"} :
            Begin(r, "commit", op, 0, tok, row)
    BY <1>2 DEF RefreshToken
  <2>2. op \in Op /\ tok \in Nat
    BY DEF Op, Bumps, Mints, SessionInv, TypeOK
  <2>3. QED
    BY <2>1, <2>2, BeginInv
<1>3. CASE \E op \in {"login", "override", "deactivate", "activate"} :
               Begin(r, "commit", op, 0, 0, row)
  <2>1. {"login", "override", "deactivate", "activate"} \subseteq Op
    BY DEF Op, Bumps, Mints
  <2>2. QED
    BY <1>3, <2>1, BeginInv
<1>4. QED
  BY <1>1, <1>2, <1>3
     DEF Arrive, Login, Override, DeactivateUser, ActivateUser

\* The request ends; nothing else about requests changes.
LEMMA FinishRequests ==
    ASSUME SessionInv, NEW r \in Req, Finish(r)
    PROVE  /\ req' \in [Req -> Request \cup {Idle}]
           /\ SnapshotsAgree'
BY DEF Finish, SessionInv, TypeOK, SnapshotsAgree

LEMMA ReadInv ==
    ASSUME SessionInv, NEW r \in Req,
           CheckCache(r) \/ LoadUser(r) \/ FillCache(r) \/ Handle(r)
    PROVE  SessionInv'
<1> DEFINE q == req[r]
<1>1. q \in Request /\ q # Idle
  BY DEF CheckCache, LoadUser, FillCache, Filling, Handle, SessionInv, TypeOK, Idle
<1>2. row \in Row /\ row # None /\ row.hash = row.fam
  BY NoneAssumption DEF SessionInv, TypeOK, RefreshColumnsAgree
<1>3. UNCHANGED <<row, issued, granted>>
  BY DEF CheckCache, LoadUser, FillCache, Handle
<1>4. cache' \in Nat \cup {None} /\ gap' \in Gap
  <2>1. CASE FillCache(r)
    <3>1. q.snap \in Row
      BY <1>1, <2>1 DEF FillCache, Filling, SessionInv, SnapshotsAgree, Request
    <3>2. q.snap.ver \in Nat /\ q.overtaken \in BOOLEAN
      BY <1>1, <3>1 DEF Row, Request
    <3>3. QED
      BY <2>1, <3>2 DEF FillCache, SessionInv, TypeOK, Gap
  <2>2. CASE ~FillCache(r)
    BY <2>2 DEF CheckCache, LoadUser, Handle, SessionInv, TypeOK
  <2>3. QED
    BY <2>1, <2>2
<1>5. CASE Finish(r)
  BY <1>3, <1>4, <1>5, FinishRequests DEF SessionInv, TypeOK, RefreshColumnsAgree
<1>6. CASE ~Finish(r)
  <2>1. PICK pc \in {"load", "fill", "handle", "commit"}, snap \in {q.snap, row},
             late \in BOOLEAN :
            /\ req' = [req EXCEPT ![r] = [q EXCEPT !.pc = pc, !.snap = snap,
                                                   !.overtaken = late]]
            /\ pc \in {"fill", "commit"} => snap # None
    <3>1. CASE CheckCache(r)
      <4>1. PICK pc \in {"load", "handle"} : req' = [req EXCEPT ![r].pc = pc]
        BY <1>6, <3>1 DEF CheckCache
      <4>2. req' = [req EXCEPT ![r] = [q EXCEPT !.pc = pc, !.snap = q.snap,
                                                      !.overtaken = q.overtaken]]
        BY <1>1, <4>1 DEF SessionInv, TypeOK, Request
      <4>3. QED
        BY <1>1, <4>2 DEF Request
    <3>2. CASE LoadUser(r)
      <4>1. req' = [req EXCEPT ![r] = [q EXCEPT !.pc = "fill", !.snap = row,
                                                      !.overtaken = q.overtaken]]
        BY <1>1, <1>6, <3>2 DEF LoadUser, SessionInv, TypeOK, Request
      <4>2. QED
        BY <1>1, <1>2, <4>1 DEF Request
    <3>3. CASE FillCache(r)
      <4>1. req' = [req EXCEPT ![r] = [q EXCEPT !.pc = "handle", !.snap = q.snap,
                                                      !.overtaken = FALSE]]
        BY <1>1, <3>3 DEF FillCache, SessionInv, TypeOK, Request
      <4>2. QED
        BY <4>1
    <3>4. CASE Handle(r)
      <4>1. PICK snap \in {row, q.snap} \ {None} :
                req' = [req EXCEPT ![r].pc = "commit", ![r].snap = snap]
        BY <1>6, <3>4 DEF Handle
      <4>2. req' = [req EXCEPT ![r] = [q EXCEPT !.pc = "commit", !.snap = snap,
                                                      !.overtaken = q.overtaken]]
        BY <1>1, <4>1 DEF SessionInv, TypeOK, Request
      <4>3. snap \in {q.snap, row} /\ snap # None
        BY <4>1
      <4>4. QED
        BY <1>1, <4>2, <4>3 DEF Request
    <3>5. QED
      BY <3>1, <3>2, <3>3, <3>4
  <2> DEFINE new == [q EXCEPT !.pc = pc, !.snap = snap, !.overtaken = late]
  <2>2. new \in Request /\ new.pc = pc /\ new.snap = snap
    BY <1>1, <1>2 DEF Request
  <2>3. snap # None => snap.hash = snap.fam
    BY <1>1, <1>2 DEF SessionInv, SnapshotsAgree
  <2>4. req' \in [Req -> Request \cup {Idle}]
    BY <2>1, <2>2 DEF SessionInv, TypeOK
  <2>5. SnapshotsAgree'
    BY <2>1, <2>2, <2>3 DEF SessionInv, SnapshotsAgree, TypeOK
  <2>6. QED
    BY <1>3, <1>4, <2>4, <2>5 DEF SessionInv, TypeOK, RefreshColumnsAgree
<1>7. QED
  BY <1>5, <1>6

\* What a commit writes to the session columns: both, and the same to both.
LEMMA FlushAgrees ==
    ASSUME NEW op \in Op, NEW snap \in Row, NEW tok \in Nat, row \in Row,
           snap.hash = snap.fam, row.hash = row.fam
    PROVE  LET f == Flush(NewRow(op, snap, tok), snap)
           IN  /\ f \in Row
               /\ f.hash = f.fam
               /\ f.hash \in {row.hash, IF op \in Mints THEN tok ELSE None}
<1> DEFINE new == NewRow(op, snap, tok)
           f == Flush(new, snap)
<1>1. new.ver \in Nat /\ new.active \in BOOLEAN
  <2>1. snap.ver \in Nat /\ snap.active \in BOOLEAN
    BY DEF Row
  <2>2. new.ver = IF op \in Bumps THEN snap.ver + 1 ELSE snap.ver
    BY DEF NewRow
  <2>3. new.active = IF op \in {"activate", "deactivate"} THEN op = "activate"
                                                         ELSE snap.active
    BY DEF NewRow
  <2>4. (op = "activate") \in BOOLEAN
    OBVIOUS
  <2>5. new.active \in BOOLEAN
    BY <2>1, <2>3, <2>4, Zenon
  <2>6. QED
    BY <2>1, <2>2, <2>5
<1>2. /\ new.hash = new.fam
      /\ new.hash \in {snap.hash, IF op \in Mints THEN tok ELSE None}
  BY DEF NewRow, Clears, Bumps, Mints
<1>3. f.hash = f.fam /\ f.hash \in {row.hash, IF op \in Mints THEN tok ELSE None}
  BY <1>2 DEF Flush
<1>4. f \in Row
  BY <1>1, <1>3 DEF Flush, Row
<1>5. QED
  BY <1>3, <1>4

LEMMA CommitInv ==
    ASSUME SessionInv, NEW r \in Req, Commit(r)
    PROVE  /\ SessionInv'
           /\ \/ issued' = issued + 1 /\ row'.hash \in {row.hash, issued + 1}
              \/ issued' = issued /\ row'.hash \in {row.hash, None}
<1> DEFINE q == req[r]
<1>1. q \in Request /\ q # Idle /\ q.pc = "commit" /\ q.op \in Op
  BY DEF Commit, SessionInv, TypeOK, Idle, Request
<1>2. q.snap \in Row /\ q.snap.hash = q.snap.fam
  BY <1>1 DEF SessionInv, SnapshotsAgree, Request
<1>3. /\ row' = Flush(NewRow(q.op, q.snap, issued + 1), q.snap)
      /\ cache' = cache /\ gap' = gap
  BY DEF Commit
<1>4. /\ row' \in Row /\ row'.hash = row'.fam
      /\ row'.hash \in {row.hash, IF q.op \in Mints THEN issued + 1 ELSE None}
  <2>1. issued + 1 \in Nat /\ row \in Row /\ row.hash = row.fam
    BY DEF SessionInv, TypeOK, RefreshColumnsAgree
  <2> DEFINE f == Flush(NewRow(q.op, q.snap, issued + 1), q.snap)
  <2>2. /\ f \in Row /\ f.hash = f.fam
        /\ f.hash \in {row.hash, IF q.op \in Mints THEN issued + 1 ELSE None}
    BY <1>1, <1>2, <2>1, FlushAgrees
  <2>3. QED
    BY <1>3, <2>2
<1>5. issued' \in Nat /\ granted' \subseteq Nat
  BY <1>2 DEF Commit, SessionInv, TypeOK, Row
<1>6. req' \in [Req -> Request \cup {Idle}] /\ SnapshotsAgree'
  <2>1. CASE Finish(r)
    BY <2>1, FinishRequests
  <2>2. CASE req' = [req EXCEPT ![r].pc = "purge"]
    <3> DEFINE new == [q EXCEPT !.pc = "purge"]
    <3>1. req' = [req EXCEPT ![r] = new]
      BY <2>2
    <3>2. new \in Request /\ new.snap = q.snap /\ new.pc = "purge"
      BY <1>1 DEF Request
    <3>3. req' \in [Req -> Request \cup {Idle}]
      BY <3>1, <3>2 DEF SessionInv, TypeOK
    <3>4. q.snap # None
      BY <1>1 DEF SessionInv, SnapshotsAgree
    <3>5. SnapshotsAgree'
      BY <1>2, <3>1, <3>2, <3>4 DEF SessionInv, SnapshotsAgree, TypeOK
    <3>6. QED
      BY <3>3, <3>5
  <2>3. QED
    BY <2>1, <2>2 DEF Commit
<1>7. issued' = IF q.op \in Mints THEN issued + 1 ELSE issued
  BY DEF Commit
<1>8. SessionInv'
  BY <1>3, <1>4, <1>5, <1>6 DEF SessionInv, TypeOK, RefreshColumnsAgree
<1>9. QED
  BY <1>4, <1>7, <1>8

LEMMA PurgeInv == ASSUME SessionInv, NEW r \in Req, Purge(r) PROVE SessionInv'
<1>1. cache' \in Nat \cup {None} /\ gap' \in Gap /\ UNCHANGED <<row, issued, granted>>
  <2>1. cache \in Nat \cup {None} /\ gap \in Gap
    BY DEF SessionInv, TypeOK
  <2>2. /\ UNCHANGED <<row, issued, granted>>
        /\ \/ cache' = None /\ gap' = [missed |-> FALSE, late |-> FALSE]
           \/ cache' = cache /\ gap' = [gap EXCEPT !.missed = TRUE]
    BY DEF Purge
  <2>3. /\ [missed |-> FALSE, late |-> FALSE] \in Gap
        /\ [gap EXCEPT !.missed = TRUE] \in Gap
    BY <2>1 DEF Gap
  <2>4. QED
    BY <2>1, <2>2, <2>3
<1>2. CASE Finish(r)
  BY <1>1, <1>2, FinishRequests DEF SessionInv, TypeOK, RefreshColumnsAgree
<1>3. CASE req' = [s \in Req |->
                      IF s = r THEN Idle
                      ELSE IF Filling(s) THEN [req[s] EXCEPT !.overtaken = TRUE]
                                         ELSE req[s]]
  <2>1. ASSUME NEW s \in Req, req'[s] # Idle
        PROVE  /\ req'[s] \in Request /\ req[s] # Idle
               /\ req'[s].pc = req[s].pc /\ req'[s].snap = req[s].snap
    <3>1. req[s] # Idle /\ req'[s] \in {req[s], [req[s] EXCEPT !.overtaken = TRUE]}
      BY <1>3, <2>1 DEF Filling
    <3>2. req[s] \in Request
      BY <3>1 DEF SessionInv, TypeOK
    <3>3. QED
      BY <3>1, <3>2 DEF Request
  <2>2. req' \in [Req -> Request \cup {Idle}]
    BY <1>3, <2>1
  <2>3. SnapshotsAgree'
    BY <2>1 DEF SessionInv, SnapshotsAgree
  <2>4. QED
    BY <1>1, <2>2, <2>3 DEF SessionInv, TypeOK, RefreshColumnsAgree
<1>4. QED
  BY <1>2, <1>3 DEF Purge

LEMMA StepInv == SessionInv /\ [Next]_vars => SessionInv'
<1> SUFFICES ASSUME SessionInv, [Next]_vars PROVE SessionInv'
  OBVIOUS
<1>1. CASE UNCHANGED vars
  BY <1>1 DEF vars, SessionInv, TypeOK, RefreshColumnsAgree, SnapshotsAgree
<1>2. CASE Expire
  BY <1>2 DEF Expire, SessionInv, TypeOK, Gap, RefreshColumnsAgree, SnapshotsAgree
<1>3. ASSUME NEW r \in Req, Drop(r)
      PROVE  SessionInv'
  BY <1>3, FinishRequests DEF Drop, SessionInv, TypeOK, Gap, RefreshColumnsAgree
<1>4. QED
  BY <1>1, <1>2, <1>3, ArriveInv, ReadInv, CommitInv, PurgeInv DEF Next, Progress

LEMMA SessionInvariant == Spec => []SessionInv
BY InitInv, StepInv, PTL DEF Spec

-----------------------------------------------------------------------------
\* What a request is about to store is true of the row, with the same exceptions
\* as what is stored.
FillsFresh ==
    \A r \in Req :
        Filling(r) /\ ~req[r].overtaken /\ ~gap.missed /\ ~Pending =>
            req[r].snap.ver = row.ver /\ row.active

FreshInv == CachedVersionFresh /\ FillsFresh

\* A step after which no more fills are on their way, and no fewer purges.
LEMMA FreshKept ==
    ASSUME FreshInv, Pending => Pending' \/ gap'.missed,
           gap'.missed \/ ~gap.missed,
           cache' = None \/ (cache' = cache /\ gap'.late = gap.late),
           row'.ver = row.ver, row.active => row'.active,
           \A r \in Req : Filling(r)' /\ ~req'[r].overtaken =>
               Filling(r) /\ ~req[r].overtaken /\ req'[r].snap = req[r].snap
    PROVE  FreshInv'
BY DEF FreshInv, CachedVersionFresh, FillsFresh

\* A commit that leaves the cached version alone neither increments the version
\* nor deactivates the account.
LEMMA CommitWithoutPurge ==
    ASSUME NEW op \in Op \ Bumps, NEW snap \in Row, NEW tok, row \in Row
    PROVE  LET f == Flush(NewRow(op, snap, tok), snap)
           IN  f.ver = row.ver /\ (row.active => f.active)
<1> DEFINE new == NewRow(op, snap, tok)
<1>1. new.ver = snap.ver
  BY DEF NewRow
<1>2. op # "deactivate" /\ (new.active = TRUE \/ new.active = snap.active)
  BY DEF NewRow, Bumps
<1>3. QED
  BY <1>1, <1>2 DEF Flush

LEMMA InitFresh == Init => FreshInv
BY DEF Init, FreshInv, CachedVersionFresh, FillsFresh, Filling, Idle

LEMMA StepFresh ==
    ASSUME SessionInv, FreshInv, [Next]_vars
    PROVE  FreshInv'
<1>0. TypeOK /\ gap \in Gap /\ \A r \in Req : req[r] # Idle => req[r] \in Request
  BY DEF SessionInv, TypeOK
<1>1. ASSUME NEW r \in Req, NEW q, req' = [req EXCEPT ![r] = q],
             q = Idle \/ q.pc \notin {"fill"},
             UNCHANGED <<row, cache, gap>>, req[r] = Idle \/ req[r].pc # "purge"
      PROVE  FreshInv'
  <2>1. \A s \in Req \ {r} : req'[s] = req[s]
    BY <1>0, <1>1 DEF TypeOK
  <2>2. Pending => Pending'
    BY <1>1, <2>1 DEF Pending
  <2>3. req'[r] = q
    BY <1>0, <1>1 DEF TypeOK
  <2>4. \A s \in Req : Filling(s)' => Filling(s) /\ req'[s] = req[s]
    BY <1>1, <2>1, <2>3 DEF Filling
  <2>5. QED
    BY <1>1, <2>2, <2>4, FreshKept
<1>2. ASSUME NEW r \in Req, Arrive(r) PROVE FreshInv'
  <2>1. \E pc \in {"auth", "commit"} : \E op, ver, tok, snap :
            Begin(r, pc, op, ver, tok, snap)
    BY <1>2 DEF Arrive, PresentAccessToken, Login, RefreshToken, Override,
                DeactivateUser, ActivateUser
  <2>2. PICK pc \in {"auth", "commit"} : \E op, ver, tok, snap :
            Begin(r, pc, op, ver, tok, snap)
    BY <2>1
  <2>3. PICK op, ver, tok, snap : Begin(r, pc, op, ver, tok, snap)
    BY <2>2
  <2> DEFINE new == [pc |-> pc, op |-> op, ver |-> ver, tok |-> tok, snap |-> snap,
                     overtaken |-> FALSE]
  <2>4. /\ req[r] = Idle /\ req' = [req EXCEPT ![r] = new]
        /\ UNCHANGED <<row, cache, gap>> /\ new.pc = pc
    BY <2>3 DEF Begin
  <2> HIDE DEF new
  <2>5. QED
    BY <1>1, <2>4
<1>3. ASSUME NEW r \in Req, CheckCache(r) \/ Handle(r) PROVE FreshInv'
  <2>1. req[r] # Idle /\ req[r] \in Request /\ req[r].pc # "purge"
    BY <1>0, <1>3 DEF CheckCache, Handle, Idle, TypeOK
  <2>2. PICK q : req' = [req EXCEPT ![r] = q] /\ (q = Idle \/ q.pc # "fill")
    <3>1. CASE Finish(r)
      BY <3>1 DEF Finish
    <3>2. CASE \E pc \in {"load", "handle"} : req' = [req EXCEPT ![r].pc = pc]
      <4>1. PICK pc \in {"load", "handle"} : req' = [req EXCEPT ![r].pc = pc]
        BY <3>2
      <4>2. req' = [req EXCEPT ![r] = [req[r] EXCEPT !.pc = pc]]
        BY <4>1
      <4>3. [req[r] EXCEPT !.pc = pc].pc = pc
        BY <2>1 DEF Request
      <4>4. QED
        BY <4>2, <4>3
    <3>3. CASE \E snap : req' = [req EXCEPT ![r].pc = "commit", ![r].snap = snap]
      <4>1. PICK snap : req' = [req EXCEPT ![r].pc = "commit", ![r].snap = snap]
        BY <3>3
      <4>2. req' = [req EXCEPT ![r] = [req[r] EXCEPT !.pc = "commit", !.snap = snap]]
        BY <1>0, <4>1 DEF TypeOK
      <4>3. [req[r] EXCEPT !.pc = "commit", !.snap = snap].pc = "commit"
        BY <2>1 DEF Request
      <4>4. QED
        BY <4>2, <4>3
    <3>4. QED
      BY <1>3, <3>1, <3>2, <3>3 DEF CheckCache, Handle
  <2>3. UNCHANGED <<row, cache, gap>>
    BY <1>3 DEF CheckCache, Handle
  <2>4. QED
    BY <1>1, <2>1, <2>2, <2>3
<1>4. ASSUME NEW r \in Req, LoadUser(r) PROVE FreshInv'
  <2>1. req[r] # Idle /\ req[r] \in Request /\ req[r].pc = "load"
    BY <1>0, <1>4 DEF LoadUser, Idle, TypeOK
  <2>2. UNCHANGED <<row, cache, gap>>
    BY <1>4 DEF LoadUser
  <2>3. CASE Finish(r)
    BY <1>1, <2>1, <2>2, <2>3 DEF Finish
  <2>4. CASE row.active /\ req' = [req EXCEPT ![r].pc = "fill", ![r].snap = row]
    <3>1. /\ \A s \in Req \ {r} : req'[s] = req[s]
          /\ req'[r].pc = "fill" /\ req'[r].snap = row
      BY <1>0, <2>1, <2>4 DEF TypeOK, Request
    <3>2. Pending => Pending'
      BY <2>1, <3>1 DEF Pending
    <3>3. CachedVersionFresh'
      BY <2>2, <3>2 DEF FreshInv, CachedVersionFresh
    <3>4. FillsFresh'
      BY <2>2, <2>4, <3>1, <3>2 DEF FreshInv, FillsFresh, Filling
    <3>5. QED
      BY <3>3, <3>4 DEF FreshInv
  <2>5. QED
    BY <1>4, <2>3, <2>4 DEF LoadUser
<1>5. ASSUME NEW r \in Req, FillCache(r) PROVE FreshInv'
  <2>1. Filling(r) /\ req[r] # Idle /\ req[r] \in Request /\ req[r].pc = "fill"
    BY <1>0, <1>5 DEF FillCache, Filling
  <2>2. /\ \A s \in Req \ {r} : req'[s] = req[s]
        /\ req'[r].pc = "handle" /\ row' = row
    BY <1>0, <1>5, <2>1 DEF FillCache, TypeOK, Request
  <2>3. Pending => Pending'
    BY <2>1, <2>2 DEF Pending
  <2>4. \A s \in Req : Filling(s)' => Filling(s) /\ req'[s] = req[s]
    BY <2>2 DEF Filling
  <2>5. CASE UNCHANGED <<cache, gap>>
    BY <2>2, <2>3, <2>4, <2>5, FreshKept
  <2>6. CASE cache' = req[r].snap.ver /\ gap' = [gap EXCEPT !.late = req[r].overtaken]
    <3>1. gap'.late = req[r].overtaken /\ gap'.missed = gap.missed
      BY <1>0, <2>6 DEF Gap
    <3>2. CachedVersionFresh'
      BY <2>1, <2>2, <2>3, <2>6, <3>1 DEF FreshInv, FillsFresh, CachedVersionFresh
    <3>3. FillsFresh'
      BY <2>2, <2>3, <2>4, <3>1 DEF FreshInv, FillsFresh
    <3>4. QED
      BY <3>2, <3>3 DEF FreshInv
  <2>7. QED
    BY <1>5, <2>5, <2>6 DEF FillCache
<1>6. ASSUME NEW r \in Req, Commit(r) PROVE FreshInv'
  <2>1. /\ req[r] # Idle /\ req[r] \in Request /\ req[r].pc = "commit"
        /\ UNCHANGED <<cache, gap>>
    BY <1>0, <1>6 DEF Commit, Idle, TypeOK
  <2>2. CASE req[r].op \in Bumps
    <3>1. req'[r] # Idle /\ req'[r].pc = "purge"
      BY <1>0, <1>6, <2>1, <2>2 DEF Commit, Purges, TypeOK, Request, Idle
    <3>2. Pending'
      BY <3>1 DEF Pending
    <3>3. QED
      BY <3>2 DEF FreshInv, CachedVersionFresh, FillsFresh
  <2>3. CASE req[r].op \notin Bumps
    <3>1. req' = [req EXCEPT ![r] = Idle]
      BY <1>6, <2>3 DEF Commit, Purges, Finish
    <3>2. /\ \A s \in Req \ {r} : req'[s] = req[s]
          /\ req'[r] = Idle
      BY <1>0, <3>1 DEF TypeOK
    <3>3. Pending => Pending'
      BY <2>1, <3>2 DEF Pending
    <3>4. \A s \in Req : Filling(s)' => Filling(s) /\ req'[s] = req[s]
      BY <3>2 DEF Filling
    <3>5. req[r].op \in Op \ Bumps /\ req[r].snap \in Row /\ row \in Row
      BY <1>0, <2>1, <2>3 DEF SessionInv, SnapshotsAgree, Request, TypeOK
    <3>6. row' = Flush(NewRow(req[r].op, req[r].snap, issued + 1), req[r].snap)
      BY <1>6 DEF Commit
    <3>7. row'.ver = row.ver /\ (row.active => row'.active)
      BY <3>5, <3>6, CommitWithoutPurge
    <3>8. QED
      BY <2>1, <3>3, <3>4, <3>7, FreshKept
  <2>4. QED
    BY <2>2, <2>3
<1>7. ASSUME NEW r \in Req, Purge(r) PROVE FreshInv'
  <2>1. CASE gap' = [gap EXCEPT !.missed = TRUE]
    BY <1>0, <2>1 DEF FreshInv, CachedVersionFresh, FillsFresh, Gap
  <2>2. CASE /\ cache' = None
             /\ req' = [s \in Req |->
                           IF s = r THEN Idle
                           ELSE IF Filling(s) THEN [req[s] EXCEPT !.overtaken = TRUE]
                                              ELSE req[s]]
    <3>1. ASSUME NEW s \in Req, Filling(s)'
          PROVE  req'[s].overtaken
      <4>1. s # r /\ req'[s] # Idle /\ req'[s].pc = "fill"
        BY <2>2, <3>1 DEF Filling
      <4>2. Filling(s) => req'[s] = [req[s] EXCEPT !.overtaken = TRUE]
        BY <2>2, <4>1
      <4>3. Filling(s) => req[s] \in Request
        BY <1>0 DEF Filling
      <4>4. Filling(s)
        BY <2>2, <4>1 DEF Filling
      <4>5. QED
        BY <4>2, <4>3, <4>4 DEF Request
    <3>2. QED
      BY <2>2, <3>1 DEF FreshInv, CachedVersionFresh, FillsFresh
  <2>3. QED
    BY <1>7, <2>1, <2>2 DEF Purge
<1>8. ASSUME NEW r \in Req, Drop(r) PROVE FreshInv'
  <2>1. /\ \A s \in Req \ {r} : req'[s] = req[s]
        /\ req'[r] = Idle /\ req[r] # Idle /\ UNCHANGED <<row, cache>>
    BY <1>0, <1>8 DEF Drop, Finish, TypeOK
  <2>2. /\ gap'.missed = (gap.missed \/ req[r].pc = "purge")
        /\ gap'.late = gap.late
    BY <1>0, <1>8 DEF Drop, Gap
  <2>3. Pending => Pending' \/ gap'.missed
    BY <2>1, <2>2 DEF Pending
  <2>4. \A s \in Req : Filling(s)' => Filling(s) /\ req'[s] = req[s]
    BY <2>1 DEF Filling
  <2>5. QED
    BY <2>1, <2>2, <2>3, <2>4, FreshKept
<1>9. CASE Expire
  <2>1. cache' = None /\ gap'.missed = gap.missed /\ UNCHANGED <<row, req>>
    BY <1>0, <1>9 DEF Expire, Gap
  <2>2. QED
    BY <2>1 DEF FreshInv, CachedVersionFresh, FillsFresh, Filling, Pending
<1>10. CASE UNCHANGED vars
  BY <1>10 DEF vars, FreshInv, CachedVersionFresh, FillsFresh, Filling, Pending
<1>11. QED
  BY <1>2, <1>3, <1>4, <1>5, <1>6, <1>7, <1>8, <1>9, <1>10 DEF Next, Progress

\* The variables keep their types.
THEOREM TypeCorrect == Spec => []TypeOK
BY SessionInvariant, PTL DEF SessionInv

\* The stored refresh token and the stored family always belong together.
THEOREM ColumnsAgree == Spec => []RefreshColumnsAgree
BY SessionInvariant, PTL DEF SessionInv

\* get_current_user: a version found in the cache is the version of the row, and
\* the account is active, unless a deletion is to come, was missed, or overtook
\* the fill; for any number of requests, however stale what they write.
THEOREM CacheIsFresh == Spec => []CachedVersionFresh
<1>1. SessionInv /\ FreshInv /\ [Next]_vars => FreshInv'
  BY StepFresh
<1>2. FreshInv => CachedVersionFresh
  BY DEF FreshInv
<1>3. QED
  BY InitFresh, <1>1, <1>2, SessionInvariant, PTL DEF Spec

\* The refresh token is a one-time secret, however many requests overlap: only a
\* commit writes it, and it writes a token made for it or clears it.
THEOREM RefinesSecret == Spec => SecretSpec
<1>1. Init => Secret!Init
  BY DEF Init, Secret!Init
<1>2. SessionInv /\ [Next]_vars => [Secret!Next]_(Secret!vars)
  <2> SUFFICES ASSUME SessionInv, [Next]_vars
               PROVE  [Secret!Next]_(Secret!vars)
    OBVIOUS
  <2>1. ASSUME NEW r \in Req, Commit(r)
        PROVE  [Secret!Next]_(Secret!vars)
    BY <2>1, CommitInv
       DEF Secret!Next, Secret!Issue, Secret!Withdraw, Secret!IssueElsewhere, Secret!vars
  <2>2. CASE UNCHANGED <<row, issued>>
    BY <2>2 DEF Secret!vars
  <2>3. UNCHANGED <<row, issued>> \/ \E r \in Req : Commit(r)
    BY DEF Next, vars, Arrive, PresentAccessToken, Login, RefreshToken, Override,
           DeactivateUser, ActivateUser, Begin, Progress, CheckCache, LoadUser,
           FillCache, Handle, Purge, Drop, Expire
  <2>4. QED
    BY <2>1, <2>2, <2>3
<1>3. QED
  BY <1>1, <1>2, SessionInvariant, PTL DEF Spec, SecretSpec, Secret!Spec

=============================================================================
