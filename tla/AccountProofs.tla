---------------------------- MODULE AccountProofs ----------------------------
(***************************************************************************)
(* Proofs about Account, for any number of overlapping requests, any limit *)
(* of failed logins, and any number of tokens.                             *)
(***************************************************************************)
EXTENDS Account, TLAPS

\* What the UPDATE of each operation looks like, whatever it was made from.
\* Status and is_active are set together or not at all, and so are a token and
\* its expiry.
SetsPairs(set) ==
    /\ (set.active = Same) <=> (set.status = Same)
    /\ set.active # Same => (set.active <=> (set.status = "ACTIVE"))
    /\ set.invite = set.inviteExp /\ set.invite \in {None, Same, Fresh}
    /\ set.reset = set.resetExp /\ set.reset \in {None, Same, Fresh}

SetsLogin(op, set) ==
    /\ set.password \in {TRUE, Same}
    /\ set.locked \in {Same, "no", "running"}
    /\ set.locked = "running" => op = "wrong" /\ set.failed \in Nat
                                              /\ set.failed >= MaxFailed

SetsTokens(op, set) ==
    /\ set.status # "PENDING"
    /\ set.status # Same => op \in {"activate", "deactivate", "invite"}
    /\ set.invite = Fresh => op = "reissue"
    /\ set.invite = None => set.password = TRUE
    /\ set.reset = Fresh => op = "request"
    /\ op \in {"reissue", "request"} => set.invite # None /\ set.reset # None
    /\ op = "invite" => set.invite = None

\* What still holds of the row from which an UPDATE was made.
StillTrue(op, set) ==
    /\ set.failed # Same => set.failed <= IF op = "wrong" THEN wrong + 1 ELSE wrong
    /\ op = "deactivate" => row.status # "PENDING"

InFlight(op, set) ==
    SetsPairs(set) /\ SetsLogin(op, set) /\ SetsTokens(op, set) /\ StillTrue(op, set)

RequestInv == \A r \in Req : req[r] # Idle => InFlight(req[r].op, req[r].set)

\* Lost updates only ever lose failures.
Counted == row.failed <= wrong

AccountInv == /\ TypeOK
              /\ StatusAgrees
              /\ TokenColumnsAgree
              /\ PasswordOrInvite
              /\ InviteEndsWithPending
              /\ LockNeedsFailures
              /\ Counted
              /\ RequestInv

-----------------------------------------------------------------------------
LEMMA InitInv == Init => AccountInv
<1> SUFFICES ASSUME Init PROVE AccountInv
  OBVIOUS
<1>1. TypeOK
  BY AccountAssumption DEF Init, TypeOK, Row, Status, Lock, Token
<1>2. StatusAgrees /\ TokenColumnsAgree /\ PasswordOrInvite /\ InviteEndsWithPending
  BY AccountAssumption
     DEF Init, StatusAgrees, TokenColumnsAgree, PasswordOrInvite, InviteEndsWithPending
<1>3. LockNeedsFailures /\ Counted
  BY DEF Init, LockNeedsFailures, Counted
<1>4. RequestInv
  BY DEF Init, RequestInv
<1>5. QED
  BY <1>1, <1>2, <1>3, <1>4 DEF AccountInv

\* A request that begins keeps the invariant if its UPDATE is as it should be.
LEMMA BeginInv ==
    ASSUME AccountInv, NEW r \in Req, NEW op \in Op, NEW set \in Update,
           InFlight(op, set), Begin(r, op, set)
    PROVE  AccountInv'
<1> DEFINE record == [op |-> op, set |-> set]
<1>1. /\ record \in [op: Op, set: Update]
      /\ record.op = op /\ record.set = set
  OBVIOUS
<1>2. /\ req \in [Req -> [op: Op, set: Update] \cup {Idle}]
      /\ req' = [req EXCEPT ![r] = record]
      /\ UNCHANGED <<row, issued, wrong, bypassed>>
  BY DEF Begin, AccountInv, TypeOK
<1> HIDE DEF record
<1>3. req' \in [Req -> [op: Op, set: Update] \cup {Idle}]
  BY <1>1, <1>2
<1>4. RequestInv'
  <2> SUFFICES ASSUME NEW q \in Req, req'[q] # Idle
               PROVE  InFlight(req[q].op, req[q].set)'
    BY DEF RequestInv
  <2>1. CASE q = r
    <3>1. InFlight(op, set)'
      BY <1>2 DEF InFlight, SetsPairs, SetsLogin, SetsTokens, StillTrue
    <3>2. req'[q] = record
      BY <1>2, <2>1
    <3>3. QED
      BY <1>1, <3>1, <3>2
  <2>2. CASE q # r
    <3>1. req'[q] = req[q]
      BY <1>2, <2>2
    <3>2. InFlight(req[q].op, req[q].set)
      BY <3>1 DEF AccountInv, RequestInv
    <3>3. QED
      BY <1>2, <3>1, <3>2 DEF InFlight, SetsPairs, SetsLogin, SetsTokens, StillTrue
  <2>3. QED
    BY <2>1, <2>2
<1>5. QED
  BY <1>2, <1>3, <1>4
     DEF AccountInv, TypeOK, StatusAgrees, TokenColumnsAgree, PasswordOrInvite,
         InviteEndsWithPending, LockNeedsFailures, Counted

\* Every handler makes such an UPDATE.
LEMMA ArriveInv == ASSUME AccountInv, NEW r \in Req, Arrive(r) PROVE AccountInv'
<1>1. /\ row.status \in Status /\ row.active \in BOOLEAN
      /\ row.failed \in Nat /\ row.locked \in Lock
      /\ row.active <=> row.status = "ACTIVE"
      /\ row.failed <= wrong /\ wrong \in Nat
  BY DEF AccountInv, TypeOK, Row, StatusAgrees, Counted
<1>0. /\ Set(0, row.failed) \in {0, Same} /\ Set("no", row.locked) \in {"no", Same}
      /\ Set("ACTIVE", row.status) \in {"ACTIVE", Same}
      /\ 0 \in Nat /\ 0 <= wrong /\ 0 # Same /\ "no" # Same /\ "running" # Same
  BY <1>1, AccountAssumption DEF Set
<1>2. CASE ReissueInvite(r)
  <2> DEFINE set == [Nothing EXCEPT !.invite = Fresh, !.inviteExp = Fresh]
  <2>1. set \in Update /\ InFlight("reissue", set)
    BY <1>1, AccountAssumption
       DEF Nothing, Update, InFlight, SetsPairs, SetsLogin, SetsTokens, StillTrue
  <2>2. Begin(r, "reissue", set)
    BY <1>2 DEF ReissueInvite
  <2> HIDE DEF set
  <2>3. QED
    BY <2>1, <2>2, BeginInv DEF Op
<1>3. CASE ActivateAccount(r)
  <2> DEFINE set == [Nothing EXCEPT !.password = TRUE,
                                    !.active = Set(TRUE, row.active),
                                    !.status = Set("ACTIVE", row.status),
                                    !.invite = None, !.inviteExp = None]
  <2>1. set \in Update /\ InFlight("invite", set)
    BY <1>1, AccountAssumption
       DEF Nothing, Set, Update, Status, Token, InFlight, SetsPairs, SetsLogin,
           SetsTokens, StillTrue
  <2>2. Begin(r, "invite", set)
    BY <1>3 DEF ActivateAccount
  <2> HIDE DEF set
  <2>3. QED
    BY <2>1, <2>2, BeginInv DEF Op
<1>4. CASE ActivateUser(r)
  <2> DEFINE set == [Nothing EXCEPT !.active = TRUE,
                                    !.status = Set("ACTIVE", row.status),
                                    !.failed = Set(0, row.failed),
                                    !.locked = Set("no", row.locked)]
  <2>1. set \in Update
    BY <1>0, <1>1, AccountAssumption DEF Nothing, Update, Status, Token, Lock
  <2>2. /\ SetsPairs(set) /\ SetsLogin("activate", set)
        /\ SetsTokens("activate", set) /\ StillTrue("activate", set)
    <3>1. SetsPairs(set)
      BY <1>1, <1>4, AccountAssumption DEF Nothing, SetsPairs, Set, ActivateUser, Status
    <3>2. SetsLogin("activate", set)
      BY <1>0, <1>1, AccountAssumption DEF Nothing, SetsLogin
    <3>3. SetsTokens("activate", set)
      BY <1>0, <1>1, AccountAssumption DEF Nothing, SetsTokens
    <3>4. StillTrue("activate", set)
      BY <1>0, <1>1, AccountAssumption DEF Nothing, StillTrue
    <3>5. QED
      BY <3>1, <3>2, <3>3, <3>4
  <2>3. Begin(r, "activate", set)
    BY <1>4 DEF ActivateUser
  <2> HIDE DEF set
  <2>4. QED
    BY <2>1, <2>2, <2>3, BeginInv DEF Op, InFlight
<1>5. CASE DeactivateUser(r)
  <2> DEFINE set == [Nothing EXCEPT !.active = FALSE,
                                    !.status = Set("DEACTIVATED", row.status)]
  <2>1. set \in Update /\ InFlight("deactivate", set)
    BY <1>1, <1>5, AccountAssumption
       DEF DeactivateUser, Nothing, Set, Update, Status, InFlight, SetsPairs,
           SetsLogin, SetsTokens, StillTrue
  <2>2. Begin(r, "deactivate", set)
    BY <1>5 DEF DeactivateUser
  <2> HIDE DEF set
  <2>3. QED
    BY <2>1, <2>2, BeginInv DEF Op
<1>6. CASE RequestReset(r)
  <2> DEFINE set == [Nothing EXCEPT !.reset = Fresh, !.resetExp = Fresh]
  <2>1. set \in Update /\ InFlight("request", set)
    BY <1>1, AccountAssumption
       DEF Nothing, Update, InFlight, SetsPairs, SetsLogin, SetsTokens, StillTrue
  <2>2. Begin(r, "request", set)
    BY <1>6 DEF RequestReset
  <2> HIDE DEF set
  <2>3. QED
    BY <2>1, <2>2, BeginInv DEF Op
<1>7. CASE ResetPassword(r)
  <2> DEFINE set == [Nothing EXCEPT !.password = TRUE,
                                    !.reset = None, !.resetExp = None,
                                    !.failed = Set(0, row.failed),
                                    !.locked = Set("no", row.locked)]
  <2>1. set \in Update
    BY <1>0, <1>1, AccountAssumption DEF Nothing, Update, Status, Token, Lock
  <2>2. /\ SetsPairs(set) /\ SetsLogin("reset", set)
        /\ SetsTokens("reset", set) /\ StillTrue("reset", set)
    <3>1. SetsPairs(set)
      BY AccountAssumption DEF Nothing, SetsPairs
    <3>2. SetsLogin("reset", set)
      BY <1>0, <1>1, AccountAssumption DEF Nothing, SetsLogin
    <3>3. SetsTokens("reset", set)
      BY <1>0, <1>1, AccountAssumption DEF Nothing, SetsTokens
    <3>4. StillTrue("reset", set)
      BY <1>0, <1>1, AccountAssumption DEF Nothing, StillTrue
    <3>5. QED
      BY <3>1, <3>2, <3>3, <3>4
  <2>3. Begin(r, "reset", set)
    BY <1>7 DEF ResetPassword
  <2> HIDE DEF set
  <2>4. QED
    BY <2>1, <2>2, <2>3, BeginInv DEF Op, InFlight
<1>8. CASE LoginWrong(r)
  <2> DEFINE set == [Nothing EXCEPT !.failed = row.failed + 1,
                                    !.locked = IF row.failed + 1 >= MaxFailed
                                               THEN "running" ELSE Same]
  <2>1. set \in Update
    <3>1. row.failed + 1 \in Nat
      BY <1>1
    <3>2. (IF row.failed + 1 >= MaxFailed THEN "running" ELSE Same) \in Lock \cup {Same}
      BY DEF Lock
    <3>3. Nothing \in Update
      BY DEF Nothing, Update, Status, Token, Lock
    <3>4. \A f \in Nat, l \in Lock \cup {Same} :
              [Nothing EXCEPT !.failed = f, !.locked = l] \in Update
      BY <3>3 DEF Update
    <3>5. QED
      BY <3>1, <3>2, <3>4
  <2>2. /\ SetsPairs(set) /\ SetsLogin("wrong", set)
        /\ SetsTokens("wrong", set) /\ StillTrue("wrong", set)
    <3>1. SetsPairs(set)
      BY AccountAssumption DEF Nothing, SetsPairs
    <3>2. SetsLogin("wrong", set)
      BY <1>0, <1>1, AccountAssumption DEF Nothing, SetsLogin
    <3>3. SetsTokens("wrong", set)
      BY <1>0, <1>1, AccountAssumption DEF Nothing, SetsTokens
    <3>4. StillTrue("wrong", set)
      BY <1>0, <1>1, AccountAssumption DEF Nothing, StillTrue
    <3>5. QED
      BY <3>1, <3>2, <3>3, <3>4
  <2>3. Begin(r, "wrong", set)
    BY <1>8 DEF LoginWrong
  <2> HIDE DEF set
  <2>4. QED
    BY <2>1, <2>2, <2>3, BeginInv DEF Op, InFlight
<1>9. CASE LoginRight(r)
  <2> DEFINE set == [Nothing EXCEPT !.failed = Set(0, row.failed),
                                    !.locked = Set("no", row.locked)]
  <2>1. set \in Update
    BY <1>0, <1>1, AccountAssumption DEF Nothing, Update, Status, Token, Lock
  <2>2. /\ SetsPairs(set) /\ SetsLogin("right", set)
        /\ SetsTokens("right", set) /\ StillTrue("right", set)
    <3>1. SetsPairs(set)
      BY AccountAssumption DEF Nothing, SetsPairs
    <3>2. SetsLogin("right", set)
      BY <1>0, <1>1, AccountAssumption DEF Nothing, SetsLogin
    <3>3. SetsTokens("right", set)
      BY <1>0, <1>1, AccountAssumption DEF Nothing, SetsTokens
    <3>4. StillTrue("right", set)
      BY <1>0, <1>1, AccountAssumption DEF Nothing, StillTrue
    <3>5. QED
      BY <3>1, <3>2, <3>3, <3>4
  <2>3. Begin(r, "right", set)
    BY <1>9 DEF LoginRight
  <2> HIDE DEF set
  <2>4. QED
    BY <2>1, <2>2, <2>3, BeginInv DEF Op, InFlight
<1>10. QED
  BY <1>2, <1>3, <1>4, <1>5, <1>6, <1>7, <1>8, <1>9 DEF Arrive

-----------------------------------------------------------------------------
\* The row that a commit leaves, column by column.
LEMMA UpdatedRow ==
    ASSUME AccountInv, NEW set \in Update, SetsPairs(set)
    PROVE  /\ Updated(set) \in Row
           /\ Updated(set).status = IF set.status = Same THEN row.status ELSE set.status
           /\ Updated(set).active = IF set.active = Same THEN row.active ELSE set.active
           /\ Updated(set).password = IF set.password = Same THEN row.password
                                                             ELSE set.password
           /\ Updated(set).invite = Merged(set.invite, row.invite)
           /\ Updated(set).inviteExp = Merged(set.inviteExp, row.inviteExp)
           /\ Updated(set).reset = Merged(set.reset, row.reset)
           /\ Updated(set).resetExp = Merged(set.resetExp, row.resetExp)
           /\ Updated(set).failed = IF set.failed = Same THEN row.failed ELSE set.failed
           /\ Updated(set).locked = IF set.locked = Same THEN row.locked ELSE set.locked
<1>1. /\ row \in Row /\ issued \in Nat
      /\ set.invite \in {None, Same, Fresh} /\ set.inviteExp \in {None, Same, Fresh}
      /\ set.reset \in {None, Same, Fresh} /\ set.resetExp \in {None, Same, Fresh}
  BY DEF AccountInv, TypeOK, SetsPairs
<1>2. /\ Merged(set.invite, row.invite) \in Token
      /\ Merged(set.inviteExp, row.inviteExp) \in Token
      /\ Merged(set.reset, row.reset) \in Token
      /\ Merged(set.resetExp, row.resetExp) \in Token
  BY <1>1, AccountAssumption DEF Row, Merged, Token
<1>3. Updated(set) \in Row
  BY <1>1, <1>2 DEF Row, Update, Updated
<1>4. QED
  BY <1>3 DEF Updated

LEMMA CommitInv == ASSUME AccountInv, NEW r \in Req, Commit(r) PROVE AccountInv'
<1> DEFINE op == req[r].op
           set == req[r].set
<1>1. /\ op \in Op /\ set \in Update /\ InFlight(op, set)
  BY DEF AccountInv, TypeOK, RequestInv, Commit
<1>2. /\ row' = Updated(set)
      /\ issued' = IF op \in {"reissue", "request"} THEN issued + 1 ELSE issued
      /\ wrong' = IF op = "wrong" THEN wrong + 1 ELSE wrong
      /\ bypassed' = (\/ bypassed
                      \/ op = "activate" /\ row.invite # None
                      \/ op = "reissue" /\ row.status # "PENDING")
      /\ req' = [req EXCEPT ![r] = Idle]
  BY DEF Commit
<1> HIDE DEF op, set
<1>3. /\ row \in Row /\ issued \in Nat /\ wrong \in Nat /\ bypassed \in BOOLEAN
      /\ req \in [Req -> [op: Op, set: Update] \cup {Idle}]
  BY DEF AccountInv, TypeOK
<1>4. /\ row' \in Row
      /\ row'.status = IF set.status = Same THEN row.status ELSE set.status
      /\ row'.active = IF set.active = Same THEN row.active ELSE set.active
      /\ row'.password = IF set.password = Same THEN row.password ELSE set.password
      /\ row'.invite = Merged(set.invite, row.invite)
      /\ row'.inviteExp = Merged(set.inviteExp, row.inviteExp)
      /\ row'.reset = Merged(set.reset, row.reset)
      /\ row'.resetExp = Merged(set.resetExp, row.resetExp)
      /\ row'.failed = IF set.failed = Same THEN row.failed ELSE set.failed
      /\ row'.locked = IF set.locked = Same THEN row.locked ELSE set.locked
  BY <1>1, <1>2, UpdatedRow DEF InFlight
<1>5. TypeOK'
  BY <1>2, <1>3, <1>4 DEF TypeOK
<1>6. StatusAgrees'
  <2>1. SetsPairs(set) /\ StatusAgrees
    BY <1>1 DEF InFlight, AccountInv
  <2>2. QED
    BY <1>4, <2>1 DEF StatusAgrees, SetsPairs
<1>7. TokenColumnsAgree'
  BY <1>1, <1>4
     DEF AccountInv, TokenColumnsAgree, InFlight, SetsPairs, Merged
<1>8. PasswordOrInvite'
  <2>1. CASE set.password = Same
    <3>1. set.invite \in {Same, Fresh}
      BY <1>1, <2>1, AccountAssumption DEF InFlight, SetsPairs, SetsTokens
    <3>2. row.invite # None => row'.invite # None
      BY <1>3, <1>4, <3>1, AccountAssumption DEF Merged
    <3>3. QED
      BY <1>4, <2>1, <3>2 DEF AccountInv, PasswordOrInvite
  <2>2. CASE set.password # Same
    <3>1. set.password = TRUE
      BY <1>1, <2>2 DEF InFlight, SetsLogin
    <3>2. QED
      BY <1>4, <2>2, <3>1 DEF PasswordOrInvite
  <2>3. QED
    BY <2>1, <2>2
<1>9. InviteEndsWithPending'
  <2> SUFFICES ASSUME row'.status # "PENDING", row'.invite # None
               PROVE  bypassed'
    BY DEF InviteEndsWithPending
  <2>1. set.invite \in {Same, Fresh}
    BY <1>1, <1>4, AccountAssumption DEF InFlight, SetsPairs, Merged
  <2>2. CASE set.status = Same
    <3>1. row.status # "PENDING"
      BY <1>4, <2>2
    <3>2. CASE set.invite = Same
      BY <1>2, <1>4, <3>1, <3>2 DEF AccountInv, InviteEndsWithPending, Merged
    <3>3. CASE set.invite = Fresh
      BY <1>1, <1>2, <3>1, <3>3 DEF InFlight, SetsTokens
    <3>4. QED
      BY <2>1, <3>2, <3>3
  <2>3. CASE set.status # Same
    <3>1. op \in {"activate", "deactivate"}
      BY <1>1, <2>1, <2>3, AccountAssumption DEF InFlight, SetsTokens
    <3>2. set.invite = Same /\ row.invite # None
      BY <1>1, <1>4, <2>1, <3>1 DEF InFlight, SetsTokens, Merged
    <3>3. CASE op = "activate"
      BY <1>2, <3>2, <3>3
    <3>4. CASE op = "deactivate"
      BY <1>1, <1>2, <3>2, <3>4
         DEF InFlight, StillTrue, AccountInv, InviteEndsWithPending
    <3>5. QED
      BY <3>1, <3>3, <3>4
  <2>4. QED
    BY <2>2, <2>3
<1>10. wrong <= wrong' /\ wrong' \in Nat
  BY <1>2, <1>3
<1>11. LockNeedsFailures'
  <2>1. set.locked = "running" => set.failed >= MaxFailed /\ set.failed <= wrong'
                                  /\ set.failed \in Nat
    BY <1>1, <1>2, AccountAssumption DEF InFlight, SetsLogin, StillTrue
  <2>2. set.locked \in {Same, "no", "running"}
    BY <1>1 DEF InFlight, SetsLogin
  <2>3. row.locked # "no" => wrong >= MaxFailed
    BY DEF AccountInv, LockNeedsFailures
  <2>4. QED
    BY <1>3, <1>4, <1>10, <2>1, <2>2, <2>3, AccountAssumption DEF LockNeedsFailures
<1>12. Counted'
  <2>1. set.failed # Same => set.failed <= wrong'
    BY <1>1, <1>2 DEF InFlight, StillTrue
  <2>2. row.failed <= wrong /\ row.failed \in Nat
    BY <1>3 DEF AccountInv, Counted, Row
  <2>3. QED
    BY <1>3, <1>4, <1>10, <2>1, <2>2 DEF Counted
<1>13. RequestInv'
  <2> SUFFICES ASSUME NEW q \in Req, req'[q] # Idle
               PROVE  InFlight(req[q].op, req[q].set)'
    BY DEF RequestInv
  <2>1. req'[q] = req[q]
    BY <1>2, <1>3
  <2>2. InFlight(req[q].op, req[q].set) /\ req[q].set \in Update
    BY <1>3, <2>1 DEF AccountInv, RequestInv
  <2>3. row.status # "PENDING" => row'.status # "PENDING"
    BY <1>1, <1>4 DEF InFlight, SetsTokens
  <2>4. ASSUME NEW o, NEW s \in Update, InFlight(o, s) PROVE InFlight(o, s)'
    <3>1. s.failed # Same => s.failed \in Nat
      BY DEF Update
    <3>2. StillTrue(o, s)'
      BY <1>3, <1>10, <1>2, <2>3, <2>4, <3>1 DEF InFlight, StillTrue
    <3>3. QED
      BY <2>4, <3>2 DEF InFlight, SetsPairs, SetsLogin, SetsTokens
  <2>5. QED
    BY <2>1, <2>2, <2>4
<1>14. QED
  BY <1>5, <1>6, <1>7, <1>8, <1>9, <1>11, <1>12, <1>13 DEF AccountInv

LEMMA DropInv == ASSUME AccountInv, NEW r \in Req, Drop(r) PROVE AccountInv'
<1>1. /\ req \in [Req -> [op: Op, set: Update] \cup {Idle}]
      /\ req' = [req EXCEPT ![r] = Idle]
      /\ UNCHANGED <<row, issued, wrong, bypassed>>
  BY DEF Drop, AccountInv, TypeOK
<1>2. \A q \in Req : req'[q] # Idle => req'[q] = req[q]
  BY <1>1
<1>3. RequestInv'
  BY <1>1, <1>2
     DEF AccountInv, RequestInv, InFlight, SetsPairs, SetsLogin, SetsTokens, StillTrue
<1>4. QED
  BY <1>1, <1>3
     DEF AccountInv, TypeOK, StatusAgrees, TokenColumnsAgree, PasswordOrInvite,
         InviteEndsWithPending, LockNeedsFailures, Counted

LEMMA LockInv == ASSUME AccountInv, LockRunsOut PROVE AccountInv'
<1>1. /\ row \in Row /\ row.locked = "running"
      /\ row' = [row EXCEPT !.locked = "over"]
      /\ UNCHANGED <<issued, wrong, bypassed, req>>
  BY DEF LockRunsOut, AccountInv, TypeOK
<1>2. /\ row' \in Row
      /\ row'.status = row.status /\ row'.active = row.active
      /\ row'.password = row.password /\ row'.failed = row.failed
      /\ row'.invite = row.invite /\ row'.inviteExp = row.inviteExp
      /\ row'.reset = row.reset /\ row'.resetExp = row.resetExp
  BY <1>1 DEF Row, Lock
<1>3. RequestInv'
  BY <1>1, <1>2
     DEF AccountInv, RequestInv, InFlight, SetsPairs, SetsLogin, SetsTokens, StillTrue
<1>4. LockNeedsFailures'
  BY <1>1 DEF AccountInv, LockNeedsFailures
<1>5. QED
  BY <1>1, <1>2, <1>3, <1>4
     DEF AccountInv, TypeOK, StatusAgrees, TokenColumnsAgree, PasswordOrInvite,
         InviteEndsWithPending, Counted

LEMMA NextInv == AccountInv /\ [Next]_vars => AccountInv'
<1> SUFFICES ASSUME AccountInv, [Next]_vars PROVE AccountInv'
  OBVIOUS
<1>1. CASE \E r \in Req : Arrive(r) \/ Commit(r) \/ Drop(r)
  BY <1>1, ArriveInv, CommitInv, DropInv
<1>2. CASE LockRunsOut
  BY <1>2, LockInv
<1>3. CASE UNCHANGED vars
  BY <1>3
     DEF vars, AccountInv, TypeOK, StatusAgrees, TokenColumnsAgree, PasswordOrInvite,
         InviteEndsWithPending, LockNeedsFailures, Counted, RequestInv, InFlight,
         SetsPairs, SetsLogin, SetsTokens, StillTrue
<1>4. QED
  BY <1>1, <1>2, <1>3 DEF Next

\* All the invariants of Account together.
THEOREM AccountCorrect == Spec => []AccountInv
BY InitInv, NextInv, PTL DEF Spec

\* Type correctness.
THEOREM TypeCorrect == Spec => []TypeOK
<1>1. AccountInv => TypeOK
  BY DEF AccountInv
<1>2. QED
  BY <1>1, AccountCorrect, PTL

\* is_active and status never disagree, whichever handlers overlap.
THEOREM StatusStaysPaired == Spec => []StatusAgrees
<1>1. AccountInv => StatusAgrees
  BY DEF AccountInv
<1>2. QED
  BY <1>1, AccountCorrect, PTL

\* A token never loses its expiry, nor the expiry its token.
THEOREM TokensStayPaired == Spec => []TokenColumnsAgree
<1>1. AccountInv => TokenColumnsAgree
  BY DEF AccountInv
<1>2. QED
  BY <1>1, AccountCorrect, PTL

\* No account is left without both a password and an invite.
THEOREM NobodyLockedOut == Spec => []PasswordOrInvite
<1>1. AccountInv => PasswordOrInvite
  BY DEF AccountInv
<1>2. QED
  BY <1>1, AccountCorrect, PTL

\* An invite outlives PENDING only in the two ways that are named.
THEOREM InvitesEnd == Spec => []InviteEndsWithPending
<1>1. AccountInv => InviteEndsWithPending
  BY DEF AccountInv
<1>2. QED
  BY <1>1, AccountCorrect, PTL

\* No account is locked before MaxFailed wrong passwords were counted.
THEOREM LocksAreEarned == Spec => []LockNeedsFailures
<1>1. AccountInv => LockNeedsFailures
  BY DEF AccountInv
<1>2. QED
  BY <1>1, AccountCorrect, PTL

\* Nothing but a commit touches the tokens.
LEMMA OnlyCommits ==
    ASSUME AccountInv, [Next]_vars, ~ \E r \in Req : Commit(r)
    PROVE  row'.invite = row.invite /\ row'.reset = row.reset /\ issued' = issued
<1>1. CASE \E r \in Req : Arrive(r) \/ Drop(r)
  BY <1>1 DEF Arrive, ReissueInvite, ActivateAccount, ActivateUser, DeactivateUser,
              RequestReset, ResetPassword, LoginWrong, LoginRight, Begin, Drop
<1>2. CASE LockRunsOut
  <2>1. row \in Row /\ row' = [row EXCEPT !.locked = "over"] /\ issued' = issued
    BY <1>2 DEF LockRunsOut, AccountInv, TypeOK
  <2>2. QED
    BY <2>1 DEF Row
<1>3. CASE UNCHANGED vars
  BY <1>3 DEF vars
<1>4. QED
  BY <1>1, <1>2, <1>3 DEF Next

\* A commit issues at most one token, and it is the one that the UPDATE sets.
LEMMA TokensOfCommit ==
    ASSUME AccountInv, NEW r \in Req, Commit(r)
    PROVE  \/ /\ issued' = issued + 1
              /\ row'.invite \in {row.invite, issued + 1}
              /\ row'.reset \in {row.reset, issued + 1}
           \/ /\ issued' = issued
              /\ row'.invite \in {row.invite, None}
              /\ row'.reset \in {row.reset, None}
<1> DEFINE op == req[r].op
           set == req[r].set
<1>1. set \in Update /\ InFlight(op, set)
  BY DEF AccountInv, TypeOK, RequestInv, Commit
<1>2. /\ row' = Updated(set)
      /\ issued' = IF op \in {"reissue", "request"} THEN issued + 1 ELSE issued
  BY DEF Commit
<1> HIDE DEF op, set
<1>3. /\ row'.invite = Merged(set.invite, row.invite)
      /\ row'.reset = Merged(set.reset, row.reset)
  BY <1>1, <1>2, UpdatedRow DEF InFlight
<1>4. /\ set.invite \in {None, Same, Fresh} /\ set.reset \in {None, Same, Fresh}
      /\ set.invite = Fresh => op = "reissue"
      /\ set.reset = Fresh => op = "request"
      /\ op \in {"reissue", "request"} => set.invite # None /\ set.reset # None
  BY <1>1 DEF InFlight, SetsPairs, SetsTokens
<1>5. CASE op \in {"reissue", "request"}
  BY <1>2, <1>3, <1>4, <1>5 DEF Merged
<1>6. CASE op \notin {"reissue", "request"}
  BY <1>2, <1>3, <1>4, <1>6, AccountAssumption DEF Merged
<1>7. QED
  BY <1>5, <1>6

\* The invite and the reset token are one-time secrets that share their numbers,
\* however many requests overlap.
THEOREM RefinesSecrets == Spec => SecretsSpec
<1>1. Init => Invite!Init /\ Reset!Init
  BY DEF Init, Invite!Init, Reset!Init
<1>2. AccountInv /\ [Next]_vars => [Invite!Next]_(Invite!vars)
  BY OnlyCommits, TokensOfCommit
     DEF Invite!Next, Invite!Issue, Invite!Withdraw, Invite!IssueElsewhere, Invite!vars
<1>3. AccountInv /\ [Next]_vars => [Reset!Next]_(Reset!vars)
  BY OnlyCommits, TokensOfCommit
     DEF Reset!Next, Reset!Issue, Reset!Withdraw, Reset!IssueElsewhere, Reset!vars
<1>4. QED
  BY <1>1, <1>2, <1>3, AccountCorrect, PTL
     DEF Spec, SecretsSpec, Invite!Spec, Reset!Spec

=============================================================================
