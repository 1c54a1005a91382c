------------------------------- MODULE Account -------------------------------
(***************************************************************************)
(* The life of one account between its registration and its logins: status *)
(* and password, the invite that activates it, the token that resets its   *)
(* password, and the lock after failed logins.                             *)
(*                                                                         *)
(* A handler loads the row, decides, and commits an UPDATE of the columns  *)
(* that differ from what it loaded.  Between the two it waits for bcrypt   *)
(* and for the database, and other handlers commit.                        *)
(***************************************************************************)
EXTENDS Naturals

CONSTANTS
    Req,        \* concurrent requests about the account
    MaxFailed,  \* MAX_FAILED_ATTEMPTS of auth/service.py
    MaxWrong,   \* bound on the wrong passwords
    MaxToken,   \* bound on the tokens that are issued
    None,       \* a token column that is NULL
    Same,       \* a column that an UPDATE does not set
    Fresh       \* a column that an UPDATE sets to a token made for it

ASSUME AccountAssumption ==
    /\ MaxFailed \in Nat \ {0}
    /\ MaxWrong \in Nat
    /\ MaxToken \in Nat \ {0}
    /\ None \notin Nat /\ Fresh \notin Nat /\ Same \notin Nat
    /\ None # Same /\ None # Fresh /\ Same # Fresh
    /\ Same \notin BOOLEAN
    /\ Same \notin {"PENDING", "ACTIVE", "DEACTIVATED", "no", "running", "over"}

VARIABLES
    row,        \* the committed row, with its activation, lockout and session
    issued,     \* tokens issued so far; they are numbered 1..issued
    wrong,      \* history: wrong passwords that were counted
    bypassed,   \* history: an invite was live when somebody else's change made
                \* or found the account past PENDING
    req         \* the requests between their read and their commit

vars == <<row, issued, wrong, bypassed, req>>

\* A token and its expiry are written together, so both columns hold the number
\* of the token.  locked_until is "over" when it lies in the past.
Status == {"PENDING", "ACTIVE", "DEACTIVATED"}
Lock == {"no", "running", "over"}
Token == Nat \cup {None}

Row == [status: Status, active: BOOLEAN, password: BOOLEAN,
        invite: Token, inviteExp: Token, reset: Token, resetExp: Token,
        failed: Nat, locked: Lock]

Update == [status: Status \cup {Same}, active: BOOLEAN \cup {Same},
           password: BOOLEAN \cup {Same},
           invite: Token \cup {Same, Fresh}, inviteExp: Token \cup {Same, Fresh},
           reset: Token \cup {Same, Fresh}, resetExp: Token \cup {Same, Fresh},
           failed: Nat \cup {Same}, locked: Lock \cup {Same}]

Op == {"reissue", "invite", "activate", "deactivate", "request", "reset",
       "wrong", "right"}

Idle == [op |-> "idle"]

\* An UPDATE that sets nothing.
Nothing == [status |-> Same, active |-> Same, password |-> Same,
            invite |-> Same, inviteExp |-> Same, reset |-> Same, resetExp |-> Same,
            failed |-> Same, locked |-> Same]

-----------------------------------------------------------------------------
\* A flush sets a column if its value is not the one that was loaded.
Set(value, loaded) == IF value = loaded THEN Same ELSE value

\* The value of a column after an UPDATE, which merges with whatever is there.
Merged(value, stored) == IF value = Same THEN stored
                         ELSE IF value = Fresh THEN issued + 1 ELSE value

Updated(set) ==
    [status |-> IF set.status = Same THEN row.status ELSE set.status,
     active |-> IF set.active = Same THEN row.active ELSE set.active,
     password |-> IF set.password = Same THEN row.password ELSE set.password,
     invite |-> Merged(set.invite, row.invite),
     inviteExp |-> Merged(set.inviteExp, row.inviteExp),
     reset |-> Merged(set.reset, row.reset),
     resetExp |-> Merged(set.resetExp, row.resetExp),
     failed |-> IF set.failed = Same THEN row.failed ELSE set.failed,
     locked |-> IF set.locked = Same THEN row.locked ELSE set.locked]

\* register_user: a row without a password, and an invite in the outbox.
Init ==
    /\ row = [status |-> "PENDING", active |-> FALSE, password |-> FALSE,
              invite |-> 1, inviteExp |-> 1, reset |-> None, resetExp |-> None,
              failed |-> 0, locked |-> "no"]
    /\ issued = 1
    /\ wrong = 0
    /\ bypassed = FALSE
    /\ req = [r \in Req |-> Idle]

-----------------------------------------------------------------------------
\* Mutant: a commit writes back every token that it loaded.
BeginWritingTokens(r, op, set) ==
    /\ req[r] = Idle
    /\ req' = [req EXCEPT ![r] =
                  [op |-> op,
                   set |-> [set EXCEPT
                              !.invite = IF @ = Same THEN row.invite ELSE @,
                              !.inviteExp = IF @ = Same THEN row.inviteExp ELSE @,
                              !.reset = IF @ = Same THEN row.reset ELSE @,
                              !.resetExp = IF @ = Same THEN row.resetExp ELSE @]]]
    /\ UNCHANGED <<row, issued, wrong, bypassed>>

\* A handler from its read to its commit: the UPDATE it will send.
Begin(r, op, set) ==
    /\ req[r] = Idle
    /\ req' = [req EXCEPT ![r] = [op |-> op, set |-> set]]
    /\ UNCHANGED <<row, issued, wrong, bypassed>>

\* resend_activation_invite, and update_user_credentials when it changes the
\* email address of an account that is PENDING.
ReissueInvite(r) ==
    /\ row.status = "PENDING"
    /\ Begin(r, "reissue", [Nothing EXCEPT !.invite = Fresh, !.inviteExp = Fresh])

\* Mutant: the invite can be used again.
ActivateAccountKeepsInvite(r) ==
    /\ row.invite # None
    /\ row.inviteExp # None
    /\ Begin(r, "invite",
             [Nothing EXCEPT !.password = TRUE,
                             !.active = Set(TRUE, row.active),
                             !.status = Set("ACTIVE", row.status)])

\* activate_account with the live invite: the status is not looked at.
ActivateAccount(r) ==
    /\ row.invite # None
    /\ row.inviteExp # None
    /\ Begin(r, "invite",
             [Nothing EXCEPT !.password = TRUE,
                             !.active = Set(TRUE, row.active),
                             !.status = Set("ACTIVE", row.status),
                             !.invite = None, !.inviteExp = None])

\* Mutant: the administrator's activation takes the invite away.
ActivateUserClearsInvite(r) ==
    /\ ~row.active
    /\ Begin(r, "activate",
             [Nothing EXCEPT !.active = TRUE,
                             !.status = Set("ACTIVE", row.status),
                             !.invite = Set(None, row.invite),
                             !.inviteExp = Set(None, row.inviteExp),
                             !.failed = Set(0, row.failed),
                             !.locked = Set("no", row.locked)])

\* activate_user by an administrator, whatever the status was.
ActivateUser(r) ==
    /\ ~row.active
    /\ Begin(r, "activate",
             [Nothing EXCEPT !.active = TRUE,
                             !.status = Set("ACTIVE", row.status),
                             !.failed = Set(0, row.failed),
                             !.locked = Set("no", row.locked)])

\* Mutant: the status is left as it was.
DeactivateUserKeepsStatus(r) ==
    /\ row.active
    /\ Begin(r, "deactivate", [Nothing EXCEPT !.active = FALSE])

DeactivateUser(r) ==
    /\ row.active
    /\ Begin(r, "deactivate",
             [Nothing EXCEPT !.active = FALSE,
                             !.status = Set("DEACTIVATED", row.status)])

\* create_forgot_password_request or create_reset_password_request.
RequestReset(r) ==
    Begin(r, "request", [Nothing EXCEPT !.reset = Fresh, !.resetExp = Fresh])

\* Mutant: the expiry of the token is left behind.
ResetPasswordKeepsExpiry(r) ==
    /\ row.reset # None
    /\ row.resetExp # None
    /\ Begin(r, "reset",
             [Nothing EXCEPT !.password = TRUE, !.reset = None,
                             !.failed = Set(0, row.failed),
                             !.locked = Set("no", row.locked)])

\* reset_password with the live token: whatever the status, even PENDING.
ResetPassword(r) ==
    /\ row.reset # None
    /\ row.resetExp # None
    /\ Begin(r, "reset",
             [Nothing EXCEPT !.password = TRUE,
                             !.reset = None, !.resetExp = None,
                             !.failed = Set(0, row.failed),
                             !.locked = Set("no", row.locked)])

\* login up to the password check; a refused login changes nothing.
MayTryPassword == /\ row.locked # "running"
                  /\ row.password
                  /\ row.status # "PENDING"

\* Mutant: the lock comes one failure early.
LoginWrongEarly(r) ==
    /\ MayTryPassword
    /\ Begin(r, "wrong",
             [Nothing EXCEPT !.failed = row.failed + 1,
                             !.locked = IF row.failed + 2 >= MaxFailed
                                        THEN "running" ELSE Same])

\* Mutant: the counter counts down.
LoginWrongCountsDown(r) ==
    /\ MayTryPassword
    /\ Begin(r, "wrong", [Nothing EXCEPT !.failed = row.failed - 1])

\* login with a wrong password: one more than was loaded, and perhaps a lock.
LoginWrong(r) ==
    /\ MayTryPassword
    /\ Begin(r, "wrong",
             [Nothing EXCEPT !.failed = row.failed + 1,
                             !.locked = IF row.failed + 1 >= MaxFailed
                                        THEN "running" ELSE Same])

\* login with the right password (its session is in AuthSession).
LoginRight(r) ==
    /\ MayTryPassword
    /\ row.status = "ACTIVE"
    /\ Begin(r, "right", [Nothing EXCEPT !.failed = Set(0, row.failed),
                                         !.locked = Set("no", row.locked)])

Arrive(r) ==
    \/ ReissueInvite(r)
    \/ ActivateAccount(r)
    \/ ActivateUser(r)
    \/ DeactivateUser(r)
    \/ RequestReset(r)
    \/ ResetPassword(r)
    \/ LoginWrong(r)
    \/ LoginRight(r)

\* The commit.  A token is numbered when it first can be used.
Commit(r) ==
    LET op == req[r].op
        set == req[r].set
    IN  /\ req[r] # Idle
        /\ op \in {"reissue", "request"} => issued < MaxToken
        /\ op = "wrong" => wrong < MaxWrong
        /\ row' = Updated(set)
        /\ issued' = IF op \in {"reissue", "request"} THEN issued + 1 ELSE issued
        /\ wrong' = IF op = "wrong" THEN wrong + 1 ELSE wrong
        /\ bypassed' = \/ bypassed
                       \/ op = "activate" /\ row.invite # None
                       \/ op = "reissue" /\ row.status # "PENDING"
        /\ req' = [req EXCEPT ![r] = Idle]

\* The request dies before its commit: token expired, client gone, database
\* error, crash.
Drop(r) ==
    /\ req[r] # Idle
    /\ req' = [req EXCEPT ![r] = Idle]
    /\ UNCHANGED <<row, issued, wrong, bypassed>>

\* LOCKOUT_MINUTES pass.
LockRunsOut ==
    /\ row.locked = "running"
    /\ row' = [row EXCEPT !.locked = "over"]
    /\ UNCHANGED <<issued, wrong, bypassed, req>>

Next ==
    \/ \E r \in Req : Arrive(r) \/ Commit(r) \/ Drop(r)
    \/ LockRunsOut

Spec == Init /\ [][Next]_vars

-----------------------------------------------------------------------------
TypeOK ==
    /\ row \in Row
    /\ issued \in Nat
    /\ wrong \in Nat
    /\ bypassed \in BOOLEAN
    /\ req \in [Req -> [op: Op, set: Update] \cup {Idle}]

\* is_active and status say the same, although handlers flush them as two
\* columns over each other's.
StatusAgrees == row.active <=> row.status = "ACTIVE"

\* A token has an expiry exactly as long as it has a hash: verifying compares
\* one and then the other, each read as it is.
TokenColumnsAgree == row.invite = row.inviteExp /\ row.reset = row.resetExp

\* Whoever has no password yet has an invite to set one with.
PasswordOrInvite == row.password \/ row.invite # None

\* Past PENDING no invite is live that could activate the account again, but
\* for the two ways the code leaves open: activate_user does not look at the
\* invite, and an invite may be issued for a status that has passed.
InviteEndsWithPending ==
    row.status # "PENDING" /\ row.invite # None => bypassed

\* Invites and reset tokens are one-time secrets: one that was used or replaced
\* never comes back, however stale the request that commits.
Invite == INSTANCE OneTimeSecret WITH live <- row.invite
Reset == INSTANCE OneTimeSecret WITH live <- row.reset
SecretsSpec == Invite!Spec /\ Reset!Spec

\* An account is not locked before MaxFailed wrong passwords, however stale the
\* counter that a login loaded.
LockNeedsFailures == row.locked # "no" => wrong >= MaxFailed

=============================================================================
