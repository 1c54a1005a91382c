----------------------------- MODULE AuthSession -----------------------------
(***************************************************************************)
(* The login session of one activated user: the row of users_sessions (and *)
(* users.is_active), the access-token version cached in Redis, and the     *)
(* requests that read and change them.                                     *)
(*                                                                         *)
(* A request reads the row into its database session, computes new values  *)
(* from what it read, and commits later.  There is no row lock, and the    *)
(* ORM flushes only the columns whose new value differs from the value     *)
(* that was READ, so requests that overlap merge column by column.  The    *)
(* cache entry is deleted after the commit, in a further step that may     *)
(* fail without notice.                                                    *)
(***************************************************************************)
EXTENDS Naturals

CONSTANTS
    Req,            \* concurrent requests, each with a session of its own
    MaxVersion,     \* bound on access_token_version
    MaxToken,       \* bound on the refresh tokens issued
    RedisFails,     \* whether Redis calls may fail; core/caching.py swallows
                    \* the error of each of them
    None            \* SQL NULL, a Redis miss, a snapshot not taken

ASSUME AuthAssumption ==
    /\ MaxVersion \in Nat
    /\ MaxToken \in Nat
    /\ RedisFails \in BOOLEAN
    /\ None \notin Nat

VARIABLES
    row,        \* the committed row
    cache,      \* the cached access_token_version, or None
    gap,        \* history: what keeps the cached version from being trusted
    issued,     \* refresh tokens issued so far; they are numbered 1..issued
    granted,    \* versions that access tokens have been issued for
    req         \* the requests in progress

vars == <<row, cache, gap, issued, granted, req>>

\* refresh_token_hash and refresh_token_family.  A raw token is always handed
\* out with a family made for it, so both are written as the token's number;
\* refresh_token_expires_at is written with the hash in every handler.
Row == [ver: Nat, hash: Nat \cup {None}, fam: Nat \cup {None}, active: BOOLEAN]

ASSUME NoneAssumption == None \notin Row

\* What an authenticated user may ask for: something that only reads, or
\* something that also changes the row.
SelfOp == {"profile", "logout", "username"}

\* Handlers that increment the version, and those that end the session too.
\* "logout" also stands for update_me_password and confirm_email_change,
\* "override" for reset_password and update_user_credentials: they do the same
\* to this row.
Bumps == {"logout", "username", "invalidate", "override", "deactivate"}
Clears == Bumps \ {"username"}
Mints == {"login", "refresh"}

\* Mutant: deactivation relies on the time to live of the cached version.
PurgesNotDeactivate == Bumps \ {"deactivate"}

\* Handlers that delete the cached version after the commit.
Purges == Bumps

\* missed: a deletion of the cached version has failed or was never sent since
\* the last one that succeeded;  late: the version was loaded before it.
Gap == [missed: BOOLEAN, late: BOOLEAN]

Op == SelfOp \cup Bumps \cup Mints \cup {"activate"}

\* overtaken: history, the cached version was deleted after the request loaded
\* the row and before it fills the cache.
Request == [pc: {"auth", "load", "fill", "handle", "commit", "purge"}, op: Op,
            ver: Nat, tok: Nat, snap: Row \cup {None}, overtaken: BOOLEAN]

Idle == [pc |-> "idle"]

-----------------------------------------------------------------------------
\* Mutant: deactivation clears the hash and leaves the family.
NewRowKeepsFamily(op, snap, tok) ==
    LET session == IF op \in Clears THEN None
                   ELSE IF op \in Mints THEN tok ELSE snap.hash
    IN  [ver |-> IF op \in Bumps THEN snap.ver + 1 ELSE snap.ver,
         hash |-> session,
         fam |-> IF op = "deactivate" THEN snap.fam
                 ELSE IF op \in Clears \cup Mints THEN session ELSE snap.fam,
         active |-> IF op \in {"activate", "deactivate"} THEN op = "activate"
                                                         ELSE snap.active]

\* The values a handler leaves in the row it read, given the number of the
\* refresh token it would issue.
NewRow(op, snap, tok) ==
    LET session == IF op \in Clears THEN None
                   ELSE IF op \in Mints THEN tok ELSE snap.hash
    IN  [ver |-> IF op \in Bumps THEN snap.ver + 1 ELSE snap.ver,
         hash |-> session,
         fam |-> IF op \in Clears \cup Mints THEN session ELSE snap.fam,
         active |-> IF op \in {"activate", "deactivate"} THEN op = "activate"
                                                         ELSE snap.active]

\* Mutant: an update of all columns.
FlushAllColumns(new, snap) == new

\* A flush writes the columns that changed, over whatever is there by now.
Flush(new, snap) ==
    [ver |-> IF new.ver # snap.ver THEN new.ver ELSE row.ver,
     hash |-> IF new.hash # snap.hash THEN new.hash ELSE row.hash,
     fam |-> IF new.fam # snap.fam THEN new.fam ELSE row.fam,
     active |-> IF new.active # snap.active THEN new.active ELSE row.active]

Init ==
    /\ row = [ver |-> 1, hash |-> None, fam |-> None, active |-> TRUE]
    /\ cache = None
    /\ gap = [missed |-> FALSE, late |-> FALSE]
    /\ issued = 0
    /\ granted = {}
    /\ req = [r \in Req |-> Idle]

Begin(r, pc, op, ver, tok, snap) ==
    /\ req[r] = Idle
    /\ req' = [req EXCEPT ![r] = [pc |-> pc, op |-> op, ver |-> ver, tok |-> tok,
                                  snap |-> snap, overtaken |-> FALSE]]
    /\ UNCHANGED <<row, cache, gap, issued, granted>>

\* A protected request arrives with the access token of some version.
PresentAccessToken(r) ==
    \E op \in SelfOp, v \in granted : Begin(r, "auth", op, v, 0, None)

\* login, up to the password check that is awaited after the row was read.
Login(r) == row.active /\ Begin(r, "commit", "login", 0, 0, row)

\* refresh_token, up to the commit: the live token is rotated, any other token
\* of this user revokes the session.  Neither status nor is_active is looked at.
RefreshToken(r) ==
    \E tok \in 1..issued :
        /\ row.hash # None
        /\ row.fam # None
        /\ LET op == IF tok = row.hash /\ tok = row.fam THEN "refresh"
                                                      ELSE "invalidate"
           IN  Begin(r, "commit", op, 0, tok, row)

\* update_user_credentials by an admin, or reset_password with a mailed token.
Override(r) == Begin(r, "commit", "override", 0, 0, row)

DeactivateUser(r) == row.active /\ Begin(r, "commit", "deactivate", 0, 0, row)

ActivateUser(r) == ~row.active /\ Begin(r, "commit", "activate", 0, 0, row)

Arrive(r) ==
    \/ PresentAccessToken(r)
    \/ Login(r)
    \/ RefreshToken(r)
    \/ Override(r)
    \/ DeactivateUser(r)
    \/ ActivateUser(r)

-----------------------------------------------------------------------------
\* Mutant: what the request knew survives it.
FinishWithoutReset(r) == req' = [req EXCEPT ![r].pc = "idle"]

Finish(r) == req' = [req EXCEPT ![r] = Idle]

\* get_current_user: ask Redis first.  An error of Redis is a miss.
CheckCache(r) ==
    /\ req[r].pc = "auth"
    /\ \/ /\ RedisFails \/ cache = None
          /\ req' = [req EXCEPT ![r].pc = "load"]
       \/ cache = req[r].ver /\ req' = [req EXCEPT ![r].pc = "handle"]
       \/ cache \notin {req[r].ver, None} /\ Finish(r)
    /\ UNCHANGED <<row, cache, gap, issued, granted>>

\* Mutant: is_active is not looked at.
LoadInactiveUser(r) ==
    /\ req[r].pc = "load"
    /\ IF row.ver = req[r].ver
       THEN req' = [req EXCEPT ![r].pc = "fill", ![r].snap = row]
       ELSE Finish(r)
    /\ UNCHANGED <<row, cache, gap, issued, granted>>

\* A miss reads the row, and refuses another version or an inactive account.
LoadUser(r) ==
    /\ req[r].pc = "load"
    /\ IF row.ver = req[r].ver /\ row.active
       THEN req' = [req EXCEPT ![r].pc = "fill", ![r].snap = row]
       ELSE Finish(r)
    /\ UNCHANGED <<row, cache, gap, issued, granted>>

\* A request that has loaded the version and not yet stored it.
Filling(r) == req[r] # Idle /\ req[r].pc = "fill"

\* set_cache with a time to live.
FillCache(r) ==
    /\ Filling(r)
    /\ \/ /\ cache' = req[r].snap.ver
          /\ gap' = [gap EXCEPT !.late = req[r].overtaken]
       \/ RedisFails /\ UNCHANGED <<cache, gap>>
    /\ req' = [req EXCEPT ![r].pc = "handle", ![r].overtaken = FALSE]
    /\ UNCHANGED <<row, issued, granted>>

\* The token is accepted and the handler runs.  It reads the row, unless the
\* session still holds the object that LoadUser read.
Handle(r) ==
    /\ req[r].pc = "handle"
    /\ IF req[r].op = "profile"
       THEN Finish(r)
       ELSE \E snap \in {row, req[r].snap} \ {None} :
                req' = [req EXCEPT ![r].pc = "commit", ![r].snap = snap]
    /\ UNCHANGED <<row, cache, gap, issued, granted>>

\* Commit what the handler changed.  Login and refresh_token answer with an
\* access token of the version they read; the others go on to delete_cache.
Commit(r) ==
    LET op == req[r].op
        snap == req[r].snap
        tok == issued + 1
    IN  /\ req[r].pc = "commit"
        /\ op \in Bumps => snap.ver < MaxVersion
        /\ op \in Mints => issued < MaxToken
        /\ row' = Flush(NewRow(op, snap, tok), snap)
        /\ IF op \in Mints
           THEN issued' = tok /\ granted' = granted \cup {snap.ver}
           ELSE UNCHANGED <<issued, granted>>
        /\ IF op \in Purges THEN req' = [req EXCEPT ![r].pc = "purge"]
                            ELSE Finish(r)
        /\ UNCHANGED <<cache, gap>>

\* delete_cache, whose error is swallowed, and the answer.
Purge(r) ==
    /\ req[r].pc = "purge"
    /\ \/ /\ cache' = None
          /\ gap' = [missed |-> FALSE, late |-> FALSE]
          /\ req' = [s \in Req |->
                        IF s = r THEN Idle
                        ELSE IF Filling(s) THEN [req[s] EXCEPT !.overtaken = TRUE]
                                           ELSE req[s]]
       \/ /\ RedisFails
          /\ gap' = [gap EXCEPT !.missed = TRUE]
          /\ Finish(r)
          /\ UNCHANGED cache
    /\ UNCHANGED <<row, issued, granted>>

Progress(r) ==
    \/ CheckCache(r)
    \/ LoadUser(r)
    \/ FillCache(r)
    \/ Handle(r)
    \/ Commit(r)
    \/ Purge(r)

\* The request dies: client gone, database error, wrong password, expired
\* token, crash of the server.  What was not committed is rolled back.
Drop(r) ==
    /\ req[r] # Idle
    /\ Finish(r)
    /\ gap' = [gap EXCEPT !.missed = gap.missed \/ req[r].pc = "purge"]
    /\ UNCHANGED <<row, cache, issued, granted>>

\* Mutant: the cache entry is stored without a time to live.
ExpireNever == cache # cache /\ UNCHANGED vars

\* The time to live of the cache entry runs out.
Expire ==
    /\ cache # None
    /\ cache' = None
    /\ gap' = [gap EXCEPT !.late = FALSE]
    /\ UNCHANGED <<row, issued, granted, req>>

Next ==
    \/ \E r \in Req : Arrive(r) \/ Progress(r) \/ Drop(r)
    \/ Expire

Spec == Init /\ [][Next]_vars

\* Awaited calls return, and Redis expires its keys.
Fairness == WF_vars(Expire) /\ \A r \in Req : WF_vars(Progress(r))

FairSpec == Spec /\ Fairness

-----------------------------------------------------------------------------
TypeOK ==
    /\ row \in Row
    /\ cache \in Nat \cup {None}
    /\ gap \in Gap
    /\ issued \in Nat
    /\ granted \subseteq Nat
    /\ req \in [Req -> Request \cup {Idle}]

\* The refresh token in the row and its family belong together, although every
\* handler writes the columns on its own and only those that changed.
RefreshColumnsAgree == row.hash = row.fam

\* The refresh token of the row is a one-time secret: one that has been rotated
\* out or cleared never comes back, however stale the request that writes.
Secret == INSTANCE OneTimeSecret WITH live <- row.hash
SecretSpec == Secret!Spec

Pending == \E r \in Req : req[r] # Idle /\ req[r].pc = "purge"

\* What get_current_user takes from the cache without looking at the row is true
\* of the row, also that the account is active, but for the gaps of explicit
\* invalidation: between commit and deletion, after a deletion that failed, and
\* when one overtook the fill.
CachedVersionFresh ==
    cache # None /\ ~gap.late /\ ~gap.missed /\ ~Pending =>
        cache = row.ver /\ row.active

Accepts(r, v) == req[r] # Idle /\ req[r].pc = "handle" /\ req[r].ver = v

\* An access token whose version the row has left for good is refused in the
\* end: a stale cache entry dies with its time to live and is not filled again.
RevokedEventuallyRejected ==
    \A v \in 1..MaxVersion :
        <>[](row.ver # v) => <>[](\A r \in Req : ~Accepts(r, v))

\* An account that stays deactivated is served no protected request in the
\* end, whatever versions and tokens its sessions still have.
DeactivatedEventuallyRejected ==
    <>[](~row.active) =>
        <>[](\A r \in Req, v \in 0..MaxVersion : ~Accepts(r, v))

=============================================================================
