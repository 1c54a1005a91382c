----------------------------- MODULE EmailChange -----------------------------
(***************************************************************************)
(* The change of a user's own email address: a code is mailed to the new   *)
(* address, and whoever presents it in time has shown to own the address.  *)
(* An administrator may override the address, which ends the change.       *)
(*                                                                         *)
(* Requests of the user and of administrators overlap.  Each loads the     *)
(* row, decides, and commits an UPDATE of the columns it has changed.      *)
(***************************************************************************)
EXTENDS Naturals, Sequences

CONSTANTS
    Req,        \* concurrent requests about the user
    Address,    \* email addresses
    MaxCode,    \* bound on the codes that are issued
    None,       \* a column that is NULL
    Same,       \* a column that an UPDATE does not set
    Fresh       \* a column that an UPDATE sets to a code made for it

ASSUME EmailChangeAssumption ==
    /\ MaxCode \in Nat
    /\ None \notin Nat \cup Address \cup {"live", "lapsed"}
    /\ Same \notin Nat \cup Address \cup {"live", "lapsed"}
    /\ Fresh \notin Nat \cup Address
    /\ None # Same /\ None # Fresh /\ Same # Fresh

VARIABLES
    row,        \* the committed row of the user with its session
    sentTo,     \* history: the address that each code was mailed to, in order
    crossed,    \* history: a repeated request put its code next to an address
                \* that another request has written since
    req         \* the requests between their read and their commit

vars == <<row, sentTo, crossed, req>>

issued == Len(sentTo)

\* Codes are numbered in the order of their commits.
Row == [email: Address, pend: Address \cup {None},
        code: Nat \cup {None}, exp: {None, "live", "lapsed"}]

Update == [email: Address \cup {Same}, pend: Address \cup {None, Same},
           code: Nat \cup {None, Same, Fresh}, exp: {None, Same, "live", "lapsed"}]

\* at: history, the codes issued when the row was read;
\* to: the address that a new code is for;  used: the code that was verified.
Request == [op: {"request", "confirm", "override"}, set: Update, at: Nat,
            to: Address \cup {None}, used: Nat \cup {None}]

Idle == [op |-> "idle"]

-----------------------------------------------------------------------------
\* A flush sets a column if its value is not the one that was loaded.
Set(value, loaded) == IF value = loaded THEN Same ELSE value

\* The row after an UPDATE, which merges with whatever is there by now.
Updated(set) ==
    [email |-> IF set.email = Same THEN row.email ELSE set.email,
     pend |-> IF set.pend = Same THEN row.pend ELSE set.pend,
     code |-> IF set.code = Same THEN row.code
              ELSE IF set.code = Fresh THEN issued + 1 ELSE set.code,
     exp |-> IF set.exp = Same THEN row.exp ELSE set.exp]

Init ==
    /\ \E a \in Address :
           row = [email |-> a, pend |-> None, code |-> None, exp |-> None]
    /\ sentTo = <<>>
    /\ crossed = FALSE
    /\ req = [r \in Req |-> Idle]

-----------------------------------------------------------------------------
\* A handler from its read to its commit: the UPDATE it will send.
Begin(r, op, set, to, used) ==
    /\ req[r] = Idle
    /\ req' = [req EXCEPT ![r] = [op |-> op, set |-> set, at |-> issued,
                                  to |-> to, used |-> used]]
    /\ UNCHANGED <<row, sentTo, crossed>>

\* Mutant: the code of the address asked for before is kept while it lives.
RequestChangeKeepsCode(r) ==
    \E a \in Address \ {row.email} :
        /\ ~(row.pend = a /\ row.exp = "live")
        /\ Begin(r, "request",
                 [email |-> Same, pend |-> Set(a, row.pend),
                  code |-> IF row.exp = "live" THEN Same ELSE Fresh,
                  exp |-> IF row.exp = "live" THEN Same ELSE "live"], a, None)

\* Mutant: the pending address and the code are swapped.
RequestChangeSwapped(r) ==
    \E a \in Address \ {row.email} :
        Begin(r, "request",
              [email |-> Same, pend |-> Fresh, code |-> a, exp |-> "live"], a, None)

\* update_me_credentials with a new address.  The request that is pending may be
\* repeated for the same address only when its code has lapsed.
RequestChange(r) ==
    \E a \in Address \ {row.email} :
        /\ ~(row.pend = a /\ row.exp = "live")
        /\ Begin(r, "request",
                 [email |-> Same, pend |-> Set(a, row.pend),
                  code |-> Fresh, exp |-> "live"], a, None)

\* confirm_email_change with the code of the pending change, not yet lapsed.
ConfirmEmailChange(r) ==
    /\ row.pend # None
    /\ row.code # None
    /\ row.exp = "live"
    /\ Begin(r, "confirm",
             [email |-> Set(row.pend, row.email), pend |-> None,
              code |-> None, exp |-> None], None, row.code)

\* Mutant: the expiry of the code is left behind.
OverrideKeepsExpiry(r) ==
    \E a \in (Address \ {row.email}) \cup {Same} :
        Begin(r, "override",
              [email |-> a, pend |-> Set(None, row.pend),
               code |-> Set(None, row.code), exp |-> Same], None, None)

\* Mutant: an override of the username lets the change go on.
OverrideOfNameKeepsChange(r) ==
    \E a \in (Address \ {row.email}) \cup {Same} :
        Begin(r, "override",
              IF a = Same
              THEN [email |-> Same, pend |-> Same, code |-> Same, exp |-> Same]
              ELSE [email |-> a, pend |-> Set(None, row.pend),
                    code |-> Set(None, row.code), exp |-> Set(None, row.exp)],
              None, None)

\* Mutant: an override of the username writes back the change that it loaded.
OverrideOfNameWritesBack(r) ==
    \E a \in (Address \ {row.email}) \cup {Same} :
        Begin(r, "override",
              IF a = Same
              THEN [email |-> Same, pend |-> row.pend, code |-> row.code,
                    exp |-> row.exp]
              ELSE [email |-> a, pend |-> Set(None, row.pend),
                    code |-> Set(None, row.code), exp |-> Set(None, row.exp)],
              None, None)

\* update_user_credentials by an administrator, of the address or the username.
UpdateUserCredentials(r) ==
    \E a \in (Address \ {row.email}) \cup {Same} :
        Begin(r, "override",
              [email |-> a, pend |-> Set(None, row.pend),
               code |-> Set(None, row.code), exp |-> Set(None, row.exp)], None, None)

Arrive(r) == RequestChange(r) \/ ConfirmEmailChange(r) \/ UpdateUserCredentials(r)

\* The commit, after which the task of a request mails its code.
Commit(r) ==
    LET set == req[r].set
        mails == set.code = Fresh
    IN  /\ req[r] # Idle
        /\ mails => issued < MaxCode
        /\ row' = Updated(set)
        /\ sentTo' = IF mails THEN Append(sentTo, req[r].to) ELSE sentTo
        /\ crossed' = \/ crossed
                      \/ mails /\ set.pend = Same /\ row.pend \notin {None, req[r].to}
        /\ req' = [req EXCEPT ![r] = Idle]

\* The request dies before its commit: contact limit, unique index, client gone,
\* database error, crash.
Drop(r) ==
    /\ req[r] # Idle
    /\ req' = [req EXCEPT ![r] = Idle]
    /\ UNCHANGED <<row, sentTo, crossed>>

\* EMAIL_CHANGE_CODE_EXPIRES_MINUTES pass.
Lapse ==
    /\ row.exp = "live"
    /\ row' = [row EXCEPT !.exp = "lapsed"]
    /\ UNCHANGED <<sentTo, crossed, req>>

Next ==
    \/ \E r \in Req : Arrive(r) \/ Commit(r) \/ Drop(r)
    \/ Lapse

Spec == Init /\ [][Next]_vars

-----------------------------------------------------------------------------
TypeOK ==
    /\ row \in Row
    /\ sentTo \in Seq(Address)
    /\ crossed \in BOOLEAN
    /\ req \in [Req -> Request \cup {Idle}]

\* A code has an expiry exactly as long as it is there: confirm_email_change
\* looks for the code and then compares the expiry, whatever it is.
CodeColumnsAgree == row.code = None <=> row.exp = None

\* An address becomes the user's by an administrator's override, or by a code
\* that was mailed to that very address.  Only where a repeated request crossed
\* one for another address may the code have gone to the wrong one.
EmailProven ==
    [][row'.email # row.email =>
          \E r \in Req :
              /\ req[r] # Idle /\ req'[r] = Idle
              /\ \/ req[r].op = "override"
                 \/ /\ req[r].op = "confirm"
                    /\ crossed \/ sentTo[req[r].used] = row'.email]_vars

\* A confirmation or an override ends the change: what code there is after it
\* was issued after the handler had read the row.
ChangeEnds ==
    [][\A r \in Req :
          Commit(r) /\ req[r].op \in {"confirm", "override"} =>
              row'.code = None \/ row'.code > req[r].at]_vars

\* The code is a one-time secret: one that was used, replaced or called off
\* never comes back, however stale the request that commits.
Secret == INSTANCE OneTimeSecret WITH live <- row.code
SecretSpec == Secret!Spec

=============================================================================
