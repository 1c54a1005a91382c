---------------------------- MODULE TokenExchange ----------------------------
(***************************************************************************)
(* AuthSession with a memory of which refresh tokens have been exchanged   *)
(* for new ones.                                                           *)
(***************************************************************************)
EXTENDS AuthSession

VARIABLE exchanged      \* history: refresh tokens that refresh_token rotated

exchangeVars == <<vars, exchanged>>

\* refresh_token accepted the token of request r, and commits its successor.
Exchange(r) ==
    /\ req[r] # Idle
    /\ req[r].op = "refresh"
    /\ Commit(r)

ExchangeInit == Init /\ exchanged = {}

ExchangeNext ==
    /\ Next
    /\ exchanged' = exchanged \cup {req[r].tok : r \in {s \in Req : Exchange(s)}}

ExchangeSpec == ExchangeInit /\ [][ExchangeNext]_exchangeVars

-----------------------------------------------------------------------------
\* A claim of the tests that the code does not keep.

\* "Using a consumed token must invalidate everything" (refresh-token test): of
\* the requests that present the same refresh token, refresh_token answers at
\* most one with new tokens.
ConsumedOnce ==
    [][\A r \in Req : Exchange(r) => req[r].tok \notin exchanged]_exchangeVars

=============================================================================
