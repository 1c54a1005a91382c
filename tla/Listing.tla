------------------------------- MODULE Listing -------------------------------
(***************************************************************************)
(* The listings of users, groups, subjects and emails: a client walks      *)
(* through the pages with skip and limit while rows come, go and move.     *)
(*                                                                         *)
(* Each page takes two statements, a count and a select, and each of them  *)
(* sees what is committed by then.  Rows with equal sort keys come in any  *)
(* order, and not in the same one in two statements.                       *)
(***************************************************************************)
EXTENDS Naturals, FiniteSets, SequencesExt

CONSTANTS
    Id,         \* rows that may be in the listing
    MaxKey,     \* sort keys are 1..MaxKey
    Limit,      \* rows of a page
    MaxChanges, \* bound on the changes during the walk
    None        \* not in the listing

ASSUME ListingAssumption ==
    /\ IsFiniteSet(Id)
    /\ MaxKey \in Nat \ {0}
    /\ Limit \in 1..100
    /\ MaxChanges \in Nat
    /\ None \notin Nat

VARIABLES
    order,      \* "asc" or "desc", chosen by the client
    key,        \* the sort key of each row that the filters let through
    walk,       \* the client: what it does next, where it is, what it got
    begun,      \* history: the rows there were when the walk began
    changes,    \* history: changes since the walk began
    seen        \* history: what kinds of changes these were

vars == <<order, key, walk, begun, changes, seen>>

Key == 1..MaxKey

\* The rows that the filters let through.
Listed == {i \in Id : key[i] # None}

Init ==
    /\ order \in {"asc", "desc"}
    /\ key \in [Id -> Key \cup {None}]
    /\ walk = [pc |-> "count", skip |-> 0, total |-> 0, got |-> <<>>]
    /\ begun = Listed
    /\ changes = 0
    /\ seen = [moved |-> FALSE, added |-> FALSE, torn |-> FALSE, tied |-> FALSE]

-----------------------------------------------------------------------------
\* apply_sorting: by one column, without anything that breaks a tie.
Sorted(s) ==
    \A i, j \in DOMAIN s :
        i < j => IF order = "asc" THEN key[s[i]] <= key[s[j]]
                                  ELSE key[s[i]] >= key[s[j]]

Tied == \E i, j \in Listed : i # j /\ key[i] = key[j]

\* Mutant: a join makes two of every row that is counted.
CountRowsTwice ==
    /\ walk.pc = "count"
    /\ walk' = [walk EXCEPT !.pc = "page", !.total = 2 * Cardinality(Listed)]
    /\ UNCHANGED <<order, key, begun, changes, seen>>

\* The first statement of paginate.
CountRows ==
    /\ walk.pc = "count"
    /\ walk' = [walk EXCEPT !.pc = "page", !.total = Cardinality(Listed)]
    /\ UNCHANGED <<order, key, begun, changes, seen>>

\* Mutant: has_more is about the rows after the next page.
HasMoreLate == walk.skip + Limit + 1 < walk.total

\* has_more of the answer, from the total that was counted first.
HasMore == walk.skip + Limit < walk.total

\* Mutant: pages overlap by one row.
PageOverlapping(s) ==
    SubSeq(s, IF walk.skip = 0 THEN 1 ELSE walk.skip,
           IF walk.skip + Limit < Len(s) THEN walk.skip + Limit ELSE Len(s))

\* OFFSET and LIMIT.
Page(s) == SubSeq(s, walk.skip + 1,
                  IF walk.skip + Limit < Len(s) THEN walk.skip + Limit ELSE Len(s))

\* The second statement, the answer, and a client that asks for the next page
\* while there is more.
SelectPage ==
    /\ walk.pc = "page"
    /\ \E s \in SetToSeqs(Listed) :
           /\ Sorted(s)
           /\ walk' = [walk EXCEPT !.got = walk.got \o Page(s),
                                   !.pc = IF HasMore THEN "count" ELSE "done",
                                   !.skip = walk.skip + Limit]
    /\ seen' = [seen EXCEPT !.tied = seen.tied \/ Tied]
    /\ UNCHANGED <<order, key, begun, changes>>

-----------------------------------------------------------------------------
Changed(i, k) ==
    /\ walk.pc # "done"
    /\ changes < MaxChanges
    /\ key' = [key EXCEPT ![i] = k]
    /\ changes' = changes + 1
    /\ UNCHANGED <<order, walk, begun>>

\* A row is created, or a change lets it through the filters.  A new row is the
\* newest by created_at, but not by any other column.
AddRow(i) ==
    /\ key[i] = None
    /\ \E k \in Key :
           /\ Changed(i, k)
           /\ seen' = [seen EXCEPT !.added = TRUE,
                                   !.torn = seen.torn \/ walk.pc = "page",
                                   !.moved = \/ seen.moved
                                             \/ \E j \in Listed : key[j] >= k]

\* A row is archived, deactivated, sent, renamed: it leaves the listing.
RemoveRow(i) ==
    /\ key[i] # None
    /\ Changed(i, None)
    /\ seen' = [seen EXCEPT !.moved = TRUE]

\* An update of the column that is sorted by.
MoveRow(i) ==
    /\ key[i] # None
    /\ \E k \in Key \ {key[i]} : Changed(i, k)
    /\ seen' = [seen EXCEPT !.moved = TRUE]

Next ==
    \/ CountRows
    \/ SelectPage
    \/ \E i \in Id : AddRow(i) \/ RemoveRow(i) \/ MoveRow(i)

Spec == Init /\ [][Next]_vars

-----------------------------------------------------------------------------
TypeOK ==
    /\ order \in {"asc", "desc"}
    /\ key \in [Id -> Key \cup {None}]
    /\ walk \in [pc: {"count", "page", "done"}, skip: Nat,
                 total: 0..Cardinality(Id), got: Seq(Id)]
    /\ begun \subseteq Id
    /\ changes \in 0..MaxChanges
    /\ seen \in [moved: BOOLEAN, added: BOOLEAN, torn: BOOLEAN, tied: BOOLEAN]

\* A walk misses none of the rows there were when it began, although new rows
\* push the others to later pages.  For that no row may leave or move, the keys
\* must differ, and, newest first, none may come between the count and the page.
NothingMissed ==
    /\ walk.pc = "done"
    /\ ~seen.moved /\ ~seen.tied
    /\ order = "asc" \/ ~seen.torn
    => begun \subseteq ToSet(walk.got)

\* A walk meets no row twice, if no row leaves or moves, the keys differ, and
\* new rows come at the end.
NothingTwice ==
    ~seen.moved /\ ~seen.tied /\ (order = "asc" \/ ~seen.added)
    => IsInjective(walk.got)

=============================================================================
