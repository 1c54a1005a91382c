-------------------------- MODULE EmailChangeProofs --------------------------
(***************************************************************************)
(* Proofs about EmailChange, for any number of addresses, codes and        *)
(* overlapping requests.                                                   *)
(***************************************************************************)
EXTENDS EmailChange, SequenceTheorems, TLAPS

CodesIssued == row.code # None => row.code \in 1..issued

\* A code that could confirm the pending address was mailed to it.
PendingProvable ==
    row.pend # None /\ row.code # None => crossed \/ sentTo[row.code] = row.pend

\* What each handler is about to commit.
SetsPair(set) ==
    /\ set.code \in {None, Same, Fresh}
    /\ (set.code = Same) <=> (set.exp = Same)
    /\ (set.code = None) <=> (set.exp = None)

RequestShape(q) ==
    /\ q.op = "request" <=> q.set.code = Fresh
    /\ q.op = "request" => /\ q.set.email = Same
                           /\ q.to \in Address
                           /\ q.set.pend \in {q.to, Same}
    /\ q.op # "request" => q.set.pend \in {None, Same}
    /\ q.op = "confirm" => q.set.code = None

\* What still holds of the row that was read.
Verified(q) ==
    q.op = "confirm" => /\ q.used \in 1..issued
                        /\ q.set.email # Same => crossed \/ sentTo[q.used] = q.set.email

NothingOlder(q) ==
    /\ q.at <= issued
    /\ q.set.code = Same => row.code = None \/ row.code > q.at

InFlight(q) ==
    SetsPair(q.set) /\ RequestShape(q) /\ Verified(q) /\ NothingOlder(q)

RequestInv == \A r \in Req : req[r] # Idle => InFlight(req[r])

ChangeInv == /\ TypeOK
             /\ CodeColumnsAgree
             /\ CodesIssued
             /\ PendingProvable
             /\ RequestInv

-----------------------------------------------------------------------------
LEMMA InitInv == Init => ChangeInv
<1> SUFFICES ASSUME Init PROVE ChangeInv
  OBVIOUS
<1>1. PICK a \in Address : row = [email |-> a, pend |-> None, code |-> None, exp |-> None]
  BY DEF Init
<1>2. row \in Row
  BY <1>1 DEF Row
<1>3. TypeOK
  <2>1. sentTo \in Seq(Address)
    BY EmptySeq DEF Init
  <2>2. req \in [Req -> Request \cup {Idle}]
    BY DEF Init
  <2>3. QED
    BY <1>2, <2>1, <2>2 DEF Init, TypeOK
<1>4. QED
  BY <1>1, <1>3
     DEF Init, ChangeInv, CodeColumnsAgree, CodesIssued, PendingProvable, RequestInv

LEMMA BeginInv ==
    ASSUME ChangeInv, NEW r \in Req, NEW op, NEW set, NEW to, NEW used,
           Begin(r, op, set, to, used),
           [op |-> op, set |-> set, at |-> issued, to |-> to, used |-> used] \in Request,
           InFlight([op |-> op, set |-> set, at |-> issued, to |-> to, used |-> used])
    PROVE  ChangeInv'
<1> DEFINE record == [op |-> op, set |-> set, at |-> issued, to |-> to, used |-> used]
<1>1. /\ req \in [Req -> Request \cup {Idle}]
      /\ req' = [req EXCEPT ![r] = record]
      /\ UNCHANGED <<row, sentTo, crossed>>
  BY DEF Begin, ChangeInv, TypeOK
<1>2. record \in Request /\ InFlight(record)
  OBVIOUS
<1> HIDE DEF record
<1>3. TypeOK'
  BY <1>1, <1>2 DEF ChangeInv, TypeOK
<1>4. \A q : InFlight(q) => InFlight(q)'
  BY <1>1 DEF InFlight, SetsPair, RequestShape, Verified, NothingOlder, issued
<1>5. \A p \in Req : req'[p] # Idle => req'[p] = record \/ (req'[p] = req[p] /\ req[p] # Idle)
  BY <1>1
<1>6. \A p \in Req : req'[p] # Idle => InFlight(req'[p])
  BY <1>2, <1>5 DEF ChangeInv, RequestInv
<1>7. RequestInv'
  BY <1>4, <1>6 DEF RequestInv
<1>8. QED
  BY <1>1, <1>3, <1>7
     DEF ChangeInv, CodeColumnsAgree, CodesIssued, PendingProvable, issued

LEMMA ArriveInv == ASSUME ChangeInv, NEW r \in Req, Arrive(r) PROVE ChangeInv'
<1>1. /\ row.email \in Address /\ row.pend \in Address \cup {None}
      /\ row.code \in Nat \cup {None} /\ row.exp \in {None, "live", "lapsed"}
      /\ row.code = None <=> row.exp = None
      /\ issued \in Nat
  BY DEF ChangeInv, TypeOK, Row, CodeColumnsAgree, issued
<1>2. CASE RequestChange(r)
  <2>1. PICK a \in Address :
            Begin(r, "request", [email |-> Same, pend |-> Set(a, row.pend),
                                 code |-> Fresh, exp |-> "live"], a, None)
    BY <1>2 DEF RequestChange
  <2> DEFINE set == [email |-> Same, pend |-> Set(a, row.pend),
                     code |-> Fresh, exp |-> "live"]
             q == [op |-> "request", set |-> set, at |-> issued, to |-> a, used |-> None]
  <2>2. Set(a, row.pend) \in {a, Same}
    BY DEF Set
  <2>3. set \in Update /\ SetsPair(set)
    BY <2>2, EmailChangeAssumption DEF Update, SetsPair
  <2>4. q \in Request
    BY <1>1, <2>3 DEF Request
  <2>5. RequestShape(q) /\ Verified(q) /\ NothingOlder(q)
    BY <1>1, <2>2, EmailChangeAssumption DEF RequestShape, Verified, NothingOlder
  <2>6. InFlight(q)
    BY <2>3, <2>5 DEF InFlight
  <2> HIDE DEF set
  <2>7. QED
    BY <2>1, <2>4, <2>6, BeginInv DEF set
<1>3. CASE ConfirmEmailChange(r)
  <2> DEFINE set == [email |-> Set(row.pend, row.email), pend |-> None,
                     code |-> None, exp |-> None]
             q == [op |-> "confirm", set |-> set, at |-> issued, to |-> None,
                   used |-> row.code]
  <2>1. /\ Begin(r, "confirm", set, None, row.code)
        /\ row.pend # None /\ row.code # None
    BY <1>3 DEF ConfirmEmailChange
  <2>2. Set(row.pend, row.email) \in {row.pend, Same}
    BY DEF Set
  <2>3. set \in Update /\ SetsPair(set)
    BY <1>1, <2>1, <2>2, EmailChangeAssumption DEF Update, SetsPair
  <2>4. q \in Request
    BY <1>1, <2>3 DEF Request
  <2>5. RequestShape(q) /\ NothingOlder(q)
    BY <1>1, EmailChangeAssumption DEF RequestShape, NothingOlder
  <2>6. Verified(q)
    BY <2>1, <2>2 DEF Verified, ChangeInv, CodesIssued, PendingProvable
  <2>7. InFlight(q)
    BY <2>3, <2>5, <2>6 DEF InFlight
  <2> HIDE DEF set
  <2>8. QED
    BY <2>1, <2>4, <2>7, BeginInv
<1>4. CASE UpdateUserCredentials(r)
  <2>1. PICK a \in (Address \ {row.email}) \cup {Same} :
            Begin(r, "override",
                  [email |-> a, pend |-> Set(None, row.pend),
                   code |-> Set(None, row.code), exp |-> Set(None, row.exp)],
                  None, None)
    BY <1>4 DEF UpdateUserCredentials
  <2> DEFINE set == [email |-> a, pend |-> Set(None, row.pend),
                     code |-> Set(None, row.code), exp |-> Set(None, row.exp)]
             q == [op |-> "override", set |-> set, at |-> issued, to |-> None,
                   used |-> None]
  <2>2. /\ Set(None, row.pend) \in {None, Same}
        /\ Set(None, row.code) = IF row.code = None THEN Same ELSE None
        /\ Set(None, row.exp) = IF row.exp = None THEN Same ELSE None
    BY DEF Set
  <2>3. set \in Update /\ SetsPair(set)
    BY <1>1, <2>2, EmailChangeAssumption DEF Update, SetsPair
  <2>4. q \in Request
    BY <1>1, <2>3 DEF Request
  <2>5. RequestShape(q) /\ Verified(q)
    BY <1>1, <2>2, EmailChangeAssumption DEF RequestShape, Verified
  <2>6. NothingOlder(q)
    BY <1>1, <2>2, EmailChangeAssumption DEF NothingOlder
  <2>7. InFlight(q)
    BY <2>3, <2>5, <2>6 DEF InFlight
  <2> HIDE DEF set
  <2>8. QED
    BY <2>1, <2>4, <2>7, BeginInv DEF set
<1>5. QED
  BY <1>2, <1>3, <1>4 DEF Arrive

-----------------------------------------------------------------------------
\* What a commit does to the row and to the history.
LEMMA CommitFacts ==
    ASSUME ChangeInv, NEW r \in Req, Commit(r)
    PROVE  LET q == req[r]
               set == req[r].set
           IN  /\ q \in Request /\ InFlight(q) /\ req' = [req EXCEPT ![r] = Idle]
               /\ row' \in Row
               /\ row'.email = IF set.email = Same THEN row.email ELSE set.email
               /\ row'.pend = IF set.pend = Same THEN row.pend ELSE set.pend
               /\ row'.code = IF set.code = Same THEN row.code
                              ELSE IF set.code = Fresh THEN issued + 1 ELSE set.code
               /\ row'.exp = IF set.exp = Same THEN row.exp ELSE set.exp
               /\ sentTo' \in Seq(Address)
               /\ issued \in Nat
               /\ issued' = IF set.code = Fresh THEN issued + 1 ELSE issued
               /\ \A i \in 1..issued : sentTo'[i] = sentTo[i]
               /\ set.code = Fresh => sentTo'[issued + 1] = q.to
               /\ crossed' \in BOOLEAN
               /\ crossed => crossed'
<1> DEFINE q == req[r]
           set == req[r].set
<1>1. q \in Request /\ InFlight(q) /\ set \in Update
  BY DEF Commit, ChangeInv, TypeOK, RequestInv, Request
<1>2. /\ row' = Updated(set)
      /\ sentTo' = IF set.code = Fresh THEN Append(sentTo, q.to) ELSE sentTo
      /\ crossed' = (\/ crossed
                     \/ set.code = Fresh /\ set.pend = Same /\ row.pend \notin {None, q.to})
      /\ req' = [req EXCEPT ![r] = Idle]
  BY DEF Commit
<1>3. /\ row \in Row /\ sentTo \in Seq(Address) /\ crossed \in BOOLEAN
      /\ issued \in Nat /\ issued = Len(sentTo)
  BY DEF ChangeInv, TypeOK, issued
<1>4. /\ set.code \in {None, Same, Fresh}
      /\ set.code = Fresh => q.to \in Address
  BY <1>1 DEF InFlight, SetsPair, RequestShape
<1> HIDE DEF q, set
<1>5. row' \in Row
  <2>1. /\ (IF set.email = Same THEN row.email ELSE set.email) \in Address
        /\ (IF set.pend = Same THEN row.pend ELSE set.pend) \in Address \cup {None}
        /\ (IF set.exp = Same THEN row.exp ELSE set.exp) \in {None, "live", "lapsed"}
        /\ (IF set.code = Same THEN row.code
            ELSE IF set.code = Fresh THEN issued + 1 ELSE set.code) \in Nat \cup {None}
    BY <1>1, <1>3, <1>4 DEF Row, Update
  <2>2. QED
    BY <1>2, <2>1 DEF Updated, Row
<1>6. /\ sentTo' \in Seq(Address)
      /\ Len(sentTo') = IF set.code = Fresh THEN issued + 1 ELSE issued
      /\ \A i \in 1..issued : sentTo'[i] = sentTo[i]
      /\ set.code = Fresh => sentTo'[issued + 1] = q.to
  <2>1. CASE set.code = Fresh
    BY <1>2, <1>3, <1>4, <2>1
  <2>2. CASE set.code # Fresh
    BY <1>2, <1>3, <2>2
  <2>3. QED
    BY <2>1, <2>2
<1>7. crossed' \in BOOLEAN /\ (crossed => crossed')
  BY <1>2, <1>3
<1>8. QED
  BY <1>1, <1>2, <1>3, <1>5, <1>6, <1>7 DEF q, set, Updated, issued

LEMMA CommitInv == ASSUME ChangeInv, NEW r \in Req, Commit(r) PROVE ChangeInv'
<1> DEFINE q == req[r]
           set == req[r].set
<1>1. /\ q \in Request /\ InFlight(q) /\ req' = [req EXCEPT ![r] = Idle]
      /\ row' \in Row
      /\ row'.email = IF set.email = Same THEN row.email ELSE set.email
      /\ row'.pend = IF set.pend = Same THEN row.pend ELSE set.pend
      /\ row'.code = IF set.code = Same THEN row.code
                     ELSE IF set.code = Fresh THEN issued + 1 ELSE set.code
      /\ row'.exp = IF set.exp = Same THEN row.exp ELSE set.exp
      /\ sentTo' \in Seq(Address)
      /\ issued \in Nat
      /\ issued' = IF set.code = Fresh THEN issued + 1 ELSE issued
      /\ \A i \in 1..issued : sentTo'[i] = sentTo[i]
      /\ set.code = Fresh => sentTo'[issued + 1] = q.to
      /\ crossed' \in BOOLEAN
      /\ crossed => crossed'
  BY CommitFacts
<1>2. set.code = Fresh /\ set.pend = Same /\ row.pend \notin {None, q.to} => crossed'
  BY DEF Commit
<1>3. /\ SetsPair(set)
      /\ set.code = Fresh => q.to \in Address /\ set.pend \in {q.to, Same}
      /\ set.code # Fresh => set.pend \in {None, Same}
  BY <1>1 DEF InFlight, RequestShape
<1> HIDE DEF q, set
<1>4. row \in Row /\ req \in [Req -> Request \cup {Idle}] /\ issued' \in Nat
      /\ issued <= issued'
  BY <1>1 DEF ChangeInv, TypeOK
<1>5. TypeOK'
  BY <1>1, <1>4 DEF TypeOK
<1>6. CodeColumnsAgree'
  BY <1>1, <1>3, EmailChangeAssumption
     DEF ChangeInv, CodeColumnsAgree, SetsPair
<1>7. row'.code = None \/ row'.code = row.code \/ row'.code = issued + 1
  BY <1>1, <1>3 DEF SetsPair
<1>8. CodesIssued'
  <2> SUFFICES ASSUME row'.code # None PROVE row'.code \in 1..issued'
    BY DEF CodesIssued
  <2>1. CASE set.code = Same
    BY <1>1, <1>4, <2>1 DEF ChangeInv, CodesIssued
  <2>2. CASE set.code # Same
    BY <1>1, <1>3, <1>4, <2>2 DEF SetsPair
  <2>3. QED
    BY <2>1, <2>2
<1>9. PendingProvable'
  <2> SUFFICES ASSUME row'.pend # None, row'.code # None, ~crossed'
               PROVE  sentTo'[row'.code] = row'.pend
    BY DEF PendingProvable
  <2>1. CASE set.code = Fresh
    <3>1. row'.code = issued + 1 /\ sentTo'[issued + 1] = q.to
      BY <1>1, <2>1, EmailChangeAssumption
    <3>2. row'.pend = q.to
      BY <1>1, <1>2, <1>3, <2>1
    <3>3. QED
      BY <3>1, <3>2
  <2>2. CASE set.code # Fresh
    <3>1. set.code = Same /\ set.pend = Same
      BY <1>1, <1>3, <2>2 DEF SetsPair
    <3>2. row'.code = row.code /\ row'.pend = row.pend
      BY <1>1, <3>1
    <3>3. row.code \in 1..issued /\ sentTo[row.code] = row.pend
      BY <1>1, <3>2 DEF ChangeInv, CodesIssued, PendingProvable
    <3>4. QED
      BY <1>1, <3>2, <3>3
  <2>3. QED
    BY <2>1, <2>2
<1>10. RequestInv'
  <2>1. ASSUME NEW p \in Request, InFlight(p) PROVE InFlight(p)'
    <3>1. Verified(p)'
      BY <1>1, <1>4, <2>1 DEF InFlight, Verified
    <3>2. p.at \in Nat /\ p.at <= issued
      BY <2>1 DEF Request, InFlight, NothingOlder
    <3>3. p.set.code = Same => row'.code = None \/ row'.code > p.at
      BY <1>1, <1>7, <2>1, <3>2 DEF InFlight, NothingOlder
    <3>4. NothingOlder(p)'
      BY <1>1, <1>4, <3>2, <3>3 DEF NothingOlder
    <3>5. QED
      BY <2>1, <3>1, <3>4 DEF InFlight, SetsPair, RequestShape
  <2>2. \A p \in Req : req'[p] # Idle => req'[p] = req[p] /\ req[p] \in Request
    BY <1>1, <1>4
  <2>3. QED
    BY <2>1, <2>2 DEF ChangeInv, RequestInv
<1>11. QED
  BY <1>5, <1>6, <1>8, <1>9, <1>10 DEF ChangeInv

LEMMA OtherInv ==
    ASSUME ChangeInv, (\E r \in Req : Drop(r)) \/ Lapse \/ UNCHANGED vars
    PROVE  ChangeInv'
<1>1. /\ UNCHANGED <<sentTo, crossed>>
      /\ row' = row \/ (row.exp = "live" /\ row' = [row EXCEPT !.exp = "lapsed"])
      /\ req' = req \/ \E r \in Req : req' = [req EXCEPT ![r] = Idle]
  BY DEF Drop, Lapse, vars
<1>2. row \in Row /\ req \in [Req -> Request \cup {Idle}]
  BY DEF ChangeInv, TypeOK
<1>3. /\ row' \in Row /\ row'.email = row.email /\ row'.pend = row.pend
      /\ row'.code = row.code /\ (row'.exp = None <=> row.exp = None)
  BY <1>1, <1>2, EmailChangeAssumption DEF Row
<1>4. \A p \in Req : req'[p] # Idle => req'[p] = req[p]
  BY <1>1, <1>2
<1>5. TypeOK'
  BY <1>1, <1>2, <1>3 DEF ChangeInv, TypeOK
<1>6. \A q : InFlight(q) => InFlight(q)'
  BY <1>1, <1>3 DEF InFlight, SetsPair, RequestShape, Verified, NothingOlder, issued
<1>7. RequestInv'
  BY <1>4, <1>6 DEF ChangeInv, RequestInv
<1>8. QED
  BY <1>1, <1>3, <1>5, <1>7
     DEF ChangeInv, CodeColumnsAgree, CodesIssued, PendingProvable, issued

LEMMA NextInv == ChangeInv /\ [Next]_vars => ChangeInv'
BY ArriveInv, CommitInv, OtherInv DEF Next

\* The inductive invariant of EmailChange.
THEOREM ChangeCorrect == Spec => []ChangeInv
BY InitInv, NextInv, PTL DEF Spec

\* Type correctness.
THEOREM TypeCorrect == Spec => []TypeOK
<1>1. ChangeInv => TypeOK
  BY DEF ChangeInv
<1>2. QED
  BY <1>1, ChangeCorrect, PTL

\* A code and its expiry stay a pair.
THEOREM CodesStayPaired == Spec => []CodeColumnsAgree
<1>1. ChangeInv => CodeColumnsAgree
  BY DEF ChangeInv
<1>2. QED
  BY <1>1, ChangeCorrect, PTL

\* Only a commit changes the address or the code.
LEMMA OnlyCommits ==
    ASSUME ChangeInv, [Next]_vars, ~ \E r \in Req : Commit(r)
    PROVE  row'.email = row.email /\ row'.code = row.code
<1>1. CASE \E r \in Req : Arrive(r) \/ Drop(r)
  BY <1>1 DEF Arrive, RequestChange, ConfirmEmailChange, UpdateUserCredentials, Begin, Drop
<1>2. CASE Lapse
  BY <1>2 DEF Lapse, ChangeInv, TypeOK, Row
<1>3. CASE UNCHANGED vars
  BY <1>3 DEF vars
<1>4. QED
  BY <1>1, <1>2, <1>3 DEF Next

\* An address is overridden or proven by a code that was mailed to it, unless
\* two requests of the user have crossed.
THEOREM AddressesAreProven == Spec => EmailProven
<1> DEFINE Proven == row'.email # row.email =>
                        \E r \in Req :
                            /\ req[r] # Idle /\ req'[r] = Idle
                            /\ \/ req[r].op = "override"
                               \/ /\ req[r].op = "confirm"
                                  /\ crossed \/ sentTo[req[r].used] = row'.email
<1>1. ASSUME ChangeInv, [Next]_vars PROVE Proven
  <2> SUFFICES ASSUME row'.email # row.email
               PROVE  \E r \in Req :
                          /\ req[r] # Idle /\ req'[r] = Idle
                          /\ \/ req[r].op = "override"
                             \/ /\ req[r].op = "confirm"
                                /\ crossed \/ sentTo[req[r].used] = row'.email
    OBVIOUS
  <2>1. PICK r \in Req : Commit(r)
    BY <1>1, OnlyCommits
  <2>2. /\ req[r] \in Request /\ InFlight(req[r])
        /\ row'.email = IF req[r].set.email = Same THEN row.email ELSE req[r].set.email
    BY <1>1, <2>1, CommitFacts
  <2>3. req[r].set.email # Same /\ row'.email = req[r].set.email
    BY <2>2
  <2>4. req[r].op \in {"override", "confirm"}
    BY <2>2, <2>3 DEF Request, InFlight, RequestShape
  <2>5. req[r].op = "confirm" => crossed \/ sentTo[req[r].used] = row'.email
    BY <2>2, <2>3 DEF InFlight, Verified
  <2>6. req[r] # Idle /\ req'[r] = Idle
    BY <1>1, <2>1 DEF Commit, ChangeInv, TypeOK
  <2>7. QED
    BY <2>4, <2>5, <2>6
<1>2. QED
  BY <1>1, ChangeCorrect, PTL DEF Spec, EmailProven

\* A confirmation or an override leaves no code that it could have seen.
THEOREM ChangesEnd == Spec => ChangeEnds
<1> DEFINE Ended == \A r \in Req :
                       Commit(r) /\ req[r].op \in {"confirm", "override"} =>
                           row'.code = None \/ row'.code > req[r].at
<1>1. ASSUME ChangeInv, [Next]_vars PROVE Ended
  <2> SUFFICES ASSUME NEW r \in Req, Commit(r), req[r].op \in {"confirm", "override"}
               PROVE  row'.code = None \/ row'.code > req[r].at
    OBVIOUS
  <2>1. /\ InFlight(req[r])
        /\ row'.code = IF req[r].set.code = Same THEN row.code
                       ELSE IF req[r].set.code = Fresh THEN issued + 1
                            ELSE req[r].set.code
    BY <1>1, CommitFacts
  <2>2. req[r].set.code \in {None, Same}
    BY <2>1 DEF InFlight, SetsPair, RequestShape
  <2>3. QED
    BY <2>1, <2>2, EmailChangeAssumption DEF InFlight, NothingOlder
<1>2. QED
  BY <1>1, ChangeCorrect, PTL DEF Spec, ChangeEnds

\* The code is a one-time secret, however many requests overlap: only a request
\* for a change issues one, and a confirmation or an override withdraws it.
THEOREM RefinesSecret == Spec => SecretSpec
<1>1. Init => Secret!Init
  BY DEF Init, Secret!Init, issued
<1>2. ChangeInv /\ [Next]_vars => [Secret!Next]_(Secret!vars)
  <2> SUFFICES ASSUME ChangeInv, [Next]_vars
               PROVE  [Secret!Next]_(Secret!vars)
    OBVIOUS
  <2>1. ASSUME NEW r \in Req, Commit(r)
        PROVE  [Secret!Next]_(Secret!vars)
    <3>1. /\ InFlight(req[r])
          /\ row'.code = IF req[r].set.code = Same THEN row.code
                         ELSE IF req[r].set.code = Fresh THEN issued + 1
                              ELSE req[r].set.code
          /\ issued' = IF req[r].set.code = Fresh THEN issued + 1 ELSE issued
      BY <2>1, CommitFacts
    <3>2. req[r].set.code \in {None, Same, Fresh}
      BY <3>1 DEF InFlight, SetsPair
    <3>3. CASE req[r].set.code = Fresh
      BY <3>1, <3>3, EmailChangeAssumption DEF Secret!Next, Secret!Issue
    <3>4. CASE req[r].set.code # Fresh
      BY <3>1, <3>2, <3>4, EmailChangeAssumption
         DEF Secret!Next, Secret!Withdraw, Secret!vars
    <3>5. QED
      BY <3>3, <3>4
  <2>2. CASE ~ \E r \in Req : Commit(r)
    <3>1. row'.code = row.code
      BY <2>2, OnlyCommits
    <3>2. sentTo' = sentTo
      BY <2>2 DEF Next, vars, Arrive, RequestChange, ConfirmEmailChange,
                  UpdateUserCredentials, Begin, Drop, Lapse
    <3>3. QED
      BY <3>1, <3>2 DEF Secret!vars, issued
  <2>3. QED
    BY <2>1, <2>2
<1>3. QED
  BY <1>1, <1>2, ChangeCorrect, PTL DEF Spec, SecretSpec, Secret!Spec

=============================================================================
