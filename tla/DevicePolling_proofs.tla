------------------------ MODULE DevicePolling_proofs ------------------------
(***************************************************************************)
(* The device-code flows implement OneTimeCode, for any number of          *)
(* concurrent polls, any intervals and lifetimes.                          *)
(*                                                                         *)
(* The argument: the row disappears once, and only the poll whose delete   *)
(* removed it goes on to issue.  So a poll that is about to issue is the    *)
(* only one, the row is gone, and nothing has been issued yet.             *)
(*                                                                         *)
(* They also pace their questions to GitHub (PollsAreSpaced, at the end).  *)
(***************************************************************************)
EXTENDS DevicePolling, TLAPS

\* Nothing is issued while the row exists.
Unissued == row.state # "Gone" => issued = 0

\* The poll that claimed the row is alone, and has issued nothing yet.
ClaimIsUnique ==
    \A q \in Pollers : polls[q].pc = "Issue" =>
        /\ row.state = "Gone" /\ issued = 0
        /\ \A r \in Pollers : polls[r].pc = "Issue" => r = q

IInv == PollingTypeOK /\ issued \in {0, 1} /\ Unissued /\ ClaimIsUnique
-----------------------------------------------------------------------------
USE PollingAssumption

\* An idle poll, and the row before start, have their types.
LEMMA IdleIsPoll == NoRow \in Row /\ IdlePoll \in Poll /\ IdlePoll.pc = "Idle"
BY DEF NoRow, Row, IdlePoll, Poll, InFlight

\* The broker before start_enrollment or device::start satisfies the invariant.
LEMMA InitInv == PollingInit => IInv
BY IdleIsPoll DEF PollingInit, IInv, PollingTypeOK, Kinds, Unissued, ClaimIsUnique, NoRow

\* A step that ends a poll, or moves it anywhere but to Issue, and neither issues nor
\* revives the row.
LEMMA QuietStep ==
    ASSUME IInv, NEW q \in Pollers, NEW p \in Poll, p.pc # "Issue",
           polls' = [polls EXCEPT ![q] = p],
           lock' \in SUBSET Pollers, kind' = kind, now' = now, cleaner' = cleaner, issued' = issued,
           asked' \in [at : Nat, interval : Nat, etag : Nat],
           row' \in Row, row.state = "Gone" => row'.state = "Gone"
    PROVE  IInv'
<1>1. PollingTypeOK'
  BY DEF IInv, PollingTypeOK
<1>2. \A r \in Pollers : polls'[r].pc = "Issue" => r # q /\ polls[r].pc = "Issue"
  BY DEF IInv, PollingTypeOK
<1>3. Unissued'
  BY DEF IInv, Unissued
<1>4. ClaimIsUnique'
  BY <1>2 DEF IInv, ClaimIsUnique
<1>5. QED
  BY <1>1, <1>3, <1>4 DEF IInv

\* A step of the clock, of start or of another deleter.
LEMMA OtherStep ==
    ASSUME IInv, UNCHANGED <<kind, lock, polls, issued, asked>>,
           now' \in Nat, cleaner' \in Nat,
           row' \in Row, row.state = "Gone" => row'.state = "Gone"
    PROVE  IInv'
BY DEF IInv, PollingTypeOK, Unissued, ClaimIsUnique

\* The types a step of poll q starts from.
LEMMA StepTypes ==
    ASSUME IInv, NEW q \in Pollers
    PROVE  /\ polls \in [Pollers -> Poll] /\ polls[q] \in Poll /\ polls[q].at \in Nat
           /\ polls[q].seen \in Row /\ row \in Row
           /\ lock \in SUBSET Pollers /\ asked \in [at : Nat, interval : Nat, etag : Nat]
BY DEF IInv, PollingTypeOK, Poll

\* What a reservation writes is a row.
LEMMA ReservedRow ==
    ASSUME IInv, NEW q \in Pollers
    PROVE  reserved_row(q) \in Row
<1> DEFINE s == polls[q].seen
           i == s.interval + (IF early(q) THEN SLOW ELSE 0)
<1>1. s \in Row /\ polls[q].at \in Nat
  BY StepTypes
<1>2. i \in Nat /\ s.etag + 1 \in Nat
  BY <1>1 DEF Row
<1>3. polls[q].at + i \in Nat
  BY <1>1, <1>2
<1>4. reserved_row(q) = [s EXCEPT !.interval = i, !.next = polls[q].at + i, !.etag = s.etag + 1]
  BY <1>1 DEF reserved_row, Row
<1> HIDE DEF s, i
<1>5. QED
  BY <1>1, <1>2, <1>3, <1>4 DEF Row

\* finish, as one assignment.
LEMMA FinishStep ==
    ASSUME IInv, NEW q \in Pollers, finish(q),
           UNCHANGED <<now, kind, cleaner, issued>>, asked' \in [at : Nat, interval : Nat, etag : Nat],
           row' \in Row, row.state = "Gone" => row'.state = "Gone"
    PROVE  IInv'
<1>1. lock' \in SUBSET Pollers /\ polls' = [polls EXCEPT ![q] = IdlePoll]
  BY StepTypes DEF finish
<1>2. QED
  BY <1>1, IdleIsPoll, QuietStep

\* goto, as one assignment.
LEMMA GotoStep ==
    ASSUME IInv, NEW q \in Pollers, NEW s \in {"Idle", "GitHub", "Consume"} \cup InFlight,
           goto(q, s), UNCHANGED <<now, kind, row, cleaner, issued, asked>>
    PROVE  IInv'
<1> DEFINE p == [polls[q] EXCEPT !.pc = s]
<1>1. polls' = [polls EXCEPT ![q] = p] /\ lock' = lock
  BY StepTypes DEF goto
<1>2. polls[q] \in Poll
  BY StepTypes
<1>3. p \in Poll
  BY <1>2, Zenon DEF Poll
<1>4. p.pc = s
  BY <1>2 DEF Poll
<1>5. s # "Issue"
  BY DEF InFlight
<1> HIDE DEF p
<1>6. QED
  BY <1>1, <1>3, <1>4, <1>5, StepTypes, QuietStep

\* Marking the row Gone keeps its type.
LEMMA GoneRow == ASSUME IInv PROVE [row EXCEPT !.state = "Gone"] \in Row /\ [row EXCEPT !.state = "Gone"].state = "Gone"
BY DEF IInv, PollingTypeOK, Row

\* The claim: the one step that leads to Issue.
LEMMA ClaimInv == ASSUME IInv, NEW q \in Pollers, claim(q) PROVE IInv'
<1>1. row.state = "Present" /\ row' = [row EXCEPT !.state = "Gone"]
      /\ UNCHANGED <<now, kind, cleaner, issued, asked>>
  BY DEF claim, matches
<1>2. row' \in Row /\ row'.state = "Gone"
  BY <1>1, GoneRow
<1>3. CASE finish(q)
  BY <1>1, <1>2, <1>3, StepTypes, FinishStep
<1>4. CASE goto(q, "Issue")
  <2>1. /\ polls' = [polls EXCEPT ![q].pc = "Issue"] /\ lock' = lock
    BY <1>4 DEF goto
  <2>2. polls' \in [Pollers -> Poll]
    <3>1. polls' = [polls EXCEPT ![q] = [polls[q] EXCEPT !.pc = "Issue"]]
      BY <2>1
    <3>2. polls[q] \in Poll /\ polls \in [Pollers -> Poll]
      BY StepTypes
    <3>3. [polls[q] EXCEPT !.pc = "Issue"] \in Poll
      BY <3>2, Zenon DEF Poll
    <3>4. QED
      BY <3>1, <3>2, <3>3
  <2>3. \A r \in Pollers : polls'[r].pc = "Issue" => r = q
    BY <1>1, <2>1, StepTypes DEF IInv, ClaimIsUnique
  <2>4. PollingTypeOK'
    BY <1>1, <1>2, <2>1, <2>2 DEF IInv, PollingTypeOK
  <2>5. issued' = 0
    BY <1>1 DEF IInv, Unissued
  <2>6. QED
    BY <1>2, <2>3, <2>4, <2>5 DEF IInv, Unissued, ClaimIsUnique
<1>5. QED
  BY <1>3, <1>4 DEF claim

\* Issuing: the claim is spent.
LEMMA IssueInv == ASSUME IInv, NEW q \in Pollers, issue(q) PROVE IInv'
<1>1. /\ polls[q].pc = "Issue" /\ finish(q) /\ issued' \in {issued, issued + 1}
      /\ UNCHANGED <<now, kind, row, cleaner, asked>>
  BY DEF issue
<1>2. row.state = "Gone" /\ issued = 0 /\ \A r \in Pollers : polls[r].pc = "Issue" => r = q
  BY <1>1 DEF IInv, ClaimIsUnique
<1>3. polls' = [polls EXCEPT ![q] = IdlePoll] /\ lock' \in SUBSET Pollers
  BY <1>1, StepTypes DEF finish
<1>4. polls' \in [Pollers -> Poll]
  BY <1>3, StepTypes, IdleIsPoll
<1>5. \A r \in Pollers : polls'[r].pc # "Issue"
  BY <1>2, <1>3, StepTypes, IdleIsPoll
<1>6. PollingTypeOK'
  BY <1>1, <1>3, <1>4 DEF IInv, PollingTypeOK
<1>7. QED
  BY <1>1, <1>2, <1>5, <1>6 DEF IInv, Unissued, ClaimIsUnique

\* Every step of a poll keeps the invariant.
LEMMA PollInv == ASSUME IInv, NEW q \in Pollers, step(q) PROVE IInv'
<1>1. CASE poll(q)
  <2> DEFINE p == [pc |-> IF row.expires <= now THEN "Remove" ELSE "Reserve",
                   at |-> now, seen |-> row, dropped |-> FALSE]
  <2>1. polls' = [polls EXCEPT ![q] = p] /\ UNCHANGED <<now, kind, row, cleaner, issued, asked>>
    BY <1>1 DEF poll
  <2>2. row \in Row /\ now \in Nat
    BY DEF IInv, PollingTypeOK
  <2>3. p \in Poll
    BY <2>2, Zenon DEF Poll, InFlight
  <2>4. p.pc # "Issue"
    OBVIOUS
  <2>5. lock' \in SUBSET Pollers
    BY <1>1, StepTypes DEF poll
  <2> HIDE DEF p
  <2>6. QED
    BY <2>1, <2>2, <2>3, <2>4, <2>5, StepTypes, QuietStep
<1>2. CASE reserve(q)
  <2>1. /\ row.state = "Present" /\ row' = reserved_row(q)
        /\ UNCHANGED <<now, kind, cleaner, issued>>
    BY <1>2 DEF reserve, matches
  <2>2. row' \in Row
    BY <2>1, ReservedRow
  <2>3. CASE finish(q) /\ UNCHANGED asked
    BY <2>1, <2>2, <2>3, StepTypes, FinishStep
  <2>4. CASE /\ polls' = [polls EXCEPT ![q].pc = "GitHub", ![q].seen = reserved_row(q)]
             /\ asked' = [at |-> polls[q].at, interval |-> reserved_row(q).interval,
                         etag |-> reserved_row(q).etag]
             /\ UNCHANGED lock
    <3> DEFINE p == [polls[q] EXCEPT !.pc = "GitHub", !.seen = reserved_row(q)]
    <3>1. polls' = [polls EXCEPT ![q] = p]
      BY <2>4, StepTypes
    <3>2. polls[q] \in Poll
      BY StepTypes
    <3>3. p \in Poll
      BY <2>1, <2>2, <3>2, Zenon DEF Poll
    <3>4. p.pc = "GitHub"
      BY <3>2 DEF Poll
    <3> HIDE DEF p
    <3>5. asked' \in [at : Nat, interval : Nat, etag : Nat]
      BY <2>1, <2>2, <2>4, StepTypes DEF Row
    <3>6. QED
      BY <2>1, <2>2, <2>4, <3>1, <3>3, <3>4, <3>5, StepTypes, QuietStep
  <2>5. QED
    BY <1>2, <2>3, <2>4 DEF reserve
<1>3. CASE ask_github(q)
  <2>1. finish(q) \/ \E s \in {"Slow", "Remove", "Consume"} : goto(q, s)
    BY <1>3 DEF ask_github
  <2>2. UNCHANGED <<now, kind, row, cleaner, issued, asked>>
    BY <1>3 DEF ask_github
  <2>3. QED
    BY <2>1, <2>2, StepTypes, FinishStep, GotoStep DEF InFlight
<1>4. CASE slow_down(q)
  <2>1. /\ row.state = "Present" /\ finish(q)
        /\ UNCHANGED <<now, kind, cleaner, issued, asked>>
        /\ row' = [row EXCEPT !.interval = @ + SLOW, !.etag = @ + 1,
                          !.next = row.interval + SLOW
                                   + (IF kind = "Enrollment" THEN polls[q].at ELSE now)]
    BY <1>4 DEF slow_down, matches
  <2>2. row \in Row /\ polls[q].at \in Nat /\ now \in Nat
    BY StepTypes DEF IInv, PollingTypeOK
  <2>3. row' \in Row
    <3> DEFINE n == row.interval + SLOW + (IF kind = "Enrollment" THEN polls[q].at ELSE now)
    <3>1. row.interval \in Nat /\ row.etag \in Nat
      BY <2>2 DEF Row
    <3>2. row.interval + SLOW \in Nat /\ row.etag + 1 \in Nat /\ n \in Nat
      BY <2>2, <3>1
    <3>3. row' = [row EXCEPT !.interval = row.interval + SLOW, !.etag = row.etag + 1, !.next = n]
      BY <2>1, <2>2 DEF Row
    <3> HIDE DEF n
    <3>4. QED
      BY <2>2, <3>2, <3>3 DEF Row
  <2>4. QED
    BY <2>1, <2>3, StepTypes, FinishStep
<1>5. CASE consume_token(q)
  <2>1. finish(q) \/ goto(q, "Claim")
    BY <1>5 DEF consume_token
  <2>2. UNCHANGED <<now, kind, row, cleaner, issued, asked>>
    BY <1>5 DEF consume_token
  <2>3. QED
    BY <2>1, <2>2, StepTypes, FinishStep, GotoStep DEF InFlight
<1>6. CASE remove(q)
  <2>1. /\ row' = [row EXCEPT !.state = "Gone"] /\ finish(q)
        /\ UNCHANGED <<now, kind, cleaner, issued, asked>>
    BY <1>6 DEF remove
  <2>2. QED
    BY <2>1, GoneRow, StepTypes, FinishStep
<1>7. CASE conflict(q)
  <2>1. finish(q) /\ UNCHANGED <<now, kind, row, cleaner, issued, asked>>
    BY <1>7 DEF conflict
  <2>2. QED
    BY <2>1, StepTypes, FinishStep
<1>8. CASE drop(q)
  <2>1. lock' \in SUBSET Pollers /\ UNCHANGED <<now, kind, row, cleaner, issued, asked>>
    BY <1>8, StepTypes DEF drop
  <2>2. CASE polls' = [polls EXCEPT ![q] = IdlePoll]
    BY <2>1, <2>2, IdleIsPoll, StepTypes, QuietStep
  <2>3. CASE polls[q].pc \in InFlight /\ polls' = [polls EXCEPT ![q].dropped = TRUE]
    <3> DEFINE p == [polls[q] EXCEPT !.dropped = TRUE]
    <3>1. polls' = [polls EXCEPT ![q] = p]
      BY <2>3, StepTypes
    <3>2. polls[q] \in Poll
      BY StepTypes
    <3>3. p \in Poll
      BY <3>2, Zenon DEF Poll
    <3>4. p.pc = polls[q].pc
      BY <3>2 DEF Poll
    <3> HIDE DEF p
    <3>5. p.pc # "Issue"
      BY <2>3, <3>4 DEF InFlight
    <3>6. QED
      BY <2>1, <3>1, <3>3, <3>5, StepTypes, QuietStep
  <2>4. QED
    BY <1>8, <2>2, <2>3 DEF drop
<1>9. QED
  BY <1>1, <1>2, <1>3, <1>4, <1>5, <1>6, <1>7, <1>8, ClaimInv, IssueInv DEF step

\* Every step of the broker, the clock and the clean-up keeps the invariant.
LEMMA NextInv == IInv /\ [PollingNext]_pollingVars => IInv'
<1> SUFFICES ASSUME IInv, [PollingNext]_pollingVars PROVE IInv'
  OBVIOUS
<1>1. row \in Row /\ now \in Nat /\ cleaner \in Nat
  BY DEF IInv, PollingTypeOK
<1>2. CASE tick
  BY <1>1, <1>2, OtherStep DEF tick
<1>3. CASE start
  <2>1. row' \in Row /\ row.state = "New"
    BY <1>1, <1>3 DEF start, Row
  <2>2. QED
    BY <1>1, <1>3, <2>1, OtherStep DEF start
<1>4. CASE cleanup_list
  BY <1>1, <1>4, OtherStep DEF cleanup_list, Row
<1>5. CASE cleanup_expired_enrollments
  <2>1. row' \in Row /\ (row.state = "Gone" => row'.state = "Gone")
    BY <1>1, <1>5, GoneRow DEF cleanup_expired_enrollments
  <2>2. QED
    BY <1>1, <1>5, <2>1, OtherStep DEF cleanup_expired_enrollments
<1>6. CASE delete_enrollments
  <2>1. row' \in Row /\ row'.state = "Gone"
    BY <1>6, GoneRow DEF delete_enrollments
  <2>2. QED
    BY <1>1, <1>6, <2>1, OtherStep DEF delete_enrollments
<1>7. CASE UNCHANGED pollingVars
  BY <1>7 DEF pollingVars, IInv, PollingTypeOK, Unissued, ClaimIsUnique
<1>8. QED
  BY <1>2, <1>3, <1>4, <1>5, <1>6, <1>7, PollInv DEF PollingNext
-----------------------------------------------------------------------------
\* The row's types, and the uniqueness of the claim, hold in every reachable state.
THEOREM Invariant == PollingSpec => []IInv
BY InitInv, NextInv, PTL DEF PollingSpec

\* Every row and every poll always has its type.
THEOREM TypeCorrect == PollingSpec => []PollingTypeOK
<1>1. IInv => PollingTypeOK
  BY DEF IInv
<1>2. QED
  BY <1>1, Invariant, PTL

\* A step that neither issues nor touches claims maps to a stutter, or to Close when it
\* removes the row.
LEMMA MapQuiet ==
    ASSUME IInv, issued' = issued,
           row.state = "Gone" => row'.state = "Gone",
           \A r \in Pollers : polls'[r].pc = "Issue" <=> polls[r].pc = "Issue"
    PROVE  [Code!Next]_(Code!vars)
<1>1. row.state # "Gone" => \A r \in Pollers : polls[r].pc # "Issue"
  BY DEF IInv, ClaimIsUnique
<1>2. CASE row.state # "Gone" /\ row'.state = "Gone"
  <2>1. Code!Close
    BY <1>1, <1>2 DEF Code!Close
  <2>2. QED
    BY <2>1 DEF Code!Next
<1>3. CASE row.state # "Gone" /\ row'.state # "Gone"
  BY <1>3 DEF Code!vars
<1>4. CASE row.state = "Gone"
  BY <1>4 DEF Code!vars
<1>5. QED
  BY <1>2, <1>3, <1>4

\* A poll that ends with its request takes its claim, if it had one, with it.
LEMMA MapFinish ==
    ASSUME IInv, NEW q \in Pollers, polls' = [polls EXCEPT ![q] = IdlePoll],
           issued' = issued, row.state = "Gone" => row'.state = "Gone"
    PROVE  [Code!Next]_(Code!vars)
<1>1. \A r \in Pollers : r # q => polls'[r] = polls[r]
  BY StepTypes
<1>2. polls'[q].pc = "Idle"
  BY StepTypes, IdleIsPoll
<1>3. CASE polls[q].pc # "Issue"
  BY <1>1, <1>2, <1>3, MapQuiet
<1>4. CASE polls[q].pc = "Issue"
  <2>1. row.state = "Gone" /\ \A r \in Pollers : polls[r].pc = "Issue" => r = q
    BY <1>4 DEF IInv, ClaimIsUnique
  <2>2. \A r \in Pollers : polls'[r].pc # "Issue"
    BY <1>1, <1>2, <2>1
  <2>3. Code!Close
    BY <1>4, <2>1, <2>2 DEF Code!Close
  <2>4. QED
    BY <2>3 DEF Code!Next
<1>5. QED
  BY <1>3, <1>4

\* A poll that moves on to another step than Issue.
LEMMA MapMove ==
    ASSUME IInv, NEW q \in Pollers, NEW p, p.pc # "Issue", polls[q].pc # "Issue",
           polls' = [polls EXCEPT ![q] = p],
           issued' = issued, row.state = "Gone" => row'.state = "Gone"
    PROVE  [Code!Next]_(Code!vars)
<1>1. \A r \in Pollers : polls'[r].pc = "Issue" <=> polls[r].pc = "Issue"
  BY StepTypes
<1>2. QED
  BY <1>1, MapQuiet

\* Every step of a poll is a step of OneTimeCode.
LEMMA MapPoll == ASSUME IInv, NEW q \in Pollers, step(q) PROVE [Code!Next]_(Code!vars)
<1>1. polls \in [Pollers -> Poll] /\ polls[q] \in Poll
  BY StepTypes
<1>2. CASE poll(q)
  <2> DEFINE p == [pc |-> IF row.expires <= now THEN "Remove" ELSE "Reserve",
                   at |-> now, seen |-> row, dropped |-> FALSE]
  <2>1. /\ polls' = [polls EXCEPT ![q] = p] /\ polls[q].pc = "Idle"
        /\ issued' = issued /\ row' = row
    BY <1>2 DEF poll
  <2>2. p.pc # "Issue"
    OBVIOUS
  <2> HIDE DEF p
  <2>3. QED
    BY <2>1, <2>2, MapMove
<1>3. CASE reserve(q)
  <2>1. polls[q].pc = "Reserve" /\ row.state = "Present" /\ issued' = issued
    BY <1>3 DEF reserve, matches
  <2>2. CASE finish(q)
    BY <2>1, <2>2, MapFinish DEF finish
  <2>3. CASE polls' = [polls EXCEPT ![q].pc = "GitHub", ![q].seen = reserved_row(q)]
    <3> DEFINE p == [polls[q] EXCEPT !.pc = "GitHub", !.seen = reserved_row(q)]
    <3>1. polls' = [polls EXCEPT ![q] = p]
      BY <1>1, <2>3
    <3>2. p.pc = "GitHub"
      BY <1>1 DEF Poll
    <3> HIDE DEF p
    <3>3. QED
      BY <2>1, <3>1, <3>2, MapMove
  <2>4. QED
    BY <1>3, <2>2, <2>3 DEF reserve
<1>4. ASSUME NEW s, s # "Issue", goto(q, s), polls[q].pc # "Issue", UNCHANGED <<issued, row>>
      PROVE  [Code!Next]_(Code!vars)
  <2> DEFINE p == [polls[q] EXCEPT !.pc = s]
  <2>1. polls' = [polls EXCEPT ![q] = p]
    BY <1>1, <1>4 DEF goto
  <2>2. p.pc = s
    BY <1>1 DEF Poll
  <2> HIDE DEF p
  <2>3. QED
    BY <1>4, <2>1, <2>2, MapMove
<1>5. CASE ask_github(q)
  <2>1. polls[q].pc = "GitHub" /\ UNCHANGED <<issued, row>>
    BY <1>5 DEF ask_github
  <2>2. CASE finish(q)
    BY <2>1, <2>2, MapFinish DEF finish
  <2>3. CASE \E s \in {"Slow", "Remove", "Consume"} : goto(q, s)
    BY <1>4, <2>1, <2>3
  <2>4. QED
    BY <1>5, <2>2, <2>3 DEF ask_github
<1>6. CASE consume_token(q)
  <2>1. polls[q].pc = "Consume" /\ UNCHANGED <<issued, row>>
    BY <1>6 DEF consume_token
  <2>2. CASE finish(q)
    BY <2>1, <2>2, MapFinish DEF finish
  <2>3. CASE goto(q, "Claim")
    BY <1>4, <2>1, <2>3
  <2>4. QED
    BY <1>6, <2>2, <2>3 DEF consume_token
<1>7. CASE slow_down(q) \/ remove(q) \/ conflict(q)
  BY <1>7, MapFinish DEF slow_down, remove, conflict, matches, finish
<1>8. CASE claim(q)
  <2>1. row.state = "Present" /\ row'.state = "Gone" /\ issued' = issued
    BY <1>8, GoneRow DEF claim, matches
  <2>2. CASE finish(q)
    BY <2>1, <2>2, MapFinish DEF finish
  <2>3. CASE goto(q, "Issue")
    <3>1. polls'[q].pc = "Issue"
      BY <1>1, <2>3 DEF goto, Poll
    <3>2. Code!Claim
      BY <2>1, <3>1 DEF Code!Claim
    <3>3. QED
      BY <3>2 DEF Code!Next
  <2>4. QED
    BY <1>8, <2>2, <2>3 DEF claim
<1>9. CASE issue(q)
  <2>1. /\ polls[q].pc = "Issue" /\ polls' = [polls EXCEPT ![q] = IdlePoll]
        /\ row' = row /\ issued' \in {issued, issued + 1}
    BY <1>9 DEF issue, finish
  <2>2. CASE issued' = issued
    BY <2>1, <2>2, MapFinish
  <2>3. CASE issued' = issued + 1
    <3>1. /\ row.state = "Gone" /\ issued = 0
          /\ \A r \in Pollers : polls[r].pc = "Issue" => r = q
      BY <2>1 DEF IInv, ClaimIsUnique
    <3>2. \A r \in Pollers : polls'[r].pc # "Issue"
      BY <1>1, <2>1, <3>1, IdleIsPoll
    <3>3. issued' = 1
      BY <2>3, <3>1
    <3>4. Code!Issue
      BY <2>1, <3>1, <3>2, <3>3 DEF Code!Issue
    <3>5. QED
      BY <3>4 DEF Code!Next
  <2>4. QED
    BY <2>1, <2>2, <2>3
<1>10. CASE drop(q)
  <2>1. issued' = issued /\ row' = row
    BY <1>10 DEF drop
  <2>2. CASE polls' = [polls EXCEPT ![q] = IdlePoll]
    BY <2>1, <2>2, MapFinish
  <2>3. CASE polls[q].pc \in InFlight /\ polls' = [polls EXCEPT ![q].dropped = TRUE]
    <3>1. \A r \in Pollers : polls'[r].pc = polls[r].pc
      BY <1>1, <2>3 DEF Poll
    <3>2. QED
      BY <2>1, <3>1, MapQuiet
  <2>4. QED
    BY <1>10, <2>2, <2>3 DEF drop
<1>11. QED
  BY <1>2, <1>3, <1>5, <1>6, <1>7, <1>8, <1>9, <1>10 DEF step

\* Both device flows implement OneTimeCode: a code is claimed by at most one poll and
\* becomes at most one credential or session, whatever polls race, are dropped or have
\* their writes delayed.
THEOREM CodesAreOneTime == PollingSpec => OneTime
<1>1. PollingInit => Code!Init
  BY DEF PollingInit, NoRow, Code!Init
<1>2. ASSUME IInv, [PollingNext]_pollingVars PROVE [Code!Next]_(Code!vars)
  <2>1. CASE \E q \in Pollers : step(q)
    BY <1>2, <2>1, MapPoll
  <2>2. CASE UNCHANGED pollingVars
    BY <2>2 DEF pollingVars, Code!vars
  <2>3. CASE tick \/ start \/ cleanup_list \/ cleanup_expired_enrollments \/ delete_enrollments
    <3>1. issued' = issued /\ polls' = polls
      BY <2>3 DEF tick, start, cleanup_list, cleanup_expired_enrollments, delete_enrollments
    <3>2. row.state = "Gone" => row'.state = "Gone"
      BY <2>3 DEF tick, start, cleanup_list, cleanup_expired_enrollments, delete_enrollments
    <3>3. QED
      BY <1>2, <3>1, <3>2, MapQuiet
  <2>4. QED
    BY <1>2, <2>1, <2>2, <2>3 DEF PollingNext
<1>3. QED
  BY <1>1, <1>2, Invariant, PTL DEF PollingSpec, OneTime, Code!Spec
-----------------------------------------------------------------------------
(* Pacing.  A poll whose ETag still matches holds the row as it is, and read it after   *)
(* the last reservation under which GitHub was asked; so it may trust the row's next.   *)

\* GitHub was asked in the past, and never before start.
AskedBefore ==
    /\ asked.at <= now
    /\ row.state = "New" => asked.at = 0 /\ asked.interval = 0

\* The row allows the next poll an interval after the last one, and intervals only grow.
RowPaced ==
    row.state = "Present" =>
        /\ row.interval >= asked.interval
        /\ row.next >= asked.at + asked.interval

\* What poll p may have in hand when the row is r.
Current(p, r) ==
    p.pc # "Idle" =>
        /\ r.state # "New" /\ p.at <= now /\ p.seen.etag <= r.etag
        /\ r.state = "Present" /\ r.etag = p.seen.etag => p.seen = r /\ asked.at <= p.at

SeenIsCurrent == \A q \in Pollers : Current(polls[q], row)

Pace == AskedBefore /\ RowPaced /\ SeenIsCurrent

\* Before start nothing was asked and nobody polls.
LEMMA PaceInit == PollingInit => Pace
  BY DEF PollingInit, Pace, AskedBefore, RowPaced, SeenIsCurrent, Current, NoRow, IdlePoll

\* A poll that moves without writing: to another step, or to its end.
LEMMA PaceMove ==
    ASSUME IInv, Pace, NEW q \in Pollers, NEW p, polls' = [polls EXCEPT ![q] = p],
           UNCHANGED <<now, row, asked>>, Current(p, row)
    PROVE  Pace'
<1>1. \A r \in Pollers : polls'[r] = IF r = q THEN p ELSE polls[r]
  BY DEF IInv, PollingTypeOK
<1>2. \A r \in Pollers : Current(polls'[r], row)
  BY <1>1 DEF Pace, SeenIsCurrent
<1>3. QED
  BY <1>2 DEF Pace, AskedBefore, RowPaced, SeenIsCurrent, Current

\* A write of the row that no reservation to ask GitHub makes: a later ETag, or Gone.
Write(r) ==
    /\ row.state = "Present" /\ r \in Row /\ r.state # "New" /\ r.etag >= row.etag
    /\ r.state = "Present" =>
         /\ r.etag > row.etag /\ r.interval >= row.interval
         /\ r.next >= asked.at + asked.interval

\* After such a write no poll's ETag matches, except that of a poll that wrote it.
LEMMA PaceWrite ==
    ASSUME IInv, Pace, polls' \in [Pollers -> Poll],
           \A r \in Pollers : \/ polls'[r].pc = "Idle"
                              \/ /\ polls[r].pc # "Idle" /\ polls'[r].at = polls[r].at
                                 /\ polls'[r].seen = polls[r].seen,
           UNCHANGED <<now, asked>>, Write(row')
    PROVE  Pace'
<1>1. row \in Row /\ asked \in [at : Nat, interval : Nat, etag : Nat] /\ polls \in [Pollers -> Poll]
  BY DEF IInv, PollingTypeOK
<1>2. AskedBefore'
  BY DEF Pace, AskedBefore, Write
<1>3. RowPaced'
  BY <1>1 DEF Pace, RowPaced, Write, Row
<1>4. ASSUME NEW r \in Pollers PROVE Current(polls[r], row)'
  <2>1. CASE polls'[r].pc = "Idle"
    BY <2>1 DEF Current
  <2>2. CASE polls'[r].pc # "Idle"
    <3>1. /\ polls[r].pc # "Idle" /\ polls'[r].at = polls[r].at
          /\ polls'[r].seen = polls[r].seen
      BY <2>2
    <3>2. polls[r].at <= now /\ polls[r].seen.etag <= row.etag
      BY <3>1 DEF Pace, SeenIsCurrent, Current
    <3>3. row.etag \in Nat /\ row'.etag \in Nat /\ polls[r].seen.etag \in Nat
      BY <1>1 DEF Write, Row, Poll
    <3>4. polls[r].seen.etag <= row'.etag /\ (row'.state = "Present" => polls[r].seen.etag # row'.etag)
      BY <3>2, <3>3 DEF Write
    <3>5. QED
      BY <3>1, <3>2, <3>4 DEF Current, Write
  <2>3. QED
    BY <2>1, <2>2
<1>5. QED
  BY <1>2, <1>3, <1>4 DEF Pace, SeenIsCurrent

\* finish, with or without a write.
LEMMA PaceFinish ==
    ASSUME IInv, Pace, NEW q \in Pollers, finish(q), UNCHANGED <<now, asked>>,
           row' = row \/ Write(row')
    PROVE  Pace'
<1>1. polls' = [polls EXCEPT ![q] = IdlePoll] /\ polls \in [Pollers -> Poll]
  BY DEF finish, IInv, PollingTypeOK
<1>2. CASE row' = row
  BY <1>1, <1>2, PaceMove, IdleIsPoll DEF Current
<1>3. CASE Write(row')
  <2>1. /\ polls' \in [Pollers -> Poll]
        /\ \A r \in Pollers : polls'[r] = IF r = q THEN IdlePoll ELSE polls[r]
    BY <1>1, IdleIsPoll
  <2>2. ASSUME NEW r \in Pollers
        PROVE  polls'[r].pc = "Idle" \/ (polls[r].pc # "Idle" /\ polls'[r] = polls[r])
    <3>1. CASE r = q
      BY <2>1, <3>1, IdleIsPoll
    <3>2. CASE r # q
      BY <2>1, <3>2
    <3>3. QED
      BY <3>1, <3>2
  <2>3. QED
    BY <1>3, <2>1, <2>2, PaceWrite
<1>4. QED
  BY <1>2, <1>3

\* goto: what a poll has in hand does not depend on its step.
LEMMA PaceGoto ==
    ASSUME IInv, Pace, NEW q \in Pollers, polls[q].pc # "Idle", NEW s, goto(q, s),
           UNCHANGED <<now, row, asked>>
    PROVE  Pace'
<1> DEFINE p == [polls[q] EXCEPT !.pc = s]
<1>1. polls \in [Pollers -> Poll] /\ polls[q] \in Poll
  BY DEF IInv, PollingTypeOK
<1>2. polls' = [polls EXCEPT ![q] = p]
  BY <1>1 DEF goto
<1>3. p.at = polls[q].at /\ p.seen = polls[q].seen
  BY <1>1 DEF Poll
<1>4. Current(p, row)
  BY <1>3 DEF Pace, SeenIsCurrent, Current
<1>5. QED
  BY <1>2, <1>4, PaceMove

\* A delete by ETag is a write.
LEMMA DeleteWrites ==
    ASSUME IInv, row.state = "Present" PROVE Write([row EXCEPT !.state = "Gone"])
<1>1. row \in Row /\ [row EXCEPT !.state = "Gone"] \in Row
  BY GoneRow DEF IInv, PollingTypeOK
<1>2. [row EXCEPT !.state = "Gone"].state = "Gone" /\ [row EXCEPT !.state = "Gone"].etag = row.etag
  BY <1>1 DEF Row
<1>3. row.etag \in Nat
  BY <1>1 DEF Row
<1>4. QED
  BY <1>1, <1>2, <1>3 DEF Write

\* What a poll may rely on when its CAS succeeds.
LEMMA MatchMeans ==
    ASSUME IInv, Pace, NEW q \in Pollers, polls[q].pc # "Idle", matches(q)
    PROVE  /\ polls[q].seen = row /\ row.state = "Present"
           /\ asked.at <= polls[q].at /\ polls[q].at <= now
           /\ row.interval >= asked.interval
           /\ row.next >= asked.at + asked.interval
  BY DEF Pace, SeenIsCurrent, Current, matches, RowPaced

\* A reservation, early or not, dropped or not, is a write; and one under which GitHub
\* is asked comes an interval after the last.
LEMMA ReserveWrites ==
    ASSUME IInv, Pace, NEW q \in Pollers, polls[q].pc = "Reserve", matches(q)
    PROVE  /\ Write(reserved_row(q))
           /\ reserved_row(q).next = polls[q].at + reserved_row(q).interval
           /\ reserved_row(q).state = "Present"
           /\ ~early(q) => polls[q].at >= asked.at + asked.interval
<1>1. /\ row \in Row /\ asked \in [at : Nat, interval : Nat, etag : Nat]
      /\ polls[q].at \in Nat /\ reserved_row(q) \in Row
  BY StepTypes, ReservedRow
<1>2. /\ polls[q].seen = row /\ row.state = "Present" /\ asked.at <= polls[q].at
      /\ row.interval >= asked.interval /\ row.next >= asked.at + asked.interval
  BY MatchMeans
<1> DEFINE i == row.interval + (IF early(q) THEN SLOW ELSE 0)
<1>3. reserved_row(q) = [row EXCEPT !.interval = i, !.next = polls[q].at + i, !.etag = row.etag + 1]
  BY <1>1, <1>2 DEF reserved_row, Row
<1>4. i \in Nat /\ i >= row.interval
  BY <1>1 DEF Row
<1> HIDE DEF i
<1>5. /\ reserved_row(q).state = "Present" /\ reserved_row(q).interval = i
      /\ reserved_row(q).next = polls[q].at + i /\ reserved_row(q).etag = row.etag + 1
  BY <1>1, <1>2, <1>3 DEF Row
<1>6. /\ row.etag \in Nat /\ row.interval \in Nat /\ row.next \in Nat
      /\ asked.at \in Nat /\ asked.interval \in Nat
  BY <1>1 DEF Row
<1>7. polls[q].at + i >= asked.at + asked.interval
  BY <1>1, <1>2, <1>4, <1>6
<1>8. Write(reserved_row(q))
  BY <1>1, <1>2, <1>4, <1>5, <1>6, <1>7 DEF Write
<1>9. ~early(q) => polls[q].at >= asked.at + asked.interval
  BY <1>1, <1>2, <1>6 DEF early
<1>10. QED
  BY <1>5, <1>8, <1>9

\* reserve keeps the pace.
LEMMA PaceReserve == ASSUME IInv, Pace, NEW q \in Pollers, reserve(q) PROVE Pace'
<1>1. /\ polls[q].pc = "Reserve" /\ matches(q) /\ row' = reserved_row(q) /\ now' = now
  BY DEF reserve
<1>2. /\ Write(row') /\ row'.next = polls[q].at + row'.interval /\ row'.state = "Present"
      /\ ~early(q) => polls[q].at >= asked.at + asked.interval
  BY <1>1, ReserveWrites
<1>3. CASE finish(q) /\ UNCHANGED asked
  BY <1>1, <1>2, <1>3, PaceFinish
<1>4. CASE /\ polls' = [polls EXCEPT ![q].pc = "GitHub", ![q].seen = reserved_row(q)]
           /\ asked' = [at |-> polls[q].at, interval |-> reserved_row(q).interval,
                        etag |-> reserved_row(q).etag]
  <2>1. /\ polls \in [Pollers -> Poll] /\ polls[q] \in Poll /\ row \in Row /\ row' \in Row
        /\ polls[q].at \in Nat
    BY <1>1, StepTypes, ReservedRow
  <2>2. /\ asked'.at = polls[q].at /\ asked'.interval = row'.interval
    BY <1>1, <1>4
  <2>3. polls[q].at <= now /\ row.state = "Present"
    BY <1>1, MatchMeans
  <2>4. AskedBefore'
    BY <1>1, <1>2, <2>2, <2>3 DEF AskedBefore
  <2>5. row'.interval \in Nat /\ row'.next \in Nat /\ row'.etag \in Nat /\ row.etag \in Nat
    BY <2>1 DEF Row
  <2>6. RowPaced'
    BY <1>2, <2>1, <2>2, <2>5 DEF RowPaced
  <2>7. row'.etag > row.etag
    BY <1>2 DEF Write
  <2>8. ASSUME NEW r \in Pollers PROVE Current(polls[r], row)'
    <3>1. CASE r = q
      <4>1. polls'[r].at = polls[q].at /\ polls'[r].seen = row'
        BY <1>1, <1>4, <2>1, <3>1 DEF Poll
      <4>2. QED
        BY <1>1, <1>2, <2>1, <2>2, <2>3, <2>5, <4>1 DEF Current
    <3>2. CASE r # q
      <4>1. polls'[r] = polls[r] /\ polls[r].seen.etag \in Nat
        BY <1>4, <2>1, <3>2 DEF Poll, Row
      <4>2. polls[r].pc # "Idle" => polls[r].at <= now /\ polls[r].seen.etag <= row.etag
        BY DEF Pace, SeenIsCurrent, Current
      <4>3. polls[r].pc # "Idle" => polls[r].seen.etag <= row'.etag /\ polls[r].seen.etag # row'.etag
        BY <2>5, <2>7, <4>1, <4>2
      <4>4. QED
        BY <1>1, <1>2, <4>1, <4>2, <4>3 DEF Current
    <3>3. QED
      BY <3>1, <3>2
  <2>9. QED
    BY <2>4, <2>6, <2>8 DEF Pace, SeenIsCurrent
<1>5. QED
  BY <1>3, <1>4 DEF reserve

\* slow_down keeps the pace: it counts from the poll's timestamp or from a later time.
LEMMA PaceSlow == ASSUME IInv, Pace, NEW q \in Pollers, slow_down(q) PROVE Pace'
<1> DEFINE t == IF kind = "Enrollment" THEN polls[q].at ELSE now
<1>1. /\ polls[q].pc = "Slow" /\ matches(q) /\ finish(q) /\ UNCHANGED <<now, asked>>
      /\ row' = [row EXCEPT !.interval = row.interval + SLOW, !.etag = row.etag + 1,
                            !.next = row.interval + SLOW + t]
  BY DEF slow_down, IInv, PollingTypeOK, Row
<1>2. /\ row \in Row /\ asked \in [at : Nat, interval : Nat, etag : Nat] /\ polls[q].at \in Nat
      /\ now \in Nat
  BY StepTypes DEF IInv, PollingTypeOK
<1>3. /\ row.state = "Present" /\ asked.at <= polls[q].at /\ polls[q].at <= now
      /\ row.interval >= asked.interval
  BY <1>1, MatchMeans
<1>4. t \in Nat /\ asked.at <= t
  BY <1>2, <1>3
<1> HIDE DEF t
<1>5. /\ row.etag \in Nat /\ row.interval \in Nat /\ asked.at \in Nat /\ asked.interval \in Nat
  BY <1>2 DEF Row
<1>6. /\ row' \in Row /\ row'.state = "Present" /\ row'.interval = row.interval + SLOW
      /\ row'.etag = row.etag + 1 /\ row'.next = row.interval + SLOW + t
  <2>1. row.interval + SLOW \in Nat /\ row.etag + 1 \in Nat /\ row.interval + SLOW + t \in Nat
    BY <1>4, <1>5
  <2>2. ASSUME NEW i \in Nat, NEW e \in Nat, NEW n \in Nat,
               row' = [row EXCEPT !.interval = i, !.etag = e, !.next = n]
        PROVE  /\ row' \in Row /\ row'.state = "Present" /\ row'.interval = i
               /\ row'.etag = e /\ row'.next = n
    BY <1>2, <1>3, <2>2 DEF Row
  <2>3. QED
    BY <1>1, <2>1, <2>2
<1>7. row'.next >= asked.at + asked.interval /\ row'.interval >= row.interval /\ row'.etag > row.etag
  BY <1>3, <1>4, <1>5, <1>6
<1>8. Write(row')
  BY <1>3, <1>5, <1>6, <1>7 DEF Write
<1>9. QED
  BY <1>1, <1>8, PaceFinish

\* Every step of a poll keeps the pace.
LEMMA PacePoll == ASSUME IInv, Pace, NEW q \in Pollers, step(q) PROVE Pace'
<1>1. CASE poll(q)
  <2> DEFINE p == [pc |-> IF row.expires <= now THEN "Remove" ELSE "Reserve",
                   at |-> now, seen |-> row, dropped |-> FALSE]
  <2>1. polls' = [polls EXCEPT ![q] = p] /\ UNCHANGED <<now, row, asked>> /\ row.state = "Present"
    BY <1>1 DEF poll
  <2>2. now \in Nat /\ row.etag \in Nat /\ asked.at <= now
    BY DEF IInv, PollingTypeOK, Row, Pace, AskedBefore
  <2>3. Current(p, row)
    BY <2>1, <2>2 DEF Current
  <2>4. QED
    BY <2>1, <2>3, PaceMove
<1>2. CASE reserve(q)
  BY <1>2, PaceReserve
<1>3. CASE ask_github(q)
  <2>1. polls[q].pc # "Idle" /\ UNCHANGED <<now, row, asked>>
    BY <1>3 DEF ask_github
  <2>2. finish(q) \/ \E s \in {"Slow", "Remove", "Consume"} : goto(q, s)
    BY <1>3 DEF ask_github
  <2>3. QED
    BY <2>1, <2>2, PaceFinish, PaceGoto
<1>4. CASE slow_down(q)
  BY <1>4, PaceSlow
<1>5. CASE consume_token(q)
  <2>1. polls[q].pc # "Idle" /\ UNCHANGED <<now, row, asked>> /\ (goto(q, "Claim") \/ finish(q))
    BY <1>5 DEF consume_token
  <2>2. QED
    BY <2>1, PaceFinish, PaceGoto
<1>6. CASE claim(q)
  <2>1. /\ polls[q].pc = "Claim" /\ Write(row') /\ UNCHANGED <<now, asked>>
        /\ finish(q) \/ goto(q, "Issue")
    BY <1>6, DeleteWrites DEF claim, matches
  <2>2. CASE finish(q)
    BY <2>1, <2>2, PaceFinish
  <2>3. CASE goto(q, "Issue")
    <3>1. polls' = [polls EXCEPT ![q].pc = "Issue"] /\ polls \in [Pollers -> Poll] /\ polls[q] \in Poll
      BY <2>3 DEF goto, IInv, PollingTypeOK
    <3>2. polls' \in [Pollers -> Poll]
      BY <3>1 DEF Poll
    <3>3. /\ polls'[q].at = polls[q].at /\ polls'[q].seen = polls[q].seen
          /\ \A r \in Pollers : r # q => polls'[r] = polls[r]
      BY <3>1 DEF Poll
    <3>4. QED
      BY <2>1, <3>2, <3>3, PaceWrite
  <2>4. QED
    BY <2>1, <2>2, <2>3
<1>7. CASE remove(q)
  BY <1>7, DeleteWrites, PaceFinish DEF remove, matches
<1>8. CASE conflict(q) \/ issue(q)
  <2>1. finish(q) /\ UNCHANGED <<now, row, asked>>
    BY <1>8 DEF conflict, issue
  <2>2. QED
    BY <2>1, PaceFinish
<1>9. CASE drop(q)
  <2>1. UNCHANGED <<now, row, asked>> /\ polls[q].pc # "Idle" /\ polls \in [Pollers -> Poll]
    BY <1>9 DEF drop, IInv, PollingTypeOK
  <2>2. CASE polls' = [polls EXCEPT ![q] = IdlePoll]
    BY <2>1, <2>2, PaceMove, IdleIsPoll DEF Current
  <2>3. CASE polls' = [polls EXCEPT ![q].dropped = TRUE]
    <3> DEFINE p == [polls[q] EXCEPT !.dropped = TRUE]
    <3>1. polls' = [polls EXCEPT ![q] = p]
      BY <2>1, <2>3
    <3>2. p.at = polls[q].at /\ p.seen = polls[q].seen
      BY <2>1 DEF Poll
    <3>3. Current(p, row)
      BY <2>1, <3>2 DEF Pace, SeenIsCurrent, Current
    <3>4. QED
      BY <2>1, <3>1, <3>3, PaceMove
  <2>4. QED
    BY <1>9, <2>2, <2>3 DEF drop
<1>10. QED
  BY <1>1, <1>2, <1>3, <1>4, <1>5, <1>6, <1>7, <1>8, <1>9 DEF step

\* Every step of the system keeps the pace.
LEMMA PaceNext == ASSUME IInv, Pace, [PollingNext]_pollingVars PROVE Pace'
<1>1. CASE \E q \in Pollers : step(q)
  BY <1>1, PacePoll
<1>2. CASE UNCHANGED pollingVars \/ cleanup_list
  <2>1. UNCHANGED <<now, row, polls, asked>>
    BY <1>2 DEF pollingVars, cleanup_list
  <2>2. QED
    BY <2>1 DEF Pace, AskedBefore, RowPaced, SeenIsCurrent, Current
<1>3. CASE tick
  <2>1. now' = now + 1 /\ UNCHANGED <<row, polls, asked>> /\ now \in Nat
        /\ asked.at \in Nat /\ \A q \in Pollers : polls[q].at \in Nat
    BY <1>3, StepTypes DEF tick, IInv, PollingTypeOK
  <2>2. asked.at <= now /\ \A q \in Pollers : polls[q].pc # "Idle" => polls[q].at <= now
    BY DEF Pace, AskedBefore, SeenIsCurrent, Current
  <2>3. asked.at <= now' /\ \A q \in Pollers : polls[q].pc # "Idle" => polls[q].at <= now'
    BY <2>1, <2>2
  <2>4. QED
    BY <2>1, <2>3 DEF Pace, AskedBefore, RowPaced, SeenIsCurrent, Current
<1>4. CASE start
  <2>1. /\ row.state = "New" /\ UNCHANGED <<now, polls, asked>>
        /\ row'.state = "Present" /\ row'.next = now + INTERVAL /\ row'.interval = INTERVAL
    BY <1>4 DEF start
  <2>2. asked.at = 0 /\ asked.interval = 0 /\ now \in Nat
    BY <2>1 DEF Pace, AskedBefore, IInv, PollingTypeOK
  <2>3. \A q \in Pollers : polls[q].pc = "Idle"
    BY <2>1 DEF Pace, SeenIsCurrent, Current
  <2>4. SeenIsCurrent'
    BY <2>1, <2>3 DEF SeenIsCurrent, Current
  <2>5. AskedBefore' /\ RowPaced'
    BY <2>1, <2>2 DEF AskedBefore, RowPaced
  <2>6. QED
    BY <2>4, <2>5 DEF Pace
<1>5. CASE cleanup_expired_enrollments \/ delete_enrollments
  <2>1. UNCHANGED <<now, polls, asked>> /\ (row' = row \/ Write(row'))
    BY <1>5, DeleteWrites DEF cleanup_expired_enrollments, delete_enrollments
  <2>2. CASE row' = row
    BY <2>1, <2>2 DEF Pace, AskedBefore, RowPaced, SeenIsCurrent, Current
  <2>3. CASE Write(row')
    <3>1. polls' \in [Pollers -> Poll]
      BY <2>1 DEF IInv, PollingTypeOK
    <3>2. QED
      BY <2>1, <2>3, <3>1, PaceWrite
  <2>4. QED
    BY <2>1, <2>2, <2>3
<1>6. QED
  BY <1>1, <1>2, <1>3, <1>4, <1>5 DEF PollingNext

\* A poll whose ETag matches has the current row in hand and read it after GitHub was
\* last asked, in every reachable state.
THEOREM PaceInductive == PollingSpec => []Pace
<1>1. QED
  BY PaceInit, PaceNext, Invariant, PTL DEF PollingSpec

\* GitHub is never asked under a reservation less than the polling interval after the
\* one before, for any number of racing polls, with or without the lock: early polls
\* and slow-downs of others only move the row's next on.
THEOREM PollsAreSpaced == PollingSpec => PollsPaced
<1>1. ASSUME IInv, Pace, [PollingNext]_pollingVars
      PROVE  [asked' # asked => asked'.at >= asked.at + asked.interval]_pollingVars
  <2>1. SUFFICES ASSUME PollingNext, asked' # asked PROVE asked'.at >= asked.at + asked.interval
    BY <1>1 DEF pollingVars
  <2>2. PICK q \in Pollers : reserve(q)
    BY <2>1 DEF PollingNext, step, tick, start, cleanup_list, cleanup_expired_enrollments,
                delete_enrollments, poll, ask_github, slow_down, consume_token,
                claim, remove, conflict, issue, drop
  <2>3. ~early(q) /\ asked'.at = polls[q].at
    BY <2>1, <2>2 DEF reserve
  <2>4. polls[q].at >= asked.at + asked.interval
    BY <1>1, <2>2, <2>3, ReserveWrites DEF reserve
  <2>5. QED
    BY <2>3, <2>4
<1>2. QED
  BY <1>1, Invariant, PaceInductive, PTL DEF PollingSpec, PollsPaced
=============================================================================
