---------------------------- MODULE DevicePolling ----------------------------
(***************************************************************************)
(* The device-code flows of the broker: gateway enrollment (gateways.rs:   *)
(* start_enrollment, poll_enrollment) and browser device login             *)
(* (auth/device.rs: start, poll), one row of the Enrollments table, polled *)
(* by several requests at once, with the clean-up of expired rows beside   *)
(* them.  Enrollment polls hold mutation_lock; device login polls and the  *)
(* clean-up hold nothing.                                                  *)
(*                                                                         *)
(* A step runs from one await to the next.  A request may be dropped at    *)
(* any await (client gone, process restarted); a store write that was on   *)
(* its way may still land afterwards, when the lock is no longer held.     *)
(***************************************************************************)
EXTENDS Naturals

CONSTANTS
    Pollers,        \* poll requests in progress
    LIFETIME,       \* expires_in of GitHub's device code
    INTERVAL,       \* its polling interval
    SLOW,           \* added to the interval of an early or slowed-down poll: 5
    MaxInterval,    \* bound on intervals
    MaxTime         \* bound on the clock

ASSUME PollingAssumption ==
    /\ LIFETIME \in Nat /\ INTERVAL \in Nat /\ SLOW \in Nat
    /\ MaxInterval \in Nat /\ MaxTime \in Nat

VARIABLES
    now,            \* seconds
    kind,           \* which of the two flows the row belongs to
    row,            \* the Enrollments row; etag changes with every write
    lock,           \* mutation_lock, as far as these flows take it: a set of at most one poller
    polls,          \* the poll requests
    cleaner,        \* etag the clean-up read and is about to delete, 0 for none
    issued,         \* gateway credentials or browser sessions issued for this row
    asked           \* history: the reservation under which GitHub was last asked

pollingVars == <<now, kind, row, lock, polls, cleaner, issued, asked>>

Kinds == {"Enrollment", "DeviceLogin"}
Row == [state : {"New", "Present", "Gone"}, expires : Nat, next : Nat, interval : Nat, etag : Nat]
InFlight == {"Reserve", "Slow", "Remove", "Claim"}    \* awaiting a store write
Poll == [pc : {"Idle", "GitHub", "Consume", "Issue"} \cup InFlight,
         at : Nat,              \* timestamp
         seen : Row,            \* the entity as read, then as reserved
         dropped : BOOLEAN]     \* the request is gone, its last write is still on its way

\* Every variable has its type.
PollingTypeOK ==
    /\ now \in Nat
    /\ kind \in Kinds
    /\ row \in Row
    /\ lock \in SUBSET Pollers
    /\ polls \in [Pollers -> Poll]
    /\ cleaner \in Nat
    /\ issued \in Nat
    /\ asked \in [at : Nat, interval : Nat, etag : Nat]

NoRow == [state |-> "New", expires |-> 0, next |-> 0, interval |-> 0, etag |-> 0]
IdlePoll == [pc |-> "Idle", at |-> 0, seen |-> NoRow, dropped |-> FALSE]

PollingInit ==
    /\ now = 0 /\ kind \in Kinds /\ row = NoRow
    /\ lock = {} /\ polls = [q \in Pollers |-> IdlePoll]
    /\ cleaner = 0 /\ issued = 0
    /\ asked = [at |-> 0, interval |-> 0, etag |-> 0]

tick == now < MaxTime /\ now' = now + 1
        /\ UNCHANGED <<kind, row, lock, polls, cleaner, issued, asked>>

\* start_enrollment and device::start: insert the row under a fresh random id.
start ==
    /\ row.state = "New"
    /\ row' = [state |-> "Present", expires |-> now + LIFETIME, next |-> now + INTERVAL,
               interval |-> INTERVAL, etag |-> 1]
    /\ UNCHANGED <<now, kind, lock, polls, cleaner, issued, asked>>

-----------------------------------------------------------------------------
(* A poll *)

\* The handler returns; its lock guard goes with it.
finish(q) ==
    /\ polls' = [polls EXCEPT ![q] = IdlePoll]
    /\ lock' = lock \ {q}

goto(q, step) == polls' = [polls EXCEPT ![q].pc = step] /\ UNCHANGED lock

\* If-Match: the row is still the one this poll saw.
matches(q) == row.state = "Present" /\ row.etag = polls[q].seen.etag

\* Take the lock if the flow has one, read the row and the clock.
poll(q) ==
    /\ polls[q].pc = "Idle" /\ row.state = "Present"
    /\ kind = "Enrollment" => lock = {}
    /\ lock' = IF kind = "Enrollment" THEN {q} ELSE lock
    /\ polls' = [polls EXCEPT ![q] =
          [pc |-> IF row.expires <= now THEN "Remove" ELSE "Reserve",
           at |-> now, seen |-> row, dropped |-> FALSE]]
    /\ UNCHANGED <<now, kind, row, cleaner, issued, asked>>

early(q) == polls[q].at < polls[q].seen.next

\* The bug "only an early poll moves the next one".
reserved_row_early_only(q) ==
    LET i == polls[q].seen.interval + (IF early(q) THEN SLOW ELSE 0)
    IN  [polls[q].seen EXCEPT !.interval = i,
            !.next = IF early(q) THEN polls[q].at + i ELSE @, !.etag = @ + 1]

\* The row as the reservation rewrites it.
reserved_row(q) ==
    LET i == polls[q].seen.interval + (IF early(q) THEN SLOW ELSE 0)
    IN  [polls[q].seen EXCEPT !.interval = i, !.next = polls[q].at + i, !.etag = @ + 1]

\* Reserve the poll by CAS; an early poll ends there with SlowDown.
reserve(q) ==
    /\ polls[q].pc = "Reserve" /\ matches(q)
    /\ reserved_row(q).interval <= MaxInterval
    /\ row' = reserved_row(q)
    /\ IF early(q) \/ polls[q].dropped
       THEN finish(q) /\ UNCHANGED asked
       ELSE /\ polls' = [polls EXCEPT ![q].pc = "GitHub", ![q].seen = reserved_row(q)]
            /\ asked' = [at |-> polls[q].at, interval |-> reserved_row(q).interval,
                         etag |-> reserved_row(q).etag]
            /\ UNCHANGED lock
    /\ UNCHANGED <<now, kind, cleaner, issued>>

\* poll_device_flow (external: GitHub may give any answer, Authorized more than once).
ask_github(q) ==
    /\ polls[q].pc = "GitHub"
    /\ \/ finish(q)                                                   \* Pending, or an error
       \/ \E step \in {"Slow", "Remove", "Consume"} : goto(q, step)   \* Expired and Denied remove
    /\ UNCHANGED <<now, kind, row, cleaner, issued, asked>>

\* SlowDown: rewrite the reservation.  Enrollment counts from the poll's timestamp,
\* device login from the time of the answer.
slow_down(q) ==
    /\ polls[q].pc = "Slow" /\ matches(q)
    /\ row.interval + SLOW <= MaxInterval
    /\ row' = [row EXCEPT !.interval = @ + SLOW, !.etag = @ + 1,
                          !.next = row.interval + SLOW
                                   + (IF kind = "Enrollment" THEN polls[q].at ELSE now)]
    /\ finish(q)
    /\ UNCHANGED <<now, kind, cleaner, issued, asked>>

\* consume_token: learn the user, revoke the token.
consume_token(q) ==
    /\ polls[q].pc = "Consume"
    /\ goto(q, "Claim") \/ finish(q)
    /\ UNCHANGED <<now, kind, row, cleaner, issued, asked>>

\* Delete exactly the reserved row: the claim of an authorized poll.
claim(q) ==
    /\ polls[q].pc = "Claim" /\ matches(q)
    /\ row' = [row EXCEPT !.state = "Gone"]
    /\ IF polls[q].dropped THEN finish(q) ELSE goto(q, "Issue")
    /\ UNCHANGED <<now, kind, cleaner, issued, asked>>

\* Delete an expired or denied row.
remove(q) ==
    /\ polls[q].pc = "Remove" /\ matches(q)
    /\ row' = [row EXCEPT !.state = "Gone"]
    /\ finish(q)
    /\ UNCHANGED <<now, kind, cleaner, issued, asked>>

\* The bug "an authorized poll issues first and claims afterwards".
consume_token_issues(q) ==
    /\ polls[q].pc = "Consume"
    /\ \/ goto(q, "Claim") /\ issued' = issued + 1
       \/ finish(q) /\ UNCHANGED issued
    /\ UNCHANGED <<now, kind, row, cleaner, asked>>

\* The bug "a row somebody else removed counts as claimed".
conflict_claims(q) ==
    /\ polls[q].pc \in InFlight /\ ~matches(q)
    /\ IF polls[q].pc = "Claim" THEN goto(q, "Issue") ELSE finish(q)
    /\ UNCHANGED <<now, kind, row, cleaner, issued, asked>>

\* The store refuses the write: Conflict or NotFound ends the poll.
conflict(q) ==
    /\ polls[q].pc \in InFlight /\ ~matches(q)
    /\ finish(q)
    /\ UNCHANGED <<now, kind, row, cleaner, issued, asked>>

\* Expiry again, the user's role, then mint or set_session.
issue(q) ==
    /\ polls[q].pc = "Issue"
    /\ finish(q)
    /\ issued' \in {issued} \cup (IF now < polls[q].seen.expires THEN {issued + 1} ELSE {})
    /\ UNCHANGED <<now, kind, row, cleaner, asked>>

\* The request is dropped, or a store call fails without a word.  A write in flight
\* may still land.
drop(q) ==
    /\ polls[q].pc # "Idle" /\ ~polls[q].dropped
    /\ lock' = lock \ {q}
    /\ \/ polls' = [polls EXCEPT ![q] = IdlePoll]
       \/ polls[q].pc \in InFlight /\ polls' = [polls EXCEPT ![q].dropped = TRUE]
    /\ UNCHANGED <<now, kind, row, cleaner, issued, asked>>

-----------------------------------------------------------------------------
(* Others that delete the row *)

\* The bug "the clean-up spares a row that was polled".
cleanup_list_unpolled ==
    /\ cleaner = 0 /\ row.state = "Present" /\ row.expires <= now
    /\ row.interval = INTERVAL
    /\ cleaner' = row.etag
    /\ UNCHANGED <<now, kind, row, lock, polls, issued, asked>>

\* cleanup_expired_enrollments, every 60 s: list, then delete by etag; a row that
\* changed or went meanwhile is left alone.
cleanup_list ==
    /\ cleaner = 0 /\ row.state = "Present" /\ row.expires <= now
    /\ cleaner' = row.etag
    /\ UNCHANGED <<now, kind, row, lock, polls, issued, asked>>

cleanup_expired_enrollments ==
    /\ cleaner # 0 /\ cleaner' = 0
    /\ row' = IF row.state = "Present" /\ row.etag = cleaner
              THEN [row EXCEPT !.state = "Gone"] ELSE row
    /\ UNCHANGED <<now, kind, lock, polls, issued, asked>>

\* delete_workspace_locked removes the enrollments of its workspace, under the lock.
delete_enrollments ==
    /\ kind = "Enrollment" /\ lock = {} /\ row.state = "Present"
    /\ row' = [row EXCEPT !.state = "Gone"]
    /\ UNCHANGED <<now, kind, lock, polls, cleaner, issued, asked>>

-----------------------------------------------------------------------------
step(q) ==
    \/ poll(q) \/ reserve(q) \/ ask_github(q) \/ slow_down(q) \/ consume_token(q)
    \/ claim(q) \/ remove(q) \/ conflict(q) \/ issue(q) \/ drop(q)

PollingNext ==
    \/ tick \/ start
    \/ cleanup_list \/ cleanup_expired_enrollments \/ delete_enrollments
    \/ \E q \in Pollers : step(q)

PollingSpec == PollingInit /\ [][PollingNext]_pollingVars

\* Time passes and main.rs runs the clean-up for ever.
PollingFairness ==
    /\ WF_pollingVars(tick) /\ WF_pollingVars(cleanup_list)
    /\ WF_pollingVars(cleanup_expired_enrollments)

-----------------------------------------------------------------------------
(* Properties *)

\* The row's promise: whatever polls race, a code is claimed by at most one of them,
\* before anything is issued, and is turned into at most one credential.
Code == INSTANCE OneTimeCode WITH
            code <- IF row.state # "Gone" THEN "Open"
                    ELSE IF \E q \in Pollers : polls[q].pc = "Issue" THEN "Claimed" ELSE "Closed",
            issued <- issued
OneTime == Code!Spec

\* GitHub is asked under reservations that are at least the polling interval apart.
PollsPaced == [][asked' # asked => asked'.at >= asked.at + asked.interval]_pollingVars

\* Expired rows are removed, also when polls keep rewriting them.
ExpiredRemoved == row.state = "Present" /\ row.expires <= now ~> row.state = "Gone"
=============================================================================
