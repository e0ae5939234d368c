----------------------------- MODULE RateLimit -----------------------------
(***************************************************************************)
(* AuthService::rate_limit (auth.rs), the limit on the public endpoints of *)
(* the broker: one bucket, with requests that read the clock, wait for the *)
(* mutex and then count themselves.                                        *)
(***************************************************************************)
EXTENDS Naturals, Sequences, FiniteSets

CONSTANTS
    Requests,           \* requests in progress
    CAPACITY, WINDOW,   \* of the bucket: 30 logins or 240 polls in 60 s
    STALL,              \* longest wait for the mutex
    MaxInstant,         \* bound on the clock
    MaxAdmitted         \* bound on the requests that are admitted

VARIABLES
    instant,    \* the clock
    waiting,    \* the instant each request has read, or NotWaiting
    entries,    \* rate_limits[bucket], oldest first
    admitted    \* history: the instants of every admitted request

limitVars == <<instant, waiting, entries, admitted>>

NotWaiting == MaxInstant + 1

LimitInit ==
    /\ instant = 0
    /\ waiting = [r \in Requests |-> NotWaiting]
    /\ entries = <<>>
    /\ admitted = <<>>

\* let now = Instant::now()
arrive(r) ==
    /\ waiting[r] = NotWaiting
    /\ waiting' = [waiting EXCEPT ![r] = instant]
    /\ UNCHANGED <<instant, entries, admitted>>

\* The bug "the count starts again when its first entry is old".
kept_fixed_window(at) ==
    IF entries # <<>> /\ at >= entries[1] + WINDOW THEN <<>> ELSE entries

\* Old entries are taken from the front, up to the first that is young.  One that is later
\* than `at` is young: duration_since saturates.
kept(at) ==
    LET young == {i \in DOMAIN entries : at < entries[i] + WINDOW}
    IN  IF young = {} THEN <<>>
        ELSE SubSeq(entries, CHOOSE i \in young : \A j \in young : i <= j, Len(entries))

\* With the mutex: refuse the request when the bucket is full, else enter its instant.
rate_limit(r) ==
    LET left == kept(waiting[r])
    IN  /\ waiting[r] # NotWaiting
        /\ waiting' = [waiting EXCEPT ![r] = NotWaiting]
        /\ \/ /\ Len(left) >= CAPACITY
              /\ entries' = left
              /\ UNCHANGED admitted
           \/ /\ Len(left) < CAPACITY /\ Len(admitted) < MaxAdmitted
              /\ entries' = Append(left, waiting[r])
              /\ admitted' = Append(admitted, waiting[r])
        /\ UNCHANGED instant

pass ==
    /\ instant < MaxInstant
    /\ \A r \in Requests : waiting[r] # NotWaiting => instant < waiting[r] + STALL
    /\ instant' = instant + 1
    /\ UNCHANGED <<waiting, entries, admitted>>

LimitNext == (\E r \in Requests : arrive(r) \/ rate_limit(r)) \/ pass

LimitSpec == LimitInit /\ [][LimitNext]_limitVars

-----------------------------------------------------------------------------
\* The clock is read before the wait for the mutex, so that instants are entered out of
\* order and old ones go by a clock that is ahead: still, no span as long as the window
\* less that wait has more than CAPACITY admitted requests.
AdmissionsPaced ==
    \A from \in 0..MaxInstant :
       Cardinality({i \in DOMAIN admitted : /\ from <= admitted[i]
                                            /\ admitted[i] + STALL < from + WINDOW}) <= CAPACITY
=============================================================================
