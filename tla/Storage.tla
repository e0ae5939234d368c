------------------------------- MODULE Storage -------------------------------
(***************************************************************************)
(* The broker's stores (storage.rs): one partition of a metadata table and *)
(* one revision blob, used by several handlers at a time.  In development  *)
(* a lock in memory makes every operation atomic; in production each one   *)
(* is a request to Azure that may fail before it is sent, be lost, be      *)
(* carried out after its caller gave up, or have its answer lost.  Blob    *)
(* uploads are sent again by the SDK, table requests are not.              *)
(***************************************************************************)
EXTENDS Integers, FiniteSets

CONSTANTS
    Clients,    \* handlers that change the stores at the same time; another one lists rows
    Rows,       \* rows of the partition, in key order: 1 .. n
    MaxCalls    \* calls that change something

Calls == 1 .. MaxCalls
NoCaller == [id |-> 0, sent |-> 0]
NotListing == [cursor |-> 0, got |-> {}]

VARIABLES
    backend,    \* "memory" or "azure"
    etag,       \* the ETag of each row, 0 if it is absent
    version,    \* the last ETag that was given out
    blob,       \* the call that stored the revision, 0 if none
    made,       \* calls made so far
    call,       \* what each call asks for: operation, row and If-Match
    caller,     \* for each client the call it waits for, and how often that was sent
    underWay,   \* calls whose requests are under way
    response,   \* answers under way
    listing,    \* the pages a list in progress has read so far
    through,    \* rows that have been there since it began
    listed,     \* result of the last list, and what was there throughout
    answer,     \* what each call returned: None, Ok, Conflict, NotFound or Unavailable
    effects     \* how often each call has changed the store

table == <<etag, version, blob>>
calls == <<made, call, caller, underWay, response, answer, effects>>
lists == <<listing, through, listed>>
storeVars == <<backend, table, calls, lists>>

NoCall == [op |-> "none", row |-> 0, match |-> 0]

StoreInit ==
    /\ backend \in {"memory", "azure"}  \* storage_factory
    /\ etag \in [Rows -> {0, 1}]
    /\ version = 1
    /\ blob = 0
    /\ made = 0
    /\ call = [i \in Calls |-> NoCall]
    /\ caller = [c \in Clients |-> NoCaller]
    /\ underWay = {}
    /\ response = {}
    /\ listing = NotListing
    /\ through = {}
    /\ listed = [rows |-> {}, through |-> {}]
    /\ answer = [i \in Calls |-> "None"]
    /\ effects = [i \in Calls |-> 0]

-----------------------------------------------------------------------------
(* What a store does with a call. *)

Holds(k) ==
    CASE k.op = "insert"            -> etag[k.row] = 0
      [] k.op \in {"replace", "delete"} -> etag[k.row] = k.match
      [] k.op = "put"               -> blob = 0

\* The condition fails: an absent row is NotFound, any other failure a Conflict.
Verdict(k) ==
    IF Holds(k) THEN "Ok"
    ELSE IF k.op \in {"replace", "delete"} /\ etag[k.row] = 0 THEN "NotFound" ELSE "Conflict"

\* Call i, which is k, takes effect if its condition holds; ETags are never used again.
Perform(i, k) ==
    IF ~Holds(k) THEN UNCHANGED <<table, effects, through>>
    ELSE /\ effects' = [effects EXCEPT ![i] = @ + 1]
         /\ IF k.op = "put" THEN blob' = i /\ UNCHANGED <<etag, version, through>>
            ELSE /\ version' = version + 1
                 /\ etag' = [etag EXCEPT ![k.row] = IF k.op = "delete" THEN 0 ELSE version + 1]
                 /\ through' = IF k.op = "delete" THEN through \ {k.row} ELSE through
                 /\ blob' = blob

Return(c, i, a) ==
    /\ answer' = [answer EXCEPT ![i] = a]
    /\ caller' = [caller EXCEPT ![c] = NoCaller]

\* A call; If-Match is an ETag that some get or list returned, never a wildcard.
Asks(c, k) ==
    /\ caller[c] = NoCaller
    /\ made < MaxCalls
    /\ k.match \in (IF k.op \in {"replace", "delete"} THEN 1 .. version ELSE {0})
    /\ made' = made + 1
    /\ call' = [call EXCEPT ![made + 1] = k]

-----------------------------------------------------------------------------
(* In memory: insert, replace, delete and put_revision hold the write lock. *)

memory_call(c, k) ==
    /\ backend = "memory"
    /\ Asks(c, k)
    /\ answer' = [answer EXCEPT ![made + 1] = Verdict(k)]
    /\ Perform(made + 1, k)
    /\ UNCHANGED <<backend, caller, underWay, response, listing, listed>>

-----------------------------------------------------------------------------
(* In Azure. *)

\* send: a token is acquired, and the request goes out; or either fails, or times out
\* first, with nothing sent.
send(c, k) ==
    /\ backend = "azure"
    /\ Asks(c, k)
    /\ \/ /\ caller' = [caller EXCEPT ![c] = [id |-> made + 1, sent |-> 1]]
          /\ underWay' = underWay \cup {made + 1}
          /\ answer' = answer
       \/ /\ answer' = [answer EXCEPT ![made + 1] = "Unavailable"]
          /\ UNCHANGED <<caller, underWay>>
    /\ UNCHANGED <<backend, table, response, effects, lists>>

\* The service carries a request out, whether or not anybody waits for it.
serve(i) ==
    /\ i \in underWay
    /\ underWay' = underWay \ {i}
    /\ response' = response \cup {<<i, Verdict(call[i])>>}
    /\ Perform(i, call[i])
    /\ UNCHANGED <<backend, made, call, caller, listing, listed, answer>>

\* A request or an answer is lost.
lose(i) ==
    /\ \/ i \in underWay /\ underWay' = underWay \ {i} /\ response' = response
       \/ \E a \in response : a[1] = i /\ response' = response \ {a} /\ underWay' = underWay
    /\ UNCHANGED <<backend, table, made, call, caller, lists, answer, effects>>

\* The answer arrives: table_error and blob_error map the three known codes.  An insert
\* or a replace without a usable ETag in its answer is Unavailable, though it is done.
respond(c) ==
    /\ caller[c] # NoCaller
    /\ \E a \in response :
        /\ a[1] = caller[c].id
        /\ response' = response \ {a}
        /\ \/ Return(c, a[1], a[2])
           \/ /\ a[2] = "Ok" /\ call[a[1]].op \in {"insert", "replace"}
              /\ Return(c, a[1], "Unavailable")
    /\ UNCHANGED <<backend, table, made, call, underWay, lists, effects>>

\* No answer in time, or an error of the transport or of the service: Unavailable, and
\* what was sent may still be carried out.
times_out(c) ==
    /\ caller[c] # NoCaller
    /\ Return(c, caller[c].id, "Unavailable")
    /\ UNCHANGED <<backend, table, made, call, underWay, response, lists, effects>>

\* The bug: every request is sent again after an error of the transport.
resend_any(c) ==
    /\ caller[c] # NoCaller /\ caller[c].sent < 2
    /\ caller' = [caller EXCEPT ![c].sent = @ + 1]
    /\ underWay' = underWay \cup {caller[c].id}
    /\ UNCHANGED <<backend, table, made, call, response, lists, answer, effects>>

\* The blob client's retry policy sends an upload again after an error of the transport.
resend(c) ==
    /\ caller[c] # NoCaller /\ caller[c].sent < 2
    /\ call[caller[c].id].op = "put"
    /\ caller' = [caller EXCEPT ![c].sent = @ + 1]
    /\ underWay' = underWay \cup {caller[c].id}
    /\ UNCHANGED <<backend, table, made, call, response, lists, answer, effects>>

-----------------------------------------------------------------------------
(* Reading, which changes nothing in the store. *)

Present == {r \in Rows : etag[r] # 0}
Result(rows, those) == listed' = [rows |-> rows, through |-> those]

\* list begins; in memory it is one read of the map.
list ==
    /\ listing = NotListing
    /\ through' = Present
    /\ IF backend = "memory" THEN listing' = listing /\ Result(Present, Present)
       ELSE listing' = [cursor |-> 1, got |-> {}] /\ listed' = listed
    /\ UNCHANGED <<backend, table, calls>>

\* The bug: an error after the first page ends the list with what there is.
list_fails_partially ==
    /\ listing # NotListing
    /\ listing' = NotListing
    /\ IF listing.got = {} THEN listed' = listed ELSE Result(listing.got, through)
    /\ UNCHANGED <<backend, table, calls, through>>

\* A request fails, a page is malformed, or a continuation comes back a second time.
list_fails ==
    /\ listing # NotListing
    /\ listing' = NotListing
    /\ UNCHANGED <<backend, table, calls, through, listed>>

\* A page, which the service ends where it likes: with a continuation the next page is
\* asked for, without one the list is returned.
list_page ==
    /\ listing # NotListing
    /\ \E last \in listing.cursor .. Cardinality(Rows) :
        LET got == listing.got \cup {r \in Present : listing.cursor <= r /\ r <= last}
        IN  IF \E r \in Present : r > last
              THEN listing' = [cursor |-> last + 1, got |-> got] /\ listed' = listed
              ELSE listing' = NotListing /\ Result(got, through)
    /\ UNCHANGED <<backend, table, calls, through>>

-----------------------------------------------------------------------------
Requests == [op : {"insert", "replace", "delete"}, row : Rows, match : 0 .. MaxCalls + 1]
            \cup {[op |-> "put", row |-> 0, match |-> 0]}

StoreNext ==
    \/ \E c \in Clients :
        \/ \E k \in Requests : memory_call(c, k) \/ send(c, k)
        \/ respond(c) \/ times_out(c) \/ resend(c)
    \/ list \/ list_page \/ list_fails
    \/ \E i \in Calls : serve(i) \/ lose(i)

StoreSpec == StoreInit /\ [][StoreNext]_storeVars

-----------------------------------------------------------------------------
(* Properties. *)

\* Every answer is true for good, however late requests are carried out: Ok means the
\* call took effect once; Conflict and NotFound of a table mean that it never did and
\* never will; Unavailable leaves it open, but once at most.  An upload in conflict may
\* be in conflict with itself; the revision is there in any case.
AnswersAreTrue ==
    \A i \in 1 .. made :
        /\ effects[i] <= 1
        /\ answer[i] = "Ok" => effects[i] = 1
        /\ answer[i] \in {"Conflict", "NotFound"} /\ call[i].op # "put" => effects[i] = 0
        /\ answer[i] = "Conflict" /\ call[i].op = "put" => blob # 0

\* "Returns every page in the partition, or an error (never a partial result)": a list
\* that is read in pages, with rows changing meanwhile, holds every row that was there
\* all the time.
ListIsComplete == listed.through \subseteq listed.rows
=============================================================================
