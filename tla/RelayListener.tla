---------------------------- MODULE RelayListener ----------------------------
(***************************************************************************)
(* HybridConnectionListener of the azure-relay crate (listener.rs): the    *)
(* control loop that keeps a WebSocket to the relay, the tasks it spawns   *)
(* for accept and request commands, and the callers of open, close and     *)
(* accept_connection.                                                      *)
(*                                                                         *)
(* A step of a task runs from one await to the next.  shutdown is a Notify  *)
(* used with notify_waiters only: it wakes the futures that exist at the   *)
(* time and leaves nothing behind for later ones, and select! drops a      *)
(* future that was woken when it picks another ready branch.               *)
(*                                                                         *)
(* The owner calls open and close one after the other, as the bridges do;  *)
(* handles are Clone, and what two owners at once would do to the status   *)
(* is not modelled.                                                        *)
(*                                                                         *)
(* Left out: reconnect delays (how long a backoff lasts), last_error, the  *)
(* contents of messages, and text that is not a command.                   *)
(***************************************************************************)
EXTENDS Naturals, Sequences

CONSTANTS
    Loops,                     \* control_loop tasks: one per call of open
    Conns,                     \* sender connections the relay announces
    Requests,                  \* HTTP requests the relay announces
    ACCEPT_CHANNEL_CAPACITY,   \* listener.rs: 100
    WS_CHANNEL_CAPACITY        \* run_control_channel: 16

ASSUME ListenerAssumption ==
    /\ ACCEPT_CHANNEL_CAPACITY \in Nat \ {0}
    /\ WS_CHANNEL_CAPACITY \in Nat \ {0}

VARIABLES
    is_open, status,
    caller,         \* which half of open or close the owner of the listener is in
    pc,             \* where each control loop is
    woken,          \* its shutdown.notified() future has been woken
    sink,           \* the task that forwards ws_tx to the socket: after a failed write it
                    \* closes the socket, and when it returns its receiver is Gone
    out,            \* messages in the ws channel of each loop
    conns,          \* progress of each announced connection
    accept_queue,   \* the accept_tx / accept_rx channel
    acceptor,       \* the caller of accept_connection
    requests        \* progress of each announced request, and the loop it came in on

vars == <<is_open, status, caller, pc, woken, sink, out, conns, accept_queue, acceptor, requests>>
loopVars == <<pc, woken, sink, out>>
connVars == <<conns, accept_queue, acceptor>>

Listening == {"Select", "Backoff"}              \* states with a live notified() future
Sending == {"Pong", "Ping", "SendClose"}        \* awaiting ws_tx.send
Connected == {"Select"} \cup Sending
Steps == {"Unspawned", "Check", "Announce", "Connect", "Online", "Down", "Recheck", "Done"}
             \cup Listening \cup Sending

\* Every variable has its type; the channels never exceed their capacity.
TypeOK ==
    /\ is_open \in BOOLEAN
    /\ status \in {"Connecting", "Online", "Offline"}
    /\ caller \in {"Idle", "Opening", "Closing"}
    /\ pc \in [Loops -> Steps]
    /\ woken \in [Loops -> BOOLEAN]
    /\ sink \in [Loops -> {"Off", "Up", "Closing", "Gone"}]
    /\ out \in [Loops -> 0..WS_CHANNEL_CAPACITY]
    /\ conns \in [Conns -> {"Idle", "Rendezvous", "Sending", "Queued", "Accepted", "Failed"}]
    /\ accept_queue \in Seq(Conns)
    /\ Len(accept_queue) <= ACCEPT_CHANNEL_CAPACITY
    /\ acceptor \in {"Idle", "Waiting"}
    /\ requests \in [Requests -> [state : {"Idle", "Handling", "Orphan", "Answered", "Lost"},
                                  loop : Loops]]

Init ==
    /\ is_open = FALSE /\ status = "Offline" /\ caller = "Idle"
    /\ pc = [l \in Loops |-> "Unspawned"]
    /\ woken = [l \in Loops |-> FALSE]
    /\ sink = [l \in Loops |-> "Off"]
    /\ out = [l \in Loops |-> 0]
    /\ conns = [k \in Conns |-> "Idle"]
    /\ accept_queue = <<>>
    /\ acceptor = "Idle"
    /\ \E l \in Loops : requests = [r \in Requests |-> [state |-> "Idle", loop |-> l]]

goto(l, step) == pc' = [pc EXCEPT ![l] = step]

\* The receiver of the ws channel exists and the channel has a free slot.
room(l) == sink[l] \in {"Up", "Closing"} /\ out[l] < WS_CHANNEL_CAPACITY

-----------------------------------------------------------------------------
(* The owner: open and close, each with an await on the status lock inside. *)

open_begin ==
    /\ caller = "Idle" /\ \E l \in Loops : pc[l] = "Unspawned"
    /\ is_open' = TRUE /\ caller' = "Opening"
    /\ UNCHANGED <<status, loopVars, connVars, requests>>

open(l) ==
    /\ caller = "Opening" /\ pc[l] = "Unspawned"
    /\ status' = "Connecting" /\ caller' = "Idle"
    /\ goto(l, "Check")
    /\ UNCHANGED <<is_open, woken, sink, out, connVars, requests>>

\* notify_waiters reaches only the loops that are waiting on shutdown now.
close_begin ==
    /\ caller = "Idle"
    /\ is_open' = FALSE /\ caller' = "Closing"
    /\ woken' = [l \in Loops |-> woken[l] \/ pc[l] \in Listening]
    /\ UNCHANGED <<status, pc, sink, out, connVars, requests>>

\* The bug "close only raises the flag".
close_no_status ==
    /\ caller = "Closing"
    /\ caller' = "Idle"
    /\ UNCHANGED <<is_open, status, loopVars, connVars, requests>>

close ==
    /\ caller = "Closing"
    /\ status' = "Offline" /\ caller' = "Idle"
    /\ UNCHANGED <<is_open, loopVars, connVars, requests>>

-----------------------------------------------------------------------------
(* control_loop *)

\* The bug "the loop trusts the shutdown signal alone".
check_never_stops(l) ==
    /\ pc[l] = "Check"
    /\ goto(l, "Announce")
    /\ UNCHANGED <<is_open, status, caller, woken, sink, out, connVars, requests>>

check(l) ==
    /\ pc[l] = "Check"
    /\ goto(l, IF is_open THEN "Announce" ELSE "Done")
    /\ UNCHANGED <<is_open, status, caller, woken, sink, out, connVars, requests>>

announce(l) ==
    /\ pc[l] = "Announce"
    /\ status' = "Connecting"
    /\ goto(l, "Connect")
    /\ UNCHANGED <<is_open, caller, woken, sink, out, connVars, requests>>

\* connect_control_channel: the token, the upgrade request and every error of them.
\* It does not listen to shutdown.
connect_control_channel(l) ==
    /\ pc[l] = "Connect"
    /\ \E step \in {"Online", "Down"} : goto(l, step)
    /\ UNCHANGED <<is_open, status, caller, woken, sink, out, connVars, requests>>

\* The status is written and run_control_channel spawns the sink and renewal tasks.
run_control_channel(l) ==
    /\ pc[l] = "Online"
    /\ status' = "Online"
    /\ goto(l, "Select")
    /\ woken' = [woken EXCEPT ![l] = FALSE]
    /\ sink' = [sink EXCEPT ![l] = "Up"]
    /\ UNCHANGED <<is_open, caller, out, connVars, requests>>

\* The bug "a channel that ends keeps its last status".
offline_unreported(l) ==
    /\ pc[l] = "Down"
    /\ goto(l, "Recheck")
    /\ UNCHANGED <<is_open, status, caller, woken, sink, out, connVars, requests>>

offline(l) ==
    /\ pc[l] = "Down"
    /\ status' = "Offline"
    /\ goto(l, "Recheck")
    /\ UNCHANGED <<is_open, caller, woken, sink, out, connVars, requests>>

recheck(l) ==
    /\ pc[l] = "Recheck"
    /\ goto(l, IF is_open THEN "Backoff" ELSE "Done")
    /\ woken' = [woken EXCEPT ![l] = FALSE]
    /\ UNCHANGED <<is_open, status, caller, sink, out, connVars, requests>>

\* The bug "the loop gives up when its backoff is over".
backoff_gives_up(l) ==
    /\ pc[l] = "Backoff"
    /\ goto(l, "Done")
    /\ UNCHANGED <<is_open, status, caller, woken, sink, out, connVars, requests>>

\* The delay elapsed, or shutdown was notified.
backoff(l) ==
    /\ pc[l] = "Backoff"
    /\ \/ goto(l, "Check")
       \/ woken[l] /\ goto(l, "Done")
    /\ UNCHANGED <<is_open, status, caller, woken, sink, out, connVars, requests>>

-----------------------------------------------------------------------------
(* read_control_messages: one iteration of its select! *)

\* Another branch than shutdown was taken: the woken future is dropped with it.
message(l) ==
    /\ pc[l] = "Select"
    /\ woken' = [woken EXCEPT ![l] = FALSE]

read_accept(l, k) ==
    /\ message(l) /\ conns[k] = "Idle"
    /\ conns' = [conns EXCEPT ![k] = "Rendezvous"]
    /\ UNCHANGED <<is_open, status, caller, pc, sink, out, accept_queue, acceptor, requests>>

\* A request for which no handler is set is ignored.
read_request(l, r) ==
    /\ message(l) /\ requests[r].state = "Idle"
    /\ \E state \in {"Handling", "Lost"} :
          requests' = [requests EXCEPT ![r] = [state |-> state, loop |-> l]]
    /\ UNCHANGED <<is_open, status, caller, pc, sink, out, connVars>>

\* A ping from the relay, or the keep-alive tick.
read_ping(l) ==
    /\ message(l)
    /\ \E step \in {"Pong", "Ping"} : goto(l, step)
    /\ UNCHANGED <<is_open, status, caller, sink, out, connVars, requests>>

\* The bug "the renewal and sink tasks are detached, not aborted".
leave_channel_detached(l) ==
    /\ goto(l, "Down")
    /\ sink' = [sink EXCEPT ![l] = "Off"]
    /\ out' = [out EXCEPT ![l] = 0]
    /\ UNCHANGED requests

\* run_control_channel returns: its tasks are aborted, what they had not sent is
\* dropped, and the requests of this channel have nowhere left to answer.
leave_channel(l) ==
    /\ goto(l, "Down")
    /\ sink' = [sink EXCEPT ![l] = "Off"]
    /\ out' = [out EXCEPT ![l] = 0]
    /\ requests' = [r \in Requests |->
          IF requests[r] = [state |-> "Handling", loop |-> l]
          THEN [requests[r] EXCEPT !.state = "Orphan"] ELSE requests[r]]

\* A Close frame, the end of the stream or a socket error.
read_end(l) ==
    /\ message(l)
    /\ leave_channel(l)
    /\ UNCHANGED <<is_open, status, caller, connVars>>

read_shutdown(l) ==
    /\ pc[l] = "Select" /\ woken[l]
    /\ goto(l, "SendClose")
    /\ UNCHANGED <<is_open, status, caller, woken, sink, out, connVars, requests>>

\* The bug "a send waits for room even when nobody will ever make any".
send_control_blocking(l) ==
    /\ pc[l] \in Sending
    /\ room(l)
    /\ IF pc[l] = "SendClose"
       THEN leave_channel(l)
       ELSE goto(l, "Select") /\ out' = [out EXCEPT ![l] = @ + 1] /\ UNCHANGED <<sink, requests>>
    /\ UNCHANGED <<is_open, status, caller, woken, connVars>>

\* ws_tx.send completes: there is room, or the sink task has returned and the send
\* fails, which only the keep-alive ping takes for an error.
send_control(l) ==
    /\ pc[l] \in Sending
    /\ room(l) \/ sink[l] = "Gone"
    /\ IF pc[l] = "SendClose" \/ (pc[l] = "Ping" /\ sink[l] = "Gone")
       THEN leave_channel(l)
       ELSE /\ goto(l, "Select")
            /\ out' = [out EXCEPT ![l] = IF sink[l] = "Gone" THEN @ ELSE @ + 1]
            /\ UNCHANGED <<sink, requests>>
    /\ UNCHANGED <<is_open, status, caller, woken, connVars>>

\* The sink task writes a message to the socket; a write that fails ends its loop, and
\* it keeps the receiver until the socket is closed.
sink_task(l) ==
    /\ \/ /\ sink[l] = "Up" /\ out[l] > 0
          /\ out' = [out EXCEPT ![l] = @ - 1]
          /\ \E state \in {"Up", "Closing"} : sink' = [sink EXCEPT ![l] = state]
       \/ /\ sink[l] = "Closing"
          /\ out' = [out EXCEPT ![l] = 0] /\ sink' = [sink EXCEPT ![l] = "Gone"]
    /\ UNCHANGED <<is_open, status, caller, pc, woken, connVars, requests>>

\* token_renewal_loop sends a fresh token; when is the business of the clock.
token_renewal_loop(l) ==
    /\ room(l)
    /\ out' = [out EXCEPT ![l] = @ + 1]
    /\ UNCHANGED <<is_open, status, caller, pc, woken, sink, connVars, requests>>

-----------------------------------------------------------------------------
(* The tasks spawned for commands, and the acceptor. *)

\* The handler has run; its response goes to the channel the request came in on.
handle_request(r) ==
    LET l == requests[r].loop IN
    /\ \/ /\ requests[r].state = "Handling"
          /\ room(l)
          /\ out' = [out EXCEPT ![l] = @ + 1]
          /\ requests' = [requests EXCEPT ![r].state = "Answered"]
       \/ /\ requests[r].state = "Orphan" \/ (requests[r].state = "Handling" /\ sink[l] = "Gone")
          /\ requests' = [requests EXCEPT ![r].state = "Lost"]
          /\ UNCHANGED out
    /\ UNCHANGED <<is_open, status, caller, pc, woken, sink, connVars>>

\* The rendezvous connection is made, or fails or times out after 20 s.
handle_accept(k) ==
    /\ conns[k] = "Rendezvous"
    /\ \E result \in {"Sending", "Failed"} : conns' = [conns EXCEPT ![k] = result]
    /\ UNCHANGED <<is_open, status, caller, loopVars, accept_queue, acceptor, requests>>

\* The bug "a full accept channel drops the connection" (try_send).
accept_send_lossy(k) ==
    /\ conns[k] = "Sending"
    /\ IF Len(accept_queue) < ACCEPT_CHANNEL_CAPACITY
       THEN accept_queue' = Append(accept_queue, k) /\ conns' = [conns EXCEPT ![k] = "Queued"]
       ELSE conns' = [conns EXCEPT ![k] = "Failed"] /\ UNCHANGED accept_queue
    /\ UNCHANGED <<is_open, status, caller, loopVars, acceptor, requests>>

\* accept_tx.send waits for room.
accept_send(k) ==
    /\ conns[k] = "Sending"
    /\ Len(accept_queue) < ACCEPT_CHANNEL_CAPACITY
    /\ accept_queue' = Append(accept_queue, k)
    /\ conns' = [conns EXCEPT ![k] = "Queued"]
    /\ UNCHANGED <<is_open, status, caller, loopVars, acceptor, requests>>

\* accept_connection: recv on the channel.  It would return None when every sender is
\* dropped, but ListenerInner holds one, and the caller holds ListenerInner.
accept_call ==
    /\ acceptor = "Idle" /\ acceptor' = "Waiting"
    /\ UNCHANGED <<is_open, status, caller, loopVars, conns, accept_queue, requests>>

accept_connection ==
    /\ acceptor = "Waiting" /\ accept_queue # <<>>
    /\ accept_queue' = Tail(accept_queue)
    /\ conns' = [conns EXCEPT ![Head(accept_queue)] = "Accepted"]
    /\ acceptor' = "Idle"
    /\ UNCHANGED <<is_open, status, caller, loopVars, requests>>

-----------------------------------------------------------------------------
control_loop(l) ==
    \/ check(l) \/ announce(l) \/ run_control_channel(l)
    \/ offline(l) \/ recheck(l) \/ backoff(l) \/ read_shutdown(l) \/ send_control(l)

Next ==
    \/ open_begin \/ close_begin \/ close
    \/ \E l \in Loops :
          \/ open(l) \/ control_loop(l) \/ connect_control_channel(l)
          \/ read_ping(l) \/ read_end(l) \/ sink_task(l) \/ token_renewal_loop(l)
          \/ \E k \in Conns : read_accept(l, k)
          \/ \E r \in Requests : read_request(l, r)
    \/ \E r \in Requests : handle_request(r)
    \/ \E k \in Conns : handle_accept(k) \/ accept_send(k)
    \/ accept_call \/ accept_connection

Spec == Init /\ [][Next]_vars

\* The runtime runs every task that can run; the tokio channels are fair to senders
\* that wait for room.  The owner finishes the open or close it began, and calls
\* accept_connection in a loop (remote_bridge.rs).  Of the network: a connection
\* attempt and a write to the socket end, with success now and then.  Nothing is
\* assumed about what the relay sends or about when the owner calls open or close.
Fairness ==
    /\ \A l \in Loops :
          /\ WF_vars(open(l)) /\ WF_vars(control_loop(l)) /\ SF_vars(send_control(l))
          /\ WF_vars(connect_control_channel(l)) /\ WF_vars(sink_task(l))
          /\ SF_vars(connect_control_channel(l) /\ pc'[l] = "Online")
    /\ WF_vars(close)
    /\ \A r \in Requests : SF_vars(handle_request(r))
    /\ \A k \in Conns : WF_vars(handle_accept(k)) /\ SF_vars(accept_send(k))
    /\ WF_vars(accept_call) /\ WF_vars(accept_connection)

FairSpec == Spec /\ Fairness

-----------------------------------------------------------------------------
(* Properties *)

\* status() says Online only while some control channel is up, or has just gone down
\* and its loop is about to say so.
OnlineIsConnected == status = "Online" => \E l \in Loops : pc[l] \in Connected \cup {"Down"}

\* A listener that is closed and whose loops have all ended reports Offline, however
\* the status writes of close and of the loops interleaved.
EndedIsOffline ==
    ~is_open /\ caller = "Idle" /\ (\A l \in Loops : pc[l] \in {"Unspawned", "Done"})
        => status = "Offline"

\* A connection whose rendezvous was made is handed to the acceptor, also when the
\* channel was full and also when the listener is closed meanwhile.
ConnectionsDelivered == \A k \in Conns : conns[k] = "Sending" ~> conns[k] = "Accepted"

\* A listener that stays open comes back online after every failure.
Reconnects == []<>(status = "Online" \/ ~is_open)

\* A control loop that waits to send a ping, a pong or the close frame is not stuck
\* there: the sink task makes room or takes the channel down with it.
SendsEnd == \A l \in Loops : pc[l] \in Sending ~> pc[l] \notin Sending

\* A request is answered or given up; it does not wait on a channel that is gone.
RequestsEnd == \A r \in Requests : requests[r].state = "Handling" ~> requests[r].state \in {"Answered", "Lost"}

\* A closed listener does not reconnect: a loop whose channel is down ends.
ClosedDoesNotReconnect ==
    \A l \in Loops : ~is_open /\ pc[l] \in {"Down", "Recheck", "Backoff", "Check"}
        ~> is_open \/ pc[l] = "Done"

\* close: "Closes the listener - stops accepting new connections."  Once close has
\* returned, no control channel stays up to take accept commands.
ClosedStopsAccepting ==
    ~is_open /\ caller = "Idle" ~> is_open \/ \A l \in Loops : pc[l] \notin Connected

\* accept_connection: "Returns Ok(None) when the listener has been closed and no more
\* connections will arrive."  A caller that waits on a listener that was opened, is
\* closed, and whose loops and accept handlers have all ended is released.
AcceptReturnsWhenClosed ==
    /\ ~is_open /\ caller = "Idle" /\ acceptor = "Waiting"
    /\ \A l \in Loops : pc[l] = "Done"
    /\ \A k \in Conns : conns[k] \notin {"Rendezvous", "Sending", "Queued"}
    ~> is_open \/ acceptor = "Idle"
=============================================================================
