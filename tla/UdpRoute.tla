------------------------------ MODULE UdpRoute ------------------------------
(***************************************************************************)
(* UDP forwarding (udp.rs).  The local bridge reads datagrams in one loop, *)
(* keeps a route for each client address, and gives every route a relayed  *)
(* stream, a channel and two tasks; the remote forwarder has two tasks and *)
(* a socket for each stream.  This is one client: routes of different      *)
(* clients share nothing but the loop.  Streams stall and break, datagram  *)
(* frames may be cut off by the send timeout, and four tasks time out by   *)
(* themselves.                                                             *)
(***************************************************************************)
EXTENDS Integers, Sequences

CONSTANTS
    Routes,                 \* routes that are created one after the other: 1 .. n
    CHANNEL_CAPACITY,       \* slots of a route's channel (256)
    UDP_ROUTE_IDLE_TIMEOUT, \* (240 s)
    MaxDatagrams,           \* datagrams the client sends
    MaxReplies,             \* replies of the target
    MaxTime                 \* bound of the clock

VARIABLES
    now,            \* the clock
    clientSent,     \* datagrams the client has sent
    loop,           \* the loop of run_bound: at recv_from, with a datagram, or ended
    table,          \* the client's entry in the route table, 0 if there is none
    made,           \* routes made so far
    queue,          \* the channel of each route
    tasks,          \* tasks of each route that run
    deadline,       \* when the tasks that read time out
    last_activity,  \* of each route
    upWire,         \* frames to the remote forwarder: datagrams, or Cut
    downWire,       \* frames to the local bridge
    misread,        \* the remote reader has lost the frame boundaries
    stalled,        \* routes whose stream takes no more data
    broken,         \* routes whose stream has ended
    atTarget,       \* datagrams the target received, over each route
    replies         \* replies the target has sent

local == <<clientSent, loop, table, made, queue>>
streams == <<upWire, downWire, misread, stalled, broken>>
udpVars == <<now, local, tasks, deadline, last_activity, streams, atTarget, replies>>

Cut == -1       \* a frame that ends before its length says
Garbage == -2   \* a datagram put together from pieces of others

\* sender and receiver are spawned by create_udp_route, send_handle and recv_handle
\* by UdpRemoteForwarder::handle_connection.
Readers == {"receiver", "send_handle", "recv_handle"}
Tasks == Readers \cup {"sender"}

Idle == [at |-> "recv_from", datagram |-> 0]

UdpInit ==
    /\ now = 0
    /\ clientSent = 0
    /\ loop = Idle
    /\ table = 0
    /\ made = 0
    /\ queue = [r \in Routes |-> <<>>]
    /\ tasks = [r \in Routes |-> {}]
    /\ deadline = [r \in Routes |-> [t \in Readers |-> 0]]
    /\ last_activity = [r \in Routes |-> 0]
    /\ upWire = [r \in Routes |-> <<>>]
    /\ downWire = [r \in Routes |-> <<>>]
    /\ misread = {}
    /\ stalled = {}
    /\ broken = {}
    /\ atTarget = [r \in Routes |-> <<>>]
    /\ replies = 0

Running(r, t) == t \in tasks[r]

\* A task of a route ends.  When the sender ends its channel is closed and emptied;
\* when both tasks of a side have ended that side drops the stream.
EndTask(r, t) ==
    /\ tasks' = [tasks EXCEPT ![r] = @ \ {t}]
    /\ queue' = IF t = "sender" THEN [queue EXCEPT ![r] = <<>>] ELSE queue
    /\ broken' = IF \/ tasks[r] \cap {"sender", "receiver"} \subseteq {t}
                    \/ tasks[r] \cap {"send_handle", "recv_handle"} \subseteq {t}
                   THEN broken \cup {r} ELSE broken

\* A task that reads has read something, and waits anew for as long.
Wait(r, t) == deadline' = [deadline EXCEPT ![r][t] = now + UDP_ROUTE_IDLE_TIMEOUT]
Active(r) == last_activity' = [last_activity EXCEPT ![r] = now]

-----------------------------------------------------------------------------
(* The local bridge. *)

\* recv_from: a datagram of the client; a route whose channel is closed is stale.
recv_from ==
    /\ loop = Idle
    /\ clientSent < MaxDatagrams
    /\ clientSent' = clientSent + 1
    /\ IF table # 0 /\ Running(table, "sender")
         THEN loop' = [at |-> "send", datagram |-> clientSent + 1] /\ table' = table
         ELSE loop' = [at |-> "create", datagram |-> clientSent + 1] /\ table' = 0
    /\ UNCHANGED <<now, made, queue, tasks, deadline, last_activity, streams, atTarget, replies>>

\* create_udp_route, with the lock of the table held: a stream is opened and
\* accepted, and all four tasks begin; or it fails and the datagram is dropped; or,
\* as nothing bounds the wait for the preamble's answer, it never ends.
create_udp_route ==
    /\ loop.at = "create"
    /\ \/ /\ made + 1 \in Routes
          /\ made' = made + 1
          /\ table' = made + 1
          /\ loop' = [loop EXCEPT !.at = "send"]
          /\ tasks' = [tasks EXCEPT ![made + 1] = Tasks]
          /\ deadline' = [deadline EXCEPT ![made + 1] =
                             [t \in Readers |-> now + UDP_ROUTE_IDLE_TIMEOUT]]
          /\ Active(made + 1)
       \/ /\ loop' = Idle
          /\ UNCHANGED <<made, table, tasks, deadline, last_activity>>
    /\ UNCHANGED <<now, clientSent, queue, streams, atTarget, replies>>

\* The datagram enters the channel when there is room; a closed channel loses it,
\* and the route.
relay_tx_send ==
    /\ loop.at = "send"
    /\ loop' = Idle
    /\ Active(table)
    /\ \/ /\ Running(table, "sender")
          /\ Len(queue[table]) < CHANNEL_CAPACITY
          /\ queue' = [queue EXCEPT ![table] = Append(@, loop.datagram)]
          /\ table' = table
       \/ /\ ~Running(table, "sender")
          /\ table' = 0
          /\ queue' = queue
    /\ UNCHANGED <<now, clientSent, made, tasks, deadline, streams, atTarget, replies>>

\* The sender writes a datagram and its length.
send_datagram(r) ==
    /\ Running(r, "sender")
    /\ queue[r] # <<>>
    /\ r \notin stalled
    /\ queue' = [queue EXCEPT ![r] = Tail(@)]
    /\ upWire' = IF r \in broken THEN upWire ELSE [upWire EXCEPT ![r] = Append(@, Head(queue[r]))]
    /\ Active(r)
    /\ UNCHANGED <<now, clientSent, loop, table, made, tasks, deadline, downWire, misread,
                   stalled, broken, atTarget, replies>>

\* The bug: after a timeout the sender goes on with the next datagram.
send_times_out_goes_on(r) ==
    /\ Running(r, "sender")
    /\ queue[r] # <<>>
    /\ r \in stalled
    /\ upWire' = [upWire EXCEPT ![r] = Append(@, Cut)]
    /\ queue' = [queue EXCEPT ![r] = Tail(@)]
    /\ UNCHANGED <<now, clientSent, loop, table, made, tasks, deadline, last_activity,
                   downWire, misread, stalled, broken, atTarget, replies>>

\* The bug: writing to the relay has no timeout.
send_times_out_never(r) == FALSE /\ UNCHANGED udpVars

\* UDP_SEND_TIMEOUT passes first: some of the frame has been written, or nothing, and
\* the sender ends.
send_times_out(r) ==
    /\ Running(r, "sender")
    /\ queue[r] # <<>>
    /\ r \in stalled
    /\ upWire' \in {upWire, [upWire EXCEPT ![r] = Append(@, Cut)]}
    /\ EndTask(r, "sender")
    /\ Active(r)
    /\ UNCHANGED <<now, clientSent, loop, table, made, deadline, downWire, misread,
                   stalled, atTarget, replies>>

\* Writing to a stream that has ended fails.
send_fails(r) ==
    /\ Running(r, "sender")
    /\ queue[r] # <<>>
    /\ r \in broken
    /\ EndTask(r, "sender")
    /\ Active(r)
    /\ UNCHANGED <<now, clientSent, loop, table, made, deadline, upWire, downWire, misread,
                   stalled, atTarget, replies>>

\* The loop stops: the bridge is told to, or its socket fails.  The table goes with it.
shut_down ==
    /\ loop = Idle
    /\ loop' = [Idle EXCEPT !.at = "ended"]
    /\ table' = 0
    /\ UNCHANGED <<now, clientSent, made, queue, tasks, deadline, last_activity, streams,
                   atTarget, replies>>

\* Nobody holds the other end of the channel and it is empty: the sender ends.
sender_ends(r) ==
    /\ Running(r, "sender")
    /\ r # table
    /\ queue[r] = <<>>
    /\ EndTask(r, "sender")
    /\ UNCHANGED <<now, clientSent, loop, table, made, deadline, last_activity, upWire, downWire,
                   misread, stalled, atTarget, replies>>

\* The receiver hands a reply to the client.
receive_datagram(r) ==
    /\ Running(r, "receiver")
    /\ downWire[r] # <<>>
    /\ downWire' = [downWire EXCEPT ![r] = Tail(@)]
    /\ Wait(r, "receiver")
    /\ Active(r)
    /\ UNCHANGED <<now, local, tasks, upWire, misread, stalled, broken, atTarget, replies>>

-----------------------------------------------------------------------------
(* The remote forwarder. *)

\* send_handle reads a frame and sends it to the target.  A frame that was cut off
\* takes what it misses from the frames that follow.
remote_send(r) ==
    /\ Running(r, "send_handle")
    /\ upWire[r] # <<>>
    /\ upWire' = [upWire EXCEPT ![r] = Tail(@)]
    /\ IF Head(upWire[r]) = Cut
         THEN misread' = misread \cup {r} /\ UNCHANGED <<atTarget, deadline>>
         ELSE /\ misread' = misread
              /\ atTarget' = [atTarget EXCEPT ![r] =
                                Append(@, IF r \in misread THEN Garbage ELSE Head(upWire[r]))]
              /\ Wait(r, "send_handle")
    /\ UNCHANGED <<now, local, tasks, last_activity, downWire, stalled, broken, replies>>

\* recv_handle passes a reply of the target on.
remote_recv(r) ==
    /\ Running(r, "recv_handle")
    /\ atTarget[r] # <<>>
    /\ replies < MaxReplies
    /\ replies' = replies + 1
    /\ downWire' = IF r \in broken THEN downWire
                   ELSE [downWire EXCEPT ![r] = Append(@, replies + 1)]
    /\ Wait(r, "recv_handle")
    /\ UNCHANGED <<now, local, tasks, last_activity, upWire, misread, stalled, broken, atTarget>>

\* Each of the tasks that read ends when it has waited for UDP_ROUTE_IDLE_TIMEOUT
\* (the task that survives on the remote side is not aborted) ...
Waiting(r, t) ==
    CASE t = "receiver"    -> downWire[r] = <<>>
      [] t = "send_handle" -> upWire[r] = <<>> \/ r \in misread
      [] t = "recv_handle" -> TRUE
idle_timeout(r, t) ==
    /\ Running(r, t)
    /\ Waiting(r, t)
    /\ now >= deadline[r][t]
    /\ EndTask(r, t)
    /\ UNCHANGED <<now, clientSent, loop, table, made, deadline, last_activity, upWire, downWire,
                   misread, stalled, atTarget, replies>>

\* ... and when its stream has ended or its socket reports an error; the receiver uses
\* its socket only when it has a reply.
reader_fails(r, t) ==
    /\ Running(r, t)
    /\ r \in broken \/ t # "receiver" \/ downWire[r] # <<>>
    /\ EndTask(r, t)
    /\ UNCHANGED <<now, clientSent, loop, table, made, deadline, last_activity, upWire, downWire,
                   misread, stalled, atTarget, replies>>

-----------------------------------------------------------------------------
(* Streams and time. *)

stall(r) ==
    /\ r <= made /\ r \notin stalled \cup broken
    /\ stalled' = stalled \cup {r}
    /\ UNCHANGED <<now, local, tasks, deadline, last_activity, upWire, downWire, misread, broken,
                   atTarget, replies>>

resume(r) ==
    /\ r \in stalled
    /\ stalled' = stalled \ {r}
    /\ UNCHANGED <<now, local, tasks, deadline, last_activity, upWire, downWire, misread, broken,
                   atTarget, replies>>

break(r) ==
    /\ r <= made /\ r \notin broken
    /\ broken' = broken \cup {r}
    /\ stalled' = stalled \ {r}
    /\ UNCHANGED <<now, local, tasks, deadline, last_activity, upWire, downWire, misread,
                   atTarget, replies>>

\* Timers fire when they are due.
tick ==
    /\ now < MaxTime
    /\ \A r \in Routes, t \in Readers : Running(r, t) /\ Waiting(r, t) => now < deadline[r][t]
    /\ now' = now + 1
    /\ UNCHANGED <<local, tasks, deadline, last_activity, streams, atTarget, replies>>

Sender(r) == send_datagram(r) \/ send_times_out(r) \/ send_fails(r) \/ sender_ends(r)

UdpNext ==
    \/ recv_from \/ create_udp_route \/ relay_tx_send \/ shut_down
    \/ \E r \in Routes :
        \/ Sender(r) \/ receive_datagram(r) \/ remote_send(r) \/ remote_recv(r)
        \/ \E t \in Readers : idle_timeout(r, t) \/ reader_fails(r, t)
        \/ stall(r) \/ resume(r) \/ break(r)
    \/ tick

\* The loop hands over a datagram when there is room, and a write ends, fails or
\* times out.  Opening a route is owed nothing: a remote side that accepts the stream
\* and never answers the preamble holds the loop, and the table's lock, for ever.
UdpFairness ==
    /\ WF_udpVars(relay_tx_send)
    /\ \A r \in Routes : WF_udpVars(Sender(r))

UdpSpec == UdpInit /\ [][UdpNext]_udpVars
UdpFairSpec == UdpSpec /\ UdpFairness

-----------------------------------------------------------------------------
(* Properties. *)

\* The target only ever sees datagrams the client sent, each at most once and in
\* order, though a write may be given up in the middle of a frame: a frame that was
\* cut off is the last of its stream.
FramingExact ==
    \A r \in Routes : \A i \in DOMAIN atTarget[r] :
        /\ atTarget[r][i] \in 1 .. clientSent
        /\ \A j \in 1 .. i - 1 : atTarget[r][j] < atTarget[r][i]

\* Once a route is open the loop that serves every client does not stay behind it: a
\* stream that takes no data holds the loop for a bounded time, also when the route's
\* channel is full.  (Opening the route may hold it for ever; see create_udp_route.)
LoopRecovers == loop.at = "send" ~> loop.at # "send"

\* "Last activity timestamp for idle timeout": a task of the route only times out
\* when nothing has passed in either direction for UDP_ROUTE_IDLE_TIMEOUT.
IdleMeansIdle ==
    [][\A r \in Routes : \A t \in Readers :
          idle_timeout(r, t) => now - last_activity[r] >= UDP_ROUTE_IDLE_TIMEOUT]_udpVars
=============================================================================
