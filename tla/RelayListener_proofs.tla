------------------------ MODULE RelayListener_proofs ------------------------
(***************************************************************************)
(* Safety of HybridConnectionListener for any number of control loops,     *)
(* connections and requests and any channel capacities.  The status        *)
(* properties are strengthened to Explained: a status other than Offline   *)
(* is explained by an open listener, an owner inside open or close, or a   *)
(* loop that has still to write it.                                        *)
(***************************************************************************)
EXTENDS RelayListener, TLAPS

Active == {"Connect", "Online", "Down"} \cup Connected

\* open raised the flag and nobody else lowers it before open is done.
OpeningIsOpen == caller = "Opening" => is_open

\* Whoever makes the listener look alive is still there to take it back.
Explained ==
    status # "Offline" => is_open \/ caller # "Idle" \/ \E l \in Loops : pc[l] \in Active

IInv == TypeOK /\ OnlineIsConnected /\ OpeningIsOpen /\ Explained

-----------------------------------------------------------------------------
\* The initial state of a new listener satisfies the inductive invariant.
LEMMA InitInv == Init => IInv
<1> SUFFICES ASSUME Init PROVE IInv
  OBVIOUS
<1>1. TypeOK
  <2>1. WS_CHANNEL_CAPACITY \in Nat /\ ACCEPT_CHANNEL_CAPACITY \in Nat
    BY ListenerAssumption
  <2>2. accept_queue \in Seq(Conns) /\ Len(accept_queue) <= ACCEPT_CHANNEL_CAPACITY
    BY <2>1 DEF Init
  <2>3. requests \in [Requests -> [state : {"Idle", "Handling", "Orphan", "Answered", "Lost"},
                                   loop : Loops]]
    BY DEF Init
  <2>4. woken \in [Loops -> BOOLEAN] /\ is_open \in BOOLEAN
    BY DEF Init
  <2>5. /\ pc \in [Loops -> Steps]
        /\ sink \in [Loops -> {"Off", "Up", "Closing", "Gone"}]
        /\ out \in [Loops -> 0..WS_CHANNEL_CAPACITY]
        /\ conns \in [Conns -> {"Idle", "Rendezvous", "Sending", "Queued", "Accepted", "Failed"}]
    BY <2>1 DEF Init, Steps
  <2>6. QED
    BY <2>2, <2>3, <2>4, <2>5 DEF Init, TypeOK
<1>2. OnlineIsConnected /\ OpeningIsOpen /\ Explained
  BY DEF Init, OnlineIsConnected, OpeningIsOpen, Explained
<1>3. QED
  BY <1>1, <1>2 DEF IInv

\* Leaving a control channel keeps the types of what it resets and orphans.
LEMMA LeaveTypes ==
    ASSUME TypeOK, NEW l \in Loops, leave_channel(l)
    PROVE  /\ pc' \in [Loops -> Steps]
           /\ sink' \in [Loops -> {"Off", "Up", "Closing", "Gone"}]
           /\ out' \in [Loops -> 0..WS_CHANNEL_CAPACITY]
           /\ requests' \in [Requests -> [state : {"Idle", "Handling", "Orphan", "Answered", "Lost"},
                                          loop : Loops]]
<1>1. 0 \in 0..WS_CHANNEL_CAPACITY
  BY ListenerAssumption
<1>2. QED
  BY <1>1 DEF TypeOK, leave_channel, goto, Steps

\* A message put into the ws channel of l, which has room, keeps it within its capacity.
LEMMA SendTypes ==
    ASSUME TypeOK, NEW l \in Loops, room(l)
    PROVE  [out EXCEPT ![l] = @ + 1] \in [Loops -> 0..WS_CHANNEL_CAPACITY]
BY ListenerAssumption DEF TypeOK, room

\* Every step preserves the types; the channels stay within their capacities.
LEMMA NextTypes == TypeOK /\ [Next]_vars => TypeOK'
<1> SUFFICES ASSUME TypeOK, [Next]_vars PROVE TypeOK'
  OBVIOUS
<1> USE DEF TypeOK, goto, loopVars, connVars, Steps, Listening, Sending
<1>1. CASE open_begin \/ close_begin \/ close
  BY <1>1 DEF open_begin, close_begin, close
<1>2. ASSUME NEW l \in Loops, open(l) PROVE TypeOK'
  BY <1>2 DEF open
<1>3. ASSUME NEW l \in Loops, control_loop(l) PROVE TypeOK'
  <2>1. CASE check(l) \/ announce(l)
    BY <2>1 DEF check, announce
  <2>2. CASE run_control_channel(l)
    BY <2>2 DEF run_control_channel
  <2>3. CASE offline(l) \/ recheck(l)
    BY <2>3 DEF offline, recheck
  <2>4. CASE backoff(l) \/ read_shutdown(l)
    BY <2>4 DEF backoff, read_shutdown
  <2>5. CASE send_control(l)
    <3>1. CASE leave_channel(l)
      BY <2>5, <3>1, LeaveTypes DEF send_control
    <3>2. CASE /\ goto(l, "Select") /\ UNCHANGED <<sink, requests>>
               /\ out' = [out EXCEPT ![l] = IF sink[l] = "Gone" THEN @ ELSE @ + 1]
      <4>1. out' \in [Loops -> 0..WS_CHANNEL_CAPACITY]
        BY <2>5, <3>2, SendTypes DEF send_control
      <4>2. QED
        BY <2>5, <3>2, <4>1 DEF send_control
    <3>3. QED
      BY <2>5, <3>1, <3>2 DEF send_control
  <2>6. QED
    BY <1>3, <2>1, <2>2, <2>3, <2>4, <2>5 DEF control_loop
<1>4. ASSUME NEW l \in Loops, connect_control_channel(l) \/ read_ping(l) PROVE TypeOK'
  <2>1. CASE connect_control_channel(l)
    BY <2>1 DEF connect_control_channel
  <2>2. CASE read_ping(l)
    BY <2>2 DEF read_ping, message
  <2>3. QED
    BY <1>4, <2>1, <2>2
<1>5. ASSUME NEW l \in Loops, read_end(l) PROVE TypeOK'
  BY <1>5, LeaveTypes DEF read_end, message
<1>6. ASSUME NEW l \in Loops, sink_task(l) PROVE TypeOK'
  <2>1. out' \in [Loops -> 0..WS_CHANNEL_CAPACITY]
    BY <1>6, ListenerAssumption DEF sink_task
  <2>2. sink' \in [Loops -> {"Off", "Up", "Closing", "Gone"}]
    BY <1>6 DEF sink_task
  <2>3. QED
    BY <1>6, <2>1, <2>2 DEF sink_task
<1>7. ASSUME NEW l \in Loops, token_renewal_loop(l) PROVE TypeOK'
  BY <1>7, SendTypes DEF token_renewal_loop
<1>8. ASSUME NEW l \in Loops, NEW k \in Conns, read_accept(l, k) PROVE TypeOK'
  BY <1>8 DEF read_accept, message
<1>9. ASSUME NEW l \in Loops, NEW r \in Requests, read_request(l, r) PROVE TypeOK'
  BY <1>9 DEF read_request, message
<1>10. ASSUME NEW r \in Requests, handle_request(r) PROVE TypeOK'
  <2>1. requests[r].loop \in Loops
    OBVIOUS
  <2>2. out' \in [Loops -> 0..WS_CHANNEL_CAPACITY]
    BY <1>10, <2>1, SendTypes DEF handle_request
  <2>3. QED
    BY <1>10, <2>2 DEF handle_request
<1>11. ASSUME NEW k \in Conns, handle_accept(k) PROVE TypeOK'
  BY <1>11 DEF handle_accept
<1>12. ASSUME NEW k \in Conns, accept_send(k) PROVE TypeOK'
  <2>1. /\ accept_queue' \in Seq(Conns)
        /\ Len(accept_queue') <= ACCEPT_CHANNEL_CAPACITY
    BY <1>12, ListenerAssumption DEF accept_send
  <2>2. QED
    BY <1>12, <2>1 DEF accept_send
<1>13. CASE accept_call
  BY <1>13 DEF accept_call
<1>14. CASE accept_connection
  <2>1. /\ accept_queue' \in Seq(Conns)
        /\ Len(accept_queue') <= ACCEPT_CHANNEL_CAPACITY
    BY <1>14, ListenerAssumption DEF accept_connection
  <2>2. QED
    BY <1>14, <2>1 DEF accept_connection
<1>15. CASE UNCHANGED vars
  BY <1>15 DEF vars
<1>16. QED
  BY <1>1, <1>2, <1>3, <1>4, <1>5, <1>6, <1>7, <1>8, <1>9, <1>10, <1>11, <1>12, <1>13,
     <1>14, <1>15 DEF Next

-----------------------------------------------------------------------------
\* A loop that keeps its place, or moves within the places that explain a status,
\* still explains it.
LEMMA StaysExplained ==
    ASSUME TypeOK, NEW l \in Loops, NEW s, goto(l, s), status' = status, is_open' = is_open,
           caller' = caller, OnlineIsConnected, Explained,
           pc[l] \in Active => s \in Active,
           pc[l] \in Connected \cup {"Down"} => s \in Connected \cup {"Down"}
    PROVE  OnlineIsConnected' /\ Explained'
<1>1. \A m \in Loops : pc'[m] = IF m = l THEN s ELSE pc[m]
  BY DEF TypeOK, goto
<1>2. OnlineIsConnected'
  BY <1>1 DEF OnlineIsConnected
<1>3. Explained'
  BY <1>1 DEF Explained
<1>4. QED
  BY <1>2, <1>3

\* Every step keeps the status explained.
LEMMA NextStatus ==
    TypeOK /\ OnlineIsConnected /\ OpeningIsOpen /\ Explained /\ [Next]_vars
        => OnlineIsConnected' /\ OpeningIsOpen' /\ Explained'
<1> SUFFICES ASSUME TypeOK, OnlineIsConnected, OpeningIsOpen, Explained, [Next]_vars
             PROVE  OnlineIsConnected' /\ OpeningIsOpen' /\ Explained'
  OBVIOUS
<1> DEFINE Goal == OnlineIsConnected' /\ OpeningIsOpen' /\ Explained'
<1>1. CASE open_begin \/ close_begin \/ close
  BY <1>1 DEF open_begin, close_begin, close, OnlineIsConnected, OpeningIsOpen, Explained,
              loopVars
<1>2. ASSUME NEW l \in Loops, open(l) PROVE Goal
  BY <1>2 DEF open, OnlineIsConnected, OpeningIsOpen, Explained
<1>3. ASSUME NEW l \in Loops, check(l) \/ recheck(l) \/ backoff(l) PROVE Goal
  <2>1. PICK s : goto(l, s)
    BY <1>3 DEF check, recheck, backoff
  <2>2. pc[l] \notin Active /\ pc[l] \notin Connected \cup {"Down"}
    BY <1>3 DEF check, recheck, backoff, Active, Connected, Sending
  <2>3. UNCHANGED <<status, is_open, caller>>
    BY <1>3 DEF check, recheck, backoff
  <2>4. QED
    BY <2>1, <2>2, <2>3, StaysExplained DEF OpeningIsOpen
<1>4. ASSUME NEW l \in Loops, announce(l) PROVE Goal
  <2>1. pc'[l] = "Connect" /\ status' = "Connecting" /\ UNCHANGED <<is_open, caller>>
    BY <1>4 DEF announce, goto, TypeOK
  <2>2. QED
    BY <2>1 DEF OnlineIsConnected, OpeningIsOpen, Explained, Active
<1>5. ASSUME NEW l \in Loops, connect_control_channel(l) PROVE Goal
  <2>1. PICK s \in {"Online", "Down"} : goto(l, s)
    BY <1>5 DEF connect_control_channel
  <2>2. pc[l] = "Connect" /\ UNCHANGED <<status, is_open, caller>>
    BY <1>5 DEF connect_control_channel
  <2>3. pc[l] \notin Connected \cup {"Down"} /\ s \in Active
    BY <2>1, <2>2 DEF Connected, Sending, Active
  <2>4. QED
    BY <2>1, <2>2, <2>3, StaysExplained DEF OpeningIsOpen
<1>6. ASSUME NEW l \in Loops, run_control_channel(l) PROVE Goal
  <2>1. pc'[l] = "Select" /\ UNCHANGED <<is_open, caller>>
    BY <1>6 DEF run_control_channel, goto, TypeOK
  <2>2. QED
    BY <2>1 DEF OnlineIsConnected, OpeningIsOpen, Explained, Active, Connected
<1>7. ASSUME NEW l \in Loops, offline(l) PROVE Goal
  BY <1>7 DEF offline, OnlineIsConnected, OpeningIsOpen, Explained
<1>8. ASSUME NEW l \in Loops, read_ping(l) \/ read_shutdown(l) \/ read_end(l) \/ send_control(l)
      PROVE  Goal
  <2>1. PICK s \in Connected \cup {"Down"} : goto(l, s)
    BY <1>8 DEF read_ping, read_shutdown, read_end, send_control, leave_channel, Connected,
                Sending
  <2>2. UNCHANGED <<status, is_open, caller>>
    BY <1>8 DEF read_ping, read_shutdown, read_end, send_control
  <2>3. s \in Active
    BY <2>1 DEF Active
  <2>4. QED
    BY <2>1, <2>2, <2>3, StaysExplained DEF OpeningIsOpen
<1>9. CASE UNCHANGED <<is_open, status, caller, pc>>
  BY <1>9 DEF OnlineIsConnected, OpeningIsOpen, Explained
<1>10. ASSUME NEW l \in Loops,
              \/ sink_task(l) \/ token_renewal_loop(l)
              \/ \E k \in Conns : read_accept(l, k)
              \/ \E r \in Requests : read_request(l, r)
       PROVE  UNCHANGED <<is_open, status, caller, pc>>
  BY <1>10 DEF sink_task, token_renewal_loop, read_accept, read_request
<1>11. CASE \/ \E r \in Requests : handle_request(r)
            \/ \E k \in Conns : handle_accept(k) \/ accept_send(k)
            \/ accept_call \/ accept_connection
  <2>1. UNCHANGED <<is_open, status, caller, pc>>
    BY <1>11 DEF handle_request, handle_accept, accept_send, accept_call, accept_connection,
                 loopVars
  <2>2. QED
    BY <1>9, <2>1
<1>12. CASE UNCHANGED vars
  BY <1>9, <1>12 DEF vars
<1>13. QED
  BY <1>1, <1>2, <1>3, <1>4, <1>5, <1>6, <1>7, <1>8, <1>9, <1>10, <1>11, <1>12
     DEF Next, control_loop

-----------------------------------------------------------------------------
\* The inductive invariant holds in every reachable state.
THEOREM Invariant == Spec => []IInv
<1>1. IInv /\ [Next]_vars => IInv'
  BY NextTypes, NextStatus DEF IInv
<1>2. QED
  BY InitInv, <1>1, PTL DEF Spec

\* Types, and the capacities of the accept and ws channels, for any capacities.
THEOREM ChannelsBounded == Spec => []TypeOK
<1>1. IInv => TypeOK
  BY DEF IInv
<1>2. QED
  BY Invariant, <1>1, PTL

\* The listener says Online only while a control channel is up or just going down,
\* however many loops, opens and closes overlap.
THEOREM OnlineMeansConnected == Spec => []OnlineIsConnected
<1>1. IInv => OnlineIsConnected
  BY DEF IInv
<1>2. QED
  BY Invariant, <1>1, PTL

\* A closed listener whose loops have all ended says Offline.
THEOREM ClosedMeansOffline == Spec => []EndedIsOffline
<1>1. IInv => EndedIsOffline
  BY DEF IInv, Explained, EndedIsOffline, Active, Connected, Sending
<1>2. QED
  BY Invariant, <1>1, PTL
=============================================================================
