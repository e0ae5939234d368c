------------------------------- MODULE Tunnel -------------------------------
(***************************************************************************)
(* One forwarded connection, from the application at one end to the one at *)
(* the other: the local bridge (tcp.rs, socket.rs) opens a relayed stream  *)
(* (client.rs, stream.rs) and sends a preamble (preamble.rs), the remote   *)
(* bridge reads it, picks a forwarder (dispatch_connection) and connects to*)
(* its target, and then both ends run a stream pump of two copy tasks      *)
(* (stream_pump.rs).  The WebSocket library allows no data after a close   *)
(* frame was sent or read; the relay passes frames on in order and may lose*)
(* the connection.  Back-pressure is left out: sockets and streams always  *)
(* take what is written to them.                                           *)
(***************************************************************************)
EXTENDS Integers, Sequences

CONSTANTS
    ForwarderMaps,  \* maps from port names to kinds of forwarders
    Names,          \* port names a local bridge may ask for
    Numbers,        \* the port names that are integers
    MaxData         \* chunks an application sends

Sides == {"local", "remote"}
other(s) == IF s = "local" THEN "remote" ELSE "local"
None == "none"

VARIABLES
    forwarders, \* RemoteForwardBridge.forwarders
    request,    \* the PreambleRequest of the local bridge
    stage,      \* how far the handler of each side is
    target,     \* the forwarder whose target was connected to
    rejected,   \* the error code the remote bridge answered with
    sent, open, \* each application: chunks written, and its write side
    got, ended, \* each application: what it read, and whether it read EOF
    taken,      \* chunks the bridge has read from its application
    hold,       \* the chunk a copy task has read and not written yet
    up, down,   \* the copy tasks: application to relay and back
    ws,         \* state of each WebSocket: whose close frame has been seen
    wire,       \* frames under way from each side
    gone,       \* sides that have dropped their relay stream
    fault       \* the relay lost the connection

handlers == <<stage, target, rejected>>
apps == <<sent, open, got, ended>>
copies == <<taken, hold, up, down>>
relay == <<ws, wire, gone>>
vars == <<forwarders, request, handlers, apps, copies, relay, fault>>

Init ==
    /\ forwarders \in ForwarderMaps
    /\ request \in [mode : {"stream", "datagram"}, name : Names]
    /\ stage = [s \in Sides |-> "new"]
    /\ target = None
    /\ rejected = -1
    /\ sent = [s \in Sides |-> 0]
    /\ open = [s \in Sides |-> TRUE]
    /\ got = [s \in Sides |-> <<>>]
    /\ ended = [s \in Sides |-> FALSE]
    /\ taken = [s \in Sides |-> 0]
    /\ hold = [s \in Sides |-> 0]
    /\ up = [s \in Sides |-> "idle"]
    /\ down = [s \in Sides |-> "idle"]
    /\ ws = [s \in Sides |-> "active"]
    /\ wire = [s \in Sides |-> <<>>]
    /\ gone = {}
    /\ fault = FALSE

Set(f, s, v) == f' = [f EXCEPT ![s] = v]
\* A frame goes out, or nowhere when the connection is lost.
Send(s, frame) == wire' = IF fault THEN wire ELSE [wire EXCEPT ![s] = Append(@, frame)]
Frame(s) == IF wire[other(s)] = <<>> THEN None ELSE Head(wire[other(s)])[1]
Read(s) == wire' = [wire EXCEPT ![other(s)] = Tail(@)]

\* A stream that is dropped takes its connection down; frames under way may be lost.
Drop(s) ==
    /\ gone' = gone \cup {s}
    /\ \/ wire' = wire
       \/ wire[other(s)] # <<>> /\ wire' = [wire EXCEPT ![s] = <<>>]

-----------------------------------------------------------------------------
(* The applications, and the relay. *)

\* An application can write as long as the bridge has its socket.
connected(s) == stage[s] = "pumping" \/ (s = "local" /\ stage[s] \in {"new", "awaiting"})

app_send(s) ==
    /\ connected(s)
    /\ open[s] /\ sent[s] < MaxData
    /\ Set(sent, s, sent[s] + 1)
    /\ UNCHANGED <<forwarders, request, handlers, open, got, ended, copies, relay, fault>>

\* An application shuts down its write side; it goes on reading.
app_shutdown(s) ==
    /\ connected(s)
    /\ open[s]
    /\ Set(open, s, FALSE)
    /\ UNCHANGED <<forwarders, request, handlers, sent, got, ended, copies, relay, fault>>

\* The relay loses the connection, which both sides find out when they next use it.
relay_cuts ==
    /\ ~fault
    /\ stage["local"] \in {"awaiting", "pumping"}
    /\ fault' = TRUE
    /\ gone' = Sides
    /\ wire' = [s \in Sides |-> <<>>]
    /\ UNCHANGED <<forwarders, request, handlers, apps, copies, ws>>

-----------------------------------------------------------------------------
(* Opening the tunnel. *)

\* The handler of side s returns with an error before the pump: both of its streams
\* are dropped, and its application, if there is one, reads EOF.
Abandon(s) ==
    /\ Set(stage, s, "failed")
    /\ Set(ended, s, stage[s] # "new" \/ s = "local")

\* handle_local_tcp_connection, handle_local_socket_connection: the relayed stream is
\* opened, and the request is written; or opening fails or times out.
create_connection ==
    /\ stage["local"] = "new"
    /\ \/ /\ stage' = [local |-> "awaiting", remote |-> "reading"]
          /\ Send("local", <<"request">>)
          /\ UNCHANGED <<ended, gone>>
       \/ /\ Abandon("local")
          /\ gone' = gone \cup {"local"}
          /\ wire' = wire
    /\ UNCHANGED <<forwarders, request, target, rejected, sent, open, got, copies, ws, fault>>

\* The forwarder of that name; a single forwarder also serves any number.
find(name) ==
    IF name \in DOMAIN forwarders THEN {name}
    ELSE {n \in DOMAIN forwarders : name \in Numbers /\ DOMAIN forwarders = {n}}

\* Error codes: 0 for an unknown name, 1 for a stream to a UDP forwarder, 255 for
\* datagrams to a stream forwarder, -1 for none.
mode_error(kind) ==
    CASE kind = "udp" /\ request.mode = "stream"   -> 1
      [] kind # "udp" /\ request.mode = "datagram" -> 255
      [] OTHER                                     -> -1

\* dispatch_connection: the request is read; a forwarder is picked, or an error goes back.
dispatch_connection ==
    LET reject(code) == /\ rejected' = code
                        /\ wire' = [local |-> Tail(wire["local"]),
                                    remote |-> <<<<"error">>>>]
                        /\ gone' = gone \cup {"remote"}
                        /\ Set(stage, "remote", "failed")
                        /\ target' = target
    IN  /\ stage["remote"] = "reading"
        /\ Frame("remote") = "request"
        /\ \/ find(request.name) = {} /\ reject(0)
           \/ \E n \in find(request.name) :
                IF mode_error(forwarders[n]) # -1 THEN reject(mode_error(forwarders[n]))
                ELSE /\ Set(stage, "remote", "connecting")
                     /\ target' = n
                     /\ Read("remote")
                     /\ UNCHANGED <<rejected, gone>>
        /\ UNCHANGED <<forwarders, request, apps, copies, ws, fault>>

\* The request never comes: the stream ends first.
read_request_fails ==
    /\ stage["remote"] = "reading"
    /\ Frame("remote") = None /\ "local" \in gone
    /\ Set(stage, "remote", "failed")
    /\ Drop("remote")
    /\ UNCHANGED <<forwarders, request, target, rejected, apps, copies, ws, fault>>

\* Both copy tasks of a pump begin.
Pump(s) == Set(up, s, "run") /\ Set(down, s, "run")

\* TcpRemoteForwarder and SocketRemoteForwarder connect to the target and say so;
\* a datagram forwarder says so and goes on as in UdpRoute.
handle_connection ==
    /\ stage["remote"] = "connecting"
    /\ \/ /\ Send("remote", <<"ok">>)
          /\ IF request.mode = "stream"
               THEN Set(stage, "remote", "pumping") /\ Pump("remote")
               ELSE Set(stage, "remote", "datagram") /\ UNCHANGED <<up, down>>
          /\ gone' = gone
       \/ /\ Set(stage, "remote", "failed")
          /\ Drop("remote")
          /\ UNCHANGED <<up, down>>
    /\ UNCHANGED <<forwarders, request, target, rejected, apps, taken, hold, ws, fault>>

\* The bug: the answer is read through a buffer that is thrown away afterwards.
read_response_buffered ==
    /\ stage["local"] = "awaiting"
    /\ Frame("local") = "ok"
    /\ wire' = [wire EXCEPT !["remote"] = SelectSeq(Tail(@), LAMBDA f : f[1] # "data")]
    /\ IF request.mode = "stream"
         THEN Set(stage, "local", "pumping") /\ Pump("local")
         ELSE Set(stage, "local", "datagram") /\ UNCHANGED <<up, down>>
    /\ UNCHANGED <<forwarders, request, target, rejected, apps, taken, hold, ws, gone, fault>>

\* read_response takes three bytes, and no more, then the local pump begins.
read_response ==
    /\ stage["local"] = "awaiting"
    /\ Frame("local") = "ok"
    /\ Read("local")
    /\ IF request.mode = "stream"
         THEN Set(stage, "local", "pumping") /\ Pump("local")
         ELSE Set(stage, "local", "datagram") /\ UNCHANGED <<up, down>>
    /\ UNCHANGED <<forwarders, request, target, rejected, apps, taken, hold, ws, gone, fault>>

\* Rejected, or the stream ends before an answer.
read_response_fails ==
    /\ stage["local"] = "awaiting"
    /\ \/ Frame("local") = "error"
       \/ Frame("local") = None /\ "remote" \in gone
    /\ Abandon("local")
    /\ Drop("local")
    /\ UNCHANGED <<forwarders, request, target, rejected, sent, open, got, copies, ws, fault>>

-----------------------------------------------------------------------------
(* The pump. *)

\* Application to relay: a chunk is read ...
copy_read(s) ==
    /\ up[s] = "run" /\ hold[s] = 0
    /\ taken[s] < sent[s]
    /\ Set(taken, s, taken[s] + 1)
    /\ Set(hold, s, taken[s] + 1)
    /\ UNCHANGED <<forwarders, request, handlers, apps, up, down, relay, fault>>

\* ... and written as a frame, which fails after a close frame either way, and may
\* fail when the other side is gone.
copy_write(s) ==
    /\ up[s] = "run" /\ hold[s] # 0
    /\ Set(hold, s, 0)
    /\ \/ ws[s] = "active" /\ Send(s, <<"data", hold[s]>>) /\ up' = up
       \/ /\ ws[s] # "active" \/ gone \ {s} # {} \/ fault
          /\ Set(up, s, "failed")
          /\ wire' = wire
    /\ UNCHANGED <<forwarders, request, handlers, apps, taken, down, ws, gone, fault>>

\* The bug: EOF ends the copy, but the writer is not shut down.
copy_eof_silent(s) ==
    /\ up[s] = "run" /\ hold[s] = 0
    /\ taken[s] = sent[s] /\ ~open[s]
    /\ Set(up, s, "ok")
    /\ UNCHANGED <<forwarders, request, handlers, apps, taken, hold, down, relay, fault>>

\* EOF of the application: the stream's writer is shut down, which sends a close frame
\* unless one has been read already.
copy_eof(s) ==
    /\ up[s] = "run" /\ hold[s] = 0
    /\ taken[s] = sent[s] /\ ~open[s]
    /\ \/ /\ ws[s] = "active"
          /\ Set(up, s, "ok")
          /\ Set(ws, s, "closed_by_us")
          /\ Send(s, <<"close">>)
       \/ /\ ws[s] # "active" \/ gone \ {s} # {} \/ fault
          /\ Set(up, s, "failed")
          /\ UNCHANGED <<ws, wire>>
    /\ UNCHANGED <<forwarders, request, handlers, apps, taken, hold, down, gone, fault>>

\* Relay to application: a frame is read and its data written.
copy_down(s) ==
    /\ down[s] = "run"
    /\ Frame(s) = "data"
    /\ Read(s)
    /\ Set(got, s, Append(got[s], Head(wire[other(s)])[2]))
    /\ UNCHANGED <<forwarders, request, handlers, sent, open, ended, copies, ws, gone, fault>>

\* A close frame is EOF: the application's socket is shut down for writing.
copy_down_eof(s) ==
    /\ down[s] = "run"
    /\ Frame(s) = "close"
    /\ Read(s)
    /\ Set(ws, s, IF ws[s] = "active" THEN "closed_by_peer" ELSE "closed")
    /\ Set(down, s, "ok")
    /\ Set(ended, s, TRUE)
    /\ UNCHANGED <<forwarders, request, handlers, sent, open, got, taken, hold, up, gone, fault>>

\* The connection ends without a close frame: the copy fails, unless the relay put a
\* close frame in its place.
copy_down_fails(s) ==
    /\ down[s] = "run"
    /\ Frame(s) = None /\ gone \ {s} # {}
    /\ \/ Set(down, s, "failed") /\ UNCHANGED <<ws, ended>>
       \/ /\ Set(down, s, "ok")
          /\ Set(ws, s, IF ws[s] = "active" THEN "closed_by_peer" ELSE "closed")
          /\ Set(ended, s, TRUE)
    /\ UNCHANGED <<forwarders, request, handlers, sent, open, got, taken, hold, up, wire, gone, fault>>

\* When both copies have ended their halves are gone and both streams are dropped.  The
\* copies own the streams: stream_pump::run may return before, at an error of the first or
\* five seconds after its end, but its return drops two task handles and nothing else.
drop(s) ==
    /\ stage[s] = "pumping"
    /\ up[s] # "run" /\ down[s] # "run"
    /\ Set(stage, s, "dropped")
    /\ Set(ended, s, TRUE)
    /\ Drop(s)
    /\ UNCHANGED <<forwarders, request, target, rejected, sent, open, got, copies, ws, fault>>

Handlers ==
    \/ create_connection \/ dispatch_connection \/ read_request_fails
    \/ handle_connection \/ read_response \/ read_response_fails
Copies(s) ==
    \/ copy_read(s) \/ copy_write(s) \/ copy_eof(s)
    \/ copy_down(s) \/ copy_down_eof(s) \/ copy_down_fails(s)

Next ==
    \/ Handlers
    \/ \E s \in Sides : \/ app_send(s) \/ app_shutdown(s) \/ Copies(s)
                        \/ drop(s)
    \/ relay_cuts

\* Tasks that can go on do; nobody makes an application write or the relay fail.
\* Each copy task of a side is a task of its own.
Fairness ==
    /\ WF_vars(Handlers)
    /\ \A s \in Sides :
        /\ WF_vars(copy_read(s) \/ copy_write(s) \/ copy_eof(s))
        /\ WF_vars(copy_down(s) \/ copy_down_eof(s) \/ copy_down_fails(s))
        /\ WF_vars(drop(s))

Spec == Init /\ [][Next]_vars
FairSpec == Spec /\ Fairness

-----------------------------------------------------------------------------
(* Properties. *)

Sequence(n) == [i \in 1 .. n |-> i]

\* Nothing is reordered, repeated or invented on the way, and an application that
\* reads EOF while its own write side is open has everything the other one wrote:
\* the bytes that follow the preamble's answer in the same read, those a copy holds
\* when EOF comes, and those that are under way when the other side goes.
DeliveredInFull ==
    \A s \in Sides :
        /\ got[s] = Sequence(Len(got[s])) /\ Len(got[s]) <= sent[other(s)]
        /\ stage["remote"] \in {"pumping", "dropped"} /\ ended[s] /\ open[s] /\ ~fault
              => Len(got[s]) = sent[other(s)] /\ ~open[other(s)]

\* When one application shuts down its write side the other one reads EOF in the end,
\* whatever the second writes or shuts down meanwhile, as long as it goes on reading.
EndArrives ==
    \A s \in Sides :
        ~open[s] /\ stage["remote"] = "pumping" ~> ended[other(s)] \/ fault

\* stream.rs of shutdown: "The read side remains open so the remote peer can finish
\* sending data."
HalfCloseDelivers ==
    \A s \in Sides :
        stage["remote"] \in {"pumping", "dropped"} /\ ended[s] /\ ~fault
           => Len(got[s]) = sent[other(s)]
=============================================================================
