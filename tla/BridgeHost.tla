----------------------------- MODULE BridgeHost -----------------------------
(***************************************************************************)
(* Start and stop of the bridge (host.rs, remote_bridge.rs, Bootstrap::start*)
(* in src/broker.rs, tui/runner.rs).  A Host starts its forwards one after  *)
(* the other and keeps the handles of their tasks.  A managed host binds    *)
(* sockets and waits for its relay listeners itself; otherwise the tasks do *)
(* both, later.  Stopping notifies whoever waits, closes the managed        *)
(* listeners and aborts the tasks one by one; the tasks of their connections*)
(* go on by themselves.  The terminal UI runs one host after another in the *)
(* same process without waiting for the old one.                            *)
(***************************************************************************)
EXTENDS Integers, FiniteSets

CONSTANTS
    Hosts,      \* hosts of this process, 1 .. n; only the terminal UI has several
    Locals,     \* local forwards
    Remotes,    \* relays with remote forwards
    Addresses,  \* socket addresses that local forwards may resolve to
    Setups      \* the ways to run: a mode ("managed", "local" or "tui"), the forwards of
                \* the configuration, its exit_on_forward_failure, where each local
                \* forward listens, and which of the addresses are UDP

Forwards == Locals \cup Remotes
Nobody == 0
Other == -1     \* some other process

VARIABLES
    setup,      \* one of Setups
    phase,      \* of each host
    todo,       \* forwards each host has yet to start
    task,       \* each forward's task: absent, spawned, running, ended, or failed at its start
    socket,     \* who holds each address
    routes,     \* UDP forwards of each host with routes whose receivers run
    is_open,    \* of each relay listener
    control,    \* its control loop: none, connecting or online
    established,    \* listeners that each host's start has seen online
    managed_listeners,  \* of each host
    handles,    \* tasks whose handles each host holds
    notified,   \* tasks that were waiting when shutdown was notified
    applied,    \* the host whose revision was reported as applied
    signalled,  \* hosts whose shutdown the terminal UI has asked for
    shown,      \* the host the terminal UI shows
    status,     \* Runner.status
    sender      \* the run that the log layer's shared sender leads to

mode == setup.mode
exit_on_forward_failure == setup.exit_on_forward_failure
address == setup.address
udp == setup.udp

listeners == <<is_open, control>>
relays == <<listeners, established, managed_listeners>>
runner == <<signalled, shown, status, sender>>
hostVars == <<setup, phase, todo, task, socket, routes, relays, handles, notified, applied,
              runner>>

HostInit ==
    /\ setup \in Setups
    /\ phase = [h \in Hosts |-> IF h = 1 /\ mode # "tui" THEN "starting" ELSE "new"]
    /\ todo = [h \in Hosts |-> setup.forwards]
    /\ task = [h \in Hosts |-> [f \in Forwards |-> "absent"]]
    /\ socket \in [Addresses -> {Nobody, Other}]
    /\ routes = [h \in Hosts |-> {}]
    /\ is_open = [h \in Hosts |-> [r \in Remotes |-> FALSE]]
    /\ control = [h \in Hosts |-> [r \in Remotes |-> "none"]]
    /\ established = [h \in Hosts |-> {}]
    /\ managed_listeners = [h \in Hosts |-> {}]
    /\ handles = [h \in Hosts |-> {}]
    /\ notified = [h \in Hosts |-> {}]
    /\ applied = Nobody
    /\ signalled = {}
    /\ shown = Nobody
    /\ status = "Idle"
    /\ sender = Nobody

Phase(h, p) == phase' = [phase EXCEPT ![h] = p]
Task(h, f, s) == task' = [task EXCEPT ![h][f] = s]

\* HybridConnectionListener::open sets the flag and spawns a control loop; close clears the
\* flag, and the loop ends when it sees that, if it ever does (see RelayListener).
Open(h, r) ==
    /\ is_open' = [is_open EXCEPT ![h][r] = TRUE]
    /\ control' = [control EXCEPT ![h][r] = IF @ = "none" THEN "connecting" ELSE @]
Close(h, r) == is_open' = [is_open EXCEPT ![h][r] = FALSE] /\ UNCHANGED control

\* Who keeps a local forward's socket from being closed: its task, from the moment the
\* socket is bound, and the receivers of the routes of a UDP forward.
TaskHolds(h, f) == task[h][f] = "running" \/ (mode = "managed" /\ task[h][f] = "spawned")
RouteHolds(h, f) == f \in routes[h]

\* A task or a route of a forward is gone: so is the socket, when it was the last.
Free(h, f) == socket' = [socket EXCEPT ![address[f]] = Nobody]
FreeSocket(h, f) == IF f \in Locals /\ TaskHolds(h, f) /\ ~RouteHolds(h, f)
                      THEN Free(h, f) ELSE UNCHANGED socket

-----------------------------------------------------------------------------
(* Host::start *)

\* preflight_local_bindings: two local forwards on one address.
duplicates == \E f, g \in Locals \cap setup.forwards : f # g /\ address[f] = address[g]

\* start returns an error.  Bootstrap::start then stops the host; the terminal UI's
\* task ends, and drops the host with the handles of what it has started.
FailStart(h) ==
    IF mode = "tui"
      THEN /\ Phase(h, "dropped")
           /\ sender' = Nobody
           /\ handles' = [handles EXCEPT ![h] = {}]
      ELSE /\ Phase(h, "stopping")
           /\ sender' = sender
           /\ handles' = handles

preflight_fails(h) ==
    /\ phase[h] = "starting"
    /\ todo[h] = setup.forwards
    /\ duplicates /\ exit_on_forward_failure
    /\ FailStart(h)
    /\ UNCHANGED <<setup, todo, task, socket, routes, relays, notified, applied,
                   signalled, shown, status>>

\* The next forward: local ones first, in the order of the configuration.  A relay whose
\* listener a managed host has opened comes before the others.
next(h, f) ==
    /\ phase[h] = "starting"
    /\ duplicates => ~exit_on_forward_failure
    /\ f \in todo[h]
    /\ todo[h] \cap Locals # {} => f \in Locals
    /\ \A r \in Remotes \cap todo[h] : is_open[h][r] => f = r

Spawn(h, f, s) ==
    /\ Task(h, f, s)
    /\ handles' = [handles EXCEPT ![h] = @ \cup {f}]
    /\ todo' = [todo EXCEPT ![h] = @ \ {f}]

\* Credentials, the client, the listener, the address or a first token of a forward
\* fail: an error.
start_fails(h, f) ==
    /\ next(h, f)
    /\ f \in Remotes => ~is_open[h][f]
    /\ FailStart(h)
    /\ UNCHANGED <<setup, todo, task, socket, routes, relays, notified, applied,
                   signalled, shown, status>>

\* A forward is skipped: unless exit_on_forward_failure after some of those errors,
\* and always when it has port 0, an address of the wrong family or no forwarder.
skip(h, f) ==
    /\ next(h, f)
    /\ f \in Remotes => ~is_open[h][f]
    /\ todo' = [todo EXCEPT ![h] = @ \ {f}]
    /\ UNCHANGED <<setup, phase, task, socket, routes, relays, handles, notified,
                   applied, runner>>

\* A managed host binds a local forward's address before it spawns the task.
bind_managed(h, f) ==
    /\ next(h, f)
    /\ f \in Locals /\ mode = "managed"
    /\ IF socket[address[f]] = Nobody
         THEN /\ socket' = [socket EXCEPT ![address[f]] = h]
              /\ Spawn(h, f, "spawned")
              /\ UNCHANGED <<phase, sender>>
         ELSE /\ FailStart(h)
              /\ UNCHANGED <<socket, task, todo>>
    /\ UNCHANGED <<setup, routes, relays, notified, applied, signalled, shown, status>>

\* RemoteForwardBridge::ready: a managed host opens the listener ...
open_managed(h, r) ==
    /\ next(h, r)
    /\ r \in Remotes /\ mode = "managed" /\ ~is_open[h][r]
    /\ Open(h, r)
    /\ UNCHANGED <<setup, phase, todo, task, socket, routes, established,
                   managed_listeners, handles, notified, applied, runner>>

\* ... and looks at its status until it is online; after an error or a timeout it closes
\* the listener again.
ready(h, r) ==
    /\ next(h, r)
    /\ r \in Remotes /\ is_open[h][r] /\ r \notin established[h]
    /\ \/ /\ control[h][r] = "online"
          /\ established' = [established EXCEPT ![h] = @ \cup {r}]
          /\ UNCHANGED <<phase, handles, sender, listeners>>
       \/ FailStart(h) /\ Close(h, r) /\ UNCHANGED established
    /\ UNCHANGED <<setup, todo, task, socket, routes, managed_listeners, notified,
                   applied, signalled, shown, status>>

\* Then, whatever has become of its channel, it is listed and its task spawned.
list_managed(h, r) ==
    /\ next(h, r)
    /\ r \in established[h]
    /\ managed_listeners' = [managed_listeners EXCEPT ![h] = @ \cup {r}]
    /\ Spawn(h, r, "spawned")
    /\ UNCHANGED <<setup, phase, socket, routes, listeners, established, notified,
                   applied, runner>>

\* Otherwise the task is spawned, and start knows nothing of what becomes of it.
spawn(h, f) ==
    /\ next(h, f)
    /\ mode # "managed"
    /\ Spawn(h, f, "spawned")
    /\ UNCHANGED <<setup, phase, socket, routes, relays, notified, applied, runner>>

\* Everything is started; a managed host with no task at all is an error.
started(h) ==
    /\ phase[h] = "starting"
    /\ todo[h] = {}
    /\ IF mode = "managed" /\ handles[h] = {}
         THEN FailStart(h)
         ELSE Phase(h, IF mode = "managed" THEN "reporting" ELSE "running")
              /\ UNCHANGED <<sender, handles>>
    /\ UNCHANGED <<setup, todo, task, socket, routes, relays, notified, applied,
                   signalled, shown, status>>

\* Bootstrap::start reports the revision, and stops the host when that fails.
report(h) ==
    /\ phase[h] = "reporting"
    /\ \/ Phase(h, "running") /\ applied' = h
       \/ Phase(h, "stopping") /\ applied' \in {applied, h}
    /\ UNCHANGED <<setup, todo, task, socket, routes, relays, handles, notified,
                   runner>>

-----------------------------------------------------------------------------
(* The tasks: run and run_bound of the bridges. *)

\* A task binds its address (or ends with an error that is logged), or opens its
\* listener unless it is open; then it waits for connections and for the shutdown.
run(h, f) ==
    /\ task[h][f] = "spawned"
    /\ \/ f \in Locals /\ mode # "managed" /\ socket[address[f]] # Nobody
          /\ Task(h, f, "failed") /\ UNCHANGED <<socket, listeners>>
       \/ f \in Locals /\ mode # "managed" /\ socket[address[f]] = Nobody
          /\ Task(h, f, "running") /\ socket' = [socket EXCEPT ![address[f]] = h]
          /\ UNCHANGED listeners
       \/ f \in Locals /\ mode = "managed"
          /\ Task(h, f, "running") /\ UNCHANGED <<socket, listeners>>
       \/ f \in Remotes
          /\ Task(h, f, "running") /\ UNCHANGED socket
          /\ IF is_open[h][f] THEN UNCHANGED listeners ELSE Open(h, f)
    /\ UNCHANGED <<setup, phase, todo, routes, established, managed_listeners, handles,
                   notified, applied, runner>>

\* A client's first datagram gets a route.  (The task of a TCP or a Unix connection, or of
\* a stream of the relay, goes on like a route, but holds no address.)
create_route(h, f) ==
    /\ task[h][f] = "running"
    /\ f \in Locals /\ address[f] \in udp /\ f \notin routes[h]
    /\ routes' = [routes EXCEPT ![h] = @ \cup {f}]
    /\ UNCHANGED <<setup, phase, todo, task, socket, relays, handles, notified, applied,
                   runner>>

\* The last receiver ends, UDP_ROUTE_IDLE_TIMEOUT after the last reply at the latest; until
\* then the socket stays bound.
routes_end(h, f) ==
    /\ f \in routes[h]
    /\ routes' = [routes EXCEPT ![h] = @ \ {f}]
    /\ IF TaskHolds(h, f) THEN UNCHANGED socket ELSE Free(h, f)
    /\ UNCHANGED <<setup, phase, todo, task, relays, handles, notified, applied, runner>>

\* An error of accept or recv ends a local bridge.
accept_fails(h, f) ==
    /\ task[h][f] = "running"
    /\ f \in Locals
    /\ Task(h, f, "ended")
    /\ FreeSocket(h, f)
    /\ UNCHANGED <<setup, phase, todo, routes, relays, handles, notified, applied,
                   runner>>

\* A task that was waiting when shutdown was notified ends; a remote bridge closes its
\* listener first.  (A task that was busy with a connection at that moment never notices,
\* nor does a remote bridge notice that its listener was closed.)
notice(h, f) ==
    /\ task[h][f] = "running"
    /\ f \in notified[h]
    /\ Task(h, f, "ended")
    /\ FreeSocket(h, f)
    /\ IF f \in Remotes THEN Close(h, f) ELSE UNCHANGED listeners
    /\ UNCHANGED <<setup, phase, todo, routes, established, managed_listeners, handles,
                   notified, applied, runner>>

\* The relay's control channel comes and goes, and its loop ends once the listener is closed:
\* at once, or, when the closing missed it, after having been online again.
channel_changes(h, r) ==
    /\ control[h][r] # "none"
    /\ control' = [control EXCEPT ![h][r] = IF @ = "connecting" THEN "online" ELSE "connecting"]
    /\ UNCHANGED <<setup, phase, todo, task, socket, routes, is_open, established,
                   managed_listeners, handles, notified, applied, runner>>

control_ends(h, r) ==
    /\ control[h][r] # "none" /\ ~is_open[h][r]
    /\ control' = [control EXCEPT ![h][r] = "none"]
    /\ UNCHANGED <<setup, phase, todo, task, socket, routes, is_open, established,
                   managed_listeners, handles, notified, applied, runner>>

-----------------------------------------------------------------------------
(* Host::stop *)

\* A signal, or the terminal UI, or what follows a failed start, ends a running host:
\* the tasks that wait at this moment are notified, and no others.
stop(h) ==
    /\ \/ phase[h] = "running" /\ (mode = "tui" => h \in signalled)
       \/ phase[h] = "stopping"
    /\ Phase(h, "closing")
    /\ notified' = [notified EXCEPT ![h] = {f \in Forwards : task[h][f] = "running"}]
    /\ UNCHANGED <<setup, todo, task, socket, routes, relays, handles, applied,
                   runner>>

\* The managed listeners are closed, whatever their tasks and control loops are doing.
close_managed(h) ==
    /\ phase[h] = "closing"
    /\ Phase(h, "aborting")
    /\ is_open' = [is_open EXCEPT ![h] =
                     [r \in Remotes |-> @[r] /\ r \notin managed_listeners[h]]]
    /\ managed_listeners' = [managed_listeners EXCEPT ![h] = {}]
    /\ UNCHANGED <<setup, todo, task, socket, routes, control, established, handles,
                   notified, applied, runner>>

\* The bug: stop waits for nothing and trusts the notification.
abort_nothing(h, f) ==
    /\ phase[h] = "aborting"
    /\ f \in handles[h]
    /\ handles' = [handles EXCEPT ![h] = @ \ {f}]
    /\ UNCHANGED <<setup, phase, todo, task, socket, routes, relays, notified, applied,
                   runner>>

\* A task is aborted where it is, and its end awaited: what it holds is dropped, but the
\* tasks it has spawned go on, and a listener that is dropped is not closed.
abort(h, f) ==
    /\ phase[h] = "aborting"
    /\ f \in handles[h]
    /\ handles' = [handles EXCEPT ![h] = @ \ {f}]
    /\ IF task[h][f] = "failed" THEN task' = task ELSE Task(h, f, "ended")
    /\ FreeSocket(h, f)
    /\ UNCHANGED <<setup, phase, todo, routes, relays, notified, applied, runner>>

\* stop returns.  The terminal UI's task then clears the shared sender, whosever it is.
stopped(h) ==
    /\ phase[h] = "aborting"
    /\ handles[h] = {}
    /\ Phase(h, "stopped")
    /\ sender' = IF mode = "tui" THEN Nobody ELSE sender
    /\ UNCHANGED <<setup, todo, task, socket, routes, relays, handles, notified,
                   applied, signalled, shown, status>>

-----------------------------------------------------------------------------
(* The terminal UI's Runner. *)

Signal == signalled' = IF shown = Nobody THEN signalled ELSE signalled \cup {shown}

\* Runner::start: the run before is asked to stop; the new one begins at once, unless
\* its configuration cannot be read.
runner_start(h) ==
    /\ mode = "tui"
    /\ phase[h] = "new" /\ \A g \in Hosts : g < h => phase[g] # "new"
    /\ Signal
    /\ \/ Phase(h, "starting") /\ shown' = h /\ status' = "Running" /\ sender' = h
       \/ UNCHANGED phase /\ shown' = Nobody /\ status' = "Error" /\ sender' = Nobody
    /\ UNCHANGED <<setup, todo, task, socket, routes, relays, handles, notified,
                   applied>>

\* Runner::stop returns at once, too.
runner_stop ==
    /\ shown # Nobody
    /\ Signal
    /\ shown' = Nobody
    /\ sender' = Nobody
    /\ status' = IF status = "Running" THEN "Stopped" ELSE status
    /\ UNCHANGED <<setup, phase, todo, task, socket, routes, relays, handles, notified,
                   applied>>

Start(h) ==
    \/ preflight_fails(h) \/ started(h) \/ report(h)
    \/ \E f \in Forwards :
        \/ start_fails(h, f) \/ skip(h, f) \/ bind_managed(h, f) \/ spawn(h, f)
        \/ open_managed(h, f) \/ ready(h, f) \/ list_managed(h, f)
Stop(h) == stop(h) \/ close_managed(h) \/ stopped(h) \/ \E f \in Forwards : abort(h, f)

HostNext ==
    \/ \E h \in Hosts :
        \/ Start(h) \/ Stop(h)
        \/ \E f \in Forwards :
            \/ run(h, f) \/ accept_fails(h, f) \/ notice(h, f)
            \/ create_route(h, f) \/ routes_end(h, f)
        \/ \E r \in Remotes : channel_changes(h, r) \/ control_ends(h, r)
        \/ runner_start(h)
    \/ runner_stop

HostSpec == HostInit /\ [][HostNext]_hostVars

-----------------------------------------------------------------------------
(* Properties. *)

\* After a host has stopped, in whatever part of its start and whatever its tasks were
\* doing ("Startup or status-report failures stop the partially started host"), nobody
\* accepts for it any more: none of its bridges' tasks is left, the notification having
\* missed some; no address is bound but by the receivers of UDP routes that are still in
\* use; and a managed host's listeners are closed, the ones whose start failed included.
\* (A task that had not come to wait when the stop began can open its listener again
\* between its closing and its own abort.)
StopIsComplete ==
    \A h \in Hosts : phase[h] = "stopped" =>
        /\ \A f \in Forwards : task[h][f] \notin {"spawned", "running"}
        /\ \A a \in Addresses : socket[a] = h =>
                \E f \in Locals : address[f] = a /\ RouteHolds(h, f)
        /\ mode = "managed" =>
                \A r \in Remotes : task[h][r] = "absent" \/ r \in notified[h] => ~is_open[h][r]
=============================================================================
