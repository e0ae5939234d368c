------------------------- MODULE BridgeHost_proofs -------------------------
(***************************************************************************)
(* Starting and stopping hosts, for any number of hosts, forwards and      *)
(* addresses, and any configuration.  Stop aborts what it has handles of,  *)
(* so Handles says that it has them of every task that is alive; Sockets   *)
(* ties each address to the one forward whose task, or whose routes, hold  *)
(* it; Listeners follows a relay listener of a managed host from its       *)
(* opening by start, or by its task, to its closing.                       *)
(***************************************************************************)
EXTENDS BridgeHost, TLAPS

\* What the module's parameters stand for.
Parameters ==
    /\ Hosts \subseteq Nat \ {0} /\ Locals \cap Remotes = {}
    /\ \A s \in Setups : s.forwards \subseteq Forwards /\ s.address \in [Locals -> Addresses]

Phases == {"new", "starting", "reporting", "running", "stopping", "closing", "aborting",
           "stopped", "dropped"}
States == {"absent", "spawned", "running", "ended", "failed"}

\* The variables that matter to sockets, tasks and listeners have their types.
Types ==
    /\ setup \in Setups
    /\ phase \in [Hosts -> Phases] /\ todo \in [Hosts -> SUBSET Forwards]
    /\ task \in [Hosts -> [Forwards -> States]]
    /\ socket \in [Addresses -> Hosts \cup {Nobody, Other}]
    /\ routes \in [Hosts -> SUBSET Locals] /\ is_open \in [Hosts -> [Remotes -> BOOLEAN]]
    /\ established \in [Hosts -> SUBSET Remotes]
    /\ managed_listeners \in [Hosts -> SUBSET Remotes] /\ handles \in [Hosts -> SUBSET Forwards]
    /\ notified \in [Hosts -> SUBSET Forwards]

\* A host has the handle of every task of its that is alive, unless it was dropped.
HandlesOf(h) ==
    /\ \A f \in Forwards :
        /\ task[h][f] \in {"spawned", "running"} => f \in handles[h] \/ phase[h] = "dropped"
        /\ f \in handles[h] => task[h][f] # "absent"
        /\ f \in todo[h] => task[h][f] = "absent"
        /\ mode = "managed" => task[h][f] # "failed"
    /\ phase[h] = "stopped" => handles[h] = {}
    /\ phase[h] = "dropped" => mode # "managed"

\* A local forward has its socket while its task or one of its routes does.
Holding(h, f) == TaskHolds(h, f) \/ RouteHolds(h, f)

\* An address belongs to the one forward that holds it.
Sockets ==
    /\ \A h \in Hosts : \A f \in Locals : Holding(h, f) =>
        /\ socket[address[f]] = h
        /\ \A g \in Locals : Holding(h, g) /\ address[g] = address[f] => g = f
    /\ \A a \in Addresses : \A h \in Hosts : socket[a] = h =>
        \E f \in Locals : address[f] = a /\ Holding(h, f)

\* A start that goes on has not found two forwards on one address, or does not mind.
Preflight == duplicates => ~exit_on_forward_failure

\* A listener that is open without a task is the one start is waiting for.  Until they are
\* closed together, a managed host has in its list every listener with a task; those whose
\* tasks were notified stay closed after that.
ListenersOf(h) ==
    \A r \in Remotes :
        /\ task[h][r] = "absent" /\ is_open[h][r] =>
              phase[h] = "starting" /\ r \in todo[h] /\ Preflight
        /\ phase[h] \notin {"aborting", "stopped"} /\ task[h][r] # "absent"
              => r \in managed_listeners[h]
        /\ phase[h] \in {"closing", "aborting", "stopped"} /\ r \in notified[h]
              => task[h][r] \notin {"absent", "spawned"}
        /\ phase[h] \in {"aborting", "stopped"} /\ r \in notified[h] => ~is_open[h][r]

IInv ==
    /\ Types /\ Sockets /\ \A h \in Hosts : HandlesOf(h)
    /\ mode = "managed" => \A h \in Hosts : ListenersOf(h)

-----------------------------------------------------------------------------
(* Steps leave the other hosts and the configuration alone. *)

OnlyHost(h) ==
    /\ setup' = setup
    /\ \A g \in Hosts : g # h =>
        /\ phase'[g] = phase[g] /\ todo'[g] = todo[g] /\ task'[g] = task[g]
        /\ is_open'[g] = is_open[g] /\ managed_listeners'[g] = managed_listeners[g]
        /\ handles'[g] = handles[g] /\ notified'[g] = notified[g]

\* Forwards' addresses and the preflight depend on nothing but the configuration.
LEMMA SetupSame ==
    ASSUME setup' = setup PROVE /\ mode' = mode /\ address' = address /\ Preflight' = Preflight
BY DEF mode, address, Preflight, duplicates, exit_on_forward_failure, address

\* A step of one host keeps the invariant when it keeps what concerns that host.
LEMMA OneHost ==
    ASSUME IInv, NEW h \in Hosts, OnlyHost(h), Types', Sockets', HandlesOf(h)',
           mode = "managed" => ListenersOf(h)'
    PROVE  IInv'
<1>1. mode' = mode /\ Preflight' = Preflight
  BY SetupSame DEF OnlyHost
<1>2. ASSUME NEW g \in Hosts PROVE HandlesOf(g)'
  <2>1. CASE g = h
    BY <2>1
  <2>2. CASE g # h
    BY <1>1, <2>2 DEF IInv, OnlyHost, HandlesOf
  <2>3. QED
    BY <2>1, <2>2
<1>3. ASSUME mode = "managed", NEW g \in Hosts PROVE ListenersOf(g)'
  <2>1. CASE g = h
    BY <1>3, <2>1
  <2>2. CASE g # h
    BY <1>1, <1>3, <2>2 DEF IInv, OnlyHost, ListenersOf
  <2>3. QED
    BY <2>1, <2>2
<1>4. QED
  BY <1>1, <1>2, <1>3 DEF IInv

\* What it means for one task of a host to change its state.
LEMMA TaskDoes ==
    ASSUME Types, NEW h \in Hosts, NEW f \in Forwards, NEW s \in States, Task(h, f, s)
    PROVE  /\ task' \in [Hosts -> [Forwards -> States]] /\ task'[h][f] = s
           /\ \A e \in Forwards : e # f => task'[h][e] = task[h][e]
           /\ \A g \in Hosts : g # h => task'[g] = task[g]
BY DEF Types, Task

\* And for one listener to be opened or closed.
LEMMA ListenerDoes ==
    ASSUME Types, NEW h \in Hosts, NEW r \in Remotes, Open(h, r) \/ Close(h, r)
    PROVE  /\ is_open' \in [Hosts -> [Remotes -> BOOLEAN]]
           /\ Close(h, r) => is_open'[h][r] = FALSE
           /\ \A q \in Remotes : q # r => is_open'[h][q] = is_open[h][q]
           /\ \A g \in Hosts : g # h => is_open'[g] = is_open[g]
<1>1. PICK b \in BOOLEAN : is_open' = [is_open EXCEPT ![h][r] = b] /\ (Close(h, r) => b = FALSE)
  <2>1. CASE Close(h, r)
    BY <2>1 DEF Close
  <2>2. CASE Open(h, r) /\ ~Close(h, r)
    BY <2>2 DEF Open
  <2>3. QED
    BY <2>1, <2>2
<1>2. is_open \in [Hosts -> [Remotes -> BOOLEAN]]
  BY DEF Types
<1>3. QED
  BY <1>1, <1>2

\* Spawning a forward keeps its handle and takes it from the list.
LEMMA SpawnDoes ==
    ASSUME Types, NEW h \in Hosts, NEW f \in Forwards, Spawn(h, f, "spawned")
    PROVE  /\ task' \in [Hosts -> [Forwards -> States]] /\ task'[h][f] = "spawned"
           /\ \A e \in Forwards : e # f => task'[h][e] = task[h][e]
           /\ handles' \in [Hosts -> SUBSET Forwards] /\ handles'[h] = handles[h] \cup {f}
           /\ todo' \in [Hosts -> SUBSET Forwards] /\ todo'[h] = todo[h] \ {f}
           /\ \A g \in Hosts : g # h => /\ task'[g] = task[g] /\ handles'[g] = handles[g]
                                        /\ todo'[g] = todo[g]
<1>1. "spawned" \in States /\ Task(h, f, "spawned")
  BY DEF States, Spawn
<1>2. /\ handles' = [handles EXCEPT ![h] = @ \cup {f}] /\ todo' = [todo EXCEPT ![h] = @ \ {f}]
      /\ handles \in [Hosts -> SUBSET Forwards] /\ todo \in [Hosts -> SUBSET Forwards]
  BY DEF Spawn, Types
<1>3. QED
  BY <1>1, <1>2, TaskDoes

-----------------------------------------------------------------------------
(* Who holds which address. *)

\* No task takes or gives up a socket.
LEMMA SocketsSame ==
    ASSUME Sockets, setup' = setup, socket' = socket,
           \A h \in Hosts : \A f \in Locals : Holding(h, f)' <=> Holding(h, f)
    PROVE  Sockets'
BY DEF Sockets, address

\* A task takes an address that nobody has.
LEMMA SocketsTake ==
    ASSUME Parameters, Types, Sockets, NEW h \in Hosts, NEW f \in Locals,
           setup' = setup, socket[address[f]] = Nobody,
           socket' = [socket EXCEPT ![address[f]] = h], Holding(h, f)',
           \A g \in Hosts : \A e \in Locals : g # h \/ e # f => (Holding(g, e)' <=> Holding(g, e))
    PROVE  Sockets'
<1>1. /\ address' = address /\ address \in [Locals -> Addresses]
      /\ socket \in [Addresses -> Hosts \cup {Nobody, Other}]
      /\ \A g \in Hosts : g # Nobody
  BY DEF Parameters, Types, address, Nobody
<1>2. /\ socket'[address[f]] = h
      /\ \A a \in Addresses : a # address[f] => socket'[a] = socket[a]
  BY <1>1
<1>3. \A g \in Hosts : \A e \in Locals : Holding(g, e) => address[e] # address[f]
  BY <1>1 DEF Sockets
<1>4. ASSUME NEW g \in Hosts, NEW e \in Locals, Holding(g, e)'
      PROVE  /\ socket'[address[e]] = g
             /\ \A d \in Locals : Holding(g, d)' /\ address[d] = address[e] => d = e
  <2>1. CASE g = h /\ e = f
    BY <1>2, <1>3, <2>1
  <2>2. CASE g # h \/ e # f
    <3>1. Holding(g, e) /\ address[e] # address[f]
      BY <1>3, <1>4, <2>2
    <3>2. socket'[address[e]] = g
      BY <1>1, <1>2, <3>1 DEF Sockets
    <3>3. QED
      BY <3>1, <3>2 DEF Sockets
  <2>3. QED
    BY <2>1, <2>2
<1>5. ASSUME NEW a \in Addresses, NEW g \in Hosts, socket'[a] = g
      PROVE  \E e \in Locals : address[e] = a /\ Holding(g, e)'
  <2>1. CASE a = address[f]
    BY <1>2, <1>5, <2>1
  <2>2. CASE a # address[f]
    <3>1. PICK e \in Locals : address[e] = a /\ Holding(g, e)
      BY <1>2, <1>5, <2>2 DEF Sockets
    <3>2. QED
      BY <2>2, <3>1
  <2>3. QED
    BY <2>1, <2>2
<1>6. QED
  BY <1>1, <1>4, <1>5 DEF Sockets

\* The last that held a forward's socket is gone.
LEMMA SocketsFree ==
    ASSUME Parameters, Types, Sockets, NEW h \in Hosts, NEW f \in Locals,
           setup' = setup, Free(h, f), Holding(h, f), ~Holding(h, f)',
           \A g \in Hosts : \A e \in Locals : g # h \/ e # f => (Holding(g, e)' <=> Holding(g, e))
    PROVE  Sockets' /\ socket' \in [Addresses -> Hosts \cup {Nobody, Other}]
<1>1. /\ address' = address /\ address \in [Locals -> Addresses]
      /\ socket \in [Addresses -> Hosts \cup {Nobody, Other}]
      /\ \A g \in Hosts : g # Nobody
  BY DEF Parameters, Types, address, Nobody
<1>2. socket[address[f]] = h /\ socket' = [socket EXCEPT ![address[f]] = Nobody]
  BY DEF Sockets, Free
<1>3. /\ socket' \in [Addresses -> Hosts \cup {Nobody, Other}] /\ socket'[address[f]] = Nobody
      /\ \A a \in Addresses : a # address[f] => socket'[a] = socket[a]
  BY <1>1, <1>2
<1>4. ASSUME NEW g \in Hosts, NEW e \in Locals, Holding(g, e)'
      PROVE  /\ socket'[address[e]] = g
             /\ \A d \in Locals : Holding(g, d)' /\ address[d] = address[e] => d = e
  <2>1. Holding(g, e) /\ (g # h \/ e # f)
    BY <1>4
  <2>2. address[e] # address[f]
    BY <1>2, <2>1 DEF Sockets
  <2>3. socket'[address[e]] = g
    BY <1>1, <1>3, <2>1, <2>2 DEF Sockets
  <2>4. QED
    BY <2>1, <2>2, <2>3 DEF Sockets
<1>5. ASSUME NEW a \in Addresses, NEW g \in Hosts, socket'[a] = g
      PROVE  \E e \in Locals : address[e] = a /\ Holding(g, e)'
  <2>1. a # address[f] /\ socket[a] = g
    BY <1>1, <1>3, <1>5
  <2>2. PICK e \in Locals : address[e] = a /\ Holding(g, e)
    BY <2>1 DEF Sockets
  <2>3. QED
    BY <2>1, <2>2
<1>6. QED
  BY <1>1, <1>3, <1>4, <1>5 DEF Sockets

-----------------------------------------------------------------------------
(* Host::start *)

Early == {"new", "starting", "reporting", "running", "stopping"}

\* The initial state.
LEMMA InitInv == ASSUME Parameters, HostInit PROVE IInv
<1>1. Types
  BY DEF Parameters, HostInit, Types, Phases, States
<1>2. Sockets
  <2>1. \A h \in Hosts : h # Nobody /\ h # Other
    BY DEF Parameters, Nobody, Other
  <2>2. \A h \in Hosts : \A f \in Locals : ~Holding(h, f)
    BY DEF HostInit, Holding, TaskHolds, RouteHolds, Forwards
  <2>3. \A a \in Addresses : socket[a] \in {Nobody, Other}
    BY DEF HostInit
  <2>4. QED
    BY <2>1, <2>2, <2>3 DEF Sockets
<1>3. \A h \in Hosts : HandlesOf(h)
  BY DEF HostInit, HandlesOf
<1>4. \A h \in Hosts : ListenersOf(h)
  BY DEF HostInit, ListenersOf, Forwards
<1>5. QED
  BY <1>1, <1>2, <1>3, <1>4 DEF IInv

\* A host goes on in its start, or forgets a forward: no task and no socket changes.  A
\* listener that waits for its task is not forgotten, nor left behind by the start.
LEMMA EarlyKeeps ==
    ASSUME Parameters, IInv, NEW h \in Hosts, NEW p \in Early,
           phase[h] \in Early, phase' = [phase EXCEPT ![h] = p],
           todo' \in [Hosts -> SUBSET Forwards], todo'[h] \subseteq todo[h],
           \A g \in Hosts : g # h => todo'[g] = todo[g],
           mode = "managed" =>
             \A r \in Remotes : task[h][r] = "absent" /\ is_open[h][r] => p = "starting" /\ r \in todo'[h],
           UNCHANGED <<setup, task, socket, routes, is_open, established, managed_listeners,
                       handles, notified>>
    PROVE  IInv'
<1>1. Types /\ Sockets /\ HandlesOf(h) /\ mode' = mode /\ Preflight' = Preflight
  BY SetupSame DEF IInv
<1>2. phase' \in [Hosts -> Phases] /\ phase'[h] = p /\ \A g \in Hosts : g # h => phase'[g] = phase[g]
  BY <1>1 DEF Types, Phases, Early
<1>3. Types' /\ OnlyHost(h)
  BY <1>1, <1>2 DEF Types, OnlyHost
<1>4. Sockets'
  BY <1>1, SocketsSame DEF Holding, TaskHolds, RouteHolds
<1>5. HandlesOf(h)'
  BY <1>1, <1>2 DEF HandlesOf, Early
<1>6. ASSUME mode = "managed" PROVE ListenersOf(h)'
  <2>1. ListenersOf(h)
    BY <1>6 DEF IInv
  <2>2. QED
    BY <1>1, <1>2, <1>6, <2>1 DEF ListenersOf, Early
<1>7. QED
  BY <1>3, <1>4, <1>5, <1>6, OneHost

\* start returns an error: the host is stopped next, or dropped with its handles.  No
\* listener is then open that has no task.
LEMMA FailKeeps ==
    ASSUME Parameters, IInv, NEW h \in Hosts, phase[h] = "starting", FailStart(h),
           is_open' \in [Hosts -> [Remotes -> BOOLEAN]],
           \A q \in Remotes : is_open'[h][q] => is_open[h][q] /\ (mode = "managed" => task[h][q] # "absent"),
           \A g \in Hosts : g # h => is_open'[g] = is_open[g],
           UNCHANGED <<setup, todo, task, socket, routes, established, managed_listeners, notified>>
    PROVE  IInv'
<1>1. Types /\ Sockets /\ HandlesOf(h) /\ mode' = mode /\ Preflight' = Preflight
  BY SetupSame DEF IInv
<1>2. Sockets'
  BY <1>1, SocketsSame DEF Holding, TaskHolds, RouteHolds
<1>3. CASE mode = "tui"
  <2>1. phase' = [phase EXCEPT ![h] = "dropped"] /\ handles' = [handles EXCEPT ![h] = {}]
    BY <1>3 DEF FailStart, Phase
  <2>2. /\ phase' \in [Hosts -> Phases] /\ phase'[h] = "dropped"
        /\ handles' \in [Hosts -> SUBSET Forwards] /\ handles'[h] = {}
        /\ \A g \in Hosts : g # h => phase'[g] = phase[g] /\ handles'[g] = handles[g]
    BY <1>1, <2>1 DEF Types, Phases
  <2>3. Types' /\ OnlyHost(h)
    BY <1>1, <2>2 DEF Types, OnlyHost
  <2>4. HandlesOf(h)'
    BY <1>1, <1>3, <2>2 DEF HandlesOf
  <2>5. QED
    BY <1>2, <1>3, <2>3, <2>4, OneHost
<1>4. CASE mode # "tui"
  <2>1. phase' = [phase EXCEPT ![h] = "stopping"] /\ handles' = handles
    BY <1>4 DEF FailStart, Phase
  <2>2. /\ phase' \in [Hosts -> Phases] /\ phase'[h] = "stopping"
        /\ \A g \in Hosts : g # h => phase'[g] = phase[g]
    BY <1>1, <2>1 DEF Types, Phases
  <2>3. Types' /\ OnlyHost(h)
    BY <1>1, <2>1, <2>2 DEF Types, OnlyHost
  <2>4. HandlesOf(h)'
    BY <1>1, <2>1, <2>2 DEF HandlesOf
  <2>5. ASSUME mode = "managed" PROVE ListenersOf(h)'
    <3>1. ListenersOf(h)
      BY <2>5 DEF IInv
    <3>2. QED
      BY <2>2, <2>5, <3>1 DEF ListenersOf
  <2>6. QED
    BY <1>2, <2>3, <2>4, <2>5, OneHost
<1>5. QED
  BY <1>3, <1>4

\* A forward is spawned; if the host is managed, its listener is listed or its socket bound.
LEMMA SpawnKeeps ==
    ASSUME Parameters, IInv, NEW h \in Hosts, NEW f \in Forwards, next(h, f),
           Spawn(h, f, "spawned"),
           UNCHANGED <<setup, phase, routes, is_open, established, notified>>,
           \/ /\ mode # "managed" /\ UNCHANGED <<socket, managed_listeners>>
           \/ /\ f \in Remotes /\ managed_listeners' = [managed_listeners EXCEPT ![h] = @ \cup {f}]
              /\ UNCHANGED socket
           \/ /\ mode = "managed" /\ f \in Locals /\ socket[address[f]] = Nobody
              /\ socket' = [socket EXCEPT ![address[f]] = h]
              /\ UNCHANGED managed_listeners
    PROVE  IInv'
<1>1. /\ Types /\ Sockets /\ HandlesOf(h) /\ mode' = mode /\ Preflight' = Preflight
      /\ phase[h] = "starting" /\ task[h][f] = "absent"
  BY SetupSame DEF IInv, next, HandlesOf
<1>2. /\ task' \in [Hosts -> [Forwards -> States]] /\ task'[h][f] = "spawned"
      /\ \A e \in Forwards : e # f => task'[h][e] = task[h][e]
      /\ handles' \in [Hosts -> SUBSET Forwards] /\ handles'[h] = handles[h] \cup {f}
      /\ todo' \in [Hosts -> SUBSET Forwards] /\ todo'[h] = todo[h] \ {f}
      /\ \A g \in Hosts : g # h => /\ task'[g] = task[g] /\ handles'[g] = handles[g]
                                   /\ todo'[g] = todo[g]
  BY <1>1, SpawnDoes
<1>3. HandlesOf(h)'
  BY <1>1, <1>2 DEF HandlesOf
<1>4. \A g \in Hosts : \A e \in Locals : g # h \/ e # f => (Holding(g, e)' <=> Holding(g, e))
  BY <1>1, <1>2 DEF Holding, TaskHolds, RouteHolds, Forwards
<1>5. CASE mode # "managed" /\ UNCHANGED <<socket, managed_listeners>>
  <2>1. \A g \in Hosts : \A e \in Locals : Holding(g, e)' <=> Holding(g, e)
    BY <1>1, <1>2, <1>4, <1>5 DEF Holding, TaskHolds, RouteHolds
  <2>2. Sockets'
    BY <1>1, <1>5, <2>1, SocketsSame
  <2>3. Types' /\ OnlyHost(h)
    BY <1>1, <1>2, <1>5 DEF Types, OnlyHost
  <2>4. QED
    BY <1>3, <1>5, <2>2, <2>3, OneHost
<1>6. CASE /\ f \in Remotes /\ managed_listeners' = [managed_listeners EXCEPT ![h] = @ \cup {f}]
           /\ UNCHANGED socket
  <2>1. f \notin Locals
    BY <1>6 DEF Parameters
  <2>2. Sockets'
    BY <1>1, <1>4, <1>6, <2>1, SocketsSame
  <2>3. /\ managed_listeners' \in [Hosts -> SUBSET Remotes]
        /\ managed_listeners'[h] = managed_listeners[h] \cup {f}
        /\ \A g \in Hosts : g # h => managed_listeners'[g] = managed_listeners[g]
    BY <1>1, <1>6 DEF Types
  <2>4. Types' /\ OnlyHost(h)
    BY <1>1, <1>2, <1>6, <2>3 DEF Types, OnlyHost
  <2>5. ASSUME mode = "managed" PROVE ListenersOf(h)'
    <3>1. ListenersOf(h)
      BY <2>5 DEF IInv
    <3>2. QED
      BY <1>1, <1>2, <1>6, <2>3, <3>1 DEF ListenersOf, Forwards
  <2>6. QED
    BY <1>3, <2>2, <2>4, <2>5, OneHost
<1>7. CASE /\ mode = "managed" /\ f \in Locals /\ socket[address[f]] = Nobody
           /\ socket' = [socket EXCEPT ![address[f]] = h]
           /\ UNCHANGED managed_listeners
  <2>1. Holding(h, f)'
    BY <1>1, <1>2, <1>7 DEF Holding, TaskHolds
  <2>2. Sockets'
    BY <1>1, <1>4, <1>7, <2>1, SocketsTake
  <2>3. socket' \in [Addresses -> Hosts \cup {Nobody, Other}]
    BY <1>1, <1>7 DEF Types
  <2>4. Types' /\ OnlyHost(h)
    BY <1>1, <1>2, <1>7, <2>3 DEF Types, OnlyHost
  <2>5. ListenersOf(h)'
    <3>1. ListenersOf(h) /\ f \notin Remotes
      BY <1>7 DEF IInv, Parameters
    <3>2. QED
      BY <1>1, <1>2, <1>7, <3>1 DEF ListenersOf, Forwards
  <2>6. QED
    BY <1>3, <2>2, <2>4, <2>5, OneHost
<1>8. QED
  BY <1>5, <1>6, <1>7

\* A managed host opens the listener that its start then waits for.
LEMMA OpenKeeps ==
    ASSUME Parameters, IInv, NEW h \in Hosts, NEW r \in Remotes, open_managed(h, r) PROVE IInv'
<1>1. /\ Types /\ Sockets /\ HandlesOf(h) /\ ListenersOf(h) /\ mode' = mode /\ Preflight' = Preflight
      /\ UNCHANGED <<setup, phase, todo, task, socket, routes, established, managed_listeners,
                     handles, notified>>
      /\ phase[h] = "starting" /\ r \in todo[h] /\ Preflight
  BY SetupSame DEF IInv, open_managed, next, Preflight
<1>2. /\ is_open' \in [Hosts -> [Remotes -> BOOLEAN]]
      /\ \A q \in Remotes : q # r => is_open'[h][q] = is_open[h][q]
      /\ \A g \in Hosts : g # h => is_open'[g] = is_open[g]
  BY <1>1, ListenerDoes DEF open_managed
<1>3. Types' /\ OnlyHost(h)
  BY <1>1, <1>2 DEF Types, OnlyHost
<1>4. Sockets'
  BY <1>1, SocketsSame DEF Holding, TaskHolds, RouteHolds
<1>5. HandlesOf(h)'
  BY <1>1 DEF HandlesOf
<1>6. ListenersOf(h)'
  BY <1>1, <1>2 DEF ListenersOf
<1>7. QED
  BY <1>3, <1>4, <1>5, <1>6, OneHost

\* A step that leaves hosts, tasks and sockets alone: of the terminal UI's own state, or of a
\* control loop.
LEMMA OthersKeep ==
    ASSUME IInv,
           UNCHANGED <<setup, phase, todo, task, socket, routes, is_open, managed_listeners,
                       handles, notified>>,
           established' \in [Hosts -> SUBSET Remotes]
    PROVE  IInv'
<1>1. Types /\ Sockets /\ mode' = mode /\ Preflight' = Preflight
  BY SetupSame DEF IInv
<1>2. Sockets'
  BY <1>1, SocketsSame DEF Holding, TaskHolds, RouteHolds
<1>3. Types' /\ (\A h \in Hosts : HandlesOf(h)')
  BY <1>1 DEF IInv, Types, HandlesOf
<1>4. mode' = "managed" => \A h \in Hosts : ListenersOf(h)'
  BY <1>1 DEF IInv, ListenersOf
<1>5. QED
  BY <1>2, <1>3, <1>4 DEF IInv

\* Every step of Host::start and of the report that follows it.
LEMMA StartKeeps == ASSUME Parameters, IInv, NEW h \in Hosts, Start(h) PROVE IInv'
<1>1. Types /\ (mode = "managed" => ListenersOf(h))
  BY DEF IInv
<1> DEFINE Waits(r) == task[h][r] = "absent" /\ is_open[h][r]
<1>2. CASE preflight_fails(h)
  <2>1. mode = "managed" => \A r \in Remotes : ~Waits(r)
    BY <1>1, <1>2 DEF preflight_fails, ListenersOf, Preflight
  <2>2. QED
    BY <1>1, <1>2, <2>1, FailKeeps DEF preflight_fails, relays, listeners, Types
<1>3. CASE started(h)
  <2>1. mode = "managed" => \A r \in Remotes : ~Waits(r)
    BY <1>1, <1>3 DEF started, ListenersOf
  <2>2. CASE FailStart(h)
    BY <1>1, <1>3, <2>1, <2>2, FailKeeps DEF started, relays, listeners, Types
  <2>3. CASE Phase(h, "reporting") /\ handles' = handles
    BY <1>1, <1>3, <2>1, <2>3, EarlyKeeps DEF started, Phase, Early, Types, relays, listeners
  <2>4. CASE Phase(h, "running") /\ handles' = handles
    BY <1>1, <1>3, <2>1, <2>4, EarlyKeeps DEF started, Phase, Early, Types, relays, listeners
  <2>5. QED
    BY <1>3, <2>2, <2>3, <2>4 DEF started
<1>4. CASE report(h)
  <2>1. mode = "managed" => \A r \in Remotes : ~Waits(r)
    BY <1>1, <1>4 DEF report, ListenersOf
  <2>2. CASE Phase(h, "running")
    BY <1>1, <1>4, <2>1, <2>2, EarlyKeeps DEF report, Phase, Early, Types, relays, listeners
  <2>3. CASE Phase(h, "stopping")
    BY <1>1, <1>4, <2>1, <2>3, EarlyKeeps DEF report, Phase, Early, Types, relays, listeners
  <2>4. QED
    BY <1>4, <2>2, <2>3 DEF report
<1>5. ASSUME NEW f \in Forwards, start_fails(h, f) PROVE IInv'
  <2>1. mode = "managed" => \A r \in Remotes : ~Waits(r)
    BY <1>1, <1>5 DEF start_fails, next, ListenersOf
  <2>2. QED
    BY <1>1, <1>5, <2>1, FailKeeps DEF start_fails, next, relays, listeners, Types
<1>6. ASSUME NEW f \in Forwards, skip(h, f) PROVE IInv'
  <2>1. /\ phase[h] = "starting" /\ phase' = [phase EXCEPT ![h] = "starting"]
        /\ todo' \in [Hosts -> SUBSET Forwards] /\ todo'[h] = todo[h] \ {f}
        /\ \A g \in Hosts : g # h => todo'[g] = todo[g]
    BY <1>1, <1>6 DEF skip, next, Types
  <2>2. mode = "managed" => \A r \in Remotes : Waits(r) => r \in todo'[h]
    BY <1>1, <1>6, <2>1 DEF skip, next, ListenersOf
  <2>3. QED
    BY <1>6, <2>1, <2>2, EarlyKeeps DEF skip, Early, relays, listeners
<1>7. ASSUME NEW f \in Forwards, bind_managed(h, f) PROVE IInv'
  <2>1. CASE socket[address[f]] = Nobody
    BY <1>7, <2>1, SpawnKeeps DEF bind_managed, relays, listeners
  <2>2. CASE socket[address[f]] # Nobody
    <3>1. mode = "managed" => \A r \in Remotes : ~Waits(r)
      BY <1>1, <1>7 DEF bind_managed, next, ListenersOf, Parameters
    <3>2. QED
      BY <1>1, <1>7, <2>2, <3>1, FailKeeps DEF bind_managed, next, relays, listeners, Types
  <2>3. QED
    BY <2>1, <2>2
<1>8. ASSUME NEW f \in Forwards, open_managed(h, f) PROVE IInv'
  BY <1>8, OpenKeeps DEF open_managed
<1>9. ASSUME NEW f \in Forwards, ready(h, f) PROVE IInv'
  <2>1. CASE FailStart(h) /\ Close(h, f)
    <3>1. /\ f \in Remotes /\ phase[h] = "starting" /\ is_open' = [is_open EXCEPT ![h][f] = FALSE]
          /\ \A r \in Remotes \cap todo[h] : is_open[h][r] => f = r
      BY <1>9, <2>1 DEF ready, next, Close
    <3>2. /\ is_open' \in [Hosts -> [Remotes -> BOOLEAN]] /\ is_open'[h][f] = FALSE
          /\ \A q \in Remotes : q # f => is_open'[h][q] = is_open[h][q]
          /\ \A g \in Hosts : g # h => is_open'[g] = is_open[g]
      BY <1>1, <3>1 DEF Types
    <3>3. \A q \in Remotes : is_open'[h][q] =>
              is_open[h][q] /\ (mode = "managed" => task[h][q] # "absent")
      BY <1>1, <3>1, <3>2 DEF ListenersOf
    <3>4. UNCHANGED <<setup, todo, task, socket, routes, established, managed_listeners, notified>>
      BY <1>9, <2>1, <3>1, <3>2 DEF ready, Close, listeners
    <3>5. QED
      BY <2>1, <3>1, <3>2, <3>3, <3>4, FailKeeps
  <2>2. CASE /\ established' = [established EXCEPT ![h] = @ \cup {f}]
             /\ UNCHANGED <<phase, handles, sender, listeners>>
    <3>1. established' \in [Hosts -> SUBSET Remotes]
      BY <1>1, <1>9, <2>2 DEF ready, Types
    <3>2. QED
      BY <1>9, <2>2, <3>1, OthersKeep DEF ready, listeners
  <2>3. QED
    BY <1>9, <2>1, <2>2 DEF ready
<1>10. ASSUME NEW f \in Forwards, list_managed(h, f) PROVE IInv'
  <2>1. f \in Remotes
    BY <1>1, <1>10 DEF list_managed, Types
  <2>2. QED
    BY <1>10, <2>1, SpawnKeeps DEF list_managed, listeners
<1>11. ASSUME NEW f \in Forwards, spawn(h, f) PROVE IInv'
  BY <1>11, SpawnKeeps DEF spawn, relays, listeners
<1>12. QED
  BY <1>2, <1>3, <1>4, <1>5, <1>6, <1>7, <1>8, <1>9, <1>10, <1>11 DEF Start

-----------------------------------------------------------------------------
(* The tasks. *)

\* A task that is spawned comes to wait, or fails to bind its address.
LEMMA RunKeeps ==
    ASSUME Parameters, IInv, NEW h \in Hosts, NEW f \in Forwards, run(h, f) PROVE IInv'
<1>1. /\ Types /\ Sockets /\ HandlesOf(h) /\ mode' = mode /\ Preflight' = Preflight
      /\ task[h][f] = "spawned"
      /\ UNCHANGED <<setup, phase, todo, routes, established, managed_listeners, handles, notified>>
  BY SetupSame DEF IInv, run
<1>2. PICK s \in {"running", "failed"} : Task(h, f, s) /\ (mode = "managed" => s = "running")
  BY DEF run, Forwards, Parameters
<1>3. /\ task' \in [Hosts -> [Forwards -> States]] /\ task'[h][f] = s
      /\ \A e \in Forwards : e # f => task'[h][e] = task[h][e]
      /\ \A g \in Hosts : g # h => task'[g] = task[g]
  <2>1. s \in States
    BY DEF States
  <2>2. QED
    BY <1>1, <1>2, <2>1, TaskDoes
<1>4. HandlesOf(h)'
  BY <1>1, <1>2, <1>3 DEF HandlesOf
<1>5. \A g \in Hosts : \A e \in Locals : g # h \/ e # f => (Holding(g, e)' <=> Holding(g, e))
  BY <1>1, <1>3 DEF Holding, TaskHolds, RouteHolds, Forwards
<1>6. CASE f \in Locals /\ mode # "managed" /\ socket[address[f]] = Nobody
  <2>1. /\ socket' = [socket EXCEPT ![address[f]] = h] /\ is_open' = is_open
        /\ Task(h, f, "running")
    BY <1>6 DEF run, Parameters, listeners
  <2>2. Holding(h, f)'
    <3>1. "running" \in States
      BY DEF States
    <3>2. task'[h][f] = "running"
      BY <1>1, <2>1, <3>1, TaskDoes
    <3>3. QED
      BY <3>2 DEF Holding, TaskHolds
  <2>3. Sockets'
    BY <1>1, <1>5, <1>6, <2>1, <2>2, SocketsTake
  <2>4. socket' \in [Addresses -> Hosts \cup {Nobody, Other}]
    BY <1>1, <2>1 DEF Types
  <2>5. Types' /\ OnlyHost(h)
    BY <1>1, <1>3, <2>1, <2>4 DEF Types, OnlyHost
  <2>6. QED
    BY <1>4, <1>6, <2>3, <2>5, OneHost
<1>7. CASE f \in Locals /\ ~(mode # "managed" /\ socket[address[f]] = Nobody)
  <2>1. /\ socket' = socket /\ is_open' = is_open
        /\ \/ mode = "managed" /\ Task(h, f, "running")
           \/ mode # "managed" /\ Task(h, f, "failed")
    BY <1>7 DEF run, Parameters, listeners
  <2>2. /\ mode = "managed" => task'[h][f] = "running"
        /\ mode # "managed" => task'[h][f] = "failed"
    <3>1. "running" \in States /\ "failed" \in States
      BY DEF States
    <3>2. QED
      BY <1>1, <2>1, <3>1, TaskDoes
  <2>3. \A g \in Hosts : \A e \in Locals : Holding(g, e)' <=> Holding(g, e)
    BY <1>1, <1>5, <2>2 DEF Holding, TaskHolds, RouteHolds
  <2>4. Sockets'
    BY <1>1, <2>1, <2>3, SocketsSame
  <2>5. Types' /\ OnlyHost(h)
    BY <1>1, <1>3, <2>1 DEF Types, OnlyHost
  <2>6. ASSUME mode = "managed" PROVE ListenersOf(h)'
    <3>1. ListenersOf(h) /\ f \notin Remotes
      BY <1>7, <2>6 DEF IInv, Parameters
    <3>2. QED
      BY <1>1, <1>3, <2>1, <3>1 DEF ListenersOf, Forwards
  <2>7. QED
    BY <1>4, <2>4, <2>5, <2>6, OneHost
<1>8. CASE f \in Remotes
  <2>1. f \notin Locals
    BY <1>8 DEF Parameters
  <2>2. /\ socket' = socket
        /\ is_open' = is_open \/ Open(h, f)
    BY <1>8, <2>1 DEF run, listeners
  <2>3. Sockets'
    BY <1>1, <1>5, <2>1, <2>2, SocketsSame
  <2>4. /\ is_open' \in [Hosts -> [Remotes -> BOOLEAN]]
        /\ \A q \in Remotes : q # f => is_open'[h][q] = is_open[h][q]
        /\ \A g \in Hosts : g # h => is_open'[g] = is_open[g]
    <3>1. CASE is_open' = is_open
      BY <1>1, <3>1 DEF Types
    <3>2. CASE Open(h, f)
      BY <1>1, <1>8, <3>2, ListenerDoes
    <3>3. QED
      BY <2>2, <3>1, <3>2
  <2>5. Types' /\ OnlyHost(h)
    BY <1>1, <1>3, <2>2, <2>4 DEF Types, OnlyHost
  <2>6. ASSUME mode = "managed" PROVE ListenersOf(h)'
    <3>1. ListenersOf(h) /\ s = "running"
      BY <1>2, <2>6 DEF IInv
    <3>2. \A r \in Remotes : r # f => task'[h][r] = task[h][r] /\ is_open'[h][r] = is_open[h][r]
      BY <1>3, <2>4 DEF Forwards
    <3>3. phase[h] \in {"closing", "aborting", "stopped"} => f \notin notified[h]
      BY <1>1, <1>8, <3>1 DEF ListenersOf
    <3>4. QED
      BY <1>1, <1>3, <3>1, <3>2, <3>3 DEF ListenersOf
  <2>7. QED
    BY <1>4, <2>3, <2>5, <2>6, OneHost
<1>9. QED
  BY <1>6, <1>7, <1>8 DEF Forwards

\* A task ends by itself or is aborted: its socket is dropped, its listener may be closed.
LEMMA EndKeeps ==
    ASSUME Parameters, IInv, NEW h \in Hosts, NEW f \in Forwards,
           Task(h, f, "ended"), FreeSocket(h, f), task[h][f] # "absent",
           UNCHANGED <<setup, phase, todo, routes, established, managed_listeners, notified>>,
           handles' = handles \/ handles' = [handles EXCEPT ![h] = @ \ {f}],
           is_open' = is_open \/ (f \in Remotes /\ Close(h, f))
    PROVE  IInv'
<1>1. Types /\ Sockets /\ HandlesOf(h) /\ mode' = mode /\ Preflight' = Preflight
  BY SetupSame DEF IInv
<1>2. /\ task' \in [Hosts -> [Forwards -> States]] /\ task'[h][f] = "ended"
      /\ \A e \in Forwards : e # f => task'[h][e] = task[h][e]
      /\ \A g \in Hosts : g # h => task'[g] = task[g]
  <2>1. "ended" \in States
    BY DEF States
  <2>2. QED
    BY <1>1, <2>1, TaskDoes
<1>3. /\ handles' \in [Hosts -> SUBSET Forwards] /\ handles'[h] \subseteq handles[h]
      /\ \A e \in Forwards : e # f => (e \in handles'[h] <=> e \in handles[h])
      /\ \A g \in Hosts : g # h => handles'[g] = handles[g]
  BY <1>1 DEF Types
<1>4. HandlesOf(h)'
  <2>1. ASSUME NEW e \in Forwards
        PROVE  /\ task'[h][e] \in {"spawned", "running"} => e \in handles'[h] \/ phase[h] = "dropped"
               /\ e \in handles'[h] => task'[h][e] # "absent"
               /\ e \in todo[h] => task'[h][e] = "absent"
               /\ mode = "managed" => task'[h][e] # "failed"
    <3>1. CASE e = f
      BY <1>1, <1>2, <3>1 DEF HandlesOf
    <3>2. CASE e # f
      BY <1>1, <1>2, <1>3, <3>2 DEF HandlesOf
    <3>3. QED
      BY <3>1, <3>2
  <2>2. phase[h] = "stopped" => handles'[h] = {}
    BY <1>1, <1>3 DEF HandlesOf
  <2>3. QED
    BY <1>1, <2>1, <2>2 DEF HandlesOf
<1>5. Sockets' /\ socket' \in [Addresses -> Hosts \cup {Nobody, Other}]
  <2>1. ~TaskHolds(h, f)' /\ RouteHolds(h, f)' = RouteHolds(h, f)
    BY <1>2 DEF TaskHolds, RouteHolds
  <2>2. \A g \in Hosts : \A e \in Locals : g # h \/ e # f => (Holding(g, e)' <=> Holding(g, e))
    BY <1>1, <1>2 DEF Holding, TaskHolds, RouteHolds, Forwards
  <2>3. CASE f \in Locals /\ TaskHolds(h, f) /\ ~RouteHolds(h, f)
    <3>1. Free(h, f) /\ Holding(h, f) /\ ~Holding(h, f)'
      BY <2>1, <2>3 DEF FreeSocket, Holding
    <3>2. QED
      BY <1>1, <2>2, <2>3, <3>1, SocketsFree
  <2>4. CASE ~(f \in Locals /\ TaskHolds(h, f) /\ ~RouteHolds(h, f))
    <3>1. socket' = socket
      BY <2>4 DEF FreeSocket
    <3>2. f \in Locals => (Holding(h, f)' <=> Holding(h, f))
      BY <2>1, <2>4 DEF Holding
    <3>3. \A g \in Hosts : \A e \in Locals : Holding(g, e)' <=> Holding(g, e)
      BY <2>2, <3>2
    <3>4. QED
      BY <1>1, <3>1, <3>3, SocketsSame DEF Types
  <2>5. QED
    BY <2>3, <2>4
<1>6. /\ is_open' \in [Hosts -> [Remotes -> BOOLEAN]]
      /\ \A q \in Remotes : is_open'[h][q] => is_open[h][q]
      /\ \A g \in Hosts : g # h => is_open'[g] = is_open[g]
  <2>1. CASE is_open' = is_open
    BY <1>1, <2>1 DEF Types
  <2>2. CASE f \in Remotes /\ Close(h, f)
    BY <1>1, <2>2, ListenerDoes
  <2>3. QED
    BY <2>1, <2>2
<1>7. Types' /\ OnlyHost(h)
  BY <1>1, <1>2, <1>3, <1>5, <1>6 DEF Types, OnlyHost
<1>8. ASSUME mode = "managed" PROVE ListenersOf(h)'
  <2>1. ListenersOf(h)
    BY <1>8 DEF IInv
  <2>2. \A r \in Remotes : /\ task'[h][r] = "absent" <=> task[h][r] = "absent"
                           /\ task'[h][r] = "spawned" => task[h][r] = "spawned"
    BY <1>2 DEF Forwards
  <2>3. QED
    BY <1>1, <1>6, <2>1, <2>2 DEF ListenersOf
<1>9. QED
  BY <1>4, <1>5, <1>7, <1>8, OneHost

\* A route begins while its forward's task holds the socket; the last one to end gives the
\* socket up, if the task is gone.
LEMMA RoutesKeep ==
    ASSUME Parameters, IInv, NEW h \in Hosts, NEW f \in Forwards,
           create_route(h, f) \/ routes_end(h, f)
    PROVE  IInv'
<1>1. /\ Types /\ Sockets /\ HandlesOf(h) /\ mode' = mode /\ Preflight' = Preflight /\ f \in Locals
      /\ UNCHANGED <<setup, phase, todo, task, is_open, established, managed_listeners, handles,
                     notified>>
  BY SetupSame DEF IInv, Types, create_route, routes_end, relays, listeners
<1>2. /\ routes' \in [Hosts -> SUBSET Locals]
      /\ \A e \in Locals : e # f => (e \in routes'[h] <=> e \in routes[h])
      /\ \A g \in Hosts : g # h => routes'[g] = routes[g]
      /\ f \in routes'[h] => create_route(h, f)
  <2>1. routes \in [Hosts -> SUBSET Locals]
    BY <1>1 DEF Types
  <2>2. CASE create_route(h, f)
    BY <1>1, <2>1, <2>2 DEF create_route
  <2>3. CASE routes_end(h, f)
    BY <1>1, <2>1, <2>3 DEF routes_end
  <2>4. QED
    BY <2>2, <2>3
<1>3. \A g \in Hosts : \A e \in Locals : g # h \/ e # f => (Holding(g, e)' <=> Holding(g, e))
  BY <1>1, <1>2 DEF Holding, TaskHolds, RouteHolds
<1>4. TaskHolds(h, f)' = TaskHolds(h, f)
  BY <1>1 DEF TaskHolds
<1>5. Sockets' /\ socket' \in [Addresses -> Hosts \cup {Nobody, Other}]
  <2>1. CASE TaskHolds(h, f)
    <3>1. socket' = socket
      BY <2>1 DEF create_route, routes_end
    <3>2. \A g \in Hosts : \A e \in Locals : Holding(g, e)' <=> Holding(g, e)
      BY <1>3, <1>4, <2>1 DEF Holding
    <3>3. QED
      BY <1>1, <3>1, <3>2, SocketsSame DEF Types
  <2>2. CASE ~TaskHolds(h, f)
    <3>1. routes_end(h, f) /\ ~create_route(h, f)
      BY <2>2 DEF create_route, TaskHolds
    <3>2. Free(h, f) /\ Holding(h, f)
      BY <2>2, <3>1 DEF routes_end, Holding, RouteHolds
    <3>3. ~Holding(h, f)'
      BY <1>2, <1>4, <2>2, <3>1 DEF Holding, RouteHolds
    <3>4. QED
      BY <1>1, <1>3, <3>2, <3>3, SocketsFree
  <2>3. QED
    BY <2>1, <2>2
<1>6. Types' /\ OnlyHost(h)
  BY <1>1, <1>2, <1>5 DEF Types, OnlyHost
<1>7. HandlesOf(h)'
  BY <1>1 DEF HandlesOf
<1>8. ASSUME mode = "managed" PROVE ListenersOf(h)'
  <2>1. ListenersOf(h)
    BY <1>8 DEF IInv
  <2>2. QED
    BY <1>1, <2>1 DEF ListenersOf
<1>9. QED
  BY <1>5, <1>6, <1>7, <1>8, OneHost

-----------------------------------------------------------------------------
(* Host::stop *)

\* Every step of Host::stop: who waits is notified and waits no longer in vain, the listed
\* listeners are closed, and every handle is used up.
LEMMA StopKeeps == ASSUME Parameters, IInv, NEW h \in Hosts, Stop(h) PROVE IInv'
<1>1. Types /\ Sockets /\ HandlesOf(h)
  BY DEF IInv
<1> DEFINE Still == UNCHANGED <<setup, todo, task, socket, routes, established>>
<1>a. ASSUME Still PROVE /\ Sockets' /\ mode' = mode /\ Preflight' = Preflight
  BY <1>1, <1>a, SetupSame, SocketsSame DEF Holding, TaskHolds, RouteHolds
<1>2. CASE stop(h)
  <2>1. /\ Still /\ UNCHANGED <<is_open, managed_listeners, handles>>
        /\ mode' = mode /\ Preflight' = Preflight /\ Sockets'
        /\ phase[h] \in {"running", "stopping"}
    BY <1>a, <1>2 DEF stop, relays, listeners
  <2>2. /\ phase' \in [Hosts -> Phases] /\ phase'[h] = "closing"
        /\ notified' \in [Hosts -> SUBSET Forwards]
        /\ notified'[h] = {f \in Forwards : task[h][f] = "running"}
        /\ \A g \in Hosts : g # h => phase'[g] = phase[g] /\ notified'[g] = notified[g]
    BY <1>1, <1>2 DEF stop, Phase, Types, Phases
  <2>3. Types' /\ OnlyHost(h)
    BY <1>1, <2>1, <2>2 DEF Types, OnlyHost
  <2>5. HandlesOf(h)'
    BY <1>1, <2>1, <2>2 DEF HandlesOf
  <2>6. ASSUME mode = "managed" PROVE ListenersOf(h)'
    <3>1. ListenersOf(h)
      BY <2>6 DEF IInv
    <3>2. QED
      BY <2>1, <2>2, <3>1 DEF ListenersOf
  <2>7. QED
    BY <2>1, <2>3, <2>5, <2>6, OneHost
<1>3. CASE close_managed(h)
  <2>1. /\ Still /\ UNCHANGED <<handles, notified>> /\ phase[h] = "closing"
        /\ mode' = mode /\ Preflight' = Preflight /\ Sockets'
    BY <1>a, <1>3 DEF close_managed
  <2>2. /\ phase' \in [Hosts -> Phases] /\ phase'[h] = "aborting"
        /\ managed_listeners' \in [Hosts -> SUBSET Remotes]
        /\ \A g \in Hosts : g # h => /\ phase'[g] = phase[g]
                                     /\ managed_listeners'[g] = managed_listeners[g]
    BY <1>1, <1>3 DEF close_managed, Phase, Types, Phases
  <2>3. /\ is_open' \in [Hosts -> [Remotes -> BOOLEAN]]
        /\ \A r \in Remotes : is_open'[h][r] <=> is_open[h][r] /\ r \notin managed_listeners[h]
        /\ \A g \in Hosts : g # h => is_open'[g] = is_open[g]
    BY <1>1, <1>3 DEF close_managed, Types
  <2>4. Types' /\ OnlyHost(h)
    BY <1>1, <2>1, <2>2, <2>3 DEF Types, OnlyHost
  <2>6. HandlesOf(h)'
    BY <1>1, <2>1, <2>2 DEF HandlesOf
  <2>7. ASSUME mode = "managed" PROVE ListenersOf(h)'
    <3>1. ListenersOf(h)
      BY <2>7 DEF IInv
    <3>2. QED
      BY <2>1, <2>2, <2>3, <3>1 DEF ListenersOf
  <2>8. QED
    BY <2>1, <2>4, <2>6, <2>7, OneHost
<1>4. CASE stopped(h)
  <2>1. /\ Still /\ UNCHANGED <<is_open, managed_listeners, handles, notified>>
        /\ mode' = mode /\ Preflight' = Preflight /\ Sockets'
        /\ phase[h] = "aborting" /\ handles[h] = {}
    BY <1>a, <1>4 DEF stopped, relays, listeners
  <2>2. /\ phase' \in [Hosts -> Phases] /\ phase'[h] = "stopped"
        /\ \A g \in Hosts : g # h => phase'[g] = phase[g]
    BY <1>1, <1>4 DEF stopped, Phase, Types, Phases
  <2>3. Types' /\ OnlyHost(h)
    BY <1>1, <2>1, <2>2 DEF Types, OnlyHost
  <2>5. HandlesOf(h)'
    BY <1>1, <2>1, <2>2 DEF HandlesOf
  <2>6. ASSUME mode = "managed" PROVE ListenersOf(h)'
    <3>1. ListenersOf(h)
      BY <2>6 DEF IInv
    <3>2. QED
      BY <2>1, <2>2, <3>1 DEF ListenersOf
  <2>7. QED
    BY <2>1, <2>3, <2>5, <2>6, OneHost
<1>5. ASSUME NEW f \in Forwards, abort(h, f) PROVE IInv'
  <2>1. task[h][f] # "absent" /\ handles' = [handles EXCEPT ![h] = @ \ {f}] /\ FreeSocket(h, f)
        /\ UNCHANGED <<setup, phase, todo, routes, is_open, established, managed_listeners, notified>>
        /\ mode' = mode
    BY <1>1, <1>5 DEF abort, HandlesOf, mode, relays, listeners
  <2>2. CASE task[h][f] # "failed"
    BY <1>5, <2>1, <2>2, EndKeeps DEF abort
  <2>3. CASE task[h][f] = "failed"
    <3>1. task' = task /\ socket' = socket /\ mode # "managed"
      BY <1>1, <1>5, <2>1, <2>3 DEF abort, FreeSocket, TaskHolds, HandlesOf
    <3>2. /\ handles' \in [Hosts -> SUBSET Forwards] /\ handles'[h] = handles[h] \ {f}
          /\ \A g \in Hosts : g # h => handles'[g] = handles[g]
      BY <1>1, <2>1 DEF Types
    <3>3. Types' /\ OnlyHost(h)
      BY <1>1, <2>1, <3>1, <3>2 DEF Types, OnlyHost
    <3>4. Sockets'
      BY <1>a, <2>1, <3>1
    <3>5. HandlesOf(h)'
      BY <1>1, <2>1, <2>3, <3>1, <3>2 DEF HandlesOf
    <3>6. QED
      BY <3>1, <3>3, <3>4, <3>5, OneHost
  <2>4. QED
    BY <2>2, <2>3
<1>6. QED
  BY <1>2, <1>3, <1>4, <1>5 DEF Stop

-----------------------------------------------------------------------------
(* The theorems. *)

\* The invariant of hosts: handles, sockets and listeners.
THEOREM HostInductive == ASSUME Parameters PROVE HostSpec => []IInv
<1>1. HostInit => IInv
  BY InitInv
<1>2. IInv /\ [HostNext]_hostVars => IInv'
  <2>1. SUFFICES ASSUME IInv, [HostNext]_hostVars PROVE IInv'
    OBVIOUS
  <2>2. ASSUME NEW h \in Hosts, NEW f \in Forwards, accept_fails(h, f) \/ notice(h, f) PROVE IInv'
    BY <2>1, <2>2, EndKeeps DEF accept_fails, notice, relays, listeners
  <2>3. ASSUME NEW h \in Hosts, runner_start(h) PROVE IInv'
    <3>1. CASE Phase(h, "starting")
      <4>1. mode # "managed" /\ UNCHANGED <<is_open, established, managed_listeners>>
        BY <2>3 DEF runner_start, relays, listeners
      <4>2. QED
        BY <2>1, <2>3, <3>1, <4>1, EarlyKeeps DEF runner_start, Phase, Early, IInv, Types
    <3>2. CASE phase' = phase
      BY <2>1, <2>3, <3>2, OthersKeep DEF runner_start, relays, listeners, IInv, Types
    <3>3. QED
      BY <2>3, <3>1, <3>2 DEF runner_start
  <2>4. CASE runner_stop
    BY <2>1, <2>4, OthersKeep DEF runner_stop, relays, listeners, IInv, Types
  <2>5. ASSUME NEW h \in Hosts, NEW r \in Remotes, channel_changes(h, r) \/ control_ends(h, r) PROVE IInv'
    BY <2>1, <2>5, OthersKeep DEF channel_changes, control_ends, IInv, Types
  <2>6. CASE UNCHANGED hostVars
    BY <2>1, <2>6, OthersKeep DEF hostVars, relays, listeners, IInv, Types
  <2>7. QED
    BY <2>1, <2>2, <2>3, <2>4, <2>5, <2>6, StartKeeps, StopKeeps, RunKeeps, RoutesKeep DEF HostNext
<1>3. QED
  BY <1>1, <1>2, PTL DEF HostSpec

\* After Host::stop, at whatever point of its start and of its tasks it came, no bridge task
\* of the host is left, an address it still has is held by the receivers of UDP routes, and a
\* managed host's listeners are closed, but for those a task opened again on its way out.
THEOREM StopsCompletely == ASSUME Parameters PROVE HostSpec => []StopIsComplete
<1>1. IInv => StopIsComplete
  <2>1. SUFFICES ASSUME IInv, NEW h \in Hosts, phase[h] = "stopped"
                 PROVE  /\ \A f \in Forwards : task[h][f] \notin {"spawned", "running"}
                        /\ \A a \in Addresses : socket[a] = h =>
                             \E f \in Locals : address[f] = a /\ RouteHolds(h, f)
                        /\ mode = "managed" =>
                             \A r \in Remotes :
                                task[h][r] = "absent" \/ r \in notified[h] => ~is_open[h][r]
    BY DEF StopIsComplete
  <2>2. \A f \in Forwards : task[h][f] \notin {"spawned", "running"}
    BY <2>1 DEF IInv, HandlesOf
  <2>3. \A f \in Locals : ~TaskHolds(h, f)
    BY <2>2 DEF TaskHolds, Forwards
  <2>4. \A a \in Addresses : socket[a] = h => \E f \in Locals : address[f] = a /\ RouteHolds(h, f)
    BY <2>1, <2>3 DEF IInv, Sockets, Holding
  <2>5. mode = "managed" =>
            \A r \in Remotes : task[h][r] = "absent" \/ r \in notified[h] => ~is_open[h][r]
    BY <2>1 DEF IInv, ListenersOf
  <2>6. QED
    BY <2>2, <2>4, <2>5
<1>2. QED
  BY <1>1, HostInductive, PTL
============================================================================
