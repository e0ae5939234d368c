# A TLA+ model of azure-relay-bridge-rs

azbridge tunnels TCP, UDP, Unix sockets and HTTP through Azure Relay hybrid
connections. The repository holds the bridge itself (`src/`), a Relay SDK
(`crates/azure-relay`), and a broker (`crates/azbridge-broker`): a web service
that owns workspaces, relays, configuration profiles and gateway credentials,
from which managed bridges fetch what to run. This directory models the parts
whose correctness depends on order: handlers that write several rows without a
transaction, requests that race for one row, and tasks that share flags,
channels and a shutdown signal.

## 1. Inventory

| component (source) | state | operations | hard behaviour | what makes it correct | here |
|---|---|---|---|---|---|
| control plane: workspaces, members, connections (`workspaces.rs`, `reconciler.rs`) | rows of Workspaces, Members, UserWorkspaces, Connections; hybrid connections in ARM | create / delete workspace, member and connection; reconciler pass every 15 s | each handler is a list of writes that may stop after any of them, and a write may land after its handler gave up the lock; ARM answers late or fails; retries are counted in the row | deletions complete and leave nothing; an administrator always remains; retries end; nothing in use is destroyed | `BrokerControl` |
| profiles and revisions (`profiles.rs`) | Profiles, RevisionMetadata, immutable blobs | create, delete, save revision, publish, roll back | number, blob and metadata are three writes; a revision is validated at one time and served at another | revisions are immutable; what is published can be served | `BrokerControl` |
| gateways (`gateways.rs`) | Gateways rows, credential hashes | mint, revoke, logout, config, status, relay token | a credential outlives the request that made it | a live credential can always be served; a revoked one lapses | `BrokerControl` (mint, revoke, logout, bearer), `RelayTokens` (relay tokens), `GatewayClient` (status) |
| device-code flows: gateway enrollment (`gateways.rs`) and browser login (`auth/device.rs`) | one Enrollments row with an ETag, `mutation_lock` | start, poll, clean-up | polls race each other, the clean-up and the clock; a dropped request's write lands late | one credential per code; polling is paced; expired rows go | `DevicePolling`, `OneTimeCode` |
| authorization (`auth.rs`) | platform administrators, memberships | authorize | a role is checked under the lock, not when the request arrives | an administrator always remains | `BrokerControl` |
| browser login and sessions (`auth.rs`) | an Enrollments row and a cookie per login, a session cookie per browser | login, callback, me, mutations, logout | callbacks are repeated, tabs share cookies and sign in as different users, answers are late | a challenge is spent once, in its browser | `BrowserLogin` |
| rate limit (`auth.rs`) | a queue of instants per bucket | rate_limit | the clock is read before the mutex is held | the limit holds in every window | `RateLimit` |
| storage (`storage.rs`) | tables with ETags, create-only blobs | get, insert, replace, delete, put, list | a write may be applied and its answer lost, or applied after its caller gave up; uploads are repeated; lists are paged | every answer is true for good; a list is complete | `Storage` |
| ARM client and key cache (`relay.rs`) | ARM's keys, a key cache (300 s) | ensure, delete, rotate, sign | a regeneration fails half-way or lands late; a read races a rotation | tokens are signed with a live key | `RelayTokens` |
| token providers and renewal (`token_provider.rs`, `aad_token_provider.rs`, `listener.rs`, `src/broker.rs`) | a token cache, the renewal timer | get_token, renew, reconnect | margins, caches and two clocks | the authorisation never lapses without an outage | `RelayTokens` |
| relay listener (`azure-relay/listener.rs`) | `is_open`, status, `Notify`, accept channel, ws channel, control loop | open, close, accept, reconnect, renew token | a notification reaches only who waits at that moment; four tasks share bounded channels | the status tells the truth; nothing is lost or stuck | `RelayListener` |
| relay client and stream, stream pump, TCP and sockets, remote bridge's dispatch, preamble (`client.rs`, `stream.rs`, `stream_pump.rs`, `tcp.rs`, `socket.rs`, `remote_bridge.rs`, `preamble.rs`) | two sockets, one WebSocket, two copy tasks a side | connect, dispatch, copy, half-close, drop | one side ends while the other still sends; data follows the preamble in one message | data arrives whole and in order; an end is passed on | `Tunnel` |
| UDP (`udp.rs`) | route table, channels, idle timers | receive, route, send, reply, expire, stop | a write is given up in the middle of a frame; a route's tasks time out separately; one loop serves all | whole datagrams only; a send never holds the loop for ever (opening a route may) | `UdpRoute` |
| bridge host (`host.rs`, `remote_bridge.rs`, `tui/runner.rs`, `main.rs`) | task handles, managed listeners, sockets | start, ready, report, stop; the TUI's run and stop | stop while starting; a run that outlives the UI's next one | nobody accepts for a host that was stopped | `BridgeHost` |
| managed gateway client (`src/broker.rs`) | `gateway.json` of the user and the machine, credential | login, run, logout | the file and the broker's record change one after the other | no credential is orphaned or forgotten while live | `GatewayClient` |
| hosts file (`hosts.rs`) | tagged blocks and disabled lines in `/etc/hosts` | apply, remove | several tags disable and restore each other's lines | the user's lines come back; a name maps to one address | `HostsFile` |
| HTTP forwarding, configuration, CLI, screens of the TUI, web UI, deployment | | | | | not modelled (pure data, I/O or user interface) |

Interactions. All mutating handlers of the broker, enrollment polls and each
workspace's turn in a reconciler pass hold `AppState.mutation_lock`; device login
polls and the clean-up do not, and rely on ETags. Enrollment ends in `mint`.
A bridge owns listeners; the listener's control loop spawns a task per accept
command, which hands the stream to the bridge through the accept channel. The bridge
dispatches it by its preamble to a forwarder, whose pump owns it from then on. A
managed host takes its credential from `gateway.json`, its configuration and its relay
tokens from the broker.

## 2. Modules

**BrokerControl** is the control plane for one workspace. A handler runs under the
lock, so it is one action; but its writes are not a transaction. `done` is the
number of writes that reached the store before an error, a disconnect or a crash,
and every value is a behaviour. `reconcile_active`, `connection_results` and
`ensure_results` are sets of outcomes, because handlers such as `create_workspace`
end with a reconciliation of what they just wrote. ARM may answer anything a
response can be turned into; a delete may take effect whatever the answer.
`relays` are the names of the hybrid connections that are known to exist.
A configuration is abstracted to the set of relay names it refers to, which is all
`check_config` and `connection_in_use` look at. Retry delays are abstract: a row may
always be found not yet due.

The lock does not cover a write that is still under way. When the 30 s of
`storage.rs:405` pass, or the handler's future is dropped, the lock is free and the
request may reach the table later, between or after the steps of other handlers.
`gives_up` leaves such a write in `late`, `land` is its arrival, and `landed` remembers
whose write of which key it was. A replace or delete carries the ETag of the row its
handler read and dies when that row is written (`standing`); an insert only needs the row
to be absent. Of a handler's writes the one under way is the last it made. Not followed
are writes whose late arrival does what some other step may do at that moment: the
outcomes and repairs that the reconciler saves, the deletes of a clean-up,
`create_workspace`'s rows, and the index, which no handler decides by. ARM is taken to
execute the requests for one relay in the order in which they are sent. Most
promises between rows do not survive late writes; each such property names the
handlers whose late writes can break it, and TLC finds it violated when any of them is left
out. `LateDeletion.cfg` shows one of these cases by itself.

**DevicePolling** is one row of the Enrollments table with any number of polls, each a
step per await, for both flows (`kind`). A dropped poll frees the lock at once while
its write may still land. **OneTimeCode** is its abstract specification: open, then
claimed by one poll or closed; only the claim is issued, once.

**RelayListener** is `HybridConnectionListener`: the owner's open and close, split at
the await on the status lock; one control loop per call of open; the sink and renewal
tasks; the tasks for accept and request commands; the acceptor. `woken` is the fate of
a `Notify` used with `notify_waiters`: it reaches only futures that exist, and is lost
when `select!` takes another ready branch. Although the listener's handles can be cloned,
open and close are modelled for one owner, who makes one call at a time, as the bridge does. Durations, message contents and
`last_error` are left out.

**RelayTokens** is one hybrid connection and one gateway over time: ARM's two keys, the
broker's key cache under its lock, rotation as two regenerations of which either may
fail or take effect late, the gateway's token cache, and the renewal loop. The gateway's
clock is `now + skew`. Requests last at most `TIMEOUT`. A gateway's revocation may reach
its row at any moment, under any request, since its write may be late; what stops a request
that began before it is the ETag of the save that ends it (`sign_gateway`).

**GatewayClient** is `azbridge login`, `logout` and a managed run against the broker: a
step for each request and each file operation, any of which may fail, lose its answer or
be the last before the process is killed. `lost` collects the credentials a fault kept
from being saved or revoked, which no code can help.

**BridgeHost** is `Host::start` and `Host::stop`: forwards are started one by one, in
the host (managed) or in their tasks (unmanaged); sockets may be held by others; stop
may come at any step and goes notify, close, abort. A managed listener is opened, seen
online, and listed in three steps, while its channel goes on changing. What a stop leaves
behind is there as well: the receivers of UDP routes, which keep the bridge's socket bound
until they time out (`routes`), and a control loop that misses the closing of its listener
(`control`). The TUI's `Runner` has several hosts in one process.

**Storage** is one partition and one blob, used by several handlers, with the memory and
the Azure back end. A request may be carried out after its caller timed out.

**HostsFile** keeps the hosts file as a sequence of lines (the user's, markers, aliases,
disabled or not) and computes `allocate`, `merge_block` and `remove_block` on it.

**Tunnel** is one connection from accept to drop, both bridges and the WebSocket between
them. Applications write numbered chunks. `up` and `down` are the copy tasks of a side, which
own the streams. `stream_pump::run` waits for them, for five seconds after the first; when it
returns it drops two task handles and nothing else, so no state stands for it.
Back-pressure is left out: sockets and streams take what is written to them. **UdpRoute** is one UDP client, the routes it is given one
after the other, and their four tasks.

**BrowserLogin** is the browser's side and the broker's side of an OAuth login, with
numbers for secrets. **RateLimit** is one bucket.

**MCParts**, **MCForwarding**, **MCLifecycle** and **MCLogin** put parts that share no state
into one run: a behaviour exercises one part and the others stay in one of their initial
states, so each is checked as if alone. A module that shares a run with others therefore has
names of its own for its specification (`ClientSpec`, `HostSpec`, `StoreSpec`, ...). Where
one of the parts has fairness, it is owed only by the behaviours that exercise it.
**MCControl** and **MCListener** divide the behaviours of one module in the same way, by a
`focus` that is chosen at the start. For the control plane it is the rows of a workspace whose
creator stays its only member, or the members of a workspace without profiles. The
checks of a handler read members only to find one who may make the request, which the creator
always is, so neither half misses an interleaving that matters to the other; a late write of a
member does not occur in the first half, nor one of a profile in the second. For the
listener it is two control loops without commands from the relay, or one loop with accept
commands, or one with requests; the commands use the channels of one loop only.

| definition | code |
|---|---|
| `workspace`, `members`, `index`, `connections`, `profiles`, `metadata`, `blobs`, `gateways` | the tables of `storage.rs` with the records of `models.rs` |
| `reconcile_once` | `reconcile_workspace_locked` under `run_reconciler` |
| `row`, `polls[q].seen` | the Enrollments entity, and the copy with its ETag a poll holds |
| `matches` | `If-Match` of `replace` and `delete` |
| `pc[l]` | the await at which `control_loop` stands |
| `out[l]`, `sink[l]` | the 16-slot ws channel and the task that drains it |
| `accept_queue` | the 100-slot accept channel |
| `keys`, `op` | `ArmRelayManager.keys`, and the request that holds its lock |
| `cache`, `held`, `due` | `BrokerTokenProvider.cache`, the end of the token the relay has, the renewal loop's sleep |
| `saved`, `staging` | `gateway.json` by scope, and its temporary file before the rename |
| `late`, `landed` | requests that `storage.rs` has given up, and those of them that were carried out after all |
| `task`, `handles`, `managed_listeners`, `socket` | the forward tasks, `Host.handles`, `Host.managed_listeners`, bound addresses |
| `effects`, `answer` | what Azure did for a call, and what the call returned |
| `wire`, `ws`, `gone` | frames under way, the close handshake, streams that were dropped |
| `jar`, `tab[t].shows` | a browser's cookies, and the session whose token a page got from `/api/v1/me` |

`PROJECT.json` maps every definition to its lines. Operators introduced by
"The bug ..." are faulty variants of the definition after them; no specification uses
them. Each is the form of the code under which the property named with it fails.

## 3. Runs

| run | instance | shows |
|---|---|---|
| `publishing` | 1 user, 2 connections, 1 profile, 2 revisions, 1 gateway, 1 attempt, 1 late write (207,000 states) | `LiveGatewayServed`, `PublishedRelaysExist`: no order of publish, roll back, delete and reconcile leaves a live gateway without its configuration or relay, but for the late writes that the properties name. `RevisionsImmutable`, `ConnectionLifecycle`, `TypeOK` (attempts within their bound) hold whatever is late. |
| `lifecycle`: control plane | 2 users, 2 connections of one name, 1 profile, 1 gateway, 1 attempt, 1 late write, with fairness | `DeletionCompletes`, `ConnectionDeletionCompletes`, `DeletedLeavesNothing`, `LastAdminKept`, with the late writes they name. |
| `lifecycle`: device codes | 2 polls, lifetime 2, clock to 3, intervals to 3 (97,000 states in all) | `OneTime` (the flow implements `OneTimeCode`; in particular a row that is gone stays gone), `PollsPaced`, `ExpiredRemoved`. |
| `listener` | 2 control loops (open called twice), or 1 with 2 connections or 1 request, channels of 1 slot (25,000 states) | `OnlineIsConnected`, `EndedIsOffline`, `ConnectionsDelivered`, `Reconnects`, `SendsEnd`, `RequestsEnd`, `ClosedDoesNotReconnect`. |
| `forwarding` | a tunnel with 2 chunks each way, requests by name and by number (a stream found by number goes on as one found by name); 2 UDP routes, 2 datagrams, 1 reply, a timeout of 1 tick | `DeliveredInFull`, `EndArrives`; `FramingExact`, `LoopRecovers` (367,000 states). |
| `login` | 2 tabs in 1 or 2 browsers, 2 users of whom 1 is an administrator, 2 challenges, 2 sessions; a bucket of 2 in a window of 3, 2 requests, waits of 1 | `ChallengeSpentOnce`, `SessionsStayHome`; `AdmissionsPaced`. |
| `parts`: tokens | 2 rights, keys to version 1, tokens of 4, margin 2, clock to 5, all providers | `NoDeadKeyCached`, `RevokedGatewayLapses`, `LapseNeedsOutage`, `RenewalsAdvance`. |
| `parts`: gateway | 1 process, 3 credentials, 2 revisions | `LogoutRevokesFirst`, `NothingOrphaned`. |
| `parts`: host | 2 local forwards on 1 or 2 addresses and a remote one, managed or not; 2 runs of the TUI | `StopIsComplete`. |
| `parts`: file | 2 tags, 2 names whose hashes collide in 2 slots, 1 line of the user, 3 writes | `UserLinesKept`, `ApplyMaps`. |
| `parts`: store | 2 handlers, 2 rows, 2 calls and a list | `AnswersAreTrue`, `ListIsComplete` (1,755,000 states in all parts). |
| `listener_close`, `listener_accept`, `half_close`, `udp_idle`, `late_deletion`, `hosts_reapply` | violated | see below |

Bounds. Two revisions are enough for a roll-back past a newer revision; two connections for
a revision that names one of them while the other is deleted; two polls for every race,
since a race is between a write and the one that invalidated it; a lifetime of two
intervals, so that polls happen before, at and after expiry; one late write at a time, and
one that lands (`MaxLate`), since each of them is about one row that other handlers have
gone on from (the theorems have any number). Channel capacities of 1 reach the full channel
in a few steps. A token's life of 4 with a margin of 2 and a clock to 5 has room for an
issue, a renewal that fails, a second one and the expiry; the gateway's clock is one tick
ahead, since one behind gives the gateway more of its margin away and `LapseNeedsOutage`
states by how much (`skew`). Three credentials are one in the environment and one for each
file; three writes are two tags and a removal; two names in two slots always collide. Two
tabs are the races of two logins and of a page with a login, in the same browser or not.
Tabs and browsers are symmetric. The clock, revision numbers and intervals stop at
`MaxTime`, `MaxRevision` and `MaxInterval`; those runs do not check deadlock, and neither do
the runs of `BrokerControl`, where a deleted workspace is the end, and of the other modules,
whose tunnels, hosts, commands and calls come to an end. `GatewayClient` and `HostsFile` are
checked with one process at a time: their code takes no lock, and the comments on the
properties say what overlapping commands do.

Fairness. `run_reconciler` loops for ever, 15 s apart, and each pass issues every pending
deletion again; a deletion that is asked for again and again is confirmed at some time
(strong fairness of `confirm_workspace` and `confirm_connection`: an assumption on ARM and
the store, without which no deletion can be promised). The clean-up loops for ever and time
passes. In the listener, tokio runs every task that can run, its semaphore serves waiting
senders in order (strong fairness of the sends), the owner finishes the open or close it
began and calls accept in a loop; of the network, only that an attempt or a write ends, with
success now and then. (`connect_async` has no time-out of its own.) In `Tunnel` every copy
task and handler that can go on does; nobody makes an application write or the relay fail.
In `UdpRoute` the sender of a route writes, fails or times out, and a loop that waits for
room in a route's channel is served when there is room. Opening a route is not assumed to
end: `create_udp_route` reads the preamble's answer without a time-out, in the one loop and
under the routes lock, so a remote side that never answers stops the forwarding of all
clients, and `LoopRecovers` is about sends only. Nothing is assumed about what the relay
sends or when anybody calls open, close or a handler of the broker. Weak fairness is enough
for all but the sends and the confirmations: tasks are not disabled by others once they can
run.

### Disagreements with the documentation

`listener_close`: `close` is documented to stop accepting new connections. It clears
`is_open` and calls `notify_waiters`; a control loop that is inside
`connect_control_channel` is not waiting and misses it. It does not look at `is_open`
again until the channel ends: it writes Online and serves accept commands for as long
as the connection lasts. `RemoteForwardBridge::ready` calls `close` in this state when
its start-up timeout fires. What does hold is `ClosedDoesNotReconnect`: once such a
channel ends, the loop ends.

`listener_accept`: `accept_connection` is documented to return `Ok(None)` when the
listener has been closed and no more connections will arrive. The sender of the
channel lives in `ListenerInner`, next to the receiver, so `recv` never sees it
closed and the caller waits for ever.

`half_close`: the stream documents that after a shutdown "the read side remains open so
the remote peer can finish sending data". But a shutdown sends a WebSocket Close, which ends
both directions: the stream that receives it is then closed by its peer, and its next write
fails at once. A client that half-closes after its request (which `stream_pump` passes on as a
shutdown) loses the part of the answer that is written after the Close has arrived. The five
seconds of `stream_pump::run` have no part in this.

`udp_idle`: a route records its last activity "for idle timeout", and nothing reads it.
Each task that reads times out after 240 s without a frame of its own, so a client that
keeps sending, to a target that answers less often, loses the reader of its replies,
while its route stays in the table.

`late_deletion`: "Deletions retry until absence is confirmed", says `reconciler.rs`. The
insert of a connection's row is under way when its handler gives up; an administrator
deletes the workspace, which has no connection rows and is marked Deleting; the row lands.
From then on every clean-up pass ends with a Conflict because there is a row,
`delete_connection` refuses because the workspace is Deleting, and passes over the
connections are made for other workspaces only. Nobody can remove either.

`hosts_reapply`: `existing_entries` promises that "re-applying never moves" the addresses of a
tag's block, but it does not see an alias that another tag has disabled. Tag A applies
two names whose hashes collide, B disables A's second one by an apply with replace, and A
applies that name alone: it moves to the first slot. `ApplyMaps` says what does hold.

Noticed without a run of their own:

* `stream_pump.rs:26` says of the second copy "then abort it"; the timeout drops the
  `JoinHandle`, which detaches the task, and the task goes on.
* After `Host::stop` the receivers of a UDP bridge's routes keep its socket for up to 240 s
  after their last reply, the tasks of connections go on, and a bridge that is not managed
  leaves its listener open when it was busy at the moment of the notification (the listener is
  dropped, which does not end its control loop).
* `README.md:161` says `ExitOnForwardFailure` stops when any bridge fails to start; an
  unmanaged bridge binds in its task, and a failure there is only logged (`BridgeHost`'s
  `run`; the preflight finds most of them first).
* The comment on `conflicts` in `hosts.rs` speaks of lines outside any azbridge block;
  the code also disables those in blocks of other tags, which `ApplyMaps` needs. With
  three tags, removing one may restore a line while another's alias is active. A write
  that is cut short leaves a block without its end.
* A managed bridge's `run` may open its listener again between `Host::stop` closing it
  and aborting the task.
* A run of the TUI that ends clears the shared sender, also when it is the next run's.

## 4. Proofs

TLAPS proves the following for every value of the constants. The assumptions are those named
in the modules: bounds and times are naturals, `MAX_ATTEMPTS` and the channel capacities are
not 0, the renewal margin is within a token's lifetime, platform administrators are users,
and there are at least as many loopback slots as hostnames (`FileAssumption`: 65534, and
`allocate` probes without end when they are used up). Where a module's constants stand for
something that TLC gets by the values in its configuration, the theorem says so as a
hypothesis: routes, rows and hosts are numbers, local and remote forwards differ
(`Parameters`), the bucket's bounds are naturals (`Bucket`), and commands of the gateway
client do not overlap (`OneCommand`, without which its properties are false, see section 3).
Each inductive invariant was checked with TLC before it was proved.

`Broker_proofs`, control plane: `TypeCorrect`, `RetriesBounded`, `RelaysExist`,
`GatewaysServed`, `DeletionIsClean` (invariants), `RevisionsNeverChange`, `RowsMoveForward`,
`AdminNeverLost` (action properties), for any number of late writes. What a step may do is
said once, in `Effect`: what the steps that run under the lock and those that land have in
common, table by table, with the reason each row may change for. `StepEffect` shows that
every action is one of these; the invariants are then proved from `Effect`, not from the
handlers. `Base` holds whatever is late: the types, the form of each row (`RowOK`,
`WorkspaceOK`: a row that may be tried again has attempts left, an absent one is empty),
`NumbersReserved` (every blob's and metadata row's number was handed out, which makes saved
revisions immutable), `MetadataHasBlob`, and what a write in flight still says about the row
it depends on (`LateOK`): a conditional write was made from the row as it is, an insert from
facts that no later step undoes. `LiveGatewayServed` and `PublishedRelaysExist` rest on
chains of facts kept by different handlers, each of which holds until a late write of
certain handlers has landed (`Chains`): a name has one row and a Ready row's relay exists
(`RowsExist`); what a published revision names has its relay and a row (`RelayChain`), which
is Ready (`ReadyChain`, kept by `publish` and by `connection_in_use` in
`delete_connection`); only a Ready workspace has Ready rows (`ReadyInReady`, kept by
`delete_workspace`); a live gateway's profile is present and published (`LiveChain`, kept by
`mint` and `delete_profile`).

`Broker_proofs`, stores: `AnswersTrue`, `ListsComplete`. A verdict that was reached is true
for good, also while its answer is still under way (`Truth`): a table request that was carried
out is not under way any more, and an upload leaves a revision that stays. A list has what
is left of the rows that were there when it began, up to its cursor (`ListOK`).

`DevicePolling_proofs`: `CodesAreOneTime`, the refinement of `OneTimeCode`. The poll
that is about to issue is the only one, the row is gone and nothing was issued
(`ClaimIsUnique`, `Unissued`). It rests on the delete being conditional and coming
before the issue, not on the lock, which device login does not take.
`PollsAreSpaced` (`PollsPaced`) rests on `Pace`: a poll whose ETag still matches has the
row as it is in hand and read it after GitHub was last asked (`SeenIsCurrent`), and the
row's `next` is an interval after that (`RowPaced`); early polls and slow-downs of others
only move it on.

`RelayListener_proofs`: `ChannelsBounded`, `OnlineMeansConnected`, `ClosedMeansOffline`. The
status of a closed listener needs `Explained`: a status other than Offline means that the
listener is open, its owner is inside open or close, or a loop is at a step after which it
writes the status again.

`RelayTokens_proofs`: `DeadKeysDropped`, `RevocationTakesEffect`, `LapseMeansOutage`,
`RenewalsBringNewTokens`. `KeysInv` follows a key from ARM through the request that read it
into the cache: what a request is about to insert is no older than the last confirmed
regeneration, since rotations and key reads exclude each other. `BrokerInv` bounds every
token by its making and by the revocation; that no token is made after the revocation, which
may land under any request, is the condition of the save in `sign_gateway`. `LoopInv`
relates the timer of the renewal loop to the token it renews: the loop began to ask, or to
fail, when the margin was left, or less by one request. The proof failed for a gateway clock
so late that the margin less one request is used up before the loop wakes;
`LapseNeedsOutage` now excludes it (`skew + TOKEN_RENEWAL_MARGIN > TIMEOUT`), and with 300 s
and 30 s the code has room for any clock that is less than four and a half minutes late.

The same module has `GatewayClient`: `CredentialsFound` (`NothingOrphaned`) and
`RevokedBeforeRemoved` (`LogoutRevokesFirst`). What a command relies on from one step to
the next (`Relies`): a login's scope is still free, and a logout would still discover the
credential it is revoking, so the file it picks afterwards is the one with that credential.

`BrowserLogin_proofs`: `ChallengesSpentOnce`, `SessionsInTheirBrowser`. A challenge that has
its row was not used; the tab that deleted the row is alone with it (`Spent`). The browser
that asked for a challenge is followed through cookie and callback (`Home`). The same module
has `RateLimit`: `AdmissionsArePaced`. What is no longer in the bucket was out of the window
by a clock at most `STALL` ahead of any later request (`Suffix`), so two admissions
`CAPACITY` apart are a window less `STALL` apart (`Apart`); a span has no two of those, and
its indices therefore fit into an interval of `CAPACITY`.

`Forwarding_proofs`: `FramesExact` (`FramingExact`). Target, stream and channel of a route
are one rising sequence of datagrams (`Pipe`); whoever cuts a frame has stopped sending,
and a reader that met the cut has nothing left to read (`RouteOK`). `TunnelDelivers`
(`DeliveredInFull`) follows a tunnel's chunks the same way, in both directions: those got,
on the stream and in the copy's hand are one sequence, with a close frame at its end only
once the sender has shut down (`Flow`). EOF may also be read without a close frame, when
the other handler dropped the stream; `Finish` says why no chunk is lost then: a side
comes to the end of what it reads when the other has shut down, or has itself come to the
end of what this side sends, and an application whose own write side is open rules out the
second. `Preamble` and `NoFault` keep the handlers' stages in step, so that no side fails
once the remote one pumps, and `AfterFault` confines what a cut loses. There is no
hypothesis on the amount of data.

`BridgeHost_proofs`: `StopsCompletely`. A host has the handle of every bridge task of its
that is alive (`HandlesOf`), an address belongs to the one forward whose task or whose
routes hold it (`Sockets`), and an open listener of a managed host is the one its start is
waiting for, or it has a task and is in the list until the list is closed; one that was
closed after its task had been notified stays closed, since that task will not open it again
(`ListenersOf`).

`HostsFile_proofs`: `FileInductive`, `UserLinesComeBack` (`UserLinesKept`), `ApplyMapsNames`
(`ApplyMaps`), for any number of commands, tags, names, slots and lines and for any hash.
The invariant `FileInv` says of the file, and of what each command has read, that the lines
of a tag are one whole block with each name and each address once (`WellFormed`), and that
the file without the lines of all tags, and with what they had disabled, is the user's
(`Cleaned`). It does not mention in which order the tags came or which of them disabled a
line, and need not: on a well-formed text `remove_block` is `Cleaned` for one tag
(`RemoveIs`), `Cleaned` for some tags and then for others is `Cleaned` for all of them
(`CleanedTwice`), and what `merge_block` adds or disables, `Cleaned` takes out or restores
(`CleanedSame`). `RemovedAll` brings this to any order of removals. `allocate` gives each
name an address of its own (`AllocateSpreads`): probing comes to every slot (`ProbesAll`),
and with as many slots as names one is free (`SlotFree`); no name of a well-formed block
loses the address that an active line gave it (`ExistingKept`). The model computes these
texts with recursive functions (`InOrder`, `allocate`, the removals). The library's
induction theorems take an operator and cannot be used, so two lemmas stand in for them:
`Steps` is induction with a set for each number, by the least number at which the claim
would fail, and `Recursion` says that a function given by a first value and a step exists.
The sequence that lists a set of numbers in their order is unique (`ListsUnique`), which is
how two filtered texts are shown to be equal.

Two definitions were ambiguous as TLA+ though TLC read them as meant, and are now written
without overlapping `CASE` arms: `Verdict` of `Storage`, `discover_state` of
`GatewayClient`.

Model-checked only:

* the liveness properties (`EndArrives`, `LoopRecovers`, `DeletionCompletes`,
  `ExpiredRemoved`, those of `RelayListener` and the rest): temporal reasoning under
  fairness is outside what these provers do.

Every invariant and every safety property of a step that a passing run checks is stated by a
theorem.

## 5. Plan

1. *Abstract specifications.* A listener seen by its bridge (open, up, closed) that
   `RelayListener` implements and `BridgeHost` uses; a credential's life (issued, usable,
   revoked) that `BrokerControl`, `DevicePolling` and `GatewayClient` share.

## 6. Not modelled

The encodings (Azure Table and Blob requests, ARM JSON, WebSocket frames, connection
strings, the YAML schema beyond the relay names), rendering and texts, cryptography (a
sealed cookie, a signature or a hashed credential is taken as unforgeable), the `Origin`
check, file permissions, HTTP forwarding, which translates one request at a time and
keeps nothing, the read-only relay map, the CLI, the screens of the TUI, service
registration, the web interface beyond its session, and deployment. Workspaces do not
interact: every key but the UserWorkspaces index starts with the workspace id, so one
workspace is modelled. Names are compared up to case, as `create_connection` does.
