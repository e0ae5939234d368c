---------------------------- MODULE BrokerControl ----------------------------
(***************************************************************************)
(* The control plane of azbridge-broker for one workspace partition:       *)
(* workspaces.rs, profiles.rs, gateways.rs and reconciler.rs over the       *)
(* metadata tables and the immutable blob store.                           *)
(*                                                                         *)
(* Every mutating handler, and each workspace's turn in a reconciler pass, *)
(* runs under AppState.mutation_lock, so a handler is ONE action.  It is a *)
(* list of store writes that are not a transaction: a store error, a       *)
(* client that disconnects (the handler's future is dropped) or a process  *)
(* crash leaves a prefix of the writes behind.  `done' is the number of    *)
(* writes that reached the store; every value of it is a behaviour.        *)
(* Rejected requests change nothing and are stuttering steps.              *)
(*                                                                         *)
(* The lock does not cover a write that is still under way: when the 30 s  *)
(* of storage.rs pass or the handler is dropped, the lock is free and the  *)
(* request may reach the table later.  `late' holds such writes; `land' is *)
(* their arrival.  A replace or delete carries the ETag of the row its     *)
(* handler read, so it dies when that row is written; an insert only needs *)
(* its row to be absent.  Not in `late' are writes whose late arrival is   *)
(* what another step may do at that moment: the reconciler's saved         *)
(* outcomes and repairs, the deletes of a clean-up, create_workspace's     *)
(* rows (its membership is also create_member's), and the lookup index,    *)
(* which no handler decides by.  ARM is taken to execute the requests      *)
(* for one relay in the order in which they are sent.                      *)
(*                                                                         *)
(* All table keys but the Workspaces row and UserWorkspaces index start    *)
(* with the workspace id, and workspace ids are fresh UUIDs, so one        *)
(* workspace stands for all.  Connection names are taken up to case.       *)
(***************************************************************************)
EXTENDS Naturals, FiniteSets

CONSTANTS
    Users,          \* GitHub user ids
    PlatformAdmins, \* auth::is_platform_admin: bootstrap ids and PlatformAdmins rows
    Names,          \* connection names, up to case
    NoName,         \* name of a connection id without a row
    Connections,    \* keys of Connections rows (UUIDs; one without a row stands for a fresh one)
    Profiles,       \* profile ids (UUIDs, never reused)
    Gateways,       \* gateway ids (UUIDs, never reused)
    NoProfile,      \* profile of a gateway that was never minted
    MaxRevision,    \* bound on revision numbers (u64 in the code)
    MAX_ATTEMPTS,   \* reconciler.rs: 5
    MaxLate         \* bound on writes that are in flight without their handler, or were

ASSUME ControlAssumption ==
    /\ PlatformAdmins \subseteq Users
    /\ NoProfile \notin Profiles
    /\ NoName \notin Names
    /\ MaxRevision \in Nat
    /\ MaxLate \in Nat
    /\ MAX_ATTEMPTS \in Nat \ {0}

VARIABLES
    workspace,      \* Workspaces row
    members,        \* Members rows: user -> role
    index,          \* UserWorkspaces rows: users whose lookup index names this workspace
    connections,    \* Connections rows: id -> name and provisioning state
    relays,         \* names of the hybrid connections known to exist in ARM
    profiles,       \* Profiles rows
    metadata,       \* RevisionMetadata rows: <<profile, revision>>
    blobs,          \* revision blobs: the relay names a config refers to, {} for no blob
    gateways,       \* Gateways rows: credential state and profile
    late,           \* writes in flight whose handler has given up the lock
    landed          \* history: the handler and the key of each write of `late' that arrived

tables == <<workspace, members, index, connections, relays, profiles, metadata, blobs, gateways>>
vars == <<tables, late, landed>>

Revisions == 1..MaxRevision
Roles == {"Reader", "Operator", "Admin"}
ProvisioningState == {"Pending", "Provisioning", "Ready", "Failed", "Deleting"}
\* A parsed managed config is told apart only by the relay names it refers to;
\* parse_managed_config demands at least one forwarding rule.
Configs == (SUBSET Names) \ {{}}

Workspace == [state : ProvisioningState \cup {"Absent", "Deleted"},
              attempts : 0..MAX_ATTEMPTS, retryable : BOOLEAN,
              creator : Users, creatorInit : BOOLEAN, journal : SUBSET Users]
Connection == [name : Names \cup {NoName}, state : ProvisioningState \cup {"Absent"},
               attempts : 0..MAX_ATTEMPTS, retryable : BOOLEAN]
Profile == [state : {"New", "Present", "Gone"},
            current : 0..MaxRevision, next : 1..(MaxRevision + 1)]
Gateway == [state : {"New", "Live", "Revoked", "Gone"}, profile : Profiles \cup {NoProfile}]

\* A single-row write: the handler it is from, the key, and the row it leaves.
Writes ==
    [op : {"delete_workspace"}, key : {"workspace"}, row : Workspace]
    \cup [op : {"create_member", "update_member", "delete_member"}, key : Users,
          row : Roles \cup {"None"}]
    \cup [op : {"create_connection", "delete_connection"}, key : Connections, row : Connection]
    \cup [op : {"create_profile", "delete_profile", "create_revision", "publish"},
          key : Profiles, row : Profile]
    \cup [op : {"put_revision", "save_metadata"}, key : Profiles \X Revisions, row : Configs]
    \cup [op : {"mint", "revoke"}, key : Gateways, row : Gateway]

Ops == {"delete_workspace", "create_member", "update_member", "delete_member",
        "create_connection", "delete_connection", "create_profile", "delete_profile",
        "create_revision", "publish", "put_revision", "save_metadata", "mint", "revoke"}
Keys == {"workspace"} \cup Users \cup Connections \cup Profiles \cup (Profiles \X Revisions)
            \cup Gateways

\* Every variable holds a value of its table's row type.
TypeOK ==
    /\ workspace \in Workspace
    /\ members \in [Users -> Roles \cup {"None"}]
    /\ index \in SUBSET Users
    /\ connections \in [Connections -> Connection]
    /\ relays \in SUBSET Names
    /\ profiles \in [Profiles -> Profile]
    /\ metadata \in SUBSET (Profiles \X Revisions)
    /\ blobs \in [Profiles -> [Revisions -> SUBSET Names]]
    /\ gateways \in [Gateways -> Gateway]
    /\ late \in SUBSET Writes
    /\ landed \in SUBSET [op : Ops, key : Keys]

NoConnection == [name |-> NoName, state |-> "Absent", attempts |-> 0, retryable |-> FALSE]

Init ==
    /\ \E u \in Users :
          workspace = [state |-> "Absent", attempts |-> 0, retryable |-> FALSE,
                       creator |-> u, creatorInit |-> FALSE, journal |-> {}]
    /\ members = [u \in Users |-> "None"]
    /\ index = {}
    /\ connections = [c \in Connections |-> NoConnection]
    /\ relays = {}
    /\ profiles = [p \in Profiles |-> [state |-> "New", current |-> 0, next |-> 1]]
    /\ metadata = {}
    /\ blobs = [p \in Profiles |-> [r \in Revisions |-> {}]]
    /\ gateways = [g \in Gateways |-> [state |-> "New", profile |-> NoProfile]]
    /\ late = {} /\ landed = {}

-----------------------------------------------------------------------------
(* Writes under way. *)

\* Create-only writes; the others are conditional on the ETag of the row they replace.
Inserts == {"create_member", "create_connection", "create_profile", "put_revision",
            "save_metadata", "mint"}

\* The row a conditional write replaces.
replaced(w) ==
    CASE w.op = "delete_workspace" -> workspace
      [] w.op \in {"update_member", "delete_member"} -> members[w.key]
      [] w.op = "delete_connection" -> connections[w.key]
      [] w.op \in {"delete_profile", "create_revision", "publish"} -> profiles[w.key]
      [] w.op = "revoke" -> gateways[w.key]

\* The writes in flight that a step which changes the tables leaves a chance: a
\* conditional write only succeeds while nobody has written its row.
standing == {w \in late : w.op \in Inserts \/ replaced(w)' = replaced(w)}

\* The handler heard of every write it made.
complete == late' = standing /\ UNCHANGED landed

\* The handler gave up at the write w, which is still under way: storage.rs's timeout
\* fired, or the handler was dropped at that await.
gives_up(w) ==
    /\ Cardinality(late) + Cardinality(landed) < MaxLate
    /\ late' = standing \cup {w}
    /\ UNCHANGED landed

\* A handler's write of one row, made or left in flight (one that would change nothing
\* is not followed).  A member's index is written after the row, if the handler gets
\* that far.
write_member(op, u, role, new_index) ==
    \/ members' = [members EXCEPT ![u] = role] /\ index' \in {index, new_index} /\ complete
    \/ /\ members[u] # role /\ UNCHANGED <<members, index>>
       /\ gives_up([op |-> op, key |-> u, row |-> role])

write_profile(op, p, new) ==
    \/ profiles' = [profiles EXCEPT ![p] = new] /\ complete
    \/ profiles[p] # new /\ UNCHANGED profiles /\ gives_up([op |-> op, key |-> p, row |-> new])

write_gateway(op, g, new) ==
    \/ gateways' = [gateways EXCEPT ![g] = new] /\ complete
    \/ UNCHANGED gateways /\ gives_up([op |-> op, key |-> g, row |-> new])

-----------------------------------------------------------------------------
(* Authorization, re-evaluated after the lock is taken. *)

\* Role::permits: Reader < Operator < Admin.
permits(role, required) ==
    CASE required = "Reader"   -> role \in Roles
      [] required = "Operator" -> role \in {"Operator", "Admin"}
      [] required = "Admin"    -> role = "Admin"

workspace_role(u, required) == u \in PlatformAdmins \/ permits(members[u], required)

\* Some signed-in user may make the request.
authorize(required) == \E u \in Users : workspace_role(u, required)

active_workspace == workspace.state \notin {"Absent", "Deleted", "Deleting"}

-----------------------------------------------------------------------------
(* Published configurations. *)

\* The bug "only the newest saved revision protects a connection".
connection_in_use_latest_only(name) ==
    \E p \in Profiles : /\ profiles[p].state = "Present"
                        /\ profiles[p].current # 0
                        /\ profiles[p].current = profiles[p].next - 1
                        /\ name \in blobs[p][profiles[p].current]

\* Only a profile's published revision protects a connection; a missing blob is
\* an error, which stops the caller just as a reference does.
connection_in_use(name) ==
    \E p \in Profiles : /\ profiles[p].state = "Present"
                        /\ profiles[p].current # 0
                        /\ \/ blobs[p][profiles[p].current] = {}
                           \/ name \in blobs[p][profiles[p].current]

\* The bug "any connection row of the workspace will do".
check_config_any_row(names) ==
    workspace.state = "Ready" /\ names \subseteq {connections[c].name : c \in Connections}

\* check_config: a Ready workspace and only Ready connections of it.
check_config(names) ==
    /\ workspace.state = "Ready"
    /\ names \in Configs
    /\ \A n \in names : \E c \in Connections :
          connections[c].name = n /\ connections[c].state = "Ready"

\* revision(): both the metadata row and the blob must exist.
revision(p, r) == r \in Revisions /\ <<p, r>> \in metadata /\ blobs[p][r] # {}

published_config(p) ==
    /\ profiles[p].state = "Present"
    /\ profiles[p].current # 0
    /\ revision(p, profiles[p].current)
    /\ check_config(blobs[p][profiles[p].current])

-----------------------------------------------------------------------------
(* reconciler.rs.  The pieces are sets of possible results, so that the      *)
(* handlers that end in a reconciliation apply them to what they just wrote. *)

\* The bug "a retryable failure is retried whatever the attempts".
should_retry_uncounted(row) == row.state = "Failed" => row.retryable

\* Failed rows retry while retryable and under the limit, once retryAt has passed;
\* the clock is abstract: a pass may always find a row not yet due and leave it.
should_retry(row) ==
    row.state = "Failed" => row.retryable /\ row.attempts < MAX_ATTEMPTS

\* failure_data: count the attempt; only Unavailable and Internal errors are retryable.
failure_data(row, retryable) ==
    [row EXCEPT !.state = "Failed", !.attempts = row.attempts + 1, !.retryable = retryable]

\* One provisioning attempt of a namespace or of a connection (external: what ARM
\* answers).  The row is saved as Provisioning before the cloud call, where the
\* attempt may be cut off, and with the outcome after it.
ensure_results(row) ==
    {[row EXCEPT !.state = "Provisioning"],
     [row EXCEPT !.state = "Ready", !.attempts = 0, !.retryable = FALSE]}
    \cup {[row EXCEPT !.state = s, !.retryable = FALSE] : s \in {"Pending", "Provisioning", "Failed"}}
    \cup {failure_data(row, retryable) : retryable \in BOOLEAN}

\* The bug "a deletion that is not confirmed falls through to provisioning".
connection_results_fallthrough(c) ==
    IF c.state \in {"Absent", "Ready"} THEN {c} ELSE {c} \cup ensure_results(c)

\* What a pass may leave of one row.  The row itself is always possible: the pass
\* was interrupted before it, or its backoff has not elapsed.  A Deleting row goes once
\* absence is confirmed, unless its name is in use.
connection_results(c) ==
    CASE c.state \in {"Absent", "Ready"} -> {c}
      [] c.state = "Deleting" ->
            IF connection_in_use(c.name) THEN {c} ELSE {c, NoConnection}
      [] c.state \in {"Pending", "Provisioning", "Failed"} ->
            {c} \cup (IF should_retry(c) THEN ensure_results(c) ELSE {})

\* A pass over all rows `rows', the Connections table as the caller left it.  A Ready
\* answer says that the hybrid connection exists; a delete call may take effect
\* whatever is heard of it.  Two rows of one name are handled in either order.
reconcile_connections_locked(rows) ==
    \E f \in [Connections -> UNION {connection_results(rows[c]) : c \in Connections}] :
        LET doomed == {c \in Connections : rows[c].state = "Deleting"
                                              /\ ~connection_in_use(rows[c].name)}
            confirmed == {rows[c].name : c \in {d \in doomed : f[d].state = "Absent"}}
            ready == {rows[c].name : c \in {d \in Connections : f[d].state = "Ready"
                                                                  /\ rows[d].state # "Ready"}}
        IN  /\ \A c \in Connections : f[c] \in connection_results(rows[c])
            /\ connections' = f
            /\ \E D \in SUBSET {rows[c].name : c \in doomed} :
                  /\ confirmed \subseteq D
                  /\ relays' \in {(relays \ D) \cup ready, (relays \cup ready) \ D}

\* A workspace that is not Deleting: repair the creator's membership (`repair'
\* writes 1 to 3), index every member (write 4), provision the namespace and, once
\* it is Ready, its connections.  w, m, ix and rows are the tables as the caller
\* left them.
reconcile_active(w, m, ix, rows) ==
    \E done \in 0..4 :
        LET repair == ~w.creatorInit /\ w.state \in {"Pending", "Provisioning"}
            mem == IF repair /\ done >= 1 /\ m[w.creator] = "None"
                   THEN [m EXCEPT ![w.creator] = "Admin"] ELSE m
            ix1 == IF repair /\ done >= 2 THEN ix \cup {w.creator} ELSE ix
            ws == IF repair /\ done >= 3 THEN [w EXCEPT !.creatorInit = TRUE] ELSE w
            rest == {u \in Users : mem[u] # "None"} \ ix1
        IN  /\ members' = mem
            /\ \E S \in CASE done < 3 -> {{}} [] done = 3 -> SUBSET rest [] done = 4 -> {rest} :
                   index' = ix1 \cup S
            /\ workspace' \in {ws} \cup
                  (IF done = 4 /\ ws.state # "Ready" /\ should_retry(ws)
                   THEN ensure_results(ws) ELSE {})
            /\ IF done = 4 /\ workspace'.state = "Ready"
               THEN reconcile_connections_locked(rows)
               ELSE connections' = rows /\ UNCHANGED relays
            /\ UNCHANGED <<profiles, metadata, blobs, gateways>>
            /\ complete

\* The bug "a row that cannot be deleted is skipped".
cleared_best_effort(i, done, rows) == IF done + 1 >= i THEN SUBSET rows ELSE {{}}

\* The rows of the i-th table of a clean-up that emptied `done' tables and may have
\* begun the next one.
cleared(i, done, rows) ==
    CASE done >= i -> {rows} [] done + 1 = i -> SUBSET rows [] OTHER -> {{}}

\* A Deleting workspace: credentials, profiles, revision metadata, members and the
\* journalled indexes go before the namespace; the row goes last.  (Enrollments are
\* in module DevicePolling.)  A connection row left behind is a Conflict.
delete_workspace_locked(w) ==
    /\ \A c \in Connections : connections[c].state = "Absent"
    /\ UNCHANGED <<connections, relays, blobs>>
    /\ \E done \in 0..5 :
       /\ \E G \in cleared(1, done, {g \in Gateways : gateways[g].state \in {"Live", "Revoked"}}) :
             gateways' = [g \in Gateways |->
                            IF g \in G THEN [gateways[g] EXCEPT !.state = "Gone"] ELSE gateways[g]]
       /\ \E P \in cleared(2, done, {p \in Profiles : profiles[p].state = "Present"}) :
             profiles' = [p \in Profiles |->
                            IF p \in P THEN [profiles[p] EXCEPT !.state = "Gone"] ELSE profiles[p]]
       /\ \E R \in cleared(3, done, metadata) : metadata' = metadata \ R
       /\ \E U \in cleared(4, done, {u \in Users : members[u] # "None"}) :
             members' = [u \in Users |-> IF u \in U THEN "None" ELSE members[u]]
       /\ \E U \in cleared(5, done, index \cap w.journal) : index' = index \ U
       /\ workspace' \in {w} \cup
             (IF done = 5 THEN {[w EXCEPT !.state = "Deleted"]} ELSE {})
    /\ complete

\* reconcile_workspace_locked, called by run_reconciler's 15 s pass.
reconcile_once ==
    \/ active_workspace /\ reconcile_active(workspace, members, index, connections)
    \/ workspace.state = "Deleting" /\ delete_workspace_locked(workspace)

-----------------------------------------------------------------------------
(* workspaces.rs *)

\* Insert the row, the creator's membership, its index and then the flag that says
\* the membership was written; reconcile.
create_workspace(u) ==
    /\ workspace.state = "Absent" /\ u \in PlatformAdmins
    /\ \E done \in 1..4 :
        LET w == [state |-> "Pending", attempts |-> 0, retryable |-> FALSE,
                  creator |-> u, creatorInit |-> (done = 4), journal |-> {}]
            m == IF done >= 2 THEN [members EXCEPT ![u] = "Admin"] ELSE members
            ix == IF done >= 3 THEN index \cup {u} ELSE index
        IN  IF done = 4
            THEN reconcile_active(w, m, ix, connections)
            ELSE /\ workspace' = w /\ members' = m /\ index' = ix
                 /\ UNCHANGED <<connections, relays, profiles, metadata, blobs, gateways>>
                 /\ complete

\* The bug "connection rows are left to the reconciler".
delete_workspace_nonempty ==
    /\ active_workspace /\ authorize("Admin")
    /\ workspace' = [workspace EXCEPT !.state = "Deleting", !.attempts = 0, !.retryable = FALSE,
                        !.journal = {u \in Users : members[u] # "None"}]
    /\ UNCHANGED <<members, index, connections, relays, profiles, metadata, blobs, gateways>>
    /\ complete

\* Refused while any connection row is left.  The Deleting row carries the journal of
\* indexes to remove; the clean-up follows in the same handler.
delete_workspace ==
    /\ workspace.state \notin {"Absent", "Deleted"} /\ authorize("Admin")
    /\ \A c \in Connections : connections[c].state = "Absent"
    /\ LET w == IF workspace.state = "Deleting" THEN workspace
                ELSE [workspace EXCEPT !.state = "Deleting", !.attempts = 0,
                         !.retryable = FALSE, !.creatorInit = FALSE,
                         !.journal = {u \in Users : members[u] # "None"}]
       IN  \/ delete_workspace_locked(w)
           \/ /\ w # workspace /\ UNCHANGED tables
              /\ gives_up([op |-> "delete_workspace", key |-> "workspace", row |-> w])

\* An existing member with the same role is only re-indexed; another role is a Conflict.
create_member(u, role) ==
    /\ active_workspace /\ authorize("Admin")
    /\ UNCHANGED <<workspace, connections, relays, profiles, metadata, blobs, gateways>>
    /\ \/ members[u] = "None" /\ write_member("create_member", u, role, index \cup {u})
       \/ members[u] = role /\ UNCHANGED members /\ index' \in {index, index \cup {u}} /\ complete

\* The bug "the count of admins includes the one that goes".
protect_last_admin_off_by_one(u, role) ==
    members[u] = "Admin" /\ role # "Admin" => \E v \in Users : members[v] = "Admin"

\* A step that takes the Admin role from u needs another Admin.
protect_last_admin(u, role) ==
    members[u] = "Admin" /\ role # "Admin" => \E v \in Users \ {u} : members[v] = "Admin"

update_member(u, role) ==
    /\ active_workspace /\ authorize("Admin")
    /\ members[u] # "None" /\ protect_last_admin(u, role)
    /\ UNCHANGED <<workspace, connections, relays, profiles, metadata, blobs, gateways>>
    /\ write_member("update_member", u, role, index \cup {u})

\* Deletes the row, then the index; the index also when there was no row.
delete_member(u) ==
    /\ active_workspace /\ authorize("Admin")
    /\ protect_last_admin(u, "None")
    /\ UNCHANGED <<workspace, connections, relays, profiles, metadata, blobs, gateways>>
    /\ \/ members[u] # "None" /\ write_member("delete_member", u, "None", index \ {u})
       \/ members[u] = "None" /\ UNCHANGED members /\ index' \in {index, index \ {u}} /\ complete

\* The row, under a new id, if no row has the name; then a pass over the connections.
create_connection(c, name) ==
    /\ workspace.state = "Ready" /\ authorize("Admin")
    /\ connections[c].state = "Absent"
    /\ \A d \in Connections : connections[d].name # name
    /\ UNCHANGED <<workspace, members, index, profiles, metadata, blobs, gateways>>
    /\ LET new == [NoConnection EXCEPT !.name = name, !.state = "Pending"]
       IN  \/ /\ reconcile_connections_locked([connections EXCEPT ![c] = new])
              /\ complete
           \/ /\ UNCHANGED <<connections, relays>>
              /\ gives_up([op |-> "create_connection", key |-> c, row |-> new])

\* Not while a published revision refers to it.  encode(&connection) drops the
\* retry fields.
delete_connection(c) ==
    /\ active_workspace /\ authorize("Admin")
    /\ connections[c].state # "Absent" /\ ~connection_in_use(connections[c].name)
    /\ UNCHANGED <<workspace, members, index, profiles, metadata, blobs, gateways>>
    /\ LET new == IF connections[c].state = "Deleting" THEN connections[c]
                  ELSE [connections[c] EXCEPT !.state = "Deleting", !.attempts = 0,
                                              !.retryable = FALSE]
       IN  \/ /\ reconcile_connections_locked([connections EXCEPT ![c] = new])
              /\ complete
           \/ /\ new # connections[c] /\ UNCHANGED <<connections, relays>>
              /\ gives_up([op |-> "delete_connection", key |-> c, row |-> new])

-----------------------------------------------------------------------------
(* profiles.rs *)

create_profile(p) ==
    /\ workspace.state = "Ready" /\ authorize("Operator")
    /\ profiles[p].state = "New"
    /\ UNCHANGED <<workspace, members, index, connections, relays, metadata, blobs, gateways>>
    /\ write_profile("create_profile", p, [profiles[p] EXCEPT !.state = "Present"])

\* Refused while an unrevoked gateway uses the profile; revisions stay behind.
delete_profile(p) ==
    /\ workspace.state = "Ready" /\ authorize("Operator")
    /\ profiles[p].state = "Present"
    /\ ~\E g \in Gateways : gateways[g].state = "Live" /\ gateways[g].profile = p
    /\ UNCHANGED <<workspace, members, index, connections, relays, metadata, blobs, gateways>>
    /\ write_profile("delete_profile", p, [profiles[p] EXCEPT !.state = "Gone"])

\* The bug "the number is taken when the upload is complete".
create_revision_late_reserve(p, names) ==
    /\ workspace.state = "Ready" /\ authorize("Operator")
    /\ profiles[p].state = "Present" /\ check_config(names)
    /\ profiles[p].next <= MaxRevision
    /\ UNCHANGED <<workspace, members, index, connections, relays, gateways>>
    /\ LET r == profiles[p].next
       IN  \E done \in 1..3 :
             /\ blobs' = [blobs EXCEPT ![p][r] = names]
             /\ metadata' = IF done >= 2 THEN metadata \cup {<<p, r>>} ELSE metadata
             /\ profiles' = IF done >= 3 THEN [profiles EXCEPT ![p].next = r + 1] ELSE profiles
    /\ complete

\* Reserve the number by CAS, put the blob, insert the metadata row.
create_revision(p, names) ==
    /\ workspace.state = "Ready" /\ authorize("Operator")
    /\ profiles[p].state = "Present" /\ check_config(names)
    /\ profiles[p].next <= MaxRevision
    /\ UNCHANGED <<workspace, members, index, connections, relays, gateways>>
    /\ LET r == profiles[p].next
           reserved == [profiles[p] EXCEPT !.next = r + 1]
       IN  \E done \in 0..3 :
             /\ profiles' = IF done >= 1 THEN [profiles EXCEPT ![p] = reserved] ELSE profiles
             /\ blobs' = IF done >= 2 THEN [blobs EXCEPT ![p][r] = names] ELSE blobs
             /\ metadata' = IF done >= 3 THEN metadata \cup {<<p, r>>} ELSE metadata
             /\ \/ complete
                \/ /\ done = 0
                   /\ gives_up([op |-> "create_revision", key |-> p, row |-> reserved])
                \/ /\ done = 1
                   /\ gives_up([op |-> "put_revision", key |-> <<p, r>>, row |-> names])
                \/ /\ done = 2
                   /\ gives_up([op |-> "save_metadata", key |-> <<p, r>>, row |-> names])

\* Publish (or roll back to) a saved revision that is valid now.
\* expected_current_revision only narrows which requests succeed: some request
\* names the revision that is current.
publish(p, r) ==
    /\ workspace.state = "Ready" /\ authorize("Operator")
    /\ profiles[p].state = "Present"
    /\ revision(p, r) /\ check_config(blobs[p][r])
    /\ UNCHANGED <<workspace, members, index, connections, relays, metadata, blobs, gateways>>
    /\ write_profile("publish", p, [profiles[p] EXCEPT !.current = r])

-----------------------------------------------------------------------------
(* gateways.rs *)

\* mint: the one way a credential comes into being, from create_gateway and from an
\* authorized enrollment, both for a user who holds Operator.
mint(g, p) ==
    /\ authorize("Operator")
    /\ gateways[g].state = "New" /\ published_config(p)
    /\ UNCHANGED <<workspace, members, index, connections, relays, profiles, metadata, blobs>>
    /\ write_gateway("mint", g, [state |-> "Live", profile |-> p])

\* revoke_gateway; revoking again is allowed and changes nothing.
revoke_gateway(g) ==
    /\ active_workspace /\ authorize("Operator")
    /\ gateways[g].state = "Live"
    /\ UNCHANGED <<workspace, members, index, connections, relays, profiles, metadata, blobs>>
    /\ write_gateway("revoke", g, [gateways[g] EXCEPT !.state = "Revoked"])

\* bearer: the credential's gateway is not revoked and its workspace is Ready.
bearer(g) == gateways[g].state = "Live" /\ workspace.state = "Ready"

logout(g) ==
    /\ bearer(g)
    /\ UNCHANGED <<workspace, members, index, connections, relays, profiles, metadata, blobs>>
    /\ write_gateway("revoke", g, [gateways[g] EXCEPT !.state = "Revoked"])

-----------------------------------------------------------------------------
(* storage.rs: a write arrives after its handler gave up the lock. *)

arrives(w) ==
    /\ late' = {v \in standing : v # w}
    /\ landed' = landed \cup {[op |-> w.op, key |-> w.key]}

land_workspace(w) ==
    /\ w.op = "delete_workspace"
    /\ workspace' = w.row
    /\ UNCHANGED <<members, index, connections, relays, profiles, metadata, blobs, gateways>>
    /\ arrives(w)

land_member(w) ==
    /\ \/ w.op = "create_member" /\ members[w.key] = "None"
       \/ w.op \in {"update_member", "delete_member"}
    /\ members' = [members EXCEPT ![w.key] = w.row]
    /\ UNCHANGED <<workspace, index, connections, relays, profiles, metadata, blobs, gateways>>
    /\ arrives(w)

land_connection(w) ==
    /\ \/ w.op = "create_connection" /\ connections[w.key].state = "Absent"
       \/ w.op = "delete_connection"
    /\ connections' = [connections EXCEPT ![w.key] = w.row]
    /\ UNCHANGED <<workspace, members, index, relays, profiles, metadata, blobs, gateways>>
    /\ arrives(w)

land_profile(w) ==
    /\ \/ w.op = "create_profile" /\ profiles[w.key].state = "New"
       \/ w.op \in {"delete_profile", "create_revision", "publish"}
    /\ profiles' = [profiles EXCEPT ![w.key] = w.row]
    /\ UNCHANGED <<workspace, members, index, connections, relays, metadata, blobs, gateways>>
    /\ arrives(w)

\* The blob is create-only, and so is the metadata row that follows it.
land_revision(w) ==
    /\ \/ /\ w.op = "put_revision" /\ blobs[w.key[1]][w.key[2]] = {}
          /\ blobs' = [blobs EXCEPT ![w.key[1]][w.key[2]] = w.row]
          /\ UNCHANGED metadata
       \/ /\ w.op = "save_metadata"
          /\ metadata' = metadata \cup {w.key}
          /\ UNCHANGED blobs
    /\ UNCHANGED <<workspace, members, index, connections, relays, profiles, gateways>>
    /\ arrives(w)

land_gateway(w) ==
    /\ \/ w.op = "mint" /\ gateways[w.key].state = "New"
       \/ w.op = "revoke"
    /\ gateways' = [gateways EXCEPT ![w.key] = w.row]
    /\ UNCHANGED <<workspace, members, index, connections, relays, profiles, metadata, blobs>>
    /\ arrives(w)

land(w) ==
    \/ land_workspace(w) \/ land_member(w) \/ land_connection(w)
    \/ land_profile(w) \/ land_revision(w) \/ land_gateway(w)

-----------------------------------------------------------------------------
Next ==
    \/ reconcile_once
    \/ \E u \in Users : create_workspace(u)
    \/ delete_workspace
    \/ \E u \in Users, role \in Roles : create_member(u, role)
    \/ \E u \in Users, role \in Roles : update_member(u, role)
    \/ \E u \in Users : delete_member(u)
    \/ \E c \in Connections, name \in Names : create_connection(c, name)
    \/ \E c \in Connections : delete_connection(c)
    \/ \E p \in Profiles : create_profile(p)
    \/ \E p \in Profiles : delete_profile(p)
    \/ \E p \in Profiles, names \in Configs : create_revision(p, names)
    \/ \E p \in Profiles, r \in Revisions : publish(p, r)
    \/ \E g \in Gateways, p \in Profiles : mint(g, p)
    \/ \E g \in Gateways : revoke_gateway(g)
    \/ \E g \in Gateways : logout(g)
    \/ \E w \in late : land(w)

Spec == Init /\ [][Next]_vars

\* run_reconciler passes for ever, 15 s apart, and re-issues every pending deletion; a
\* deletion that is asked for again and again is confirmed at last (the assumption on
\* ARM and on the store).
confirm_workspace ==
    workspace.state = "Deleting" /\ reconcile_once /\ workspace'.state = "Deleted"

confirm_connection(c) ==
    connections[c].state = "Deleting" /\ reconcile_once /\ connections'[c].state = "Absent"

Fairness ==
    /\ SF_vars(confirm_workspace)
    /\ \A c \in Connections : SF_vars(confirm_connection(c))

FairSpec == Spec /\ Fairness

-----------------------------------------------------------------------------
(* Properties *)

\* The handlers a write of which arrived after they had given up the lock.
late_ops == {w.op : w \in landed}

\* A gateway that holds an unrevoked credential can be served: its workspace is Ready
\* and its profile's published revision exists and passes validation, so gateway_config
\* and relay_token succeed whatever administrators do meanwhile.  Five late writes can
\* end that, because the rows they depend on are not the row their ETag is about: a
\* credential, a publication, or a mark or delete that another handler did not see.
LiveGatewayServed ==
    late_ops \cap {"mint", "publish", "delete_profile", "delete_connection",
                   "delete_workspace"} = {}
    => \A g \in Gateways : gateways[g].state = "Live" =>
          /\ workspace.state = "Ready"
          /\ published_config(gateways[g].profile)

\* Every relay a published revision names exists in the cloud: no delete_connection
\* call and no reconciler pass destroys a hybrid connection that is in use, not even
\* after a late Deleting mark.  A late publication, or a second row of a name inserted
\* late, can undo it.
PublishedRelaysExist ==
    late_ops \cap {"publish", "create_connection"} = {}
    => \A p \in Profiles : profiles[p].state = "Present" /\ profiles[p].current # 0 =>
          /\ <<p, profiles[p].current>> \in metadata
          /\ blobs[p][profiles[p].current] \subseteq relays

\* A saved revision is immutable: its blob never changes, and a number that was handed
\* out, even to an upload that failed, is never handed out again: what fills it can
\* only be its own upload, arriving late.
RevisionsImmutable ==
    [][\A p \in Profiles, r \in Revisions :
          /\ blobs[p][r] # {} => blobs'[p][r] = blobs[p][r]
          /\ r < profiles[p].next /\ blobs[p][r] = {} =>
                \/ blobs'[p][r] = {}
                \/ [op |-> "put_revision", key |-> <<p, r>>, row |-> blobs'[p][r]] \in late]_vars

\* A row that may still be provisioned has attempts left: after MAX_ATTEMPTS counted
\* failures it stays Failed until it is deleted.
AttemptsBounded ==
    /\ workspace.state # "Failed" => workspace.attempts < MAX_ATTEMPTS
    /\ \A c \in Connections : connections[c].state # "Failed" => connections[c].attempts < MAX_ATTEMPTS

\* When the Workspaces row is gone so is every row that could authorize anybody
\* (credentials, memberships, profiles, revision metadata), except one whose insert
\* arrived after the clean-up had passed its table.
DeletedLeavesNothing ==
    LET stray(op, k) == [op |-> op, key |-> k] \in landed
    IN  workspace.state = "Deleted" =>
          /\ \A pr \in metadata : stray("save_metadata", pr)
          /\ \A c \in Connections : connections[c] # NoConnection => stray("create_connection", c)
          /\ \A p \in Profiles : profiles[p].state = "Present" => stray("create_profile", p)
          /\ \A g \in Gateways : gateways[g].state \in {"Live", "Revoked"} => stray("mint", g)
          /\ \A u \in Users : members[u] # "None" => stray("create_member", u)

\* "Deletions retry until absence is confirmed": a Deleting workspace is eventually
\* gone; nothing an administrator does meanwhile can block its clean-up, except a
\* connection row beside the Deleting mark because one of the two was written late.
DeletionCompletes ==
    workspace.state = "Deleting" ~>
        \/ workspace.state = "Deleted"
        \/ late_ops \cap {"create_connection", "delete_workspace"} # {}

\* The same for a connection: no publish can put a Deleting connection back in use,
\* unless the publication or the mark was written late, and a row inserted late does
\* not share its name; a late Deleting mark of the workspace stops its passes.
ConnectionDeletionCompletes ==
    \A c \in Connections :
        connections[c].state = "Deleting" ~>
            \/ connections[c].state = "Absent"
            \/ late_ops \cap {"publish", "create_connection", "delete_connection",
                              "delete_workspace"} # {}


HasAdmin == \E u \in Users : members[u] = "Admin"

\* No handler takes the last Admin from a workspace that is not being deleted.  Two
\* demotions that each counted the other's admin can, when the first arrives late.
LastAdminKept ==
    [][active_workspace' /\ HasAdmin =>
          HasAdmin' \/ \E w \in late : w.op # "create_member" /\ land_member(w)]_vars

\* A connection that is being deleted never becomes usable again, and a Ready one only
\* leaves that state by an administrator's delete: no reconciler pass takes it back.
ConnectionLifecycle ==
    [][\A c \in Connections :
          /\ connections[c].state = "Deleting" => connections'[c].state \in {"Deleting", "Absent"}
          /\ connections[c].state = "Ready" =>
                connections'[c].state \in {"Ready", "Deleting", "Absent"}]_vars
=============================================================================
