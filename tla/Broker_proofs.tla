--------------------------- MODULE Broker_proofs ---------------------------
(***************************************************************************)
(* Proofs about the broker: its control plane (BrokerControl), for any     *)
(* sets of users, connection names and ids, profiles and gateways and any  *)
(* bounds, and its stores (Storage), for any number of handlers, rows and  *)
(* calls.                                                                  *)
(*                                                                         *)
(* The control plane's invariant Base says, beside types, what a write in  *)
(* flight still says about the row it was made from: that is what an ETag  *)
(* buys.  Effect sums up what a step does to the tables, and the safety    *)
(* properties follow from it case by case.                                 *)
(* What protects a live gateway is a chain (Chains): its profile is        *)
(* published, the published revision names at least one connection and     *)
(* only Ready ones, and a workspace with a Ready row is Ready.  Each link  *)
(* is kept by a different handler's guard, and broken by the late writes   *)
(* it names.                                                               *)
(*                                                                         *)
(* In the stores a verdict that was reached is true for good, whether it   *)
(* is still under way as an answer or was returned already: a table        *)
(* request that was carried out is not under way any more, and what an     *)
(* upload asks for stays the case.  A list has what is left of the rows    *)
(* that were there when it began, up to its cursor.                        *)
(***************************************************************************)
EXTENDS BrokerControl, Storage, FiniteSetTheorems, TLAPS

\* What every connection row satisfies on its own.
RowOK(row) ==
    /\ row \in Connection
    /\ row.state # "Failed" => row.attempts < MAX_ATTEMPTS
    /\ row.state # "Absent" => row.name \in Names
    /\ row.state = "Absent" => row = NoConnection

\* What the workspace row satisfies on its own.
WorkspaceOK(w) ==
    /\ w \in Workspace
    /\ w.state # "Failed" => w.attempts < MAX_ATTEMPTS

\* Numbers of blobs and of metadata rows were handed out.
NumbersReserved ==
    \A p \in Profiles, r \in Revisions :
        blobs[p][r] # {} \/ <<p, r>> \in metadata => r < profiles[p].next

\* A listed revision is complete.
MetadataHasBlob == \A p \in Profiles, r \in Revisions : <<p, r>> \in metadata => blobs[p][r] # {}

\* Only a profile that was created has revisions.
NewIsFresh ==
    \A p \in Profiles : profiles[p].state = "New" => profiles[p].current = 0 /\ profiles[p].next = 1

\* Connection rows are created in a Ready workspace, which leaves that state only to be
\* deleted.
RowsNeedReady ==
    (\E c \in Connections : connections[c].state # "Absent")
    => workspace.state \in {"Ready", "Deleting", "Deleted"}

\* What a write in flight still says about the row it depends on: a conditional write
\* was made from the row as it is, an insert from facts that no later step can undo.
LateOK(w) ==
    /\ w.op = "delete_workspace" =>
          active_workspace /\ WorkspaceOK(w.row) /\ w.row.state = "Deleting"
    /\ w.op \in {"update_member", "delete_member"} => members[w.key] # "None"
    /\ w.op = "create_connection" =>
          /\ RowOK(w.row) /\ w.row.state = "Pending"
          /\ workspace.state \in {"Ready", "Deleting", "Deleted"}
    /\ w.op = "delete_connection" =>
          /\ RowOK(w.row) /\ w.row.state = "Deleting" /\ w.row.name = connections[w.key].name
          /\ connections[w.key].state # "Absent"
    /\ w.op = "create_profile" => w.row = [state |-> "Present", current |-> 0, next |-> 1]
    /\ w.op \in {"delete_profile", "create_revision", "publish"} => profiles[w.key].state = "Present"
    /\ w.op = "delete_profile" => w.row = [profiles[w.key] EXCEPT !.state = "Gone"]
    /\ w.op = "create_revision" =>
          w.row = [profiles[w.key] EXCEPT !.next = profiles[w.key].next + 1]
    /\ w.op = "publish" => \E r \in Revisions : w.row = [profiles[w.key] EXCEPT !.current = r]
    /\ w.op \in {"put_revision", "save_metadata"} => w.key[2] < profiles[w.key[1]].next
    /\ w.op = "save_metadata" => blobs[w.key[1]][w.key[2]] # {}
    /\ w.op = "mint" => w.row.state = "Live"
    /\ w.op = "revoke" => /\ gateways[w.key].state = "Live"
                          /\ w.row = [gateways[w.key] EXCEPT !.state = "Revoked"]

Base ==
    /\ TypeOK
    /\ WorkspaceOK(workspace)
    /\ \A c \in Connections : RowOK(connections[c])
    /\ NumbersReserved
    /\ MetadataHasBlob
    /\ NewIsFresh
    /\ RowsNeedReady
    /\ \A w \in late : LateOK(w)

-----------------------------------------------------------------------------
USE ControlAssumption

\* What a write in flight can be.
LEMMA WriteTypes ==
    ASSUME NEW w \in Writes
    PROVE  /\ w.op \in Ops /\ w.key \in Keys
           /\ w.op = "delete_workspace" => w.row \in Workspace
           /\ w.op \in {"create_member", "update_member", "delete_member"} =>
                 w.key \in Users /\ w.row \in Roles \cup {"None"}
           /\ w.op \in {"create_connection", "delete_connection"} =>
                 w.key \in Connections /\ w.row \in Connection
           /\ w.op \in {"create_profile", "delete_profile", "create_revision", "publish"} =>
                 w.key \in Profiles /\ w.row \in Profile
           /\ w.op \in {"put_revision", "save_metadata"} =>
                 w.key \in Profiles \X Revisions /\ w.row \in Configs
           /\ w.op \in {"mint", "revoke"} => w.key \in Gateways /\ w.row \in Gateway
<1>1. CASE w \in [op : {"delete_workspace"}, key : {"workspace"}, row : Workspace]
  BY <1>1 DEF Ops, Keys
<1>2. CASE w \in [op : {"create_member", "update_member", "delete_member"}, key : Users,
                  row : Roles \cup {"None"}]
  BY <1>2 DEF Ops, Keys
<1>3. CASE w \in [op : {"create_connection", "delete_connection"}, key : Connections, row : Connection]
  BY <1>3 DEF Ops, Keys
<1>4. CASE w \in [op : {"create_profile", "delete_profile", "create_revision", "publish"},
                  key : Profiles, row : Profile]
  BY <1>4 DEF Ops, Keys
<1>5. CASE w \in [op : {"put_revision", "save_metadata"}, key : Profiles \X Revisions, row : Configs]
  BY <1>5 DEF Ops, Keys
<1>6. CASE w \in [op : {"mint", "revoke"}, key : Gateways, row : Gateway]
  BY <1>6 DEF Ops, Keys
<1>7. QED
  BY <1>1, <1>2, <1>3, <1>4, <1>5, <1>6 DEF Writes

\* A write stays as good as it was while its row is the one it was made from, numbers
\* are not given back, blobs do not vanish and no workspace is brought back.
LEMMA LateKept ==
    ASSUME TypeOK, NEW w \in standing, w \in late, LateOK(w),
           \A p \in Profiles : profiles[p].next <= profiles'[p].next,
           \A p \in Profiles : profiles'[p].next \in Nat,
           \A p \in Profiles, r \in Revisions : blobs[p][r] # {} => blobs'[p][r] # {},
           workspace.state \in {"Ready", "Deleting", "Deleted"}
              => workspace'.state \in {"Ready", "Deleting", "Deleted"}
    PROVE  LateOK(w)'
<1>0. w \in Writes
  BY DEF TypeOK
<1>1. CASE w.op \in {"put_revision", "save_metadata"}
  <2>1. PICK p \in Profiles, r \in Revisions : w.key = <<p, r>>
    BY <1>0, <1>1, WriteTypes
  <2>2. w.key[1] = p /\ w.key[2] = r
    BY <2>1
  <2>3. /\ r < profiles[p].next /\ profiles[p].next <= profiles'[p].next
        /\ r \in Nat /\ profiles[p].next \in Nat /\ profiles'[p].next \in Nat
    BY <1>1, <2>1, <2>2 DEF LateOK, Revisions, TypeOK, Profile
  <2>4. w.op = "save_metadata" => blobs'[p][r] # {}
    BY <1>1, <2>1, <2>2 DEF LateOK
  <2>5. r < profiles'[p].next
    BY <2>3
  <2>6. QED
    BY <1>1, <2>2, <2>4, <2>5 DEF LateOK
<1>2. CASE w.op \in {"create_member", "create_connection", "create_profile", "mint"}
  BY <1>2 DEF LateOK
<1>3. CASE w.op \notin Inserts
  <2>1. replaced(w)' = replaced(w)
    BY <1>3 DEF standing
  <2>2. CASE w.op = "delete_workspace"
    BY <2>1, <2>2 DEF LateOK, replaced, active_workspace
  <2>3. CASE w.op \in {"update_member", "delete_member"}
    BY <2>1, <2>3 DEF LateOK, replaced
  <2>4. CASE w.op = "delete_connection"
    BY <2>1, <2>4 DEF LateOK, replaced
  <2>5. CASE w.op \in {"delete_profile", "create_revision", "publish"}
    BY <2>1, <2>5 DEF LateOK, replaced
  <2>6. CASE w.op = "revoke"
    BY <2>1, <2>6 DEF LateOK, replaced
  <2>7. QED
    BY <1>0, <1>3, <2>2, <2>3, <2>4, <2>5, <2>6, WriteTypes DEF Ops, Inserts
<1>4. QED
  BY <1>1, <1>2, <1>3 DEF Inserts

\* What hardly any step undoes: numbers, blobs and the workspace's progress.
Keeps ==
    /\ \A p \in Profiles : profiles'[p].next \in Nat /\ profiles[p].next <= profiles'[p].next
    /\ \A p \in Profiles, r \in Revisions : blobs[p][r] # {} => blobs'[p][r] # {}
    /\ workspace.state \in {"Ready", "Deleting", "Deleted"}
          => workspace'.state \in {"Ready", "Deleting", "Deleted"}

\* The writes in flight after a step that leaves at most the write v behind.
LEMMA LateStep ==
    ASSUME TypeOK, \A w \in late : LateOK(w), Keeps, NEW v, v \in Writes, LateOK(v)',
           late' \subseteq standing \cup {v}
    PROVE  late' \in SUBSET Writes /\ \A w \in late' : LateOK(w)'
<1>1. standing \subseteq late
  BY DEF standing
<1>2. \A w \in standing : LateOK(w)'
  <2>1. TAKE w \in standing
  <2>2. QED
    BY <1>1, LateKept DEF Keeps
<1>3. QED
  BY <1>1, <1>2 DEF TypeOK

\* The same of a step that leaves none behind.
LEMMA LateHandled ==
    ASSUME TypeOK, \A w \in late : LateOK(w), Keeps, late' \subseteq standing
    PROVE  late' \in SUBSET Writes /\ \A w \in late' : LateOK(w)'
<1>1. standing \subseteq late
  BY DEF standing
<1>2. \A w \in standing : LateOK(w)'
  <2>1. TAKE w \in standing
  <2>2. QED
    BY <1>1, LateKept DEF Keeps
<1>3. QED
  BY <1>1, <1>2 DEF TypeOK

\* A step keeps the invariant if the tables it leaves are well-formed.
LEMMA BaseStep ==
    ASSUME Base, Keeps, late' \in SUBSET Writes, \A w \in late' : LateOK(w)',
           landed' \in SUBSET [op : Ops, key : Keys],
           WorkspaceOK(workspace'),
           members' \in [Users -> Roles \cup {"None"}], index' \in SUBSET Users,
           connections' \in [Connections -> Connection], \A c \in Connections : RowOK(connections'[c]),
           relays' \in SUBSET Names, RowsNeedReady',
           profiles' \in [Profiles -> Profile], metadata' \in SUBSET (Profiles \X Revisions),
           blobs' \in [Profiles -> [Revisions -> SUBSET Names]], gateways' \in [Gateways -> Gateway],
           NumbersReserved', MetadataHasBlob', NewIsFresh'
    PROVE  Base'
<1>1. TypeOK'
  BY DEF TypeOK, WorkspaceOK
<1>2. QED
  BY <1>1 DEF Base

-----------------------------------------------------------------------------
\* What a provisioning attempt can do to a row, case by case.
LEMMA EnsureCases ==
    ASSUME NEW row, NEW r \in ensure_results(row)
    PROVE  \/ r = [row EXCEPT !.state = "Provisioning"]
           \/ r = [row EXCEPT !.state = "Ready", !.attempts = 0, !.retryable = FALSE]
           \/ \E s \in {"Pending", "Provisioning", "Failed"} :
                  r = [row EXCEPT !.state = s, !.retryable = FALSE]
           \/ \E b \in BOOLEAN : r = failure_data(row, b)
BY DEF ensure_results

\* A failed attempt is counted and keeps the row's type.
LEMMA FailureConnection ==
    ASSUME NEW row \in Connection, row.attempts < MAX_ATTEMPTS, NEW b \in BOOLEAN
    PROVE  /\ failure_data(row, b) \in Connection
           /\ failure_data(row, b).state = "Failed"
           /\ failure_data(row, b).name = row.name
<1>1. row.attempts + 1 \in 0..MAX_ATTEMPTS
  BY DEF Connection
<1>2. QED
  BY <1>1, Zenon DEF failure_data, Connection, ProvisioningState

\* One provisioning attempt keeps a connection row well-formed.
LEMMA EnsureConnection ==
    ASSUME NEW row, RowOK(row), should_retry(row), row.state # "Absent",
           NEW r \in ensure_results(row)
    PROVE  RowOK(r) /\ r.name = row.name /\ r.state # "Absent"
<1>1. row \in Connection /\ row.attempts < MAX_ATTEMPTS /\ row.name \in Names
  BY DEF RowOK, should_retry
<1>2. CASE r = [row EXCEPT !.state = "Provisioning"]
  BY <1>1, <1>2 DEF RowOK, Connection, ProvisioningState
<1>3. CASE r = [row EXCEPT !.state = "Ready", !.attempts = 0, !.retryable = FALSE]
  <2>1. 0 \in 0..MAX_ATTEMPTS /\ 0 < MAX_ATTEMPTS
    OBVIOUS
  <2>2. r \in Connection /\ r.state = "Ready" /\ r.attempts = 0 /\ r.name = row.name
    BY <1>1, <1>3, <2>1, Zenon DEF Connection, ProvisioningState
  <2>3. QED
    BY <1>1, <2>1, <2>2 DEF RowOK
<1>4. CASE \E s \in {"Pending", "Provisioning", "Failed"} :
              r = [row EXCEPT !.state = s, !.retryable = FALSE]
  BY <1>1, <1>4 DEF RowOK, Connection, ProvisioningState
<1>5. CASE \E b \in BOOLEAN : r = failure_data(row, b)
  BY <1>1, <1>5, FailureConnection DEF RowOK
<1>6. QED
  BY <1>2, <1>3, <1>4, <1>5, EnsureCases

\* One provisioning attempt keeps the workspace row well-formed.
LEMMA EnsureWorkspace ==
    ASSUME NEW w, WorkspaceOK(w), should_retry(w), NEW r \in ensure_results(w)
    PROVE  /\ WorkspaceOK(r)
           /\ r.state \in {"Pending", "Provisioning", "Ready", "Failed"}
<1>1. w \in Workspace /\ w.attempts < MAX_ATTEMPTS
  BY DEF WorkspaceOK, should_retry
<1>2. 0 \in 0..MAX_ATTEMPTS /\ w.attempts + 1 \in 0..MAX_ATTEMPTS
  BY <1>1 DEF Workspace
<1>3. CASE r = [w EXCEPT !.state = "Provisioning"]
  <2>1. r \in Workspace /\ r.state = "Provisioning" /\ r.attempts = w.attempts
    BY <1>1, <1>3, Zenon DEF Workspace, ProvisioningState
  <2>2. QED
    BY <1>1, <2>1 DEF WorkspaceOK
<1>4. CASE r = [w EXCEPT !.state = "Ready", !.attempts = 0, !.retryable = FALSE]
  <2>1. r \in Workspace /\ r.state = "Ready" /\ r.attempts = 0
    BY <1>1, <1>2, <1>4, Zenon DEF Workspace, ProvisioningState
  <2>2. QED
    BY <2>1 DEF WorkspaceOK
<1>5. CASE \E s \in {"Pending", "Provisioning", "Failed"} :
              r = [w EXCEPT !.state = s, !.retryable = FALSE]
  <2>1. PICK s \in {"Pending", "Provisioning", "Failed"} :
              r = [w EXCEPT !.state = s, !.retryable = FALSE]
    BY <1>5
  <2>2. r \in Workspace /\ r.state = s /\ r.attempts = w.attempts
    BY <1>1, <2>1, Zenon DEF Workspace, ProvisioningState
  <2>3. QED
    BY <1>1, <2>2 DEF WorkspaceOK
<1>6. CASE \E x \in BOOLEAN : r = failure_data(w, x)
  <2>1. r \in Workspace /\ r.state = "Failed"
    BY <1>1, <1>2, <1>6, Zenon DEF failure_data, Workspace, ProvisioningState
  <2>2. QED
    BY <2>1 DEF WorkspaceOK
<1>7. QED
  BY <1>3, <1>4, <1>5, <1>6, EnsureCases

\* A row that is not there.
LEMMA NoRow == RowOK(NoConnection) /\ NoConnection.state = "Absent"
<1>1. 0 \in 0..MAX_ATTEMPTS /\ 0 < MAX_ATTEMPTS
  OBVIOUS
<1>2. NoConnection \in Connection
  BY <1>1, Zenon DEF NoConnection, Connection, ProvisioningState
<1>3. NoConnection.state = "Absent" /\ NoConnection.attempts = 0
  BY DEF NoConnection
<1>4. QED
  BY <1>1, <1>2, <1>3 DEF RowOK

\* What a pass does to one connection row.
LEMMA ConnectionResult ==
    ASSUME NEW row, RowOK(row), NEW r \in connection_results(row)
    PROVE  /\ RowOK(r)
           /\ r = NoConnection \/ (r.name = row.name /\ r.state # "Absent")
           /\ row.state \in {"Absent", "Ready"} => r = row
           /\ row.state = "Deleting" =>
                 r = row \/ (r = NoConnection /\ ~connection_in_use(row.name))
<1>1. CASE row.state \in {"Absent", "Ready"}
  BY <1>1 DEF connection_results, RowOK
<1>2. CASE row.state = "Deleting"
  BY <1>2, NoRow DEF connection_results
<1>3. CASE row.state \in {"Pending", "Provisioning", "Failed"}
  <2>1. r = row \/ (should_retry(row) /\ r \in ensure_results(row))
    BY <1>3 DEF connection_results
  <2>2. QED
    BY <1>3, <2>1, EnsureConnection
<1>4. QED
  BY <1>1, <1>2, <1>3 DEF RowOK, Connection, ProvisioningState

\* What a pass does to the whole table, and to the hybrid connections.
Passed(rows) ==
    /\ connections' \in [Connections -> Connection]
    /\ relays' \in SUBSET Names
    /\ \A c \in Connections :
          /\ RowOK(connections'[c])
          /\ \/ connections'[c] = NoConnection
             \/ connections'[c].name = rows[c].name /\ connections'[c].state # "Absent"
          /\ rows[c].state \in {"Absent", "Ready"} => connections'[c] = rows[c]
          /\ rows[c].state = "Deleting" =>
                \/ connections'[c] = rows[c]
                \/ connections'[c] = NoConnection /\ ~connection_in_use(rows[c].name)
    /\ \A n \in relays : n \notin relays' =>
          \E c \in Connections : /\ rows[c].state = "Deleting" /\ rows[c].name = n
                                 /\ ~connection_in_use(n)
    /\ \A c \in Connections : connections'[c].state = "Ready" /\ rows[c].state # "Ready" =>
          \/ connections'[c].name \in relays'
          \/ \E d \in Connections : rows[d].state = "Deleting" /\ rows[d].name = connections'[c].name

LEMMA ConnectionPass ==
    ASSUME NEW rows \in [Connections -> Connection], \A c \in Connections : RowOK(rows[c]),
           relays \in SUBSET Names, reconcile_connections_locked(rows)
    PROVE  Passed(rows)
<1> DEFINE doomed == {c \in Connections : rows[c].state = "Deleting"
                                              /\ ~connection_in_use(rows[c].name)}
           ready(f) == {rows[c].name : c \in {d \in Connections : f[d].state = "Ready"
                                                                  /\ rows[d].state # "Ready"}}
<1>1. PICK f \in [Connections -> UNION {connection_results(rows[c]) : c \in Connections}] :
          /\ \A c \in Connections : f[c] \in connection_results(rows[c])
          /\ connections' = f
          /\ \E D \in SUBSET {rows[c].name : c \in doomed} :
                relays' \in {(relays \ D) \cup ready(f), (relays \cup ready(f)) \ D}
  BY Zenon DEF reconcile_connections_locked
<1>2. PICK D \in SUBSET {rows[c].name : c \in doomed} :
                relays' = (relays \ D) \cup ready(f) \/ relays' = (relays \cup ready(f)) \ D
  BY <1>1
<1>3. \A c \in Connections :
          /\ RowOK(f[c])
          /\ f[c] = NoConnection \/ (f[c].name = rows[c].name /\ f[c].state # "Absent")
          /\ rows[c].state \in {"Absent", "Ready"} => f[c] = rows[c]
          /\ rows[c].state = "Deleting" =>
                f[c] = rows[c] \/ (f[c] = NoConnection /\ ~connection_in_use(rows[c].name))
  <2>1. TAKE c \in Connections
  <2>2. QED
    BY <1>1, ConnectionResult
<1>4. f \in [Connections -> Connection]
  BY <1>1, <1>3 DEF RowOK
<1>5. ASSUME NEW c \in Connections, f[c].state = "Ready", rows[c].state # "Ready"
      PROVE  f[c].name = rows[c].name /\ rows[c].name \in ready(f) /\ rows[c].name \in Names
  BY <1>3, <1>5, NoRow DEF RowOK
<1>6. ready(f) \subseteq Names
  BY <1>5
<1>7. ASSUME NEW n \in D
      PROVE  \E c \in Connections : /\ rows[c].state = "Deleting" /\ rows[c].name = n
                                    /\ ~connection_in_use(n)
  BY <1>7
<1>8. relays' \in SUBSET Names
  BY <1>2, <1>6
<1>9. \A n \in relays : n \notin relays' => n \in D
  BY <1>2
<1>10. \A n \in ready(f) : n \in relays' \/ n \in D
  BY <1>2
<1> HIDE DEF doomed, ready
<1>11. QED
  BY <1>1, <1>3, <1>4, <1>5, <1>7, <1>8, <1>9, <1>10 DEF Passed

-----------------------------------------------------------------------------
\* The result of reconciling a workspace that is not being deleted.
Reconciled ==
    /\ workspace.state \notin {"Deleting", "Deleted"}
    /\ WorkspaceOK(workspace') /\ workspace'.state \in {"Pending", "Provisioning", "Ready", "Failed"}
    /\ workspace.state = "Ready" => workspace'.state = "Ready"
    /\ members' \in [Users -> Roles \cup {"None"}] /\ index' \in SUBSET Users
    /\ \A u \in Users : members[u] = "Admin" => members'[u] = "Admin"
    /\ \/ workspace'.state = "Ready" /\ Passed(connections)
       \/ UNCHANGED <<connections, relays>>
    /\ UNCHANGED <<profiles, metadata, blobs, gateways>>
    /\ complete

\* The result of a clean-up, however far it came.
Cleaned ==
    /\ workspace.state \notin {"Absent", "Deleted"}
    /\ \A c \in Connections : connections[c].state = "Absent"
    /\ WorkspaceOK(workspace') /\ workspace'.state \in {"Deleting", "Deleted"}
    /\ gateways' \in [Gateways -> Gateway]
    /\ \A g \in Gateways : gateways'[g] = gateways[g] \/ gateways'[g].state = "Gone"
    /\ profiles' \in [Profiles -> Profile]
    /\ \A p \in Profiles :
          \/ profiles'[p] = profiles[p]
          \/ profiles'[p].state = "Gone" /\ profiles'[p].next = profiles[p].next
    /\ metadata' \subseteq metadata
    /\ members' \in [Users -> Roles \cup {"None"}] /\ index' \in SUBSET Users
    /\ workspace'.state = "Deleted" =>
          /\ metadata' = {}
          /\ \A p \in Profiles : profiles'[p].state # "Present"
          /\ \A g \in Gateways : gateways'[g].state \in {"New", "Gone"}
          /\ \A u \in Users : members'[u] = "None"
    /\ UNCHANGED <<connections, relays, blobs>>
    /\ complete

LEMMA ReconcileActive ==
    ASSUME Base, workspace.state \notin {"Deleting", "Deleted"}, NEW w, WorkspaceOK(w),
           w.state \in {"Pending", "Provisioning", "Ready", "Failed"},
           workspace.state = "Ready" => w.state = "Ready",
           NEW m \in [Users -> Roles \cup {"None"}], NEW ix \in SUBSET Users,
           \A u \in Users : members[u] = "Admin" => m[u] = "Admin",
           reconcile_active(w, m, ix, connections)
    PROVE  Reconciled
<1>1. PICK done \in 0..4 :
        LET repair == ~w.creatorInit /\ w.state \in {"Pending", "Provisioning"}
            mem == IF repair /\ done >= 1 /\ m[w.creator] = "None"
                   THEN [m EXCEPT ![w.creator] = "Admin"] ELSE m
            ix1 == IF repair /\ done >= 2 THEN ix \cup {w.creator} ELSE ix
            ws == IF repair /\ done >= 3 THEN [w EXCEPT !.creatorInit = TRUE] ELSE w
            rest == {u \in Users : mem[u] # "None"} \ ix1
        IN  /\ members' = mem
            /\ \E S \in CASE done < 3 -> {{}} [] done = 3 -> SUBSET rest [] done = 4 -> {rest} :
                   index' = ix1 \cup S
            /\ workspace' \in {ws} \cup
                  (IF done = 4 /\ ws.state # "Ready" /\ should_retry(ws)
                   THEN ensure_results(ws) ELSE {})
            /\ IF done = 4 /\ workspace'.state = "Ready"
               THEN reconcile_connections_locked(connections)
               ELSE connections' = connections /\ UNCHANGED relays
            /\ UNCHANGED <<profiles, metadata, blobs, gateways>>
            /\ complete
  BY Zenon DEF reconcile_active
<1> DEFINE repair == ~w.creatorInit /\ w.state \in {"Pending", "Provisioning"}
           mem == IF repair /\ done >= 1 /\ m[w.creator] = "None"
                  THEN [m EXCEPT ![w.creator] = "Admin"] ELSE m
           ix1 == IF repair /\ done >= 2 THEN ix \cup {w.creator} ELSE ix
           ws == IF repair /\ done >= 3 THEN [w EXCEPT !.creatorInit = TRUE] ELSE w
           rest == {u \in Users : mem[u] # "None"} \ ix1
<1>2. w.creator \in Users
  BY DEF WorkspaceOK, Workspace
<1>3. /\ members' \in [Users -> Roles \cup {"None"}]
      /\ \A u \in Users : members[u] = "Admin" => members'[u] = "Admin"
  <2>1. members' = mem
    BY <1>1
  <2>2. QED
    BY <1>2, <2>1 DEF Roles
<1>4. index' \in SUBSET Users
  <2>1. PICK S \in CASE done < 3 -> {{}} [] done = 3 -> SUBSET rest [] done = 4 -> {rest} :
               index' = ix1 \cup S
    BY <1>1
  <2>2. S \subseteq Users
    BY <1>1, <2>1
  <2>3. QED
    BY <1>2, <2>1, <2>2
<1>5. WorkspaceOK(ws) /\ ws.state = w.state
  <2>1. ASSUME ws = [w EXCEPT !.creatorInit = TRUE]
        PROVE  ws \in Workspace /\ ws.state = w.state /\ ws.attempts = w.attempts
    <3>1. w \in Workspace
      BY DEF WorkspaceOK
    <3>2. QED
      BY <2>1, <3>1, Zenon DEF Workspace
  <2>2. ws = w \/ ws = [w EXCEPT !.creatorInit = TRUE]
    OBVIOUS
  <2>3. QED
    BY <2>1, <2>2 DEF WorkspaceOK
<1>6. /\ WorkspaceOK(workspace')
      /\ w.state = "Ready" => workspace'.state = "Ready"
      /\ workspace'.state \in {"Pending", "Provisioning", "Ready", "Failed"}
  <2>1. workspace' = ws \/ (ws.state # "Ready" /\ should_retry(ws)
                            /\ workspace' \in ensure_results(ws))
    BY <1>1
  <2> HIDE DEF ws
  <2>2. QED
    BY <1>5, <2>1, EnsureWorkspace
<1>7. (workspace'.state = "Ready" /\ reconcile_connections_locked(connections))
      \/ UNCHANGED <<connections, relays>>
  BY <1>1
<1>8. reconcile_connections_locked(connections) => Passed(connections)
  BY ConnectionPass DEF Base, TypeOK
<1>9. UNCHANGED <<profiles, metadata, blobs, gateways>> /\ complete
  BY <1>1
<1> HIDE DEF repair, mem, ix1, ws, rest
<1>10. QED
  BY <1>3, <1>4, <1>6, <1>7, <1>8, <1>9 DEF Reconciled

\* Creating a workspace, cut short anywhere or reconciled at the end.
LEMMA CreateWorkspace ==
    ASSUME Base, NEW u \in Users, create_workspace(u)
    PROVE  Reconciled
<1>1. PICK done \in 1..4 :
      LET w == [state |-> "Pending", attempts |-> 0, retryable |-> FALSE,
                creator |-> u, creatorInit |-> (done = 4), journal |-> {}]
          m == IF done >= 2 THEN [members EXCEPT ![u] = "Admin"] ELSE members
          ix == IF done >= 3 THEN index \cup {u} ELSE index
      IN  IF done = 4
          THEN reconcile_active(w, m, ix, connections)
          ELSE /\ workspace' = w /\ members' = m /\ index' = ix
               /\ UNCHANGED <<connections, relays, profiles, metadata, blobs, gateways>>
               /\ complete
  BY Zenon DEF create_workspace
<1> DEFINE w == [state |-> "Pending", attempts |-> 0, retryable |-> FALSE,
                 creator |-> u, creatorInit |-> (done = 4), journal |-> {}]
           m == IF done >= 2 THEN [members EXCEPT ![u] = "Admin"] ELSE members
           ix == IF done >= 3 THEN index \cup {u} ELSE index
<1>2. workspace.state = "Absent"
  BY DEF create_workspace
<1>3. /\ m \in [Users -> Roles \cup {"None"}] /\ ix \in SUBSET Users
      /\ \A v \in Users : members[v] = "Admin" => m[v] = "Admin"
  BY DEF Base, TypeOK, Roles
<1>4. WorkspaceOK(w) /\ w.state = "Pending"
  <2>1. 0 \in 0..MAX_ATTEMPTS /\ 0 < MAX_ATTEMPTS /\ {} \in SUBSET Users
    OBVIOUS
  <2>2. w \in Workspace /\ w.state = "Pending" /\ w.attempts = 0
    BY <2>1, Zenon DEF Workspace, ProvisioningState
  <2>3. QED
    BY <2>1, <2>2 DEF WorkspaceOK
<1>5. CASE done = 4
  <2>1. reconcile_active(w, m, ix, connections)
    BY <1>1, <1>5
  <2> HIDE DEF w, m, ix
  <2>2. QED
    BY <1>2, <1>3, <1>4, <2>1, ReconcileActive
<1>6. CASE done # 4
  <2>1. /\ workspace' = w /\ members' = m /\ index' = ix
        /\ UNCHANGED <<connections, relays, profiles, metadata, blobs, gateways>>
        /\ complete
    BY <1>1, <1>6
  <2> HIDE DEF w, m, ix
  <2>2. QED
    BY <1>2, <1>3, <1>4, <2>1 DEF Reconciled
<1>7. QED
  BY <1>5, <1>6

LEMMA DeleteLocked ==
    ASSUME Base, workspace.state \notin {"Absent", "Deleted"},
           NEW w, WorkspaceOK(w), w.state = "Deleting", delete_workspace_locked(w)
    PROVE  Cleaned
<1>1. (\A c \in Connections : connections[c].state = "Absent") /\ complete
  BY DEF delete_workspace_locked
<1>2. PICK done \in 0..5 :
       /\ \E G \in cleared(1, done, {g \in Gateways : gateways[g].state \in {"Live", "Revoked"}}) :
             gateways' = [g \in Gateways |->
                            IF g \in G THEN [gateways[g] EXCEPT !.state = "Gone"] ELSE gateways[g]]
       /\ \E P \in cleared(2, done, {p \in Profiles : profiles[p].state = "Present"}) :
             profiles' = [p \in Profiles |->
                            IF p \in P THEN [profiles[p] EXCEPT !.state = "Gone"] ELSE profiles[p]]
       /\ \E R \in cleared(3, done, metadata) : metadata' = metadata \ R
       /\ \E U \in cleared(4, done, {u \in Users : members[u] # "None"}) :
             members' = [u \in Users |-> IF u \in U THEN "None" ELSE members[u]]
       /\ \E U \in cleared(5, done, index \cap w.journal) : index' = index \ U
       /\ workspace' \in {w} \cup (IF done = 5 THEN {[w EXCEPT !.state = "Deleted"]} ELSE {})
  BY DEF delete_workspace_locked
<1>3. UNCHANGED <<connections, relays, blobs>>
  BY DEF delete_workspace_locked
<1>4. /\ gateways' \in [Gateways -> Gateway]
      /\ \A g \in Gateways : gateways'[g] = gateways[g] \/ gateways'[g].state = "Gone"
  <2>1. \A g \in Gateways : gateways[g] \in Gateway
    BY DEF Base, TypeOK
  <2>2. QED
    BY <1>2, <2>1 DEF Gateway
<1>5. /\ profiles' \in [Profiles -> Profile]
      /\ \A p \in Profiles :
            \/ profiles'[p] = profiles[p]
            \/ profiles'[p].state = "Gone" /\ profiles'[p].next = profiles[p].next
  <2>1. \A p \in Profiles : profiles[p] \in Profile
    BY DEF Base, TypeOK
  <2>2. QED
    BY <1>2, <2>1 DEF Profile
<1>6. metadata' \subseteq metadata
  BY <1>2
<1>7. members' \in [Users -> Roles \cup {"None"}]
  BY <1>2 DEF Base, TypeOK
<1>8. index' \in SUBSET Users
  BY <1>2 DEF Base, TypeOK
<1>9. WorkspaceOK(workspace') /\ workspace'.state \in {"Deleting", "Deleted"}
  <2>1. ASSUME workspace' = [w EXCEPT !.state = "Deleted"]
        PROVE  workspace' \in Workspace /\ workspace'.state = "Deleted" /\ workspace'.attempts = w.attempts
    <3>1. w \in Workspace
      BY DEF WorkspaceOK
    <3>2. QED
      BY <2>1, <3>1, Zenon DEF Workspace
  <2>2. workspace' = w \/ workspace' = [w EXCEPT !.state = "Deleted"]
    BY <1>2
  <2>3. QED
    BY <2>1, <2>2 DEF WorkspaceOK
<1>10. ASSUME workspace'.state = "Deleted"
       PROVE  /\ metadata' = {}
              /\ \A p \in Profiles : profiles'[p].state # "Present"
              /\ \A g \in Gateways : gateways'[g].state \in {"New", "Gone"}
              /\ \A u \in Users : members'[u] = "None"
  <2>1. done = 5
    BY <1>2, <1>10
  <2>2. /\ \A rows : cleared(1, done, rows) = {rows}
        /\ \A rows : cleared(2, done, rows) = {rows}
        /\ \A rows : cleared(3, done, rows) = {rows}
        /\ \A rows : cleared(4, done, rows) = {rows}
    BY <2>1 DEF cleared
  <2>3. metadata' = {}
    BY <1>2, <2>2
  <2>4. \A p \in Profiles : profiles'[p].state # "Present"
    <3>1. \A p \in Profiles : profiles[p] \in Profile
      BY DEF Base, TypeOK
    <3>2. QED
      BY <1>2, <2>2, <3>1 DEF Profile
  <2>5. \A g \in Gateways : gateways'[g].state \in {"New", "Gone"}
    <3>1. \A g \in Gateways : gateways[g] \in Gateway
      BY DEF Base, TypeOK
    <3>2. QED
      BY <1>2, <2>2, <3>1 DEF Gateway
  <2>6. \A u \in Users : members'[u] = "None"
    BY <1>2, <2>2
  <2>7. QED
    BY <2>3, <2>4, <2>5, <2>6
<1>11. QED
  BY <1>1, <1>3, <1>4, <1>5, <1>6, <1>7, <1>8, <1>9, <1>10 DEF Cleaned

\* The row a delete_workspace marks, or leaves in flight.
LEMMA DeletingRow ==
    ASSUME Base, NEW w,
           w = IF workspace.state = "Deleting" THEN workspace
               ELSE [workspace EXCEPT !.state = "Deleting", !.attempts = 0,
                        !.retryable = FALSE, !.creatorInit = FALSE,
                        !.journal = {u \in Users : members[u] # "None"}]
    PROVE  WorkspaceOK(w) /\ w.state = "Deleting"
<1>1. CASE workspace.state = "Deleting"
  BY <1>1 DEF Base
<1>2. CASE workspace.state # "Deleting"
  <2>1. 0 \in 0..MAX_ATTEMPTS /\ 0 < MAX_ATTEMPTS
    OBVIOUS
  <2>2. workspace \in Workspace
    BY DEF Base, WorkspaceOK
  <2> DEFINE J == {u \in Users : members[u] # "None"}
  <2>3. w = [workspace EXCEPT !.state = "Deleting", !.attempts = 0,
                       !.retryable = FALSE, !.creatorInit = FALSE, !.journal = J]
    BY <1>2
  <2>4. J \in SUBSET Users
    OBVIOUS
  <2> HIDE DEF J
  <2>5. w \in Workspace /\ w.state = "Deleting" /\ w.attempts = 0
    BY <2>1, <2>2, <2>3, <2>4, Zenon DEF Workspace, ProvisioningState
  <2>6. QED
    BY <2>1, <2>5 DEF WorkspaceOK
<1>3. QED
  BY <1>1, <1>2

-----------------------------------------------------------------------------
(* What a step does, told by the tables it writes; the proofs below are by    *)
(* these cases.                                                               *)

More == landed \subseteq landed' /\ landed' \in SUBSET [op : Ops, key : Keys]

\* A late Deleting mark.
Marked ==
    /\ active_workspace /\ WorkspaceOK(workspace') /\ workspace'.state = "Deleting"
    /\ UNCHANGED <<members, index, connections, relays, profiles, metadata, blobs, gateways>>
    /\ late' \subseteq standing /\ [op |-> "delete_workspace", key |-> "workspace"] \in landed'

\* A membership written by a handler, or late.
MembersWritten ==
    /\ members' \in [Users -> Roles \cup {"None"}] /\ index' \in SUBSET Users
    /\ \A u \in Users : members'[u] # "None" =>
          \/ members[u] # "None" \/ workspace.state # "Deleted"
          \/ [op |-> "create_member", key |-> u] \in landed'
    /\ \/ HasAdmin => HasAdmin'
       \/ \E w \in late : w.op # "create_member" /\ land_member(w)
    /\ UNCHANGED <<workspace, connections, relays, profiles, metadata, blobs, gateways>>
    /\ late' \subseteq standing

\* create_connection or delete_connection, with the pass that follows the row.
ConnectionHandled(c, new) ==
    /\ workspace.state = "Ready" /\ RowOK(new)
    /\ \/ /\ connections[c].state = "Absent" /\ new.state = "Pending"
          /\ \A d \in Connections : connections[d].name # new.name
       \/ /\ connections[c].state # "Absent" /\ new.state = "Deleting"
          /\ new.name = connections[c].name /\ ~connection_in_use(new.name)
    /\ Passed([connections EXCEPT ![c] = new])
    /\ UNCHANGED <<workspace, members, index, profiles, metadata, blobs, gateways>>
    /\ complete

ConnectionLanded(c, new) ==
    /\ workspace.state \in {"Ready", "Deleting", "Deleted"} /\ RowOK(new)
    /\ connections' = [connections EXCEPT ![c] = new]
    /\ \/ /\ connections[c].state = "Absent" /\ new.state = "Pending"
          /\ [op |-> "create_connection", key |-> c] \in landed'
       \/ /\ connections[c].state # "Absent" /\ new.state = "Deleting"
          /\ new.name = connections[c].name
          /\ [op |-> "delete_connection", key |-> c] \in landed'
    /\ UNCHANGED <<workspace, members, index, relays, profiles, metadata, blobs, gateways>>
    /\ late' \subseteq standing

\* A Profiles row written by a handler, or late.
ProfileWritten(p, new) ==
    /\ new \in Profile /\ profiles' = [profiles EXCEPT ![p] = new]
    /\ \/ /\ profiles[p].state = "New" /\ new = [state |-> "Present", current |-> 0, next |-> 1]
          /\ workspace.state = "Ready" \/ [op |-> "create_profile", key |-> p] \in landed'
       \/ /\ profiles[p].state = "Present" /\ new = [profiles[p] EXCEPT !.state = "Gone"]
          /\ \/ \A g \in Gateways : gateways[g].state = "Live" => gateways[g].profile # p
             \/ [op |-> "delete_profile", key |-> p] \in landed'
       \/ /\ profiles[p].state = "Present"
          /\ new = [profiles[p] EXCEPT !.next = profiles[p].next + 1]
       \/ /\ profiles[p].state = "Present"
          /\ \E r \in Revisions : /\ new = [profiles[p] EXCEPT !.current = r]
                                  /\ \/ revision(p, r) /\ check_config(blobs[p][r])
                                     \/ [op |-> "publish", key |-> p] \in landed'
    /\ UNCHANGED <<workspace, members, index, connections, relays, metadata, blobs, gateways>>
    /\ late' \subseteq standing

\* create_revision, up to any of its writes.
RevisionCreated(p, names) ==
    /\ workspace.state = "Ready" /\ profiles[p].state = "Present" /\ profiles[p].next \in Revisions
    /\ profiles' = [profiles EXCEPT ![p].next = profiles[p].next + 1]
    /\ \/ UNCHANGED <<blobs, metadata>>
       \/ /\ blobs' = [blobs EXCEPT ![p][profiles[p].next] = names]
          /\ metadata' \in {metadata, metadata \cup {<<p, profiles[p].next>>}}
    /\ \/ late' \subseteq standing
       \/ late' \subseteq standing \cup {[op |-> "put_revision", key |-> <<p, profiles[p].next>>, row |-> names]}
       \/ /\ blobs' = [blobs EXCEPT ![p][profiles[p].next] = names]
          /\ late' \subseteq standing \cup {[op |-> "save_metadata", key |-> <<p, profiles[p].next>>, row |-> names]}
    /\ UNCHANGED <<workspace, members, index, connections, relays, gateways, landed>>

\* A revision's blob or metadata row, late.
RevisionLanded(p, r) ==
    /\ r < profiles[p].next
    /\ \/ /\ blobs[p][r] = {} /\ UNCHANGED metadata
          /\ \E names \in Configs :
                /\ blobs' = [blobs EXCEPT ![p][r] = names]
                /\ [op |-> "put_revision", key |-> <<p, r>>, row |-> names] \in late
       \/ /\ blobs[p][r] # {} /\ metadata' = metadata \cup {<<p, r>>} /\ UNCHANGED blobs
          /\ [op |-> "save_metadata", key |-> <<p, r>>] \in landed'
    /\ UNCHANGED <<workspace, members, index, connections, relays, profiles, gateways>>
    /\ late' \subseteq standing

\* A Gateways row written by a handler, or late.
GatewayWritten(g, new) ==
    /\ new \in Gateway /\ gateways' = [gateways EXCEPT ![g] = new]
    /\ \/ /\ gateways[g].state = "New" /\ new.state = "Live"
          /\ \/ new.profile \in Profiles /\ published_config(new.profile)
             \/ [op |-> "mint", key |-> g] \in landed'
       \/ gateways[g].state = "Live" /\ new = [gateways[g] EXCEPT !.state = "Revoked"]
    /\ UNCHANGED <<workspace, members, index, connections, relays, profiles, metadata, blobs>>
    /\ late' \subseteq standing

\* A handler that gave up at its first write.
Deferred(v) ==
    /\ v \in Writes /\ LateOK(v)
    /\ late' \subseteq standing \cup {v}
    /\ UNCHANGED <<tables, landed>>

Effect ==
    \/ Reconciled \/ Cleaned \/ Marked \/ MembersWritten
    \/ \E c \in Connections, new \in Connection : ConnectionHandled(c, new) \/ ConnectionLanded(c, new)
    \/ \E p \in Profiles, new \in Profile : ProfileWritten(p, new)
    \/ \E p \in Profiles, names \in Configs : RevisionCreated(p, names)
    \/ \E p \in Profiles, r \in Revisions : RevisionLanded(p, r)
    \/ \E g \in Gateways, new \in Gateway : GatewayWritten(g, new)
    \/ \E v \in Writes : Deferred(v)
    \/ UNCHANGED vars

-----------------------------------------------------------------------------
\* A handler that heard of its writes.
LEMMA CompleteStep ==
    ASSUME TypeOK, complete
    PROVE  late' \subseteq standing /\ More
BY DEF complete, More, TypeOK

\* The members handlers.
LEMMA MemberEffect ==
    ASSUME Base, active_workspace, NEW op \in {"create_member", "update_member", "delete_member"},
           NEW u \in Users, NEW role \in Roles \cup {"None"}, NEW new_index \in SUBSET Users,
           op = "create_member" => members[u] = "None",
           op # "create_member" => members[u] # "None" /\ protect_last_admin(u, role),
           write_member(op, u, role, new_index),
           UNCHANGED <<workspace, connections, relays, profiles, metadata, blobs, gateways>>
    PROVE  Effect /\ More
<1>1. CASE /\ members' = [members EXCEPT ![u] = role] /\ index' \in {index, new_index}
           /\ complete
  <2>1. members \in [Users -> Roles \cup {"None"}] /\ index \in SUBSET Users
    BY DEF Base, TypeOK
  <2>2. members' \in [Users -> Roles \cup {"None"}] /\ index' \in SUBSET Users
    BY <1>1, <2>1
  <2>3. HasAdmin => HasAdmin'
    <3>1. SUFFICES ASSUME NEW a \in Users, members[a] = "Admin" PROVE \E v \in Users : members'[v] = "Admin"
      BY DEF HasAdmin
    <3>2. CASE u = a /\ role # "Admin"
      <4>1. PICK v \in Users \ {u} : members[v] = "Admin"
        BY <3>1, <3>2 DEF protect_last_admin
      <4>2. QED
        BY <1>1, <2>1, <4>1
    <3>3. CASE u # a \/ role = "Admin"
      BY <1>1, <2>1, <3>1, <3>3
    <3>4. QED
      BY <3>2, <3>3
  <2>4. workspace.state # "Deleted"
    BY DEF active_workspace
  <2>5. MembersWritten
    BY <1>1, <2>2, <2>3, <2>4, CompleteStep DEF MembersWritten, Base
  <2>6. QED
    BY <1>1, <2>5, CompleteStep DEF Effect, Base
<1>2. CASE /\ UNCHANGED <<members, index>>
           /\ gives_up([op |-> op, key |-> u, row |-> role])
  <2> DEFINE v == [op |-> op, key |-> u, row |-> role]
  <2>1. v \in Writes
    <3>1. v \in [op : {"create_member", "update_member", "delete_member"}, key : Users,
                 row : Roles \cup {"None"}]
      OBVIOUS
    <3>2. QED
      BY <3>1 DEF Writes
  <2>2. LateOK(v)
    BY DEF LateOK
  <2>3. late' \subseteq standing \cup {v} /\ UNCHANGED <<tables, landed>>
    BY <1>2 DEF gives_up, tables
  <2>4. More
    BY <2>3 DEF More, Base, TypeOK
  <2> HIDE DEF v
  <2>5. QED
    BY <2>1, <2>2, <2>3, <2>4 DEF Effect, Deferred
<1>3. QED
  BY <1>1, <1>2 DEF write_member

\* A re-indexed member, or a delete of nobody.
LEMMA IndexEffect ==
    ASSUME Base, UNCHANGED members, index' \in SUBSET Users, complete,
           UNCHANGED <<workspace, connections, relays, profiles, metadata, blobs, gateways>>
    PROVE  Effect /\ More
<1>1. MembersWritten
  BY CompleteStep DEF MembersWritten, Base, TypeOK, HasAdmin
<1>2. QED
  BY <1>1, CompleteStep DEF Effect, Base

\* The profile handlers.
LEMMA ProfileEffect ==
    ASSUME Base, NEW op \in {"create_profile", "delete_profile", "publish"},
           NEW p \in Profiles, NEW new \in Profile, workspace.state = "Ready",
           \/ /\ op = "create_profile" /\ profiles[p].state = "New"
              /\ new = [state |-> "Present", current |-> 0, next |-> 1]
           \/ /\ op = "delete_profile" /\ profiles[p].state = "Present"
              /\ new = [profiles[p] EXCEPT !.state = "Gone"]
              /\ \A g \in Gateways : gateways[g].state = "Live" => gateways[g].profile # p
           \/ /\ op = "publish" /\ profiles[p].state = "Present"
              /\ \E r \in Revisions : /\ new = [profiles[p] EXCEPT !.current = r]
                                      /\ revision(p, r) /\ check_config(blobs[p][r]),
           write_profile(op, p, new),
           UNCHANGED <<workspace, members, index, connections, relays, metadata, blobs, gateways>>
    PROVE  Effect /\ More
<1>1. CASE profiles' = [profiles EXCEPT ![p] = new] /\ complete
  <2>1. late' \subseteq standing /\ More
    BY <1>1, CompleteStep DEF Base
  <2>2. ProfileWritten(p, new)
    BY <1>1, <2>1 DEF ProfileWritten
  <2>3. QED
    BY <2>1, <2>2 DEF Effect
<1>2. CASE UNCHANGED profiles /\ gives_up([op |-> op, key |-> p, row |-> new])
  <2> DEFINE v == [op |-> op, key |-> p, row |-> new]
  <2>1. v \in Writes
    <3>1. v \in [op : {"create_profile", "delete_profile", "create_revision", "publish"},
                 key : Profiles, row : Profile]
      OBVIOUS
    <3>2. QED
      BY <3>1 DEF Writes
  <2>2. LateOK(v)
    BY DEF LateOK
  <2>3. late' \subseteq standing \cup {v} /\ UNCHANGED <<tables, landed>>
    BY <1>2 DEF gives_up, tables
  <2>4. More
    BY <2>3 DEF More, Base, TypeOK
  <2> HIDE DEF v
  <2>5. QED
    BY <2>1, <2>2, <2>3, <2>4 DEF Effect, Deferred
<1>3. QED
  BY <1>1, <1>2 DEF write_profile

\* The gateway handlers.
LEMMA GatewayEffect ==
    ASSUME Base, NEW op \in {"mint", "revoke"}, NEW g \in Gateways, NEW new \in Gateway,
           \/ /\ op = "mint" /\ gateways[g].state = "New" /\ new.state = "Live"
              /\ new.profile \in Profiles /\ published_config(new.profile)
           \/ /\ op = "revoke" /\ gateways[g].state = "Live"
              /\ new = [gateways[g] EXCEPT !.state = "Revoked"],
           write_gateway(op, g, new),
           UNCHANGED <<workspace, members, index, connections, relays, profiles, metadata, blobs>>
    PROVE  Effect /\ More
<1>1. CASE gateways' = [gateways EXCEPT ![g] = new] /\ complete
  <2>1. late' \subseteq standing /\ More
    BY <1>1, CompleteStep DEF Base
  <2>2. GatewayWritten(g, new)
    BY <1>1, <2>1 DEF GatewayWritten
  <2>3. QED
    BY <2>1, <2>2 DEF Effect
<1>2. CASE UNCHANGED gateways /\ gives_up([op |-> op, key |-> g, row |-> new])
  <2> DEFINE v == [op |-> op, key |-> g, row |-> new]
  <2>1. v \in Writes
    <3>1. v \in [op : {"mint", "revoke"}, key : Gateways, row : Gateway]
      OBVIOUS
    <3>2. QED
      BY <3>1 DEF Writes
  <2>2. LateOK(v)
    BY DEF LateOK
  <2>3. late' \subseteq standing \cup {v} /\ UNCHANGED <<tables, landed>>
    BY <1>2 DEF gives_up, tables
  <2>4. More
    BY <2>3 DEF More, Base, TypeOK
  <2> HIDE DEF v
  <2>5. QED
    BY <2>1, <2>2, <2>3, <2>4 DEF Effect, Deferred
<1>3. QED
  BY <1>1, <1>2 DEF write_gateway

\* create_connection.
LEMMA CreateConnection ==
    ASSUME Base, NEW c \in Connections, NEW name \in Names, create_connection(c, name)
    PROVE  Effect /\ More
<1> DEFINE new == [NoConnection EXCEPT !.name = name, !.state = "Pending"]
           v == [op |-> "create_connection", key |-> c, row |-> new]
<1>1. RowOK(new) /\ new.state = "Pending" /\ new.name = name /\ new \in Connection
  <2>1. 0 \in 0..MAX_ATTEMPTS /\ 0 < MAX_ATTEMPTS
    OBVIOUS
  <2>2. NoConnection \in Connection /\ NoConnection.attempts = 0
    BY NoRow DEF RowOK, NoConnection
  <2>3. /\ new \in Connection /\ new.state = "Pending" /\ new.name = name
        /\ new.attempts = NoConnection.attempts
    BY <2>1, <2>2, Zenon DEF Connection, ProvisioningState
  <2> HIDE DEF new
  <2>4. QED
    BY <2>1, <2>2, <2>3 DEF RowOK
<1>2. /\ workspace.state = "Ready" /\ connections[c].state = "Absent"
      /\ \A d \in Connections : connections[d].name # name
      /\ UNCHANGED <<workspace, members, index, profiles, metadata, blobs, gateways>>
      /\ \/ reconcile_connections_locked([connections EXCEPT ![c] = new]) /\ complete
         \/ UNCHANGED <<connections, relays>> /\ gives_up(v)
  BY DEF create_connection
<1> HIDE DEF new
<1>3. CASE reconcile_connections_locked([connections EXCEPT ![c] = new]) /\ complete
  <2> DEFINE rows == [connections EXCEPT ![c] = new]
  <2>1. rows \in [Connections -> Connection] /\ \A d \in Connections : RowOK(rows[d])
    BY <1>1 DEF Base, TypeOK
  <2> HIDE DEF rows
  <2>2. Passed(rows)
    BY <1>3, <2>1, ConnectionPass DEF rows, Base, TypeOK
  <2>3. ConnectionHandled(c, new)
    BY <1>1, <1>2, <1>3, <2>2 DEF ConnectionHandled, rows
  <2>4. QED
    BY <1>1, <1>3, <2>3, CompleteStep DEF Effect, Base
<1>4. CASE UNCHANGED <<connections, relays>> /\ gives_up(v)
  <2>1. v \in Writes
    <3>1. v \in [op : {"create_connection", "delete_connection"}, key : Connections, row : Connection]
      BY <1>1
    <3>2. QED
      BY <3>1 DEF Writes
  <2>2. LateOK(v)
    BY <1>1, <1>2 DEF LateOK
  <2>3. late' \subseteq standing \cup {v} /\ UNCHANGED <<tables, landed>>
    BY <1>2, <1>4 DEF gives_up, tables
  <2>4. More
    BY <2>3 DEF More, Base, TypeOK
  <2> HIDE DEF v
  <2>5. QED
    BY <2>1, <2>2, <2>3, <2>4 DEF Effect, Deferred
<1>5. QED
  BY <1>2, <1>3, <1>4

\* delete_connection.
LEMMA DeleteConnection ==
    ASSUME Base, NEW c \in Connections, delete_connection(c)
    PROVE  Effect /\ More
<1> DEFINE new == IF connections[c].state = "Deleting" THEN connections[c]
                  ELSE [connections[c] EXCEPT !.state = "Deleting", !.attempts = 0,
                                              !.retryable = FALSE]
           v == [op |-> "delete_connection", key |-> c, row |-> new]
<1>0. connections[c] \in Connection /\ RowOK(connections[c])
  BY DEF Base, TypeOK
<1>1. /\ connections[c].state # "Absent" /\ ~connection_in_use(connections[c].name)
      /\ active_workspace
      /\ UNCHANGED <<workspace, members, index, profiles, metadata, blobs, gateways>>
      /\ \/ reconcile_connections_locked([connections EXCEPT ![c] = new]) /\ complete
         \/ UNCHANGED <<connections, relays>> /\ gives_up(v)
  BY DEF delete_connection
<1>2. RowOK(new) /\ new.state = "Deleting" /\ new.name = connections[c].name /\ new \in Connection
  <2>1. 0 \in 0..MAX_ATTEMPTS /\ 0 < MAX_ATTEMPTS
    OBVIOUS
  <2>2. CASE connections[c].state = "Deleting"
    BY <1>0, <2>2
  <2>3. CASE connections[c].state # "Deleting"
    <3>1. new = [connections[c] EXCEPT !.state = "Deleting", !.attempts = 0, !.retryable = FALSE]
      BY <2>3
    <3> HIDE DEF new
    <3>2. /\ new \in Connection /\ new.state = "Deleting" /\ new.attempts = 0
          /\ new.name = connections[c].name
      BY <1>0, <2>1, <3>1, Zenon DEF Connection, ProvisioningState
    <3>3. QED
      BY <1>0, <1>1, <2>1, <3>2 DEF RowOK
  <2>4. QED
    BY <2>2, <2>3
<1>3. workspace.state = "Ready"
  BY <1>1 DEF Base, RowsNeedReady, active_workspace
<1> HIDE DEF new
<1>4. CASE reconcile_connections_locked([connections EXCEPT ![c] = new]) /\ complete
  <2> DEFINE rows == [connections EXCEPT ![c] = new]
  <2>1. rows \in [Connections -> Connection] /\ \A d \in Connections : RowOK(rows[d])
    BY <1>2 DEF Base, TypeOK
  <2> HIDE DEF rows
  <2>2. Passed(rows)
    BY <1>4, <2>1, ConnectionPass DEF rows, Base, TypeOK
  <2>3. ConnectionHandled(c, new)
    BY <1>1, <1>2, <1>3, <1>4, <2>2 DEF ConnectionHandled, rows
  <2>4. QED
    BY <1>2, <1>4, <2>3, CompleteStep DEF Effect, Base
<1>5. CASE UNCHANGED <<connections, relays>> /\ gives_up(v)
  <2>1. v \in Writes
    <3>1. v \in [op : {"create_connection", "delete_connection"}, key : Connections, row : Connection]
      BY <1>2
    <3>2. QED
      BY <3>1 DEF Writes
  <2>2. LateOK(v)
    BY <1>1, <1>2 DEF LateOK
  <2>3. late' \subseteq standing \cup {v} /\ UNCHANGED <<tables, landed>>
    BY <1>1, <1>5 DEF gives_up, tables
  <2>4. More
    BY <2>3 DEF More, Base, TypeOK
  <2> HIDE DEF v
  <2>5. QED
    BY <2>1, <2>2, <2>3, <2>4 DEF Effect, Deferred
<1>6. QED
  BY <1>1, <1>4, <1>5

\* delete_workspace.
LEMMA DeleteWorkspace ==
    ASSUME Base, delete_workspace
    PROVE  Effect /\ More
<1> DEFINE w == IF workspace.state = "Deleting" THEN workspace
                ELSE [workspace EXCEPT !.state = "Deleting", !.attempts = 0,
                         !.retryable = FALSE, !.creatorInit = FALSE,
                         !.journal = {u \in Users : members[u] # "None"}]
           v == [op |-> "delete_workspace", key |-> "workspace", row |-> w]
<1>1. /\ workspace.state \notin {"Absent", "Deleted"}
      /\ \/ delete_workspace_locked(w)
         \/ w # workspace /\ UNCHANGED tables /\ gives_up(v)
  BY DEF delete_workspace
<1>2. workspace.state # "Deleting" \/ w = workspace
  OBVIOUS
<1>3. WorkspaceOK(w) /\ w.state = "Deleting"
  BY DeletingRow
<1> HIDE DEF w
<1>4. CASE delete_workspace_locked(w)
  <2>1. Cleaned
    BY <1>1, <1>3, <1>4, DeleteLocked
  <2>2. QED
    BY <2>1, CompleteStep DEF Effect, Base, Cleaned
<1>5. CASE w # workspace /\ UNCHANGED tables /\ gives_up(v)
  <2>1. v \in Writes
    <3>1. w \in Workspace
      BY <1>3 DEF WorkspaceOK
    <3>2. v \in [op : {"delete_workspace"}, key : {"workspace"}, row : Workspace]
      BY <3>1
    <3>3. QED
      BY <3>2 DEF Writes
  <2>2. LateOK(v)
    BY <1>1, <1>2, <1>3, <1>5 DEF LateOK, active_workspace
  <2>3. late' \subseteq standing \cup {v} /\ UNCHANGED <<tables, landed>>
    BY <1>5 DEF gives_up
  <2>4. More
    BY <2>3 DEF More, Base, TypeOK
  <2> HIDE DEF v
  <2>5. QED
    BY <2>1, <2>2, <2>3, <2>4 DEF Effect, Deferred
<1>6. QED
  BY <1>1, <1>4, <1>5

\* create_revision.
LEMMA CreateRevision ==
    ASSUME Base, NEW p \in Profiles, NEW names \in Configs, create_revision(p, names)
    PROVE  Effect /\ More
<1> DEFINE r == profiles[p].next
           reserved == [profiles[p] EXCEPT !.next = r + 1]
<1>0. profiles[p] \in Profile /\ profiles[p].state = "Present" /\ workspace.state = "Ready"
  BY DEF create_revision, Base, TypeOK
<1>1. r \in Revisions /\ reserved \in Profile
  BY <1>0 DEF create_revision, Profile, Revisions
<1>2. PICK done \in 0..3 :
             /\ profiles' = IF done >= 1 THEN [profiles EXCEPT ![p] = reserved] ELSE profiles
             /\ blobs' = IF done >= 2 THEN [blobs EXCEPT ![p][r] = names] ELSE blobs
             /\ metadata' = IF done >= 3 THEN metadata \cup {<<p, r>>} ELSE metadata
             /\ \/ complete
                \/ /\ done = 0
                   /\ gives_up([op |-> "create_revision", key |-> p, row |-> reserved])
                \/ /\ done = 1
                   /\ gives_up([op |-> "put_revision", key |-> <<p, r>>, row |-> names])
                \/ /\ done = 2
                   /\ gives_up([op |-> "save_metadata", key |-> <<p, r>>, row |-> names])
  BY DEF create_revision
<1>3. UNCHANGED <<workspace, members, index, connections, relays, gateways>>
  BY DEF create_revision
<1>4. ASSUME UNCHANGED landed PROVE More
  BY <1>4 DEF More, Base, TypeOK
<1>5. CASE done = 0
  <2>1. UNCHANGED tables
    BY <1>2, <1>3, <1>5 DEF tables
  <2>2. CASE complete
    <3>1. MembersWritten
      BY <2>1, <2>2, CompleteStep DEF MembersWritten, Base, TypeOK, tables, HasAdmin
    <3>2. QED
      BY <2>2, <3>1, CompleteStep DEF Effect, Base
  <2>3. CASE gives_up([op |-> "create_revision", key |-> p, row |-> reserved])
    <3> DEFINE v == [op |-> "create_revision", key |-> p, row |-> reserved]
    <3>1. v \in Writes
      <4>1. v \in [op : {"create_profile", "delete_profile", "create_revision", "publish"},
                   key : Profiles, row : Profile]
        BY <1>1
      <4>2. QED
        BY <4>1 DEF Writes
    <3>2. LateOK(v)
      BY <1>0 DEF LateOK
    <3>3. late' \subseteq standing \cup {v} /\ UNCHANGED <<tables, landed>>
      BY <2>1, <2>3 DEF gives_up
    <3> HIDE DEF v
    <3>4. QED
      BY <1>4, <3>1, <3>2, <3>3 DEF Effect, Deferred
  <2>4. QED
    BY <1>2, <1>5, <2>2, <2>3
<1>6. CASE done >= 1
  <2>1. profiles' = [profiles EXCEPT ![p].next = profiles[p].next + 1]
    BY <1>2, <1>6 DEF Base, TypeOK
  <2>2. /\ \/ UNCHANGED <<blobs, metadata>>
           \/ /\ blobs' = [blobs EXCEPT ![p][r] = names]
              /\ metadata' \in {metadata, metadata \cup {<<p, r>>}}
        /\ done = 2 => blobs' = [blobs EXCEPT ![p][r] = names]
    BY <1>2, <1>6
  <2>3. UNCHANGED landed
    BY <1>2 DEF complete, gives_up
  <2>4. \/ late' \subseteq standing
        \/ late' \subseteq standing \cup {[op |-> "put_revision", key |-> <<p, r>>, row |-> names]}
        \/ /\ done = 2
           /\ late' \subseteq standing \cup {[op |-> "save_metadata", key |-> <<p, r>>, row |-> names]}
    <3>1. ASSUME NEW v, gives_up(v) PROVE late' \subseteq standing \cup {v}
      BY <3>1 DEF gives_up
    <3>2. complete => late' \subseteq standing
      BY DEF complete
    <3>3. \/ complete
          \/ gives_up([op |-> "put_revision", key |-> <<p, r>>, row |-> names])
          \/ done = 2 /\ gives_up([op |-> "save_metadata", key |-> <<p, r>>, row |-> names])
      BY <1>2, <1>6
    <3>4. QED
      BY <3>1, <3>2, <3>3, Zenon
  <2>5. RevisionCreated(p, names)
    BY <1>0, <1>1, <1>3, <2>1, <2>2, <2>3, <2>4, Zenon DEF RevisionCreated
  <2>6. QED
    BY <1>4, <2>3, <2>5 DEF Effect
<1>7. QED
  BY <1>5, <1>6

\* A write that arrives late.
LEMMA LandEffect ==
    ASSUME Base, NEW w \in late, land(w)
    PROVE  Effect /\ More
<1>1. w \in Writes /\ LateOK(w) /\ w.op \in Ops /\ w.key \in Keys
  BY WriteTypes DEF Base, TypeOK
<1>2. arrives(w)
  BY DEF land, land_workspace, land_member, land_connection, land_profile, land_revision,
         land_gateway
<1>3. late' \subseteq standing /\ [op |-> w.op, key |-> w.key] \in landed' /\ More
  <2>1. landed' = landed \cup {[op |-> w.op, key |-> w.key]}
    BY <1>2 DEF arrives
  <2>2. [op |-> w.op, key |-> w.key] \in [op : Ops, key : Keys]
    BY <1>1
  <2>3. QED
    BY <1>2, <2>1, <2>2 DEF arrives, More, Base, TypeOK
<1>4. CASE land_workspace(w)
  <2>1. w.key = "workspace"
    BY <1>1, <1>4 DEF land_workspace, Writes
  <2>2. Marked
    BY <1>1, <1>3, <1>4, <2>1 DEF land_workspace, LateOK, Marked
  <2>3. QED
    BY <1>3, <2>2 DEF Effect
<1>5. CASE land_member(w)
  <2>1. w.key \in Users /\ w.row \in Roles \cup {"None"}
    BY <1>1, <1>5, WriteTypes DEF land_member
  <2>2. members' = [members EXCEPT ![w.key] = w.row] /\ members' \in [Users -> Roles \cup {"None"}]
    BY <1>5, <2>1 DEF land_member, Base, TypeOK
  <2>3. w.op = "create_member" => members[w.key] = "None"
    BY <1>5 DEF land_member
  <2>4. w.op = "create_member" => (HasAdmin => HasAdmin')
    BY <2>1, <2>2, <2>3 DEF HasAdmin, Base, TypeOK
  <2>5. w.op # "create_member" => members[w.key] # "None"
    BY <1>1, <1>5 DEF land_member, LateOK
  <2>6. MembersWritten
    <3>1. ASSUME NEW u \in Users, members'[u] # "None", members[u] = "None"
          PROVE  [op |-> "create_member", key |-> u] \in landed'
      BY <1>3, <2>1, <2>2, <2>5, <3>1 DEF Base, TypeOK
    <3>2. (HasAdmin => HasAdmin') \/ \E x \in late : x.op # "create_member" /\ land_member(x)
      BY <1>5, <2>4
    <3>3. index' \in SUBSET Users
      BY <1>5 DEF land_member, Base, TypeOK
    <3>4. QED
      BY <1>3, <1>5, <2>2, <3>1, <3>2, <3>3 DEF land_member, MembersWritten
  <2>7. QED
    BY <1>3, <2>6 DEF Effect
<1>6. CASE land_connection(w)
  <2>1. w.key \in Connections /\ w.row \in Connection
    BY <1>1, <1>6, WriteTypes DEF land_connection
  <2>2. ConnectionLanded(w.key, w.row)
    <3>1. CASE w.op = "create_connection" /\ connections[w.key].state = "Absent"
      BY <1>1, <1>3, <1>6, <3>1 DEF land_connection, LateOK, ConnectionLanded
    <3>2. CASE w.op = "delete_connection"
      <4>1. workspace.state \in {"Ready", "Deleting", "Deleted"}
        BY <1>1, <2>1, <3>2 DEF LateOK, Base, RowsNeedReady
      <4>2. QED
        BY <1>1, <1>3, <1>6, <3>2, <4>1 DEF land_connection, LateOK, ConnectionLanded
    <3>3. QED
      BY <1>6, <3>1, <3>2 DEF land_connection
  <2>3. QED
    BY <1>3, <2>1, <2>2 DEF Effect
<1>7. CASE land_profile(w)
  <2>1. w.key \in Profiles /\ w.row \in Profile
    BY <1>1, <1>7, WriteTypes DEF land_profile
  <2>2. ProfileWritten(w.key, w.row)
    <3>1. CASE w.op = "create_profile" /\ profiles[w.key].state = "New"
      BY <1>1, <1>3, <1>7, <2>1, <3>1 DEF land_profile, LateOK, ProfileWritten
    <3>2. CASE w.op = "delete_profile"
      BY <1>1, <1>3, <1>7, <2>1, <3>2 DEF land_profile, LateOK, ProfileWritten
    <3>3. CASE w.op = "create_revision"
      BY <1>1, <1>3, <1>7, <2>1, <3>3 DEF land_profile, LateOK, ProfileWritten
    <3>4. CASE w.op = "publish"
      BY <1>1, <1>3, <1>7, <2>1, <3>4 DEF land_profile, LateOK, ProfileWritten
    <3>5. QED
      BY <1>7, <3>1, <3>2, <3>3, <3>4 DEF land_profile
  <2>3. QED
    BY <1>3, <2>1, <2>2 DEF Effect
<1>8. CASE land_revision(w)
  <2>1. w.key \in Profiles \X Revisions /\ w.row \in Configs
    BY <1>1, <1>8, WriteTypes DEF land_revision
  <2>2. PICK p \in Profiles, r \in Revisions : w.key = <<p, r>>
    BY <2>1
  <2>3. w.key[1] = p /\ w.key[2] = r
    BY <2>2
  <2>4. r < profiles[p].next
    BY <1>1, <1>8, <2>3 DEF land_revision, LateOK
  <2>5. w = [op |-> w.op, key |-> w.key, row |-> w.row]
    BY <1>1, <1>8 DEF land_revision, Writes
  <2>6. RevisionLanded(p, r)
    <3>1. CASE w.op = "put_revision"
      <4>1. /\ blobs[p][r] = {} /\ UNCHANGED metadata
            /\ blobs' = [blobs EXCEPT ![p][r] = w.row]
            /\ UNCHANGED <<workspace, members, index, connections, relays, profiles, gateways>>
        BY <1>8, <2>3, <3>1 DEF land_revision
      <4>2. [op |-> "put_revision", key |-> <<p, r>>, row |-> w.row] \in late
        BY <2>2, <2>5, <3>1
      <4>3. QED
        BY <1>3, <2>1, <2>4, <4>1, <4>2 DEF RevisionLanded
    <3>2. CASE w.op = "save_metadata"
      <4>1. /\ metadata' = metadata \cup {<<p, r>>} /\ UNCHANGED blobs
            /\ UNCHANGED <<workspace, members, index, connections, relays, profiles, gateways>>
        BY <1>8, <2>2, <3>2 DEF land_revision
      <4>2. blobs[p][r] # {}
        BY <1>1, <2>3, <3>2 DEF LateOK
      <4>3. [op |-> "save_metadata", key |-> <<p, r>>] \in landed'
        BY <1>3, <2>2, <3>2
      <4>4. QED
        BY <1>3, <2>4, <4>1, <4>2, <4>3 DEF RevisionLanded
    <3>3. QED
      BY <1>8, <3>1, <3>2 DEF land_revision
  <2>7. QED
    BY <1>3, <2>6 DEF Effect
<1>9. CASE land_gateway(w)
  <2>1. w.key \in Gateways /\ w.row \in Gateway
    BY <1>1, <1>9, WriteTypes DEF land_gateway
  <2>2. GatewayWritten(w.key, w.row)
    <3>1. CASE w.op = "mint" /\ gateways[w.key].state = "New"
      BY <1>1, <1>3, <1>9, <2>1, <3>1 DEF land_gateway, LateOK, GatewayWritten
    <3>2. CASE w.op = "revoke"
      BY <1>1, <1>3, <1>9, <2>1, <3>2 DEF land_gateway, LateOK, GatewayWritten
    <3>3. QED
      BY <1>9, <3>1, <3>2 DEF land_gateway
  <2>3. QED
    BY <1>3, <2>1, <2>2 DEF Effect
<1>10. QED
  BY <1>4, <1>5, <1>6, <1>7, <1>8, <1>9 DEF land

-----------------------------------------------------------------------------
\* Every handler, every pass and every late write does one of these things.
LEMMA StepEffect ==
    ASSUME Base, [Next]_vars
    PROVE  Effect /\ More
<1>1. CASE reconcile_once
  <2>1. CASE active_workspace /\ reconcile_active(workspace, members, index, connections)
    <3>1. workspace.state \in {"Pending", "Provisioning", "Ready", "Failed"}
      BY <2>1 DEF active_workspace, Base, TypeOK, Workspace, ProvisioningState
    <3>2. /\ WorkspaceOK(workspace) /\ members \in [Users -> Roles \cup {"None"}]
          /\ index \in SUBSET Users
      BY DEF Base, TypeOK
    <3>3. Reconciled
      BY <2>1, <3>1, <3>2, ReconcileActive
    <3>4. QED
      BY <3>3, CompleteStep DEF Effect, Reconciled, Base
  <2>2. CASE workspace.state = "Deleting" /\ delete_workspace_locked(workspace)
    <3>1. Cleaned
      BY <2>2, DeleteLocked DEF Base
    <3>2. QED
      BY <3>1, CompleteStep DEF Effect, Cleaned, Base
  <2>3. QED
    BY <1>1, <2>1, <2>2 DEF reconcile_once
<1>2. ASSUME NEW u \in Users, create_workspace(u) PROVE Effect /\ More
  <2>1. Reconciled
    BY <1>2, CreateWorkspace
  <2>2. QED
    BY <2>1, CompleteStep DEF Effect, Reconciled, Base
<1>3. CASE delete_workspace
  BY <1>3, DeleteWorkspace
<1>4. ASSUME NEW u \in Users, NEW role \in Roles, create_member(u, role) PROVE Effect /\ More
  <2>1. index \cup {u} \in SUBSET Users /\ index \in SUBSET Users
    BY DEF Base, TypeOK
  <2>2. CASE members[u] = "None" /\ write_member("create_member", u, role, index \cup {u})
    BY <1>4, <2>1, <2>2, MemberEffect DEF create_member
  <2>3. CASE UNCHANGED members /\ index' \in {index, index \cup {u}} /\ complete
    BY <1>4, <2>1, <2>3, IndexEffect DEF create_member
  <2>4. QED
    BY <1>4, <2>2, <2>3 DEF create_member
<1>5. ASSUME NEW u \in Users, NEW role \in Roles, update_member(u, role) PROVE Effect /\ More
  <2>1. index \cup {u} \in SUBSET Users
    BY DEF Base, TypeOK
  <2>2. QED
    BY <1>5, <2>1, MemberEffect DEF update_member
<1>6. ASSUME NEW u \in Users, delete_member(u) PROVE Effect /\ More
  <2>1. index \ {u} \in SUBSET Users /\ index \in SUBSET Users
    BY DEF Base, TypeOK
  <2>2. CASE members[u] # "None" /\ write_member("delete_member", u, "None", index \ {u})
    BY <1>6, <2>1, <2>2, MemberEffect DEF delete_member
  <2>3. CASE UNCHANGED members /\ index' \in {index, index \ {u}} /\ complete
    BY <1>6, <2>1, <2>3, IndexEffect DEF delete_member
  <2>4. QED
    BY <1>6, <2>2, <2>3 DEF delete_member
<1>7. ASSUME NEW c \in Connections, NEW name \in Names, create_connection(c, name)
      PROVE  Effect /\ More
  BY <1>7, CreateConnection
<1>8. ASSUME NEW c \in Connections, delete_connection(c) PROVE Effect /\ More
  BY <1>8, DeleteConnection
<1>9. ASSUME NEW p \in Profiles, create_profile(p) PROVE Effect /\ More
  <2> DEFINE new == [state |-> "Present", current |-> 0, next |-> 1]
  <2>1. profiles[p] \in Profile /\ profiles[p].state = "New" /\ workspace.state = "Ready"
    BY <1>9 DEF create_profile, Base, TypeOK
  <2>2. new \in Profile
    BY DEF Profile
  <2>3. new = [profiles[p] EXCEPT !.state = "Present"]
    BY <2>1 DEF Profile, Base, NewIsFresh
  <2>4. write_profile("create_profile", p, new)
    BY <1>9, <2>3 DEF create_profile
  <2> HIDE DEF new
  <2>5. QED
    BY <1>9, <2>1, <2>2, <2>4, ProfileEffect DEF create_profile, new
<1>10. ASSUME NEW p \in Profiles, delete_profile(p) PROVE Effect /\ More
  <2> DEFINE new == [profiles[p] EXCEPT !.state = "Gone"]
  <2>1. profiles[p] \in Profile
    BY DEF Base, TypeOK
  <2>2. new \in Profile
    BY <2>1 DEF Profile
  <2>3. QED
    BY <1>10, <2>2, ProfileEffect DEF delete_profile
<1>11. ASSUME NEW p \in Profiles, NEW names \in Configs, create_revision(p, names)
       PROVE  Effect /\ More
  BY <1>11, CreateRevision
<1>12. ASSUME NEW p \in Profiles, NEW r \in Revisions, publish(p, r) PROVE Effect /\ More
  <2> DEFINE new == [profiles[p] EXCEPT !.current = r]
  <2>1. profiles[p] \in Profile
    BY DEF Base, TypeOK
  <2>2. new \in Profile
    BY <2>1 DEF Profile, Revisions
  <2>3. QED
    BY <1>12, <2>2, ProfileEffect DEF publish
<1>13. ASSUME NEW g \in Gateways, NEW p \in Profiles, mint(g, p) PROVE Effect /\ More
  <2> DEFINE new == [state |-> "Live", profile |-> p]
  <2>1. new \in Gateway /\ new.state = "Live" /\ new.profile = p
    BY DEF Gateway
  <2>2. QED
    BY <1>13, <2>1, GatewayEffect DEF mint
<1>14. ASSUME NEW g \in Gateways, revoke_gateway(g) \/ logout(g) PROVE Effect /\ More
  <2> DEFINE new == [gateways[g] EXCEPT !.state = "Revoked"]
  <2>1. gateways[g] \in Gateway
    BY DEF Base, TypeOK
  <2>2. new \in Gateway
    BY <2>1 DEF Gateway
  <2>3. QED
    BY <1>14, <2>2, GatewayEffect DEF revoke_gateway, logout, bearer
<1>15. ASSUME NEW w \in late, land(w) PROVE Effect /\ More
  BY <1>15, LandEffect
<1>16. CASE UNCHANGED vars
  BY <1>16 DEF vars, Effect, More, Base, TypeOK
<1>17. QED
  BY <1>1, <1>2, <1>3, <1>4, <1>5, <1>6, <1>7, <1>8, <1>9, <1>10, <1>11, <1>12, <1>13, <1>14,
     <1>15, <1>16
  DEF Next

\* A step that leaves profiles and blobs alone leaves everything about revisions alone.
LEMMA RevisionsKept ==
    ASSUME Base, UNCHANGED <<profiles, metadata, blobs>>
    PROVE  /\ NumbersReserved' /\ MetadataHasBlob' /\ NewIsFresh'
           /\ \A p \in Profiles : profiles'[p].next \in Nat /\ profiles[p].next <= profiles'[p].next
           /\ \A p \in Profiles, r \in Revisions : blobs[p][r] # {} => blobs'[p][r] # {}
<1>1. \A p \in Profiles : profiles[p].next \in Nat
  BY DEF Base, TypeOK, Profile
<1>2. QED
  BY <1>1 DEF Base, NumbersReserved, MetadataHasBlob, NewIsFresh

\* The invariant is kept by every effect.
LEMMA BaseNext == ASSUME Base, Effect, More PROVE Base'
<1>0. /\ landed' \in SUBSET [op : Ops, key : Keys]
      /\ TypeOK /\ WorkspaceOK(workspace) /\ RowsNeedReady /\ \A w \in late : LateOK(w)
      /\ members \in [Users -> Roles \cup {"None"}] /\ index \in SUBSET Users
      /\ connections \in [Connections -> Connection] /\ \A c \in Connections : RowOK(connections[c])
      /\ relays \in SUBSET Names /\ profiles \in [Profiles -> Profile]
      /\ metadata \in SUBSET (Profiles \X Revisions)
      /\ blobs \in [Profiles -> [Revisions -> SUBSET Names]] /\ gateways \in [Gateways -> Gateway]
  BY DEF More, Base, TypeOK
<1>1. CASE Reconciled
  <2>1. Keeps
    BY <1>1, RevisionsKept DEF Reconciled, Keeps
  <2>2. /\ connections' \in [Connections -> Connection] /\ relays' \in SUBSET Names
        /\ \A c \in Connections : RowOK(connections'[c])
    BY <1>0, <1>1 DEF Reconciled, Passed
  <2>3. RowsNeedReady'
    BY <1>0, <1>1 DEF Reconciled, RowsNeedReady
  <2>4. late' \in SUBSET Writes /\ \A w \in late' : LateOK(w)'
    BY <1>0, <1>1, <2>1, LateHandled DEF Reconciled, complete
  <2>5. QED
    BY <1>0, <1>1, <2>1, <2>2, <2>3, <2>4, RevisionsKept, BaseStep DEF Reconciled
<1>2. CASE Cleaned
  <2>1. \A p \in Profiles : /\ profiles'[p].next \in Nat /\ profiles'[p].next = profiles[p].next
                            /\ profiles'[p] = profiles[p] \/ profiles'[p].state = "Gone"
    BY <1>0, <1>2 DEF Cleaned, Profile
  <2>2. Keeps
    BY <1>0, <1>2, <2>1 DEF Cleaned, Keeps, Profile
  <2>3. NumbersReserved' /\ MetadataHasBlob' /\ NewIsFresh'
    BY <1>2, <2>1 DEF Cleaned, Base, NumbersReserved, MetadataHasBlob, NewIsFresh
  <2>4. RowsNeedReady'
    BY <1>2 DEF Cleaned, RowsNeedReady
  <2>5. late' \in SUBSET Writes /\ \A w \in late' : LateOK(w)'
    BY <1>0, <1>2, <2>2, LateHandled DEF Cleaned, complete
  <2>6. metadata' \in SUBSET (Profiles \X Revisions)
    BY <1>0, <1>2 DEF Cleaned
  <2>7. QED
    BY <1>0, <1>2, <2>2, <2>3, <2>4, <2>5, <2>6, BaseStep DEF Cleaned
<1>3. CASE Marked
  <2>1. Keeps
    BY <1>3, RevisionsKept DEF Marked, Keeps
  <2>2. RowsNeedReady'
    BY <1>3 DEF Marked, RowsNeedReady
  <2>3. late' \in SUBSET Writes /\ \A w \in late' : LateOK(w)'
    BY <1>0, <1>3, <2>1, LateHandled DEF Marked
  <2>4. QED
    BY <1>0, <1>3, <2>1, <2>2, <2>3, RevisionsKept, BaseStep DEF Marked
<1>4. CASE MembersWritten
  <2>1. Keeps
    BY <1>4, RevisionsKept DEF MembersWritten, Keeps
  <2>2. RowsNeedReady'
    BY <1>0, <1>4 DEF MembersWritten, RowsNeedReady
  <2>3. late' \in SUBSET Writes /\ \A w \in late' : LateOK(w)'
    BY <1>0, <1>4, <2>1, LateHandled DEF MembersWritten
  <2>4. QED
    BY <1>0, <1>4, <2>1, <2>2, <2>3, RevisionsKept, BaseStep DEF MembersWritten
<1>5. ASSUME NEW c \in Connections, NEW new \in Connection, ConnectionHandled(c, new)
      PROVE  Base'
  <2>1. Keeps
    BY <1>5, RevisionsKept DEF ConnectionHandled, Keeps
  <2>2. RowsNeedReady'
    BY <1>0, <1>5 DEF ConnectionHandled, RowsNeedReady
  <2>3. late' \in SUBSET Writes /\ \A w \in late' : LateOK(w)'
    BY <1>0, <1>5, <2>1, LateHandled DEF ConnectionHandled, complete
  <2>4. /\ connections' \in [Connections -> Connection] /\ relays' \in SUBSET Names
        /\ \A d \in Connections : RowOK(connections'[d])
    BY <1>5 DEF ConnectionHandled, Passed
  <2>5. QED
    BY <1>0, <1>5, <2>1, <2>2, <2>3, <2>4, RevisionsKept, BaseStep DEF ConnectionHandled
<1>6. ASSUME NEW c \in Connections, NEW new \in Connection, ConnectionLanded(c, new)
      PROVE  Base'
  <2>1. Keeps
    BY <1>6, RevisionsKept DEF ConnectionLanded, Keeps
  <2>2. RowsNeedReady'
    BY <1>0, <1>6 DEF ConnectionLanded, RowsNeedReady
  <2>3. late' \in SUBSET Writes /\ \A w \in late' : LateOK(w)'
    BY <1>0, <1>6, <2>1, LateHandled DEF ConnectionLanded
  <2>4. /\ connections' \in [Connections -> Connection]
        /\ \A d \in Connections : RowOK(connections'[d])
    BY <1>0, <1>6 DEF ConnectionLanded
  <2>5. QED
    BY <1>0, <1>6, <2>1, <2>2, <2>3, <2>4, RevisionsKept, BaseStep DEF ConnectionLanded
<1>7. ASSUME NEW p \in Profiles, NEW new \in Profile, ProfileWritten(p, new)
      PROVE  Base'
  <2>1. /\ profiles' \in [Profiles -> Profile]
        /\ profiles'[p] = new /\ \A q \in Profiles : q # p => profiles'[q] = profiles[q]
    BY <1>0, <1>7 DEF ProfileWritten
  <2>2. /\ new.next \in Nat /\ profiles[p].next \in Nat /\ profiles[p].next <= new.next
        /\ new.state # "New"
    BY <1>0, <1>7 DEF ProfileWritten, Profile, Base, NewIsFresh
  <2>3. \A q \in Profiles : profiles[q].next \in Nat /\ profiles[q].next <= profiles'[q].next
                            /\ profiles'[q].next \in Nat
    <3>1. TAKE q \in Profiles
    <3>2. CASE q = p
      BY <2>1, <2>2, <3>2
    <3>3. CASE q # p
      BY <1>0, <2>1, <3>3 DEF Profile
    <3>4. QED
      BY <3>2, <3>3
  <2>4. Keeps
    BY <1>7, <2>3 DEF ProfileWritten, Keeps
  <2>5. NumbersReserved'
    <3>1. SUFFICES ASSUME NEW q \in Profiles, NEW r \in Revisions, r < profiles[q].next
                   PROVE  r < profiles'[q].next
      BY <1>7 DEF NumbersReserved, ProfileWritten, Base
    <3>2. QED
      BY <2>3, <3>1 DEF Revisions
  <2>6. MetadataHasBlob' /\ NewIsFresh'
    BY <1>7, <2>1, <2>2 DEF ProfileWritten, Base, MetadataHasBlob, NewIsFresh
  <2>7. RowsNeedReady'
    BY <1>0, <1>7 DEF ProfileWritten, RowsNeedReady
  <2>8. late' \in SUBSET Writes /\ \A w \in late' : LateOK(w)'
    BY <1>0, <1>7, <2>4, LateHandled DEF ProfileWritten
  <2>9. QED
    BY <1>0, <1>7, <2>1, <2>4, <2>5, <2>6, <2>7, <2>8, BaseStep DEF ProfileWritten
<1>8. ASSUME NEW p \in Profiles, NEW names \in Configs, RevisionCreated(p, names)
      PROVE  Base'
  <2>0. PICK n \in Revisions : n = profiles[p].next
    BY <1>8 DEF RevisionCreated
  <2> DEFINE put == [op |-> "put_revision", key |-> <<p, n>>, row |-> names]
         save == [op |-> "save_metadata", key |-> <<p, n>>, row |-> names]
  <2>1. /\ n \in Revisions /\ n \in Nat /\ n + 1 \in 1..(MaxRevision + 1)
        /\ names \in SUBSET Names /\ names # {}
    BY <2>0 DEF Revisions, Configs
  <2>2. /\ profiles' \in [Profiles -> Profile] /\ profiles'[p].next = n + 1
        /\ \A q \in Profiles : /\ profiles'[q].state = profiles[q].state
                               /\ profiles'[q].current = profiles[q].current
                               /\ q # p => profiles'[q].next = profiles[q].next
    BY <1>0, <1>8, <2>0, <2>1 DEF RevisionCreated, Profile
  <2>3. \A q \in Profiles : /\ profiles[q].next \in Nat /\ profiles'[q].next \in Nat
                            /\ profiles[q].next <= profiles'[q].next
    <3>1. TAKE q \in Profiles
    <3>2. profiles[q].next \in Nat /\ (q = p => profiles[q].next = n)
      BY <1>0, <2>0 DEF Profile
    <3>3. QED
      BY <2>1, <2>2, <3>2
  <2>4. /\ blobs' \in [Profiles -> [Revisions -> SUBSET Names]]
        /\ \A q \in Profiles, r \in Revisions :
              \/ blobs'[q][r] = blobs[q][r]
              \/ q = p /\ r = n /\ blobs'[q][r] = names
        /\ blobs' = [blobs EXCEPT ![p][n] = names] => blobs'[p][n] = names
    <3>1. blobs' = blobs \/ blobs' = [blobs EXCEPT ![p][n] = names]
      BY <1>8, <2>0 DEF RevisionCreated
    <3>2. QED
      BY <1>0, <2>1, <3>1
  <2>5. /\ metadata' \in SUBSET (Profiles \X Revisions)
        /\ \A q \in Profiles, r \in Revisions : <<q, r>> \in metadata' =>
              <<q, r>> \in metadata \/ (q = p /\ r = n /\ blobs'[p][n] = names)
    <3>1. \/ metadata' = metadata
          \/ /\ blobs' = [blobs EXCEPT ![p][n] = names]
             /\ metadata' \in {metadata, metadata \cup {<<p, n>>}}
      BY <1>8, <2>0 DEF RevisionCreated
    <3>2. QED
      BY <1>0, <2>1, <2>4, <3>1
  <2>6. Keeps
    BY <1>8, <2>1, <2>3, <2>4 DEF RevisionCreated, Keeps
  <2>7. NumbersReserved'
    <3>1. SUFFICES ASSUME NEW q \in Profiles, NEW r \in Revisions,
                          blobs'[q][r] # {} \/ <<q, r>> \in metadata'
                   PROVE  r < profiles'[q].next
      BY DEF NumbersReserved
    <3>2. CASE q = p /\ r = n
      BY <2>1, <2>2, <3>2
    <3>3. CASE blobs[q][r] # {} \/ <<q, r>> \in metadata
      <4>1. r < profiles[q].next
        BY <3>3 DEF Base, NumbersReserved
      <4>2. QED
        BY <2>3, <4>1 DEF Revisions
    <3>4. QED
      BY <2>4, <2>5, <3>1, <3>2, <3>3
  <2>8. MetadataHasBlob'
    <3>1. SUFFICES ASSUME NEW q \in Profiles, NEW r \in Revisions, <<q, r>> \in metadata'
                   PROVE  blobs'[q][r] # {}
      BY DEF MetadataHasBlob
    <3>2. CASE <<q, r>> \in metadata
      BY <2>1, <2>4, <3>2 DEF Base, MetadataHasBlob
    <3>3. CASE q = p /\ r = n /\ blobs'[p][n] = names
      BY <2>1, <3>3
    <3>4. QED
      BY <2>5, <3>1, <3>2, <3>3
  <2>9. NewIsFresh'
    <3>1. profiles[p].state = "Present"
      BY <1>8 DEF RevisionCreated
    <3>2. QED
      BY <2>2, <3>1 DEF Base, NewIsFresh
  <2>10. RowsNeedReady'
    BY <1>0, <1>8 DEF RevisionCreated, RowsNeedReady
  <2>11. put \in Writes /\ save \in Writes
    <3>1. /\ put \in [op : {"put_revision", "save_metadata"}, key : Profiles \X Revisions, row : Configs]
          /\ save \in [op : {"put_revision", "save_metadata"}, key : Profiles \X Revisions, row : Configs]
      BY <2>1
    <3>2. QED
      BY <3>1 DEF Writes
  <2>12. /\ put.op = "put_revision" /\ put.key[1] = p /\ put.key[2] = n
         /\ save.op = "save_metadata" /\ save.key[1] = p /\ save.key[2] = n
    OBVIOUS
  <2>13. n < profiles'[p].next
    BY <2>1, <2>2
  <2> HIDE DEF put, save
  <2>14. LateOK(put)'
    BY <2>12, <2>13 DEF LateOK
  <2>15. blobs' = [blobs EXCEPT ![p][n] = names] => LateOK(save)'
    BY <2>1, <2>4, <2>12, <2>13 DEF LateOK
  <2>16. \/ late' \subseteq standing \/ late' \subseteq standing \cup {put}
         \/ blobs' = [blobs EXCEPT ![p][n] = names] /\ late' \subseteq standing \cup {save}
    BY <1>8, <2>0 DEF RevisionCreated, put, save
  <2>17. late' \in SUBSET Writes /\ \A w \in late' : LateOK(w)'
    BY <1>0, <2>6, <2>11, <2>14, <2>15, <2>16, LateHandled, LateStep
  <2>18. QED
    BY <1>0, <1>8, <2>2, <2>4, <2>5, <2>6, <2>7, <2>8, <2>9, <2>10, <2>17, BaseStep
    DEF RevisionCreated
<1>9. ASSUME NEW p \in Profiles, NEW r \in Revisions, RevisionLanded(p, r)
      PROVE  Base'
  <2>1. /\ blobs' \in [Profiles -> [Revisions -> SUBSET Names]]
        /\ \A q \in Profiles, s \in Revisions :
              /\ blobs'[q][s] = blobs[q][s] \/ (q = p /\ s = r)
              /\ blobs[q][s] # {} => blobs'[q][s] = blobs[q][s]
    <3>1. \/ blobs' = blobs
          \/ /\ blobs[p][r] = {}
             /\ \E names \in SUBSET Names : blobs' = [blobs EXCEPT ![p][r] = names]
      BY <1>9 DEF RevisionLanded, Configs
    <3>2. CASE blobs' = blobs
      BY <1>0, <3>2
    <3>3. ASSUME NEW names \in SUBSET Names, blobs' = [blobs EXCEPT ![p][r] = names],
                 blobs[p][r] = {}
          PROVE  /\ blobs' \in [Profiles -> [Revisions -> SUBSET Names]]
                 /\ \A q \in Profiles, s \in Revisions :
                       /\ blobs'[q][s] = blobs[q][s] \/ (q = p /\ s = r)
                       /\ blobs[q][s] # {} => blobs'[q][s] = blobs[q][s]
      BY <1>0, <3>3
    <3>4. QED
      BY <3>1, <3>2, <3>3
  <2>2. /\ metadata' \in SUBSET (Profiles \X Revisions)
        /\ \A q \in Profiles, s \in Revisions : <<q, s>> \in metadata' =>
              <<q, s>> \in metadata \/ (q = p /\ s = r /\ blobs[p][r] # {})
    BY <1>0, <1>9 DEF RevisionLanded
  <2>3. \A q \in Profiles : profiles'[q].next \in Nat /\ profiles[q].next <= profiles'[q].next
    BY <1>0, <1>9 DEF RevisionLanded, Profile
  <2>4. Keeps
    BY <1>9, <2>1, <2>3 DEF RevisionLanded, Keeps
  <2>5. NumbersReserved' /\ MetadataHasBlob' /\ NewIsFresh'
    <3>1. profiles' = profiles /\ r < profiles[p].next
      BY <1>9 DEF RevisionLanded
    <3>2. NumbersReserved'
      BY <2>1, <2>2, <3>1 DEF Base, NumbersReserved
    <3>3. MetadataHasBlob'
      <4>1. SUFFICES ASSUME NEW q \in Profiles, NEW s \in Revisions, <<q, s>> \in metadata'
                     PROVE  blobs'[q][s] # {}
        BY DEF MetadataHasBlob
      <4>2. blobs[q][s] # {}
        BY <2>2, <4>1 DEF Base, MetadataHasBlob
      <4>3. QED
        BY <2>1, <4>2
    <3>4. NewIsFresh'
      BY <3>1 DEF Base, NewIsFresh
    <3>5. QED
      BY <3>2, <3>3, <3>4
  <2>6. RowsNeedReady'
    BY <1>0, <1>9 DEF RevisionLanded, RowsNeedReady
  <2>7. late' \in SUBSET Writes /\ \A w \in late' : LateOK(w)'
    BY <1>0, <1>9, <2>4, LateHandled DEF RevisionLanded
  <2>8. QED
    BY <1>0, <1>9, <2>1, <2>2, <2>4, <2>5, <2>6, <2>7, BaseStep DEF RevisionLanded
<1>10. ASSUME NEW g \in Gateways, NEW new \in Gateway, GatewayWritten(g, new)
       PROVE  Base'
  <2>1. Keeps
    BY <1>10, RevisionsKept DEF GatewayWritten, Keeps
  <2>2. RowsNeedReady'
    BY <1>0, <1>10 DEF GatewayWritten, RowsNeedReady
  <2>3. late' \in SUBSET Writes /\ \A w \in late' : LateOK(w)'
    BY <1>0, <1>10, <2>1, LateHandled DEF GatewayWritten
  <2>4. gateways' \in [Gateways -> Gateway]
    BY <1>0, <1>10 DEF GatewayWritten
  <2>5. QED
    BY <1>0, <1>10, <2>1, <2>2, <2>3, <2>4, RevisionsKept, BaseStep DEF GatewayWritten
<1>11. ASSUME NEW v \in Writes, Deferred(v) PROVE Base'
  <2>1. UNCHANGED <<workspace, members, index, connections, relays, profiles, metadata, blobs, gateways>>
    BY <1>11 DEF Deferred, tables
  <2>2. Keeps
    BY <2>1, RevisionsKept DEF Keeps
  <2>3. RowsNeedReady'
    BY <1>0, <2>1 DEF RowsNeedReady
  <2>4. LateOK(v)'
    BY <1>11, <2>1, Zenon DEF Deferred, LateOK, active_workspace
  <2>5. late' \in SUBSET Writes /\ \A w \in late' : LateOK(w)'
    BY <1>0, <1>11, <2>2, <2>4, LateStep DEF Deferred
  <2>6. QED
    BY <1>0, <2>1, <2>2, <2>3, <2>5, RevisionsKept, BaseStep
<1>12. CASE UNCHANGED vars
  <2>1. UNCHANGED <<workspace, members, index, connections, relays, profiles, metadata, blobs,
                    gateways, late, landed>>
    BY <1>12 DEF vars, tables
  <2>2. Keeps
    BY <2>1, RevisionsKept DEF Keeps
  <2>3. RowsNeedReady'
    BY <1>0, <2>1 DEF RowsNeedReady
  <2>4. standing = late
    BY <2>1 DEF standing, replaced
  <2>5. late' \in SUBSET Writes /\ \A w \in late' : LateOK(w)'
    BY <1>0, <2>1, <2>2, <2>4, LateHandled
  <2>6. QED
    BY <1>0, <2>1, <2>2, <2>3, <2>5, RevisionsKept, BaseStep
<1>13. QED
  BY <1>1, <1>2, <1>3, <1>4, <1>5, <1>6, <1>7, <1>8, <1>9, <1>10, <1>11, <1>12 DEF Effect

LEMMA BaseInit == Init => Base
<1> SUFFICES ASSUME Init PROVE Base
  OBVIOUS
<1>1. PICK u \in Users :
          workspace = [state |-> "Absent", attempts |-> 0, retryable |-> FALSE,
                       creator |-> u, creatorInit |-> FALSE, journal |-> {}]
  BY DEF Init
<1>2. 0 \in 0..MAX_ATTEMPTS /\ 0 < MAX_ATTEMPTS
  OBVIOUS
<1>3. workspace \in Workspace
  <2>1. {} \in SUBSET Users
    OBVIOUS
  <2>2. QED
    BY <1>1, <1>2, <2>1, Zenon DEF Workspace, ProvisioningState
<1>4. WorkspaceOK(workspace)
  BY <1>1, <1>2, <1>3 DEF WorkspaceOK
<1>5. NoConnection \in Connection
  BY NoRow DEF RowOK
<1>6. \A c \in Connections : RowOK(connections[c]) /\ connections[c].state = "Absent"
  BY NoRow DEF Init
<1>7. TypeOK
  BY <1>3, <1>5 DEF Init, TypeOK, Profile, Gateway, Revisions
<1>8. QED
  BY <1>4, <1>6, <1>7 DEF Init, Base, NumbersReserved, MetadataHasBlob, NewIsFresh, RowsNeedReady

\* The strengthening holds in every reachable state.
THEOREM Invariant == Spec => []Base
<1>1. Base /\ [Next]_vars => Base'
  BY StepEffect, BaseNext
<1>2. QED
  BY <1>1, BaseInit, PTL DEF Spec

\* Every row always has its table's type, whatever prefix of a handler's writes was
\* left behind and whatever arrived late.
THEOREM TypeCorrect == Spec => []TypeOK
<1>1. Base => TypeOK
  BY DEF Base
<1>2. QED
  BY <1>1, Invariant, PTL

\* The retry counter of reconciler.rs never lets a row go past MAX_ATTEMPTS.
THEOREM RetriesBounded == Spec => []AttemptsBounded
<1>1. Base => AttemptsBounded
  BY DEF Base, AttemptsBounded, WorkspaceOK, RowOK
<1>2. QED
  BY <1>1, Invariant, PTL

-----------------------------------------------------------------------------
\* No step changes a blob that is there, and one that appears below the next number
\* is a late upload of that number.
LEMMA BlobsKept ==
    ASSUME Base, Effect, NEW p \in Profiles, NEW r \in Revisions
    PROVE  /\ blobs[p][r] # {} => blobs'[p][r] = blobs[p][r]
           /\ r < profiles[p].next /\ blobs[p][r] = {} =>
                 \/ blobs'[p][r] = {}
                 \/ [op |-> "put_revision", key |-> <<p, r>>, row |-> blobs'[p][r]] \in late
<1>0. blobs \in [Profiles -> [Revisions -> SUBSET Names]]
  BY DEF Base, TypeOK
<1>1. CASE blobs' = blobs
  BY <1>1
<1>2. ASSUME NEW q \in Profiles, NEW names \in Configs, RevisionCreated(q, names)
      PROVE  blobs'[p][r] = blobs[p][r] \/ (q = p /\ r = profiles[p].next /\ blobs[p][r] = {})
  <2>1. PICK n \in Revisions : n = profiles[q].next
    BY <1>2 DEF RevisionCreated
  <2>2. blobs' = blobs \/ blobs' = [blobs EXCEPT ![q][n] = names]
    BY <1>2, <2>1 DEF RevisionCreated
  <2>3. blobs[q][n] = {}
    <3>1. ~(n < n)
      BY DEF Revisions
    <3>2. blobs[q][n] # {} => n < profiles[q].next
      BY DEF Base, NumbersReserved
    <3>3. QED
      BY <2>1, <3>1, <3>2, Zenon
  <2>4. QED
    BY <1>0, <2>1, <2>2, <2>3
<1>3. ASSUME NEW q \in Profiles, NEW s \in Revisions, RevisionLanded(q, s)
      PROVE  \/ blobs'[p][r] = blobs[p][r]
             \/ /\ blobs[p][r] = {}
                /\ [op |-> "put_revision", key |-> <<p, r>>, row |-> blobs'[p][r]] \in late
  <2>1. CASE blobs' = blobs
    BY <2>1
  <2>2. ASSUME NEW names \in Configs, blobs' = [blobs EXCEPT ![q][s] = names], blobs[q][s] = {},
               [op |-> "put_revision", key |-> <<q, s>>, row |-> names] \in late
        PROVE  \/ blobs'[p][r] = blobs[p][r]
               \/ /\ blobs[p][r] = {}
                  /\ [op |-> "put_revision", key |-> <<p, r>>, row |-> blobs'[p][r]] \in late
    <3>1. CASE p = q /\ r = s
      <4>1. blobs'[p][r] = names
        BY <1>0, <2>2, <3>1
      <4>2. QED
        BY <2>2, <3>1, <4>1
    <3>2. CASE p # q \/ r # s
      BY <1>0, <2>2, <3>2
    <3>3. QED
      BY <3>1, <3>2
  <2>3. QED
    BY <1>3, <2>1, <2>2 DEF RevisionLanded
<1>4. r < profiles[p].next => r # profiles[p].next
  BY DEF Revisions, Base, TypeOK, Profile
<1>5. \/ blobs' = blobs
      \/ \E q \in Profiles, names \in Configs : RevisionCreated(q, names)
      \/ \E q \in Profiles, s \in Revisions : RevisionLanded(q, s)
  BY DEF Effect, Reconciled, Cleaned, Marked, MembersWritten, ConnectionHandled, ConnectionLanded,
         ProfileWritten, GatewayWritten, Deferred, tables, vars
<1>6. QED
  BY <1>1, <1>2, <1>3, <1>4, <1>5

\* Saved revisions are immutable: create_revision reserves the number before it uploads.
THEOREM RevisionsNeverChange == Spec => RevisionsImmutable
<1> DEFINE Kept == \A p \in Profiles, r \in Revisions :
          /\ blobs[p][r] # {} => blobs'[p][r] = blobs[p][r]
          /\ r < profiles[p].next /\ blobs[p][r] = {} =>
                \/ blobs'[p][r] = {}
                \/ [op |-> "put_revision", key |-> <<p, r>>, row |-> blobs'[p][r]] \in late
<1>1. Base /\ [Next]_vars => Kept
  BY StepEffect, BlobsKept
<1>2. QED
  BY <1>1, Invariant, PTL DEF Spec, RevisionsImmutable

\* What any step does to a connection row.
LEMMA RowStep ==
    ASSUME Base, Effect, NEW c \in Connections
    PROVE  /\ connections[c].state = "Deleting" => connections'[c].state \in {"Deleting", "Absent"}
           /\ connections[c].state = "Ready" => connections'[c].state \in {"Ready", "Deleting", "Absent"}
<1>0. connections \in [Connections -> Connection]
  BY DEF Base, TypeOK
<1>1. CASE connections' = connections
  BY <1>1
<1>2. CASE Passed(connections)
  BY <1>2, NoRow DEF Passed
<1>3. ASSUME NEW d \in Connections, NEW new \in Connection, ConnectionHandled(d, new)
      PROVE  /\ connections[c].state = "Deleting" => connections'[c].state \in {"Deleting", "Absent"}
             /\ connections[c].state = "Ready" => connections'[c].state \in {"Ready", "Deleting", "Absent"}
  <2> DEFINE rows == [connections EXCEPT ![d] = new]
  <2>1. rows[d] = new /\ \A e \in Connections : e # d => rows[e] = connections[e]
    BY <1>0
  <2>2. Passed(rows)
    BY <1>3 DEF ConnectionHandled
  <2>3. \/ connections[d].state = "Absent" \/ new.state = "Deleting"
    BY <1>3 DEF ConnectionHandled
  <2> HIDE DEF rows
  <2>4. QED
    BY <2>1, <2>2, <2>3, NoRow DEF Passed
<1>4. ASSUME NEW d \in Connections, NEW new \in Connection, ConnectionLanded(d, new)
      PROVE  /\ connections[c].state = "Deleting" => connections'[c].state \in {"Deleting", "Absent"}
             /\ connections[c].state = "Ready" => connections'[c].state \in {"Ready", "Deleting", "Absent"}
  BY <1>0, <1>4 DEF ConnectionLanded
<1>5. \/ connections' = connections \/ Passed(connections)
      \/ \E d \in Connections, new \in Connection : ConnectionHandled(d, new) \/ ConnectionLanded(d, new)
  BY DEF Effect, Reconciled, Cleaned, Marked, MembersWritten, RevisionCreated, RevisionLanded,
         ProfileWritten, GatewayWritten, Deferred, tables, vars
<1>6. QED
  BY <1>1, <1>2, <1>3, <1>4, <1>5

\* A Deleting connection never becomes usable again, and the reconciler never takes a
\* Ready one back.
THEOREM RowsMoveForward == Spec => ConnectionLifecycle
<1> DEFINE Good(c) ==
       /\ connections[c].state = "Deleting" => connections'[c].state \in {"Deleting", "Absent"}
       /\ connections[c].state = "Ready" => connections'[c].state \in {"Ready", "Deleting", "Absent"}
<1>1. Base /\ [Next]_vars => \A c \in Connections : Good(c)
  BY StepEffect, RowStep
<1>2. QED
  BY <1>1, Invariant, PTL DEF Spec, ConnectionLifecycle

-----------------------------------------------------------------------------
\* The last Admin is never taken from a workspace that is not being deleted, unless a
\* demotion or removal arrives late: protect_last_admin guards both ways out and no
\* other handler removes a member.
THEOREM AdminNeverLost == Spec => LastAdminKept
<1> DEFINE Kept == active_workspace' /\ HasAdmin =>
                      HasAdmin' \/ \E w \in late : w.op # "create_member" /\ land_member(w)
<1>1. ASSUME Base, Effect PROVE Kept
  <2>1. CASE Reconciled
    BY <2>1 DEF Reconciled, HasAdmin
  <2>2. CASE Cleaned
    BY <2>2 DEF Cleaned, active_workspace
  <2>3. CASE MembersWritten
    BY <2>3 DEF MembersWritten
  <2>4. CASE members' = members
    BY <2>4 DEF HasAdmin
  <2>5. QED
    BY <1>1, <2>1, <2>2, <2>3, <2>4
    DEF Effect, Marked, RevisionCreated, RevisionLanded, ConnectionHandled, ConnectionLanded,
        ProfileWritten, GatewayWritten, Deferred, tables, vars
<1>2. Base /\ [Next]_vars => Kept
  BY <1>1, StepEffect
<1>3. QED
  BY <1>2, Invariant, PTL DEF Spec, LastAdminKept

\* A deleted workspace leaves no row that could authorize anybody, in whatever order
\* interrupted clean-ups were resumed, but for rows whose own insert came late.
THEOREM DeletionIsClean == Spec => []DeletedLeavesNothing
<1>1. Init => DeletedLeavesNothing
  <2> SUFFICES ASSUME Init PROVE workspace.state # "Deleted"
    BY DEF DeletedLeavesNothing
  <2>1. QED
    BY DEF Init
<1>2. ASSUME Base, DeletedLeavesNothing, Effect, More PROVE DeletedLeavesNothing'
  <2>0. /\ landed \subseteq landed' /\ connections \in [Connections -> Connection]
        /\ profiles \in [Profiles -> Profile] /\ gateways \in [Gateways -> Gateway]
        /\ \A c \in Connections : RowOK(connections[c])
    BY <1>2 DEF More, Base, TypeOK
  <2>1. CASE workspace'.state # "Deleted"
    BY <2>1 DEF DeletedLeavesNothing
  <2>2. CASE Cleaned /\ workspace'.state = "Deleted"
    <3>1. \A c \in Connections : connections'[c] = NoConnection
      BY <2>0, <2>2 DEF Cleaned, RowOK
    <3>2. /\ metadata' = {} /\ \A p \in Profiles : profiles'[p].state # "Present"
          /\ \A g \in Gateways : gateways'[g].state \in {"New", "Gone"}
          /\ \A u \in Users : members'[u] = "None"
      BY <2>2 DEF Cleaned
    <3>3. QED
      BY <3>1, <3>2 DEF DeletedLeavesNothing
  <2>3. ASSUME workspace' = workspace, workspace.state = "Deleted",
               \A pr \in metadata' : pr \in metadata \/ [op |-> "save_metadata", key |-> pr] \in landed',
               \A c \in Connections : \/ connections[c] # NoConnection \/ connections'[c] = NoConnection
                                      \/ [op |-> "create_connection", key |-> c] \in landed',
               \A p \in Profiles : \/ profiles[p].state = "Present" \/ profiles'[p].state # "Present"
                                   \/ [op |-> "create_profile", key |-> p] \in landed',
               \A g \in Gateways : \/ gateways[g].state \in {"Live", "Revoked"}
                                   \/ gateways'[g].state \notin {"Live", "Revoked"}
                                   \/ [op |-> "mint", key |-> g] \in landed',
               \A u \in Users : \/ members[u] # "None" \/ members'[u] = "None"
                                \/ [op |-> "create_member", key |-> u] \in landed'
        PROVE  DeletedLeavesNothing'
    BY <1>2, <2>0, <2>3 DEF DeletedLeavesNothing
  <2>4. CASE UNCHANGED tables
    BY <2>1, <2>3, <2>4 DEF tables
  <2>5. CASE Reconciled \/ Marked
    BY <2>1, <2>5 DEF Reconciled, Marked
  <2>6. CASE MembersWritten
    BY <2>1, <2>3, <2>6 DEF MembersWritten
  <2>7. ASSUME NEW c \in Connections, NEW new \in Connection, ConnectionHandled(c, new)
        PROVE  DeletedLeavesNothing'
    BY <2>1, <2>7 DEF ConnectionHandled
  <2>8. ASSUME NEW c \in Connections, NEW new \in Connection, ConnectionLanded(c, new)
        PROVE  DeletedLeavesNothing'
    <3>1. \A d \in Connections : d # c => connections'[d] = connections[d]
      BY <2>0, <2>8 DEF ConnectionLanded
    <3>2. \/ connections[c] # NoConnection
          \/ [op |-> "create_connection", key |-> c] \in landed'
      BY <2>8, NoRow DEF ConnectionLanded
    <3>3. QED
      BY <2>1, <2>3, <2>8, <3>1, <3>2 DEF ConnectionLanded
  <2>9. ASSUME NEW p \in Profiles, NEW new \in Profile, ProfileWritten(p, new)
        PROVE  DeletedLeavesNothing'
    <3>1. \A q \in Profiles : q # p => profiles'[q] = profiles[q]
      BY <2>0, <2>9 DEF ProfileWritten
    <3>2. \/ workspace.state = "Ready" \/ profiles[p].state = "Present"
          \/ [op |-> "create_profile", key |-> p] \in landed'
      BY <2>9 DEF ProfileWritten
    <3>3. QED
      BY <2>1, <2>3, <2>9, <3>1, <3>2 DEF ProfileWritten
  <2>10. ASSUME NEW p \in Profiles, NEW names \in Configs, RevisionCreated(p, names)
         PROVE  DeletedLeavesNothing'
    BY <2>1, <2>10 DEF RevisionCreated
  <2>11. ASSUME NEW p \in Profiles, NEW r \in Revisions, RevisionLanded(p, r)
         PROVE  DeletedLeavesNothing'
    BY <2>1, <2>3, <2>11 DEF RevisionLanded
  <2>12. ASSUME NEW g \in Gateways, NEW new \in Gateway, GatewayWritten(g, new)
         PROVE  DeletedLeavesNothing'
    <3>1. \A h \in Gateways : h # g => gateways'[h] = gateways[h]
      BY <2>0, <2>12 DEF GatewayWritten
    <3>2. \/ workspace.state = "Ready" \/ gateways[g].state = "Live"
          \/ [op |-> "mint", key |-> g] \in landed'
      BY <2>12 DEF GatewayWritten, published_config, check_config
    <3>3. QED
      BY <2>1, <2>3, <2>12, <3>1, <3>2 DEF GatewayWritten
  <2>13. QED
    BY <1>2, <2>1, <2>2, <2>4, <2>5, <2>6, <2>7, <2>8, <2>9, <2>10, <2>11, <2>12
    DEF Effect, Deferred, vars
<1>3. DeletedLeavesNothing /\ Base /\ [Next]_vars => DeletedLeavesNothing'
  BY <1>2, StepEffect
<1>4. QED
  BY <1>1, <1>3, Invariant, PTL DEF Spec

-----------------------------------------------------------------------------
(* What rows of different tables owe each other holds until a write arrives   *)
(* late that its handler would not have made then.  Each part names the       *)
(* writes that can undo it.                                                   *)

Published(p) == profiles[p].state = "Present" /\ profiles[p].current # 0

\* A name has one row, and a Ready row's hybrid connection exists.
RowsExist ==
    "create_connection" \notin late_ops =>
        /\ \A c, d \in Connections :
              connections[c].state # "Absent" /\ connections[c].name = connections[d].name => c = d
        /\ \A c \in Connections : connections[c].state = "Ready" => connections[c].name \in relays

\* A published revision is listed; each name it refers to has a row that is not removed.
RelayChain ==
    late_ops \cap {"publish", "create_connection"} = {} =>
        \A p \in Profiles : Published(p) =>
            /\ <<p, profiles[p].current>> \in metadata
            /\ \A n \in blobs[p][profiles[p].current] :
                  /\ n \in relays
                  /\ \E c \in Connections : /\ connections[c].name = n
                                            /\ connections[c].state \in {"Ready", "Deleting"}

\* Only a Ready workspace has Ready connections.
ReadyInReady ==
    "delete_workspace" \notin late_ops =>
        ((\E c \in Connections : connections[c].state = "Ready") => workspace.state = "Ready")

\* A published revision is listed and names only Ready connections.
ReadyChain ==
    late_ops \cap {"publish", "delete_connection", "delete_workspace"} = {} =>
        \A p \in Profiles : Published(p) =>
            /\ <<p, profiles[p].current>> \in metadata
            /\ \A n \in blobs[p][profiles[p].current] :
                  \E c \in Connections : connections[c].name = n /\ connections[c].state = "Ready"

\* A live gateway's profile exists and is published.
LiveChain ==
    late_ops \cap {"mint", "publish", "delete_profile", "delete_connection", "delete_workspace"} = {} =>
        \A g \in Gateways : gateways[g].state = "Live" =>
            gateways[g].profile \in Profiles /\ Published(gateways[g].profile)

Chains == RowsExist /\ RelayChain /\ ReadyInReady /\ ReadyChain /\ LiveChain

\* The handlers whose writes came late are never fewer.
LEMMA LateGrows ==
    ASSUME More
    PROVE  late_ops \subseteq late_ops'
BY DEF More, late_ops

\* A step that removes or gives back a name's row does so only when the name is not in
\* use; a Ready row in use stays Ready but for a late mark.
LEMMA NamesKept ==
    ASSUME Base, Effect, NEW n \in Names, connection_in_use(n)
    PROVE  /\ n \in relays => n \in relays'
           /\ \A c \in Connections :
                 connections[c].name = n /\ connections[c].state \in {"Ready", "Deleting"} =>
                    connections'[c].name = n /\ connections'[c].state \in {"Ready", "Deleting"}
           /\ \A c \in Connections :
                 connections[c].name = n /\ connections[c].state = "Ready" =>
                    \/ connections'[c].name = n /\ connections'[c].state = "Ready"
                    \/ "delete_connection" \in late_ops'
<1>0. connections \in [Connections -> Connection]
  BY DEF Base, TypeOK
<1> DEFINE Goal == /\ n \in relays => n \in relays'
                   /\ \A c \in Connections :
                         connections[c].name = n /\ connections[c].state \in {"Ready", "Deleting"} =>
                            connections'[c].name = n /\ connections'[c].state \in {"Ready", "Deleting"}
                   /\ \A c \in Connections :
                         connections[c].name = n /\ connections[c].state = "Ready" =>
                            \/ connections'[c].name = n /\ connections'[c].state = "Ready"
                            \/ "delete_connection" \in late_ops'
<1>1. CASE connections' = connections /\ relays' = relays
  BY <1>1
<1>2. CASE Passed(connections)
  BY <1>2 DEF Passed
<1>3. ASSUME NEW d \in Connections, NEW new \in Connection, ConnectionHandled(d, new) PROVE Goal
  <2> DEFINE rows == [connections EXCEPT ![d] = new]
  <2>1. rows[d] = new /\ \A e \in Connections : e # d => rows[e] = connections[e]
    BY <1>0
  <2>2. Passed(rows)
    BY <1>3 DEF ConnectionHandled
  <2>3. \/ connections[d].state = "Absent" /\ new.state = "Pending"
        \/ new.state = "Deleting" /\ new.name = connections[d].name /\ new.name # n
    BY <1>3 DEF ConnectionHandled
  <2> HIDE DEF rows
  <2>4. n \in relays => n \in relays'
    BY <2>2 DEF Passed
  <2>5. ASSUME NEW c \in Connections, connections[c].name = n,
               connections[c].state \in {"Ready", "Deleting"}
        PROVE  connections'[c] = connections[c]
    <3>1. c # d
      BY <2>3, <2>5
    <3>2. rows[c] = connections[c]
      BY <2>1, <3>1
    <3>3. QED
      BY <2>2, <2>5, <3>2 DEF Passed
  <2>6. QED
    BY <2>4, <2>5
<1>4. ASSUME NEW d \in Connections, NEW new \in Connection, ConnectionLanded(d, new) PROVE Goal
  <2>1. \A e \in Connections : e # d => connections'[e] = connections[e]
    BY <1>0, <1>4 DEF ConnectionLanded
  <2>2. connections'[d] = new /\ relays' = relays
    BY <1>0, <1>4 DEF ConnectionLanded
  <2>3. \/ connections[d].state = "Absent"
        \/ /\ new.state = "Deleting" /\ new.name = connections[d].name
           /\ "delete_connection" \in late_ops'
    BY <1>4 DEF ConnectionLanded, late_ops
  <2>4. QED
    BY <2>1, <2>2, <2>3
<1>5. \/ connections' = connections /\ relays' = relays
      \/ Passed(connections)
      \/ \E d \in Connections, new \in Connection : ConnectionHandled(d, new) \/ ConnectionLanded(d, new)
  BY DEF Effect, Reconciled, Cleaned, Marked, MembersWritten, RevisionCreated, RevisionLanded,
         ProfileWritten, GatewayWritten, Deferred, tables, vars
<1>6. QED
  BY <1>1, <1>2, <1>3, <1>4, <1>5

\* Where a publication comes from.
LEMMA PublicationKept ==
    ASSUME Base, Effect, NEW p \in Profiles, Published(p)'
    PROVE  \/ "publish" \in late_ops'
           \/ /\ revision(p, profiles'[p].current) /\ check_config(blobs[p][profiles'[p].current])
              /\ UNCHANGED <<workspace, connections, relays, metadata, blobs>>
           \/ /\ Published(p) /\ profiles'[p].current = profiles[p].current
              /\ \/ metadata \subseteq metadata'
                 \/ \A c \in Connections : connections[c].state = "Absent"
<1>0. profiles \in [Profiles -> Profile]
  BY DEF Base, TypeOK
<1>1. CASE profiles' = profiles /\ metadata \subseteq metadata'
  BY <1>1 DEF Published
<1>2. CASE Cleaned
  BY <1>2 DEF Cleaned, Published
<1>3. ASSUME NEW q \in Profiles, NEW new \in Profile, ProfileWritten(q, new)
      PROVE  \/ "publish" \in late_ops'
             \/ /\ revision(p, profiles'[p].current) /\ check_config(blobs[p][profiles'[p].current])
                /\ UNCHANGED <<workspace, connections, relays, metadata, blobs>>
             \/ /\ Published(p) /\ profiles'[p].current = profiles[p].current
                /\ metadata \subseteq metadata'
  <2>1. UNCHANGED <<workspace, connections, relays, metadata, blobs>>
    BY <1>3 DEF ProfileWritten
  <2>2. profiles'[q] = new /\ \A r \in Profiles : r # q => profiles'[r] = profiles[r]
    BY <1>0, <1>3 DEF ProfileWritten
  <2>3. CASE p # q
    BY <2>1, <2>2, <2>3 DEF Published
  <2>4. CASE p = q
    <3>1. new.state = "Present" /\ new.current # 0
      BY <2>2, <2>4 DEF Published
    <3>2. \/ profiles[q].state = "Present" /\ new.current = profiles[q].current
          \/ \E r \in Revisions : /\ new = [profiles[q] EXCEPT !.current = r]
                                  /\ \/ revision(q, r) /\ check_config(blobs[q][r])
                                     \/ [op |-> "publish", key |-> q] \in landed'
      BY <1>0, <1>3, <3>1 DEF ProfileWritten, Profile
    <3>3. CASE profiles[q].state = "Present" /\ new.current = profiles[q].current
      BY <2>1, <2>2, <2>4, <3>1, <3>3 DEF Published
    <3>4. ASSUME NEW r \in Revisions, new = [profiles[q] EXCEPT !.current = r],
                 revision(q, r) /\ check_config(blobs[q][r])
          PROVE  revision(p, profiles'[p].current) /\ check_config(blobs[p][profiles'[p].current])
      <4>1. profiles'[p].current = r
        BY <1>0, <2>2, <2>4, <3>4 DEF Profile
      <4>2. QED
        BY <2>4, <3>4, <4>1
    <3>5. [op |-> "publish", key |-> q] \in landed' => "publish" \in late_ops'
      BY DEF late_ops
    <3>6. QED
      BY <2>1, <3>2, <3>3, <3>4, <3>5
  <2>5. QED
    BY <2>3, <2>4
<1>4. ASSUME NEW q \in Profiles, NEW names \in Configs, RevisionCreated(q, names)
      PROVE  /\ Published(p) /\ profiles'[p].current = profiles[p].current
             /\ metadata \subseteq metadata'
  BY <1>0, <1>4 DEF RevisionCreated, Published, Profile
<1>5. \/ profiles' = profiles /\ metadata \subseteq metadata'
      \/ Cleaned
      \/ \E q \in Profiles, new \in Profile : ProfileWritten(q, new)
      \/ \E q \in Profiles, names \in Configs : RevisionCreated(q, names)
  BY DEF Effect, Reconciled, Marked, MembersWritten, ConnectionHandled, ConnectionLanded,
         RevisionLanded, GatewayWritten, Deferred, tables, vars
<1>6. QED
  BY <1>1, <1>2, <1>3, <1>4, <1>5

\* The names of a published, listed revision are in use.
LEMMA PublishedInUse ==
    ASSUME Base, NEW p \in Profiles, Published(p), <<p, profiles[p].current>> \in metadata
    PROVE  /\ profiles[p].current \in Revisions
           /\ blobs[p][profiles[p].current] # {} /\ blobs[p][profiles[p].current] \subseteq Names
           /\ \A n \in blobs[p][profiles[p].current] : connection_in_use(n)
<1>1. profiles[p].current \in Revisions
  BY DEF Base, TypeOK
<1>2. QED
  BY <1>1 DEF Base, TypeOK, MetadataHasBlob, Published, connection_in_use

\* A pass over rows with distinct names keeps the names distinct and ends with the
\* hybrid connection of every Ready row.
LEMMA PassExists ==
    ASSUME NEW rows, \A c \in Connections : RowOK(rows[c]),
           \A c, d \in Connections : rows[c].state # "Absent" /\ rows[c].name = rows[d].name => c = d,
           \A c \in Connections : rows[c].state = "Ready" => rows[c].name \in relays,
           Passed(rows)
    PROVE  /\ \A c, d \in Connections :
                 connections'[c].state # "Absent" /\ connections'[c].name = connections'[d].name => c = d
           /\ \A c \in Connections : connections'[c].state = "Ready" => connections'[c].name \in relays'
<1>1. ASSUME NEW c \in Connections, connections'[c].state # "Absent"
      PROVE  connections'[c].name = rows[c].name /\ rows[c].state # "Absent"
             /\ connections'[c].name \in Names
  BY <1>1, NoRow DEF Passed, RowOK
<1>2. ASSUME NEW c \in Connections, NEW d \in Connections, connections'[c].state # "Absent",
             connections'[c].name = connections'[d].name
      PROVE  c = d
  <2>1. connections'[d] # NoConnection
    BY <1>1, <1>2 DEF NoConnection
  <2>2. connections'[d].name = rows[d].name
    BY <2>1 DEF Passed
  <2>3. QED
    BY <1>1, <1>2, <2>2
<1>3. ASSUME NEW c \in Connections, connections'[c].state = "Ready"
      PROVE  connections'[c].name \in relays'
  <2>1. connections'[c].name = rows[c].name /\ rows[c].state # "Absent"
    BY <1>1, <1>3
  <2>2. CASE rows[c].state = "Ready"
    <3>1. ASSUME rows[c].name \notin relays' PROVE FALSE
      <4>1. PICK d \in Connections : rows[d].state = "Deleting" /\ rows[d].name = rows[c].name
        BY <2>2, <3>1 DEF Passed
      <4>2. QED
        BY <2>2, <4>1
    <3>2. QED
      BY <2>1, <3>1
  <2>3. CASE rows[c].state # "Ready"
    <3>1. ASSUME NEW d \in Connections, rows[d].state = "Deleting", rows[d].name = connections'[c].name
          PROVE  FALSE
      <4>1. c = d
        BY <2>1, <3>1
      <4>2. QED
        BY <1>3, <3>1, <4>1, NoRow DEF Passed
    <3>2. QED
      BY <1>3, <2>3, <3>1 DEF Passed
  <2>4. QED
    BY <2>2, <2>3
<1>4. QED
  BY <1>2, <1>3

LEMMA RowsExistNext == ASSUME Base, RowsExist, Effect, More PROVE RowsExist'
<1> SUFFICES ASSUME "create_connection" \notin late_ops'
             PROVE  /\ \A c, d \in Connections :
                          connections'[c].state # "Absent" /\ connections'[c].name = connections'[d].name => c = d
                    /\ \A c \in Connections : connections'[c].state = "Ready" => connections'[c].name \in relays'
  BY DEF RowsExist
<1>0. /\ \A c, d \in Connections :
            connections[c].state # "Absent" /\ connections[c].name = connections[d].name => c = d
      /\ \A c \in Connections : connections[c].state = "Ready" => connections[c].name \in relays
      /\ connections \in [Connections -> Connection] /\ \A c \in Connections : RowOK(connections[c])
  BY LateGrows DEF RowsExist, Base, TypeOK
<1>1. CASE connections' = connections /\ relays' = relays
  BY <1>0, <1>1
<1>2. CASE Passed(connections)
  BY <1>0, <1>2, PassExists
<1>3. ASSUME NEW d \in Connections, NEW new \in Connection, ConnectionHandled(d, new)
      PROVE  /\ \A c, e \in Connections :
                   connections'[c].state # "Absent" /\ connections'[c].name = connections'[e].name => c = e
             /\ \A c \in Connections : connections'[c].state = "Ready" => connections'[c].name \in relays'
  <2> DEFINE rows == [connections EXCEPT ![d] = new]
  <2>1. rows[d] = new /\ \A e \in Connections : e # d => rows[e] = connections[e]
    BY <1>0
  <2>2. Passed(rows) /\ RowOK(new)
    BY <1>3 DEF ConnectionHandled
  <2>3. \/ new.state = "Pending" /\ \A e \in Connections : connections[e].name # new.name
        \/ /\ new.state = "Deleting" /\ new.name = connections[d].name
           /\ connections[d].state # "Absent"
    BY <1>3 DEF ConnectionHandled
  <2> HIDE DEF rows
  <2>4. \A c \in Connections : RowOK(rows[c])
    BY <1>0, <2>1, <2>2
  <2>5. \A c \in Connections : rows[c].state = "Ready" => rows[c].name \in relays
    BY <1>0, <2>1, <2>3
  <2>6. ASSUME NEW c \in Connections, NEW e \in Connections, rows[c].state # "Absent",
               rows[c].name = rows[e].name
        PROVE  c = e
    BY <1>0, <2>1, <2>3, <2>6
  <2>7. QED
    BY <2>2, <2>4, <2>5, <2>6, PassExists
<1>4. ASSUME NEW d \in Connections, NEW new \in Connection, ConnectionLanded(d, new)
      PROVE  /\ \A c, e \in Connections :
                   connections'[c].state # "Absent" /\ connections'[c].name = connections'[e].name => c = e
             /\ \A c \in Connections : connections'[c].state = "Ready" => connections'[c].name \in relays'
  <2>1. [op |-> "create_connection", key |-> d] \notin landed'
    BY DEF late_ops
  <2>2. /\ connections[d].state # "Absent" /\ new.state = "Deleting" /\ new.name = connections[d].name
        /\ relays' = relays
    BY <1>4, <2>1 DEF ConnectionLanded
  <2>3. connections'[d] = new /\ \A e \in Connections : e # d => connections'[e] = connections[e]
    BY <1>0, <1>4 DEF ConnectionLanded
  <2>4. \A e \in Connections : connections'[e].name = connections[e].name
    BY <2>2, <2>3
  <2>5. QED
    BY <1>0, <2>2, <2>3, <2>4
<1>5. \/ connections' = connections /\ relays' = relays
      \/ Passed(connections)
      \/ \E d \in Connections, new \in Connection : ConnectionHandled(d, new) \/ ConnectionLanded(d, new)
  BY DEF Effect, Reconciled, Cleaned, Marked, MembersWritten, RevisionCreated, RevisionLanded,
         ProfileWritten, GatewayWritten, Deferred, tables, vars
<1>6. QED
  BY <1>1, <1>2, <1>3, <1>4, <1>5

LEMMA RelayChainNext == ASSUME Base, RowsExist, RelayChain, Effect, More PROVE RelayChain'
<1> SUFFICES ASSUME late_ops' \cap {"publish", "create_connection"} = {},
                    NEW p \in Profiles, Published(p)'
             PROVE  /\ <<p, profiles'[p].current>> \in metadata'
                    /\ \A n \in blobs'[p][profiles'[p].current] :
                          /\ n \in relays'
                          /\ \E c \in Connections : /\ connections'[c].name = n
                                                    /\ connections'[c].state \in {"Ready", "Deleting"}
  BY DEF RelayChain
<1>0. late_ops \cap {"publish", "create_connection"} = {}
  BY LateGrows
<1> DEFINE r == profiles[p].current
<1>1. CASE /\ revision(p, profiles'[p].current) /\ check_config(blobs[p][profiles'[p].current])
           /\ UNCHANGED <<workspace, connections, relays, metadata, blobs>>
  <2>1. \A c \in Connections : connections[c].state = "Ready" => connections[c].name \in relays
    BY <1>0 DEF RowsExist
  <2>2. <<p, profiles'[p].current>> \in metadata
    BY <1>1 DEF revision
  <2>3. \A n \in blobs[p][profiles'[p].current] : \E c \in Connections :
            connections[c].name = n /\ connections[c].state = "Ready"
    BY <1>1 DEF check_config
  <2>4. QED
    BY <1>1, <2>1, <2>2, <2>3
<1>2. CASE /\ Published(p) /\ profiles'[p].current = profiles[p].current
           /\ \/ metadata \subseteq metadata'
              \/ \A c \in Connections : connections[c].state = "Absent"
  <2>1. /\ <<p, r>> \in metadata
        /\ \A n \in blobs[p][r] :
              /\ n \in relays
              /\ \E c \in Connections : /\ connections[c].name = n
                                        /\ connections[c].state \in {"Ready", "Deleting"}
    BY <1>0, <1>2 DEF RelayChain
  <2>2. /\ r \in Revisions /\ blobs[p][r] # {} /\ blobs[p][r] \subseteq Names
        /\ \A n \in blobs[p][r] : connection_in_use(n)
    BY <1>2, <2>1, PublishedInUse
  <2>3. metadata \subseteq metadata'
    BY <1>2, <2>1, <2>2
  <2>4. blobs'[p][r] = blobs[p][r]
    BY <2>2, BlobsKept
  <2>5. ASSUME NEW n \in blobs[p][r]
        PROVE  /\ n \in relays'
               /\ \E c \in Connections : /\ connections'[c].name = n
                                         /\ connections'[c].state \in {"Ready", "Deleting"}
    <3>1. n \in Names /\ connection_in_use(n)
      BY <2>2
    <3>2. QED
      BY <2>1, <3>1, NamesKept
  <2>6. QED
    BY <1>2, <2>1, <2>3, <2>4, <2>5
<1>3. QED
  BY <1>1, <1>2, PublicationKept

LEMMA ReadyInReadyNext == ASSUME Base, ReadyInReady, Effect, More PROVE ReadyInReady'
<1> SUFFICES ASSUME "delete_workspace" \notin late_ops', NEW c \in Connections,
                    connections'[c].state = "Ready"
             PROVE  workspace'.state = "Ready"
  BY DEF ReadyInReady
<1>0. /\ (\E d \in Connections : connections[d].state = "Ready") => workspace.state = "Ready"
      /\ connections \in [Connections -> Connection]
  BY LateGrows DEF ReadyInReady, Base, TypeOK
<1>1. CASE Reconciled
  BY <1>0, <1>1 DEF Reconciled
<1>2. CASE Cleaned
  BY <1>2 DEF Cleaned
<1>3. CASE Marked
  BY <1>3 DEF Marked, late_ops
<1>4. CASE workspace' = workspace /\ connections' = connections
  BY <1>0, <1>4
<1>5. ASSUME NEW d \in Connections, NEW new \in Connection, ConnectionHandled(d, new)
      PROVE  workspace'.state = "Ready"
  BY <1>5 DEF ConnectionHandled
<1>6. ASSUME NEW d \in Connections, NEW new \in Connection, ConnectionLanded(d, new)
      PROVE  workspace'.state = "Ready"
  <2>1. connections'[d] = new /\ \A e \in Connections : e # d => connections'[e] = connections[e]
    BY <1>0, <1>6 DEF ConnectionLanded
  <2>2. new.state # "Ready" /\ workspace' = workspace
    BY <1>6 DEF ConnectionLanded
  <2>3. QED
    BY <1>0, <2>1, <2>2
<1>7. QED
  BY <1>1, <1>2, <1>3, <1>4, <1>5, <1>6
  DEF Effect, MembersWritten, RevisionCreated, RevisionLanded, ProfileWritten, GatewayWritten,
      Deferred, tables, vars

LEMMA ReadyChainNext == ASSUME Base, ReadyChain, Effect, More PROVE ReadyChain'
<1> SUFFICES ASSUME late_ops' \cap {"publish", "delete_connection", "delete_workspace"} = {},
                    NEW p \in Profiles, Published(p)'
             PROVE  /\ <<p, profiles'[p].current>> \in metadata'
                    /\ \A n \in blobs'[p][profiles'[p].current] :
                          \E c \in Connections : connections'[c].name = n /\ connections'[c].state = "Ready"
  BY DEF ReadyChain
<1>0. late_ops \cap {"publish", "delete_connection", "delete_workspace"} = {}
  BY LateGrows
<1> DEFINE r == profiles[p].current
<1>1. CASE /\ revision(p, profiles'[p].current) /\ check_config(blobs[p][profiles'[p].current])
           /\ UNCHANGED <<workspace, connections, relays, metadata, blobs>>
  BY <1>1 DEF revision, check_config
<1>2. CASE /\ Published(p) /\ profiles'[p].current = profiles[p].current
           /\ \/ metadata \subseteq metadata'
              \/ \A c \in Connections : connections[c].state = "Absent"
  <2>1. /\ <<p, r>> \in metadata
        /\ \A n \in blobs[p][r] :
              \E c \in Connections : connections[c].name = n /\ connections[c].state = "Ready"
    BY <1>0, <1>2 DEF ReadyChain
  <2>2. /\ r \in Revisions /\ blobs[p][r] # {} /\ blobs[p][r] \subseteq Names
        /\ \A n \in blobs[p][r] : connection_in_use(n)
    BY <1>2, <2>1, PublishedInUse
  <2>3. metadata \subseteq metadata'
    BY <1>2, <2>1, <2>2
  <2>4. blobs'[p][r] = blobs[p][r]
    BY <2>2, BlobsKept
  <2>5. ASSUME NEW n \in blobs[p][r]
        PROVE  \E c \in Connections : connections'[c].name = n /\ connections'[c].state = "Ready"
    <3>1. n \in Names /\ connection_in_use(n)
      BY <2>2
    <3>2. "delete_connection" \notin late_ops'
      OBVIOUS
    <3>3. QED
      BY <2>1, <3>1, <3>2, NamesKept
  <2>6. QED
    BY <1>2, <2>1, <2>3, <2>4, <2>5
<1>3. QED
  BY <1>1, <1>2, PublicationKept

LEMMA LiveChainNext == ASSUME Base, ReadyChain, LiveChain, Effect, More PROVE LiveChain'
<1> SUFFICES ASSUME late_ops' \cap {"mint", "publish", "delete_profile", "delete_connection",
                                    "delete_workspace"} = {},
                    NEW g \in Gateways, gateways'[g].state = "Live"
             PROVE  gateways'[g].profile \in Profiles /\ Published(gateways[g].profile)'
  BY DEF LiveChain
<1>0. /\ late_ops \cap {"mint", "publish", "delete_profile", "delete_connection",
                        "delete_workspace"} = {}
      /\ gateways \in [Gateways -> Gateway] /\ profiles \in [Profiles -> Profile]
  BY LateGrows DEF Base, TypeOK
<1>1. /\ \A h \in Gateways : gateways[h].state = "Live" =>
            gateways[h].profile \in Profiles /\ Published(gateways[h].profile)
      /\ \A p \in Profiles : Published(p) =>
            /\ <<p, profiles[p].current>> \in metadata
            /\ \A n \in blobs[p][profiles[p].current] :
                  \E c \in Connections : connections[c].name = n /\ connections[c].state = "Ready"
  BY <1>0 DEF LiveChain, ReadyChain
<1>2. CASE UNCHANGED <<gateways, profiles>>
  BY <1>1, <1>2 DEF Published
<1>3. CASE Cleaned
  <2>1. gateways'[g] = gateways[g]
    BY <1>3 DEF Cleaned
  <2>2. gateways[g].profile \in Profiles /\ Published(gateways[g].profile)
    BY <1>1, <2>1
  <2>3. PICK p \in Profiles : p = gateways[g].profile
    BY <2>2
  <2>4. /\ <<p, profiles[p].current>> \in metadata
        /\ \A n \in blobs[p][profiles[p].current] :
              \E c \in Connections : connections[c].name = n /\ connections[c].state = "Ready"
    BY <1>1, <2>2, <2>3
  <2>5. blobs[p][profiles[p].current] # {}
    BY <2>2, <2>3, <2>4, PublishedInUse
  <2>6. QED
    BY <1>3, <2>4, <2>5 DEF Cleaned
<1>4. ASSUME NEW q \in Profiles, NEW new \in Profile, ProfileWritten(q, new)
      PROVE  gateways'[g].profile \in Profiles /\ Published(gateways[g].profile)'
  <2>1. gateways' = gateways
    BY <1>4 DEF ProfileWritten
  <2>2. PICK p \in Profiles : p = gateways[g].profile
    BY <1>1, <2>1
  <2>3. Published(p)
    BY <1>1, <2>1, <2>2
  <2>4. profiles'[q] = new /\ \A s \in Profiles : s # q => profiles'[s] = profiles[s]
    BY <1>0, <1>4 DEF ProfileWritten
  <2>5. CASE p # q
    BY <2>1, <2>2, <2>3, <2>4, <2>5 DEF Published
  <2>6. CASE p = q
    <3>1. [op |-> "delete_profile", key |-> q] \notin landed'
      BY DEF late_ops
    <3>2. ~ \A h \in Gateways : gateways[h].state = "Live" => gateways[h].profile # q
      BY <2>1, <2>2, <2>6
    <3>3. \/ new = [profiles[q] EXCEPT !.next = profiles[q].next + 1]
          \/ \E s \in Revisions : new = [profiles[q] EXCEPT !.current = s]
      BY <1>4, <2>3, <2>6, <3>1, <3>2 DEF ProfileWritten, Published
    <3>4. profiles[q] \in Profile /\ \A s \in Revisions : s # 0
      BY <1>0 DEF Revisions
    <3>5. new.state = "Present" /\ new.current # 0
      BY <2>3, <2>6, <3>3, <3>4 DEF Published, Profile
    <3>6. QED
      BY <2>1, <2>2, <2>4, <2>6, <3>5 DEF Published
  <2>7. QED
    BY <2>5, <2>6
<1>5. ASSUME NEW q \in Profiles, NEW names \in Configs, RevisionCreated(q, names)
      PROVE  gateways'[g].profile \in Profiles /\ Published(gateways[g].profile)'
  <2>1. gateways' = gateways
    BY <1>5 DEF RevisionCreated
  <2>2. PICK p \in Profiles : p = gateways[g].profile
    BY <1>1, <2>1
  <2>3. Published(p)
    BY <1>1, <2>1, <2>2
  <2>4. profiles'[p].state = profiles[p].state /\ profiles'[p].current = profiles[p].current
    BY <1>0, <1>5 DEF RevisionCreated, Profile
  <2>5. QED
    BY <2>1, <2>2, <2>3, <2>4 DEF Published
<1>6. ASSUME NEW h \in Gateways, NEW new \in Gateway, GatewayWritten(h, new)
      PROVE  gateways'[g].profile \in Profiles /\ Published(gateways[g].profile)'
  <2>1. profiles' = profiles
    BY <1>6 DEF GatewayWritten
  <2>2. gateways'[h] = new /\ \A s \in Gateways : s # h => gateways'[s] = gateways[s]
    BY <1>0, <1>6 DEF GatewayWritten
  <2>3. CASE g # h
    BY <1>1, <2>1, <2>2, <2>3 DEF Published
  <2>4. CASE g = h
    <3>1. [op |-> "mint", key |-> h] \notin landed'
      BY DEF late_ops
    <3>2. new.state = "Live"
      BY <2>2, <2>4
    <3>3. ~(gateways[h].state = "Live" /\ new = [gateways[h] EXCEPT !.state = "Revoked"])
      BY <1>0, <3>2 DEF Gateway
    <3>4. new.profile \in Profiles /\ published_config(new.profile)
      BY <1>6, <3>1, <3>3 DEF GatewayWritten
    <3>5. QED
      BY <2>1, <2>2, <2>4, <3>4 DEF published_config, Published
  <2>5. QED
    BY <2>3, <2>4
<1>7. QED
  BY <1>2, <1>3, <1>4, <1>5, <1>6
  DEF Effect, Reconciled, Marked, MembersWritten, ConnectionHandled, ConnectionLanded,
      RevisionLanded, Deferred, tables, vars

LEMMA ChainsInvariant == Spec => []Chains
<1>1. Init => Chains
  BY NoRow DEF Init, Chains, RowsExist, RelayChain, ReadyInReady, ReadyChain, LiveChain, Published
<1>2. Chains /\ Base /\ [Next]_vars => Chains'
  <2>1. SUFFICES ASSUME Chains, Base, Effect, More PROVE Chains'
    BY StepEffect
  <2>2. QED
    BY <2>1, RowsExistNext, RelayChainNext, ReadyInReadyNext, ReadyChainNext, LiveChainNext
    DEF Chains
<1>3. QED
  BY <1>1, <1>2, Invariant, PTL DEF Spec

\* delete_connection and the reconciler never destroy a hybrid connection that a
\* published revision names, unless the publication, or a second row of the name,
\* arrived late.
THEOREM RelaysExist == Spec => []PublishedRelaysExist
<1>1. RelayChain => PublishedRelaysExist
  BY DEF RelayChain, Published, PublishedRelaysExist
<1>2. QED
  BY <1>1, ChainsInvariant, PTL DEF Chains

\* gateway_config and relay_token of an unrevoked gateway succeed whatever the
\* administrators and the reconciler did, while none of the five writes that other rows
\* depend on arrived late.
THEOREM GatewaysServed == Spec => []LiveGatewayServed
<1>1. ASSUME Base, Chains PROVE LiveGatewayServed
  <2>1. SUFFICES ASSUME late_ops \cap {"mint", "publish", "delete_profile", "delete_connection",
                                       "delete_workspace"} = {},
                        NEW g \in Gateways, gateways[g].state = "Live"
                 PROVE  workspace.state = "Ready" /\ published_config(gateways[g].profile)
    BY DEF LiveGatewayServed
  <2>2. PICK p \in Profiles : p = gateways[g].profile
    BY <1>1, <2>1 DEF Chains, LiveChain
  <2>3. Published(p)
    BY <1>1, <2>1, <2>2 DEF Chains, LiveChain
  <2> DEFINE r == profiles[p].current
  <2>4. /\ <<p, r>> \in metadata
        /\ \A n \in blobs[p][r] : \E c \in Connections :
              connections[c].name = n /\ connections[c].state = "Ready"
    BY <1>1, <2>1, <2>3 DEF Chains, ReadyChain
  <2>5. r \in Revisions /\ blobs[p][r] # {} /\ blobs[p][r] \subseteq Names
    BY <1>1, <2>3, <2>4, PublishedInUse
  <2>6. workspace.state = "Ready"
    BY <1>1, <2>1, <2>4, <2>5 DEF Chains, ReadyInReady
  <2>7. published_config(p)
    BY <2>3, <2>4, <2>5, <2>6 DEF published_config, revision, check_config, Configs, Published
  <2>8. QED
    BY <2>2, <2>6, <2>7
<1>2. QED
  BY <1>1, Invariant, ChainsInvariant, PTL

-----------------------------------------------------------------------------
(* The stores. *)

Verdicts == {"Ok", "Conflict", "NotFound"}

\* What the module's parameters stand for: rows in key order, and a bound.
Parameters == Rows \subseteq Nat \ {0} /\ IsFiniteSet(Rows) /\ MaxCalls \in Nat

\* Calls are numbered in the order they are made.
Types ==
    /\ etag \in [Rows -> Nat] /\ version \in Nat /\ blob \in Nat
    /\ made \in 0..MaxCalls
    /\ call \in [Calls -> Requests \cup {NoCall}]
    /\ caller \in [Clients -> [id : Nat, sent : Nat]]
    /\ \A c \in Clients : caller[c] = NoCaller \/ caller[c].id \in 1..made
    /\ underWay \subseteq 1..made
    /\ response \subseteq (1..made) \X Verdicts
    /\ answer \in [Calls -> Verdicts \cup {"None", "Unavailable"}]
    /\ effects \in [Calls -> 0..1]
    /\ \A i \in Calls : i > made => effects[i] = 0 /\ answer[i] = "None"
    /\ \A i \in 1..made : call[i] \in Requests

\* What a verdict says of call i, now and later.
Truth(i, v) ==
    /\ v = "Ok" => effects[i] = 1
    /\ v \in {"Conflict", "NotFound"} /\ call[i].op # "put" => effects[i] = 0 /\ i \notin underWay
    /\ v = "Conflict" /\ call[i].op = "put" => blob # 0

\* A table request is under way only before it takes effect; an upload that took effect
\* has left a revision.
CallOK(i) ==
    /\ i \in underWay /\ call[i].op # "put" => effects[i] = 0
    /\ effects[i] = 1 /\ call[i].op = "put" => blob # 0
    /\ Truth(i, answer[i])
    /\ \A v \in Verdicts : <<i, v>> \in response => Truth(i, v)

\* The list in progress has the rows it has passed, and the last one was complete.
ListOK ==
    /\ through \subseteq Present
    /\ listing \in [cursor : Nat, got : SUBSET Rows]
    /\ \A r \in through : r < listing.cursor => r \in listing.got
    /\ ListIsComplete

StoreInv == Types /\ (\A i \in 1..made : CallOK(i)) /\ ListOK

-----------------------------------------------------------------------------
(* What a store does with a call. *)

\* A request is about a row of the table, or about the revision.
LEMMA RequestFacts ==
    ASSUME NEW k \in Requests
    PROVE  k.op \in {"insert", "replace", "delete", "put"} /\ (k.op # "put" => k.row \in Rows)
BY DEF Requests

\* A call that takes effect does so once and is told Ok; otherwise nothing changes.  A row
\* that is deleted is no longer one that was there throughout.
LEMMA PerformDoes ==
    ASSUME Types, NEW i \in Calls, NEW k \in Requests, Perform(i, k), MaxCalls \in Nat
    PROVE  /\ etag' \in [Rows -> Nat] /\ version' \in Nat /\ blob' \in Nat
           /\ blob # 0 => blob' # 0
           /\ \A j \in Calls : j # i => effects'[j] = effects[j]
           /\ \/ /\ Verdict(k) = "Ok" /\ effects' = [effects EXCEPT ![i] = @ + 1]
                 /\ k.op = "put" => blob = 0 /\ blob' # 0
              \/ /\ Verdict(k) \in {"Conflict", "NotFound"} /\ effects' = effects
                 /\ k.op = "put" => blob # 0 /\ Verdict(k) = "Conflict"
           /\ through' \subseteq through
           /\ through \subseteq Present => through' \subseteq Present'
<1>1. k.op \in {"insert", "replace", "delete", "put"} /\ (k.op # "put" => k.row \in Rows)
  BY RequestFacts
<1>2. i \in Nat \ {0} /\ etag \in [Rows -> Nat] /\ version \in Nat /\ blob \in Nat
      /\ effects \in [Calls -> 0..1]
  BY DEF Calls, Types
<1>3. CASE ~Holds(k)
  <2>1. UNCHANGED <<etag, version, blob, effects, through>>
    BY <1>3 DEF Perform, table
  <2>2. Verdict(k) \in {"Conflict", "NotFound"} /\ (k.op = "put" => blob # 0 /\ Verdict(k) = "Conflict")
    BY <1>1, <1>3 DEF Verdict, Holds
  <2>3. QED
    BY <1>2, <2>1, <2>2 DEF Present
<1>4. CASE Holds(k) /\ k.op = "put"
  <2>1. /\ effects' = [effects EXCEPT ![i] = @ + 1] /\ blob' = i
        /\ UNCHANGED <<etag, version, through>>
    BY <1>4 DEF Perform
  <2>2. Verdict(k) = "Ok" /\ blob = 0
    BY <1>4 DEF Verdict, Holds
  <2>3. QED
    BY <1>2, <1>4, <2>1, <2>2 DEF Present
<1>5. CASE Holds(k) /\ k.op # "put"
  <2>1. /\ effects' = [effects EXCEPT ![i] = @ + 1] /\ blob' = blob /\ version' = version + 1
        /\ etag' = [etag EXCEPT ![k.row] = IF k.op = "delete" THEN 0 ELSE version + 1]
        /\ through' = IF k.op = "delete" THEN through \ {k.row} ELSE through
    BY <1>5 DEF Perform
  <2>2. Verdict(k) = "Ok"
    BY <1>5 DEF Verdict
  <2>3. etag' \in [Rows -> Nat] /\ \A r \in Rows : r # k.row => etag'[r] = etag[r]
    BY <1>1, <1>2, <1>5, <2>1
  <2>4. k.op # "delete" => etag'[k.row] # 0
    BY <1>1, <1>2, <1>5, <2>1
  <2>5. through \subseteq Present => through' \subseteq Present'
    BY <2>1, <2>3, <2>4 DEF Present
  <2>6. QED
    BY <1>2, <1>5, <2>1, <2>2, <2>3, <2>5
<1>6. QED
  BY <1>3, <1>4, <1>5

\* A step that only takes rows out of through, and leaves the lists alone.
LEMMA ListSame ==
    ASSUME ListOK, through' \subseteq through, through' \subseteq Present', UNCHANGED <<listing, listed>>
    PROVE  ListOK'
BY DEF ListOK, ListIsComplete

-----------------------------------------------------------------------------
(* Steps. *)

\* The initial state.
LEMMA StoreFirst == ASSUME Parameters, StoreInit PROVE StoreInv
<1>1. Types
  <2>1. etag \in [Rows -> Nat]
    BY DEF StoreInit
  <2>2. QED
    BY <2>1 DEF Parameters, StoreInit, Types, NoCaller, Calls
<1>2. ListOK
  BY DEF StoreInit, ListOK, Present, NotListing, ListIsComplete
<1>3. QED
  BY <1>1, <1>2 DEF StoreInit, StoreInv

\* What Asks leaves: the new call has its number, and those before it are as they were.
LEMMA AsksDoes ==
    ASSUME Types, MaxCalls \in Nat, NEW c \in Clients, NEW k \in Requests, Asks(c, k)
    PROVE  /\ made' = made + 1 /\ made' \in 0..MaxCalls /\ made' \in Calls /\ made \in Nat
           /\ call' \in [Calls -> Requests \cup {NoCall}] /\ call'[made + 1] = k
           /\ \A i \in 1..made : i \in Calls /\ call'[i] = call[i]
           /\ \A i \in 1..made' : call'[i] \in Requests /\ i \in Calls
           /\ effects[made + 1] = 0 /\ answer[made + 1] = "None"
<1>1. made \in Nat /\ made' = made + 1 /\ made' \in Calls /\ made' \in 0..MaxCalls
  BY DEF Asks, Types, Calls
<1>2. call \in [Calls -> Requests \cup {NoCall}] /\ call' = [call EXCEPT ![made + 1] = k]
  BY DEF Asks, Types
<1>3. call' \in [Calls -> Requests \cup {NoCall}] /\ call'[made + 1] = k
      /\ \A i \in Calls : i # made + 1 => call'[i] = call[i]
  BY <1>1, <1>2
<1>4. \A i \in 1..made' : i \in Calls
  BY <1>1 DEF Calls
<1>5. \A i \in 1..made : i \in Calls /\ call'[i] = call[i] /\ call[i] \in Requests
  BY <1>1, <1>3, <1>4 DEF Types
<1>6. \A i \in 1..made' : call'[i] \in Requests
  BY <1>1, <1>3, <1>5
<1>7. QED
  BY <1>1, <1>3, <1>4, <1>5, <1>6 DEF Types

\* memory_call: the call is made, carried out and answered in one step.
LEMMA MemoryKeeps ==
    ASSUME Parameters, StoreInv, NEW c \in Clients, NEW k \in Requests, memory_call(c, k)
    PROVE  StoreInv'
<1>1. Types /\ ListOK /\ MaxCalls \in Nat /\ \A i \in 1..made : CallOK(i)
  BY DEF StoreInv, Parameters
<1>2. /\ Asks(c, k) /\ Perform(made + 1, k)
      /\ answer' = [answer EXCEPT ![made + 1] = Verdict(k)]
      /\ UNCHANGED <<caller, underWay, response, listing, listed>>
  BY DEF memory_call
<1>3. /\ made' = made + 1 /\ made' \in 0..MaxCalls /\ made' \in Calls /\ made \in Nat
      /\ call' \in [Calls -> Requests \cup {NoCall}] /\ call'[made + 1] = k
      /\ \A i \in 1..made : i \in Calls /\ call'[i] = call[i]
      /\ \A i \in 1..made' : call'[i] \in Requests /\ i \in Calls
      /\ effects[made + 1] = 0 /\ answer[made + 1] = "None"
  BY <1>1, <1>2, AsksDoes
<1>4. /\ etag' \in [Rows -> Nat] /\ version' \in Nat /\ blob' \in Nat
      /\ blob # 0 => blob' # 0
      /\ \A j \in Calls : j # made + 1 => effects'[j] = effects[j]
      /\ \/ /\ Verdict(k) = "Ok" /\ effects' = [effects EXCEPT ![made + 1] = @ + 1]
            /\ k.op = "put" => blob = 0 /\ blob' # 0
         \/ /\ Verdict(k) \in {"Conflict", "NotFound"} /\ effects' = effects
            /\ k.op = "put" => blob # 0 /\ Verdict(k) = "Conflict"
      /\ through' \subseteq through
      /\ through \subseteq Present => through' \subseteq Present'
  BY <1>1, <1>2, <1>3, PerformDoes
<1>5. /\ effects' \in [Calls -> 0..1]
      /\ effects'[made + 1] = IF Verdict(k) = "Ok" THEN 1 ELSE 0
  <2>1. effects \in [Calls -> 0..1]
    BY <1>1 DEF Types
  <2>2. QED
    BY <1>3, <1>4, <2>1
<1>6. /\ answer' \in [Calls -> Verdicts \cup {"None", "Unavailable"}]
      /\ answer'[made + 1] = Verdict(k)
      /\ \A j \in Calls : j # made + 1 => answer'[j] = answer[j]
  <2>1. answer \in [Calls -> Verdicts \cup {"None", "Unavailable"}] /\ Verdict(k) \in Verdicts
    BY <1>1, <1>4 DEF Types, Verdicts
  <2>2. QED
    BY <1>2, <1>3, <2>1
<1>7. Types'
  <2>1. \A d \in Clients : caller'[d] = NoCaller \/ caller'[d].id \in 1..made'
    BY <1>1, <1>2, <1>3 DEF Types
  <2>2. underWay' \subseteq 1..made' /\ response' \subseteq (1..made') \X Verdicts
    BY <1>1, <1>2, <1>3 DEF Types
  <2>3. \A i \in Calls : i > made' => effects'[i] = 0 /\ answer'[i] = "None"
    BY <1>1, <1>3, <1>4, <1>6 DEF Types, Calls
  <2>4. QED
    BY <1>1, <1>2, <1>3, <1>4, <1>5, <1>6, <2>1, <2>2, <2>3 DEF Types
<1>8. ASSUME NEW i \in 1..made' PROVE CallOK(i)'
  <2>1. CASE i \in 1..made
    <3>1. CallOK(i) /\ call'[i] = call[i] /\ effects'[i] = effects[i] /\ answer'[i] = answer[i]
      BY <1>1, <1>3, <1>4, <1>6, <2>1
    <3>2. QED
      BY <1>2, <1>4, <3>1 DEF CallOK, Truth
  <2>2. CASE i = made + 1
    <3>1. i \notin underWay /\ \A v \in Verdicts : <<i, v>> \notin response
      BY <1>1, <1>3, <2>2 DEF Types
    <3>2. Truth(i, answer[i])'
      BY <1>2, <1>3, <1>4, <1>5, <1>6, <2>2, <3>1 DEF Truth
    <3>3. QED
      BY <1>2, <1>3, <1>4, <1>5, <2>2, <3>1, <3>2 DEF CallOK
  <2>3. QED
    BY <1>3, <2>1, <2>2
<1>9. ListOK'
  <2>1. through' \subseteq Present'
    BY <1>1, <1>4 DEF ListOK
  <2>2. QED
    BY <1>1, <1>2, <1>4, <2>1, ListSame
<1>10. QED
  BY <1>7, <1>8, <1>9 DEF StoreInv

\* send: the request goes out, or its call is answered Unavailable.
LEMMA SendKeeps ==
    ASSUME Parameters, StoreInv, NEW c \in Clients, NEW k \in Requests, send(c, k)
    PROVE  StoreInv'
<1>1. Types /\ ListOK /\ MaxCalls \in Nat /\ \A i \in 1..made : CallOK(i)
  BY DEF StoreInv, Parameters
<1>2. Asks(c, k) /\ UNCHANGED <<etag, version, blob, response, effects, listing, through, listed>>
  BY DEF send, table, lists
<1>3. /\ made' = made + 1 /\ made' \in 0..MaxCalls /\ made' \in Calls /\ made \in Nat
      /\ call' \in [Calls -> Requests \cup {NoCall}] /\ call'[made + 1] = k
      /\ \A i \in 1..made : i \in Calls /\ call'[i] = call[i]
      /\ \A i \in 1..made' : call'[i] \in Requests /\ i \in Calls
      /\ effects[made + 1] = 0 /\ answer[made + 1] = "None"
  BY <1>1, <1>2, AsksDoes
<1>4. /\ caller' \in [Clients -> [id : Nat, sent : Nat]]
      /\ \A d \in Clients : caller'[d] = NoCaller \/ caller'[d].id \in 1..made'
  <2>1. /\ caller \in [Clients -> [id : Nat, sent : Nat]]
        /\ \A d \in Clients : caller[d] = NoCaller \/ caller[d].id \in 1..made'
    BY <1>1, <1>3 DEF Types
  <2>2. caller' = caller \/ caller' = [caller EXCEPT ![c] = [id |-> made + 1, sent |-> 1]]
    BY DEF send
  <2>3. QED
    BY <1>3, <2>1, <2>2
<1>5. /\ answer' \in [Calls -> Verdicts \cup {"None", "Unavailable"}]
      /\ answer'[made + 1] \in {"None", "Unavailable"}
      /\ \A j \in Calls : j # made + 1 => answer'[j] = answer[j]
  <2>1. answer \in [Calls -> Verdicts \cup {"None", "Unavailable"}]
    BY <1>1 DEF Types
  <2>2. answer' = answer \/ answer' = [answer EXCEPT ![made + 1] = "Unavailable"]
    BY DEF send
  <2>3. QED
    BY <1>3, <2>1, <2>2
<1>6. underWay' \in {underWay, underWay \cup {made + 1}}
  BY DEF send
<1>7. Types'
  <2>1. underWay' \subseteq 1..made' /\ response' \subseteq (1..made') \X Verdicts
    BY <1>1, <1>2, <1>3, <1>6 DEF Types
  <2>2. \A i \in Calls : i > made' => effects'[i] = 0 /\ answer'[i] = "None"
    BY <1>1, <1>2, <1>3, <1>5 DEF Types, Calls
  <2>3. QED
    BY <1>1, <1>2, <1>3, <1>4, <1>5, <2>1, <2>2 DEF Types
<1>8. ASSUME NEW i \in 1..made' PROVE CallOK(i)'
  <2>1. CASE i \in 1..made
    <3>1. /\ CallOK(i) /\ call'[i] = call[i] /\ answer'[i] = answer[i]
          /\ i \in underWay' <=> i \in underWay
      BY <1>1, <1>3, <1>5, <1>6, <2>1
    <3>2. QED
      BY <1>2, <3>1 DEF CallOK, Truth
  <2>2. CASE i = made + 1
    <3>1. \A v \in Verdicts : <<i, v>> \notin response
      BY <1>1, <1>3, <2>2 DEF Types
    <3>2. QED
      BY <1>2, <1>3, <1>5, <2>2, <3>1 DEF CallOK, Truth
  <2>3. QED
    BY <1>3, <2>1, <2>2
<1>9. ListOK'
  <2>1. through' \subseteq Present'
    BY <1>1, <1>2 DEF ListOK, Present
  <2>2. QED
    BY <1>1, <1>2, <2>1, ListSame
<1>10. QED
  BY <1>7, <1>8, <1>9 DEF StoreInv

\* serve: the verdict is true of the call from here on; a table request is carried out once.
LEMMA ServeKeeps ==
    ASSUME Parameters, StoreInv, NEW i \in Calls, serve(i) PROVE StoreInv'
<1>1. Types /\ ListOK /\ MaxCalls \in Nat /\ \A j \in 1..made : CallOK(j)
  BY DEF StoreInv, Parameters
<1>2. /\ i \in underWay /\ underWay' = underWay \ {i} /\ Perform(i, call[i])
      /\ response' = response \cup {<<i, Verdict(call[i])>>}
      /\ UNCHANGED <<made, call, caller, listing, listed, answer>>
  BY DEF serve
<1>3. i \in 1..made /\ call[i] \in Requests /\ CallOK(i) /\ \A j \in 1..made : j \in Calls
  BY <1>1, <1>2 DEF Types, Calls
<1>4. PICK v : v = Verdict(call[i])
  OBVIOUS
<1>5. /\ etag' \in [Rows -> Nat] /\ version' \in Nat /\ blob' \in Nat
      /\ blob # 0 => blob' # 0
      /\ \A j \in Calls : j # i => effects'[j] = effects[j]
      /\ \/ /\ v = "Ok" /\ effects' = [effects EXCEPT ![i] = @ + 1]
            /\ call[i].op = "put" => blob = 0 /\ blob' # 0
         \/ /\ v \in {"Conflict", "NotFound"} /\ effects' = effects
            /\ call[i].op = "put" => blob # 0 /\ v = "Conflict"
      /\ through' \subseteq through
      /\ through \subseteq Present => through' \subseteq Present'
  BY <1>1, <1>2, <1>3, <1>4, PerformDoes
<1>6. effects[i] \in 0..1 /\ effects \in [Calls -> 0..1]
  BY <1>1 DEF Types
<1>7. v = "Ok" => effects[i] = 0
  BY <1>2, <1>3, <1>5, <1>6 DEF CallOK
<1>8. /\ effects' \in [Calls -> 0..1]
      /\ effects'[i] = IF v = "Ok" THEN 1 ELSE effects[i]
  BY <1>5, <1>6, <1>7
<1>9. Types'
  <2>1. v \in Verdicts
    BY <1>5 DEF Verdicts
  <2>2. underWay' \subseteq 1..made' /\ response' \subseteq (1..made') \X Verdicts
    <3>1. <<i, v>> \in (1..made) \X Verdicts
      BY <1>3, <2>1
    <3>2. response' = response \cup {<<i, v>>} /\ made' = made
      BY <1>2, <1>4
    <3>3. QED
      BY <1>1, <1>2, <3>1, <3>2 DEF Types
  <2>3. \A j \in Calls : j > made' => effects'[j] = 0 /\ answer'[j] = "None"
    BY <1>1, <1>2, <1>3, <1>5 DEF Types
  <2>4. QED
    BY <1>1, <1>2, <1>5, <1>8, <2>2, <2>3 DEF Types
<1>10. ASSUME NEW j \in 1..made' PROVE CallOK(j)'
  <2>1. CallOK(j) /\ j \in Calls
    BY <1>1, <1>2, <1>3
  <2>2. CASE j # i
    <3>1. \A x \in Verdicts : <<j, x>> \in response' => <<j, x>> \in response
      BY <1>2, <2>2
    <3>2. effects'[j] = effects[j] /\ (j \in underWay' <=> j \in underWay)
      BY <1>2, <1>5, <2>1, <2>2
    <3>3. QED
      BY <1>2, <1>5, <2>1, <3>1, <3>2 DEF CallOK, Truth
  <2>3. CASE j = i
    <3>1. i \notin underWay' /\ call' = call /\ answer' = answer
      BY <1>2
    <3>2. \A x \in Verdicts : <<i, x>> \in response' => <<i, x>> \in response \/ x = v
      BY <1>2, <1>4
    <3>3. effects'[i] = 1 /\ call[i].op = "put" => blob' # 0
      BY <1>3, <1>5, <1>8 DEF CallOK
    <3>4. Truth(i, v)'
      BY <1>2, <1>3, <1>5, <1>8, <3>1 DEF Truth, CallOK
    <3>5. ASSUME NEW x, Truth(i, x) PROVE Truth(i, x)'
      BY <1>2, <1>5, <1>7, <1>8, <3>1, <3>5 DEF Truth
    <3>6. Truth(i, answer[i])'
      <4>1. PICK x : x = answer[i]
        OBVIOUS
      <4>2. Truth(i, x)'
        BY <1>3, <3>5, <4>1 DEF CallOK
      <4>3. QED
        BY <3>1, <4>1, <4>2 DEF Truth
    <3>7. \A x \in Verdicts : <<i, x>> \in response' => Truth(i, x)'
      BY <1>3, <3>2, <3>4, <3>5 DEF CallOK
    <3>8. QED
      BY <2>3, <3>1, <3>3, <3>6, <3>7 DEF CallOK
  <2>4. QED
    BY <2>2, <2>3
<1>11. ListOK'
  <2>1. through' \subseteq Present'
    BY <1>1, <1>5 DEF ListOK
  <2>2. QED
    BY <1>1, <1>2, <1>5, <2>1, ListSame
<1>12. QED
  BY <1>9, <1>10, <1>11 DEF StoreInv

\* What may happen to a call without the store: its request or its answer is lost, it is
\* answered, given up, or sent again if it is an upload.
LEMMA WireKeeps ==
    ASSUME StoreInv,
           UNCHANGED <<etag, version, blob, made, call, effects, listing, through, listed>>,
           /\ caller' \in [Clients -> [id : Nat, sent : Nat]]
           /\ \A c \in Clients : caller'[c] = NoCaller \/ caller'[c].id \in 1..made,
           underWay' \subseteq 1..made,
           \A i \in underWay' \ underWay : call[i].op = "put",
           response' \subseteq response,
           /\ answer' \in [Calls -> Verdicts \cup {"None", "Unavailable"}]
           /\ \A i \in Calls : i > made => answer'[i] = answer[i],
           \A i \in 1..made : \/ answer'[i] \in {answer[i], "Unavailable"}
                              \/ <<i, answer'[i]>> \in response
    PROVE  StoreInv'
<1>1. Types /\ ListOK /\ \A j \in 1..made : CallOK(j)
  BY DEF StoreInv
<1>2. Types'
  <2>1. response' \subseteq (1..made) \X Verdicts
    BY <1>1 DEF Types
  <2>2. QED
    BY <1>1, <2>1 DEF Types
<1>3. ASSUME NEW j \in 1..made' PROVE CallOK(j)'
  <2>1. CallOK(j) /\ j \in 1..made
    BY <1>1
  <2>2. j \in underWay' => j \in underWay \/ call[j].op = "put"
    OBVIOUS
  <2>3. ASSUME NEW x, Truth(j, x) PROVE Truth(j, x)'
    BY <2>2, <2>3 DEF Truth
  <2>4. PICK x : x = answer'[j]
    OBVIOUS
  <2>5. Truth(j, x)
    <3>1. CASE <<j, x>> \in response
      <4>1. x \in Verdicts
        BY <1>1, <3>1 DEF Types
      <4>2. QED
        BY <2>1, <3>1, <4>1 DEF CallOK
    <3>2. CASE x = answer[j]
      BY <2>1, <3>2 DEF CallOK
    <3>3. CASE x = "Unavailable"
      BY <3>3 DEF Truth
    <3>4. QED
      BY <2>1, <2>4, <3>1, <3>2, <3>3
  <2>6. Truth(j, answer[j])'
    BY <2>3, <2>4, <2>5 DEF Truth
  <2>7. \A v \in Verdicts : <<j, v>> \in response' => Truth(j, v)'
    BY <2>1, <2>3 DEF CallOK
  <2>8. QED
    BY <2>1, <2>2, <2>6, <2>7 DEF CallOK
<1>4. ListOK'
  <2>1. through' \subseteq Present'
    BY <1>1 DEF ListOK, Present
  <2>2. QED
    BY <1>1, <2>1, ListSame
<1>5. QED
  BY <1>2, <1>3, <1>4 DEF StoreInv

\* Losing, answering, giving up and sending again are such steps.
LEMMA CallerKeeps ==
    ASSUME Parameters, StoreInv, NEW c \in Clients, respond(c) \/ times_out(c) \/ resend(c)
    PROVE  StoreInv'
<1>1. /\ Types /\ caller \in [Clients -> [id : Nat, sent : Nat]] /\ underWay \subseteq 1..made
      /\ answer \in [Calls -> Verdicts \cup {"None", "Unavailable"}]
      /\ \A d \in Clients : caller[d] = NoCaller \/ caller[d].id \in 1..made
      /\ made \in 0..MaxCalls /\ MaxCalls \in Nat
  BY DEF StoreInv, Types, Parameters
<1>2. /\ UNCHANGED <<etag, version, blob, made, call, effects, listing, through, listed>>
      /\ caller[c] # NoCaller
  BY DEF respond, times_out, resend, table, lists
<1>3. caller[c].id \in 1..made /\ caller[c].id \in Calls
  BY <1>1, <1>2 DEF Calls
<1>4. ASSUME NEW a \in Verdicts \cup {"Unavailable"}, Return(c, caller[c].id, a),
             a = "Unavailable" \/ <<caller[c].id, a>> \in response,
             underWay' = underWay, response' \subseteq response
      PROVE  StoreInv'
  <2>1. /\ caller' \in [Clients -> [id : Nat, sent : Nat]]
        /\ \A d \in Clients : caller'[d] = NoCaller \/ caller'[d].id \in 1..made
    BY <1>1, <1>4 DEF Return, NoCaller
  <2>2. /\ answer' \in [Calls -> Verdicts \cup {"None", "Unavailable"}]
        /\ answer'[caller[c].id] = a
        /\ \A i \in Calls : i # caller[c].id => answer'[i] = answer[i]
    BY <1>1, <1>3, <1>4 DEF Return
  <2>3. \A i \in Calls : i > made => answer'[i] = answer[i]
    BY <1>1, <1>3, <2>2 DEF Calls
  <2>4. \A i \in 1..made : answer'[i] \in {answer[i], "Unavailable"} \/ <<i, answer'[i]>> \in response
    BY <1>1, <1>4, <2>2 DEF Calls
  <2>5. QED
    BY <1>1, <1>2, <1>4, <2>1, <2>2, <2>3, <2>4, WireKeeps
<1>5. CASE respond(c)
  <2>1. PICK a \in response :
          /\ a[1] = caller[c].id /\ response' = response \ {a}
          /\ Return(c, a[1], a[2]) \/ Return(c, a[1], "Unavailable")
    BY <1>5 DEF respond
  <2>2. a[2] \in Verdicts /\ a = <<a[1], a[2]>>
    BY <1>1 DEF Types
  <2>3. <<caller[c].id, a[2]>> \in response /\ underWay' = underWay /\ response' \subseteq response
    BY <1>5, <2>1, <2>2 DEF respond
  <2>4. Return(c, caller[c].id, a[2]) \/ Return(c, caller[c].id, "Unavailable")
    BY <2>1
  <2>5. QED
    BY <1>4, <2>2, <2>3, <2>4
<1>6. CASE times_out(c)
  BY <1>4, <1>6 DEF times_out
<1>7. CASE resend(c)
  <2>1. /\ caller' = [caller EXCEPT ![c].sent = @ + 1] /\ UNCHANGED <<response, answer>>
        /\ underWay' = underWay \cup {caller[c].id} /\ call[caller[c].id].op = "put"
    BY <1>7 DEF resend
  <2>2. caller' \in [Clients -> [id : Nat, sent : Nat]] /\ \A d \in Clients : caller'[d].id = caller[d].id
    BY <1>1, <2>1
  <2>3. \A d \in Clients : d # c => caller'[d] = caller[d]
    BY <1>1, <2>1
  <2>4. \A d \in Clients : caller'[d] = NoCaller \/ caller'[d].id \in 1..made
    BY <1>1, <1>3, <2>2, <2>3
  <2>5. underWay' \subseteq 1..made /\ \A i \in underWay' \ underWay : call[i].op = "put"
    BY <1>1, <1>3, <2>1
  <2>6. QED
    BY <1>1, <1>2, <2>1, <2>2, <2>4, <2>5, WireKeeps
<1>8. QED
  BY <1>5, <1>6, <1>7

\* A request or an answer that is lost leaves the others.
LEMMA LoseKeeps == ASSUME Parameters, StoreInv, NEW i \in Calls, lose(i) PROVE StoreInv'
<1>1. Types
  BY DEF StoreInv
<1>2. /\ UNCHANGED <<etag, version, blob, made, call, effects, listing, through, listed, caller, answer>>
      /\ underWay' \subseteq underWay /\ response' \subseteq response
  BY DEF lose, table, lists
<1>3. QED
  BY <1>1, <1>2, WireKeeps DEF Types, StoreInv

\* Listing: a page adds the rows from the cursor to its last row, so what was there
\* throughout and is not in the result lies behind; the list ends when nothing does.
LEMMA ListKeeps ==
    ASSUME Parameters, StoreInv, list \/ list_page \/ list_fails PROVE StoreInv'
<1>1. Types /\ ListOK /\ Rows \subseteq Nat \ {0} /\ Cardinality(Rows) \in Nat
  BY FS_CardinalityType DEF StoreInv, Parameters
<1>2. UNCHANGED <<etag, version, blob, made, call, caller, underWay, response, answer, effects>>
  BY DEF list, list_page, list_fails, table, calls
<1>3. Types' /\ (\A i \in 1..made' : CallOK(i)') /\ Present' = Present /\ Present \subseteq Rows
  BY <1>1, <1>2 DEF StoreInv, Types, CallOK, Truth, Present
<1>4. CASE list
  <2>1. through' = Present
    BY <1>4 DEF list
  <2>2. CASE listing' = listing /\ listed' = [rows |-> Present, through |-> Present]
    <3>1. listing' = NotListing
      BY <1>4, <2>2 DEF list
    <3>2. QED
      BY <1>1, <1>3, <2>1, <2>2, <3>1 DEF StoreInv, ListOK, ListIsComplete, NotListing
  <2>3. CASE listing' = [cursor |-> 1, got |-> {}] /\ listed' = listed
    <3>1. \A r \in through' : ~(r < 1)
      BY <1>1, <1>3, <2>1
    <3>2. listing' \in [cursor : Nat, got : SUBSET Rows] /\ listing'.cursor = 1
      BY <2>3
    <3>3. ListOK'
      BY <1>1, <1>3, <2>1, <2>3, <3>1, <3>2 DEF ListOK, ListIsComplete
    <3>4. QED
      BY <1>3, <3>3 DEF StoreInv
  <2>4. QED
    BY <1>4, <2>2, <2>3 DEF list, Result
<1>5. CASE list_fails
  <2>1. listing' = NotListing /\ UNCHANGED <<through, listed>>
    BY <1>5 DEF list_fails
  <2>2. ListOK'
    BY <1>1, <1>3, <2>1 DEF ListOK, ListIsComplete, NotListing
  <2>3. QED
    BY <1>3, <2>2 DEF StoreInv
<1>6. CASE list_page
  <2>1. PICK last \in listing.cursor .. Cardinality(Rows) :
          LET got == listing.got \cup {r \in Present : listing.cursor <= r /\ r <= last}
          IN  IF \E r \in Present : r > last
                THEN listing' = [cursor |-> last + 1, got |-> got] /\ listed' = listed
                ELSE listing' = NotListing /\ Result(got, through)
    BY <1>6 DEF list_page
  <2>2. PICK got : got = listing.got \cup {r \in Present : listing.cursor <= r /\ r <= last}
    OBVIOUS
  <2>3. last \in Nat /\ got \subseteq Rows /\ through' = through /\ through \subseteq Present
    <3>1. listing.cursor \in Nat /\ listing.got \subseteq Rows /\ through \subseteq Present
      BY <1>1 DEF ListOK
    <3>2. last \in Nat
      BY <1>1, <2>1, <3>1
    <3>3. got \subseteq Rows
      BY <1>3, <2>2, <3>1
    <3>4. QED
      BY <1>6, <3>1, <3>2, <3>3 DEF list_page
  <2>4. \A r \in through : r <= last => r \in got
    BY <1>1, <1>3, <2>1, <2>2, <2>3 DEF ListOK
  <2>5. CASE listing' = [cursor |-> last + 1, got |-> got] /\ listed' = listed
    <3>1. \A r \in through : r < last + 1 => r \in got
      BY <1>1, <1>3, <2>3, <2>4
    <3>2. ListOK'
      BY <1>1, <1>3, <2>3, <2>5, <3>1 DEF ListOK, ListIsComplete
    <3>3. QED
      BY <1>3, <3>2 DEF StoreInv
  <2>6. CASE /\ listing' = NotListing /\ listed' = [rows |-> got, through |-> through]
             /\ ~\E r \in Present : r > last
    <3>1. through \subseteq got
      BY <1>1, <1>3, <2>3, <2>4, <2>6
    <3>2. ListOK'
      BY <1>1, <1>3, <2>3, <2>6, <3>1 DEF ListOK, ListIsComplete, NotListing
    <3>3. QED
      BY <1>3, <3>2 DEF StoreInv
  <2>7. QED
    BY <2>1, <2>2, <2>5, <2>6 DEF Result
<1>7. QED
  BY <1>4, <1>5, <1>6

-----------------------------------------------------------------------------
(* The theorems. *)

\* The invariant of the stores: the numbering of calls, what verdicts say, and how far a
\* list has come.
THEOREM StorageInductive == ASSUME Parameters PROVE StoreSpec => []StoreInv
<1>1. StoreInit => StoreInv
  BY StoreFirst
<1>2. StoreInv /\ [StoreNext]_storeVars => StoreInv'
  <2>1. SUFFICES ASSUME StoreInv, [StoreNext]_storeVars PROVE StoreInv'
    OBVIOUS
  <2>2. CASE UNCHANGED storeVars
    BY <2>1, <2>2 DEF storeVars, table, calls, lists, StoreInv, Types, CallOK, Truth, ListOK, ListIsComplete, Present
  <2>3. QED
    BY <2>1, <2>2, MemoryKeeps, SendKeeps, ServeKeeps, CallerKeeps, LoseKeeps, ListKeeps DEF StoreNext
<1>3. QED
  BY <1>1, <1>2, PTL DEF StoreSpec

\* Every answer of the store is true for good, however late requests are carried out and
\* however often an upload is sent.
THEOREM AnswersTrue == ASSUME Parameters PROVE StoreSpec => []AnswersAreTrue
<1>1. StoreInv => AnswersAreTrue
  <2>1. SUFFICES ASSUME StoreInv, NEW i \in 1..made
                 PROVE  /\ effects[i] <= 1
                        /\ answer[i] = "Ok" => effects[i] = 1
                        /\ answer[i] \in {"Conflict", "NotFound"} /\ call[i].op # "put" => effects[i] = 0
                        /\ answer[i] = "Conflict" /\ call[i].op = "put" => blob # 0
    BY DEF AnswersAreTrue
  <2>2. CallOK(i) /\ i \in Calls /\ effects \in [Calls -> 0..1]
    BY <2>1 DEF StoreInv, Types, Calls, Parameters
  <2>3. QED
    BY <2>2 DEF CallOK, Truth
<1>2. QED
  BY <1>1, StorageInductive, PTL

\* A list that is returned has every row that was there from its beginning to its end,
\* wherever the service ends its pages and whatever changes meanwhile.
THEOREM ListsComplete == ASSUME Parameters PROVE StoreSpec => []ListIsComplete
<1>1. StoreInv => ListIsComplete
  BY DEF StoreInv, ListOK
<1>2. QED
  BY <1>1, StorageInductive, PTL
=============================================================================
