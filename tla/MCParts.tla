------------------------------ MODULE MCParts ------------------------------
(***************************************************************************)
(* Five parts that share no state, for TLC: the keys and tokens of one     *)
(* relay (RelayTokens), the saved credential of a gateway (GatewayClient), *)
(* the hosts of a process (BridgeHost), the hosts file (HostsFile) and the *)
(* broker's storage client (Storage).  A behaviour exercises one of them   *)
(* while the others stay as they began, so each is checked as if alone.    *)
(***************************************************************************)
EXTENDS RelayTokens, GatewayClient, BridgeHost, HostsFile, Storage

CONSTANT Parts  \* the parts to exercise

VARIABLE part

-----------------------------------------------------------------------------
(* BridgeHost: a managed and an unmanaged host with two local forwards, on one  *)
(* address or on two, one of them UDP, and a remote one; and the terminal UI     *)
(* with two runs of a local forward, TCP or UDP.                                *)

HostSetups ==
    {s \in [mode : {"managed", "local"}, forwards : {{"f1", "f2", "r1"}},
            exit_on_forward_failure : BOOLEAN,
            address : {[f1 |-> "a1", f2 |-> a] : a \in {"a1", "a2"}}, udp : {{"a1"}}] :
        s.exit_on_forward_failure \/ s.address["f2"] = "a1"}
    \cup
    [mode : {"tui"}, forwards : {{"f1"}}, exit_on_forward_failure : {TRUE},
     address : {[f1 |-> "a1", f2 |-> "a1"]}, udp : {{}, {"a1"}}]

(* HostsFile: two names whose hashes collide.                                   *)

Colliding == <<1, 1>>

-----------------------------------------------------------------------------
\* A part that is not exercised begins in one of its initial states, always the same.
InitParts ==
    /\ part \in Parts
    /\ Init /\ ClientInit /\ HostInit /\ FileInit /\ StoreInit
    /\ part # "tokens" => skew = (CHOOSE s \in Skews : TRUE) /\ provider = "broker"
    /\ part # "gateway" => env = NoCredential
    /\ part # "host" =>
          /\ setup = CHOOSE s \in Setups : s.mode = "local"
          /\ \A a \in Addresses : socket[a] = Nobody
    /\ part # "store" => backend = "memory" /\ etag = [r \in Rows |-> 0]

\* A step of one part leaves the others alone.
NextParts ==
    \/ /\ part = "tokens" /\ Next
       /\ UNCHANGED <<part, clientVars, hostVars, fileVars, storeVars>>
    \/ /\ part = "gateway" /\ ClientNext
       /\ UNCHANGED <<part, vars, hostVars, fileVars, storeVars>>
    \/ /\ part = "host" /\ HostNext
       /\ UNCHANGED <<part, vars, clientVars, fileVars, storeVars>>
    \/ /\ part = "file" /\ FileNext
       /\ UNCHANGED <<part, vars, clientVars, hostVars, storeVars>>
    \/ /\ part = "store" /\ StoreNext
       /\ UNCHANGED <<part, vars, clientVars, hostVars, fileVars>>

SpecParts == InitParts /\ [][NextParts]_<<part, vars, clientVars, hostVars, fileVars, storeVars>>
=============================================================================
