----------------------------- MODULE GatewayClient -----------------------------
(***************************************************************************)
(* The managed gateway's commands (src/broker.rs) against the broker's     *)
(* record of the gateway (gateways.rs).  A credential is minted by the     *)
(* broker, travels in one response, and is kept in gateway.json of the     *)
(* user or of the machine; login, logout and a run of the bridge read and  *)
(* write the two files and the broker in separate steps, any of which may  *)
(* fail, lose its answer or be the last before a crash.                    *)
(***************************************************************************)
EXTENDS Integers

CONSTANTS
    Commands,       \* azbridge commands at work at the same time
    Credentials,    \* credentials the broker may mint
    MaxRevision     \* revisions of the profile

NoCredential == "none"  \* no credential

Scopes == {"user", "machine"}

VARIABLES
    gateways,   \* broker: absent, live or revoked, for each credential
    reported,   \* broker: the applied revision each gateway reported
    published,  \* broker: the published revision of the profile
    env,        \* the credential in the environment
    saved,      \* gateway.json of each scope
    staging,    \* credentials in staging files
    process,    \* what each process is doing
    lost        \* credentials that a fault kept from ever being saved or revoked

clientVars == <<gateways, reported, published, env, saved, staging, process, lost>>

NoCommand == [pc |-> "done", scope |-> "user", credential |-> NoCredential, revision |-> 0]

ClientInit ==
    /\ env \in {NoCredential} \cup Credentials
    /\ gateways = [c \in Credentials |-> IF c = env THEN "live" ELSE "absent"]
    /\ reported = [c \in Credentials |-> 0]
    /\ published = 1
    /\ saved = [s \in Scopes |-> NoCredential]
    /\ staging = {}
    /\ process = [p \in Commands |-> NoCommand]
    /\ lost = {}

\* Steps of process p: it goes on, or it ends (successfully or with an error).
At(p, pc) == process[p].pc = pc
Goto(p, pc) == process' = [process EXCEPT ![p].pc = pc]
End(p) == process' = [process EXCEPT ![p] = NoCommand]

\* read_state: what the file of a scope holds.  A link, a file that others may access or
\* one that cannot be parsed is an error, which ends the command and changes nothing.
read_state(scope) == saved[scope]

\* discover_state: services look at the machine's file only; otherwise the
\* environment comes first, then the user's file, then the machine's.
discover_state(machine) ==
    IF ~machine /\ env # NoCredential THEN env
    ELSE IF ~machine /\ read_state("user") # NoCredential THEN read_state("user")
    ELSE read_state("machine")

-----------------------------------------------------------------------------
(* login *)

\* The scope must not be enrolled; then the enrollment begins.
login(p, scope) ==
    /\ At(p, "done")
    /\ read_state(scope) = NoCredential
    /\ process' = [process EXCEPT ![p].pc = "enrolling", ![p].scope = scope]
    /\ UNCHANGED <<gateways, reported, published, env, saved, staging, lost>>

\* A poll is answered with the credential, or the answer is lost.
authorized(p, c) ==
    /\ At(p, "enrolling")
    /\ gateways[c] = "absent"
    /\ gateways' = [gateways EXCEPT ![c] = "live"]
    /\ \/ /\ process' = [process EXCEPT ![p].pc = "writing", ![p].credential = c]
          /\ lost' = lost
       \/ End(p) /\ lost' = lost \cup {c}
    /\ UNCHANGED <<reported, published, env, saved, staging>>

\* The enrollment is denied, expires, or a request fails.
enrollment_fails(p) ==
    /\ At(p, "enrolling")
    /\ End(p)
    /\ UNCHANGED <<gateways, reported, published, env, saved, staging, lost>>

\* write_state: a new file with restricted permissions receives the state ...
write_state(p) ==
    /\ At(p, "writing")
    /\ \/ Goto(p, "staged") /\ staging' = staging \cup {process[p].credential}
       \/ Goto(p, "undo") /\ staging' = staging
    /\ UNCHANGED <<gateways, reported, published, env, saved, lost>>

\* ... and is renamed to gateway.json; if that fails the staging file is removed.
rename_state(p) ==
    /\ At(p, "staged")
    /\ staging' = staging \ {process[p].credential}
    /\ \/ End(p) /\ saved' = [saved EXCEPT ![process[p].scope] = process[p].credential]
       \/ Goto(p, "undo") /\ saved' = saved
    /\ UNCHANGED <<gateways, reported, published, env, lost>>

\* The bug: login reports the error and leaves the credential as it is.
undo_forgotten(p) ==
    /\ At(p, "undo")
    /\ End(p)
    /\ UNCHANGED <<gateways, reported, published, env, saved, staging, lost>>

\* A credential that could not be saved is logged out, if the broker can be reached.
undo(p) ==
    /\ At(p, "undo")
    /\ End(p)
    /\ \/ /\ gateways' = [gateways EXCEPT ![process[p].credential] = "revoked"]
          /\ lost' = lost
       \/ gateways' = gateways /\ lost' = lost \cup {process[p].credential}
    /\ UNCHANGED <<reported, published, env, saved, staging>>

-----------------------------------------------------------------------------
(* logout *)

logout(p, scope) ==
    /\ At(p, "done")
    /\ discover_state(scope = "machine") # NoCredential
    /\ process' = [process EXCEPT ![p] = [NoCommand EXCEPT !.pc = "revoking", !.scope = scope,
                                              !.credential = discover_state(scope = "machine")]]
    /\ UNCHANGED <<gateways, reported, published, env, saved, staging, lost>>

\* The bug: an error of the broker does not end the command.
revoke_unchecked(p) ==
    /\ At(p, "revoking")
    /\ \/ gateways' = [gateways EXCEPT ![process[p].credential] = "revoked"]
       \/ gateways' = gateways
    /\ Goto(p, "removing")
    /\ UNCHANGED <<reported, published, env, saved, staging, lost>>

\* The broker revokes the credential, and answers or not; or it cannot be reached;
\* or it rejects a bearer that is revoked already.  Without a success the command ends.
revoke(p) ==
    /\ At(p, "revoking")
    /\ \/ /\ gateways[process[p].credential] = "live"
          /\ gateways' = [gateways EXCEPT ![process[p].credential] = "revoked"]
          /\ Goto(p, "removing") \/ End(p)
       \/ gateways' = gateways /\ End(p)
    /\ UNCHANGED <<reported, published, env, saved, staging, lost>>

\* The saved state goes, unless the credential came from the environment.  The path is
\* chosen anew: the user's file if there is one.
remove_state(p) ==
    LET machine == process[p].scope = "machine"
        path == IF machine \/ read_state("user") = NoCredential THEN "machine" ELSE "user"
    IN  /\ At(p, "removing")
        /\ saved' = IF machine \/ env = NoCredential
                     THEN [saved EXCEPT ![path] = NoCredential] ELSE saved
        /\ End(p)
        /\ UNCHANGED <<gateways, reported, published, env, staging, lost>>

-----------------------------------------------------------------------------
(* A managed run: bootstrap, Bootstrap::start, and the end of the process. *)

\* The assigned profile is fetched with the credential that is found.
bootstrap(p, scope) ==
    LET c == discover_state(scope = "machine")
    IN  /\ At(p, "done")
        /\ c # NoCredential
        /\ gateways[c] = "live"
        /\ process' = [process EXCEPT ![p] = [pc |-> "starting", scope |-> scope,
                                      credential |-> c, revision |-> published]]
        /\ UNCHANGED <<gateways, reported, published, env, saved, staging, lost>>

\* Host::start succeeds, or fails and the host is stopped.
start_host(p) ==
    /\ At(p, "starting")
    /\ Goto(p, "reporting") \/ End(p)
    /\ UNCHANGED <<gateways, reported, published, env, saved, staging, lost>>

\* The broker takes a report of a live gateway if the revision is not above the
\* published one (which a roll-back may have lowered since bootstrap).
accepts_status(c, revision) == gateways[c] = "live" /\ revision <= published

\* The revision is reported as applied; any error stops the host.
report_status(p) ==
    /\ At(p, "reporting")
    /\ \/ /\ accepts_status(process[p].credential, process[p].revision)
          /\ reported' = [reported EXCEPT ![process[p].credential] = process[p].revision]
          /\ Goto(p, "running") \/ End(p)
       \/ reported' = reported /\ End(p)
    /\ UNCHANGED <<gateways, published, env, saved, staging, lost>>

end_run(p) ==
    /\ At(p, "running")
    /\ End(p)
    /\ UNCHANGED <<gateways, reported, published, env, saved, staging, lost>>

\* The process is killed.  A credential in its hands is lost; the staging file stays.
crash(p) ==
    /\ process[p] # NoCommand
    /\ End(p)
    /\ lost' = IF process[p].pc \in {"writing", "staged", "undo"}
                 THEN lost \cup {process[p].credential} ELSE lost
    /\ UNCHANGED <<gateways, reported, published, env, saved, staging>>

\* Publishing or rolling back, and revoke_gateway, at the broker.
publish(r) ==
    /\ published' = r
    /\ UNCHANGED <<gateways, reported, env, saved, staging, process, lost>>

gateway_revoked(c) ==
    /\ gateways[c] = "live"
    /\ gateways' = [gateways EXCEPT ![c] = "revoked"]
    /\ UNCHANGED <<reported, published, env, saved, staging, process, lost>>

Step(p) ==
    \/ \E s \in Scopes : login(p, s) \/ logout(p, s) \/ bootstrap(p, s)
    \/ \E c \in Credentials : authorized(p, c)
    \/ enrollment_fails(p) \/ write_state(p) \/ rename_state(p) \/ undo(p)
    \/ revoke(p) \/ remove_state(p)
    \/ start_host(p) \/ report_status(p) \/ end_run(p) \/ crash(p)

ClientNext ==
    \/ \E p \in Commands : Step(p)
    \/ \E r \in 1 .. MaxRevision : publish(r)
    \/ \E c \in Credentials : gateway_revoked(c)

ClientSpec == ClientInit /\ [][ClientNext]_clientVars

-----------------------------------------------------------------------------
(* Properties. *)

\* The saved state is removed only when its credential is revoked ("Logout revokes the
\* credential before removing saved state; if the broker is unavailable it fails
\* without silently deleting the credential").  It holds while commands do not
\* overlap: logout chooses the file to remove again after the broker answered, and
\* a login that ends in between puts a live credential there.
LogoutRevokesFirst ==
    [][\A s \in Scopes : saved[s] # NoCredential /\ saved'[s] = NoCredential =>
           gateways[saved[s]] = "revoked"]_clientVars

\* A live credential is where it can be found, or in the hands of a login; only a
\* crash, a lost answer or an unreachable broker orphans one, never a failure to save
\* it.  Commands that do not overlap again: of two logins that both found the scope
\* free the later one overwrites the credential of the other.
carried(p) ==
    IF process[p].pc \in {"writing", "staged", "undo"} THEN {process[p].credential} ELSE {}
NothingOrphaned ==
    \A c \in Credentials :
        gateways[c] = "live" =>
            \/ c \in lost \cup {env} \cup {saved[s] : s \in Scopes}
            \/ \E p \in Commands : c \in carried(p)
=============================================================================
