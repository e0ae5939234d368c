---------------------------- MODULE MCForwarding ----------------------------
(***************************************************************************)
(* The data path for TLC: a relayed connection (Tunnel) and the UDP routes *)
(* of a client (UdpRoute).  The two share no state; a behaviour exercises  *)
(* one of them, and only its tasks are owed any progress.                  *)
(***************************************************************************)
EXTENDS MCTunnel, UdpRoute

VARIABLE part

\* A name finds its forwarder whether or not there are others, so "web" is asked for where
\* there are two.  A number is asked for everywhere, but for a stream to "web" alone: once
\* the forwarder is found nothing depends on how, and "web" by name has such a stream.
InitForwarding ==
    /\ part \in {"tunnel", "udp"}
    /\ Init /\ UdpInit
    /\ request.name = "web" => DOMAIN forwarders = {"web", "dns"}
    /\ ~(request = [mode |-> "stream", name |-> "5000"] /\ DOMAIN forwarders = {"web"})
    /\ part = "udp" => /\ forwarders = "dns" :> "udp"
                       /\ request = [mode |-> "datagram", name |-> "5000"]

NextForwarding ==
    \/ part = "tunnel" /\ Next /\ UNCHANGED <<part, udpVars>>
    \/ part = "udp" /\ UdpNext /\ UNCHANGED <<part, vars>>

\* Fairness of Tunnel, for a tunnel that is exercised.
Owed(A) == part = "tunnel" /\ A
TunnelFairness ==
    /\ WF_vars(Owed(Handlers))
    /\ \A s \in Sides :
        /\ WF_vars(Owed(copy_read(s) \/ copy_write(s) \/ copy_eof(s)))
        /\ WF_vars(Owed(copy_down(s) \/ copy_down_eof(s) \/ copy_down_fails(s)))
        /\ WF_vars(Owed(drop(s)))

\* Routes that are not exercised have nothing to do.
SpecForwarding ==
    /\ InitForwarding /\ [][NextForwarding]_<<part, vars, udpVars>>
    /\ TunnelFairness /\ UdpFairness
=============================================================================
