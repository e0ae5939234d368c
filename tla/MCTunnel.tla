------------------------------ MODULE MCTunnel ------------------------------
(***************************************************************************)
(* Tunnel for TLC: a stream forwarder alone, a datagram forwarder alone,   *)
(* and both.                                                               *)
(***************************************************************************)
EXTENDS Tunnel, TLC

Maps == {"web" :> "tcp", "dns" :> "udp", "web" :> "tcp" @@ "dns" :> "udp"}
=============================================================================
