----------------------------- MODULE MCListener -----------------------------
(***************************************************************************)
(* RelayListener for TLC.  A behaviour is about a listener that is opened  *)
(* again and again while the relay sends it no commands, or about one that *)
(* is opened once and gets every accept, or every request, there is: what  *)
(* comes of the former never touches the ws channel, which is all that the *)
(* latter wait for.  Neither opens nor commands are owed to anybody, so    *)
(* the fairness assumed stays satisfiable.  Loops and connections are      *)
(* numbered in the order they come about.                                  *)
(***************************************************************************)
EXTENDS RelayListener

ASSUME Loops \subseteq Nat /\ Conns \subseteq Nat

VARIABLE focus

First == CHOOSE l \in Loops : \A m \in Loops : l <= m

InitFocus ==
    /\ Init /\ \A r \in Requests : requests[r].loop = First
    /\ focus \in {"loops", "accepts", "requests"}

NextFocus ==
    /\ Next /\ UNCHANGED focus
    /\ \A l, m \in Loops : l < m /\ pc'[m] # "Unspawned" => pc'[l] # "Unspawned"
    /\ \A k, n \in Conns : k < n /\ conns'[n] # "Idle" => conns'[k] # "Idle"
    /\ focus # "loops" => (caller' = "Opening" => pc[First] = "Unspawned")
    /\ focus # "accepts" => conns' = conns
    /\ focus # "requests" => requests' = requests

SpecListener == InitFocus /\ [][NextFocus]_<<vars, focus>> /\ Fairness
=============================================================================
