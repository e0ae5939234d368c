----------------------------- MODULE OneTimeCode -----------------------------
(***************************************************************************)
(* What a device flow promises: a code is open until it is closed, or      *)
(* claimed by one poll; only the claim is turned into a credential, and    *)
(* at most once.                                                           *)
(***************************************************************************)
EXTENDS Naturals

VARIABLES
    code,       \* Open, Claimed or Closed
    issued      \* credentials issued for it

vars == <<code, issued>>

Init == code = "Open" /\ issued = 0

Claim == code = "Open" /\ code' = "Claimed" /\ UNCHANGED issued
Close == code \in {"Open", "Claimed"} /\ code' = "Closed" /\ UNCHANGED issued
Issue == code = "Claimed" /\ issued = 0 /\ code' = "Closed" /\ issued' = 1

Next == Claim \/ Close \/ Issue

Spec == Init /\ [][Next]_vars
=============================================================================
