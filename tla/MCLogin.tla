------------------------------ MODULE MCLogin ------------------------------
(***************************************************************************)
(* Signing in with a browser (BrowserLogin) and the limit on the public    *)
(* endpoints (RateLimit), which share no state: a behaviour exercises one  *)
(* of the two while the other stays as it began.                           *)
(***************************************************************************)
EXTENDS BrowserLogin, RateLimit, TLC

VARIABLE part

\* Tabs and browsers are alike.
Symmetry == Permutations(Tabs) \cup Permutations(Browsers)

InitLogin ==
    /\ part \in {"login", "limit"}
    /\ Init /\ LimitInit
    /\ part = "limit" => dev /\ \A t, s \in Tabs : browser[t] = browser[s]

NextLogin ==
    \/ part = "login" /\ Next /\ UNCHANGED <<part, limitVars>>
    \/ part = "limit" /\ LimitNext /\ UNCHANGED <<part, vars>>

SpecLogin == InitLogin /\ [][NextLogin]_<<part, vars, limitVars>>
=============================================================================
