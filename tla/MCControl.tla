------------------------------ MODULE MCControl ------------------------------
EXTENDS BrokerControl, TLC

Symmetry == Permutations(Names) \cup Permutations(Connections) \cup Permutations(Gateways)

-----------------------------------------------------------------------------
(* A behaviour is about the rows of a workspace whose creator stays its only   *)
(* member, or about the members of one without profiles.                       *)

VARIABLE focus

InitFocus == Init /\ focus \in {"rows", "members"}

NextFocus ==
    /\ Next /\ UNCHANGED focus
    /\ focus = "rows" =>
          /\ \A u \in Users : members'[u] # members[u] =>
                \/ ~active_workspace'
                \/ u = workspace'.creator /\ members[u] = "None" /\ members'[u] = "Admin"
          /\ \A w \in late' : w.key \notin Users
    /\ focus = "members" => UNCHANGED profiles /\ \A w \in late' : w.key \notin Profiles

InitPublishing == InitFocus /\ focus = "rows"

SpecPublishing == InitPublishing /\ [][NextFocus]_<<vars, focus>>
=============================================================================
