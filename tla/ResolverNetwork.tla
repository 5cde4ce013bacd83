--------------------------- MODULE ResolverNetwork ---------------------------
(***************************************************************************)
(* What the resolver network promises: accounts register, and registered   *)
(* accounts become active; nobody leaves.                                  *)
(***************************************************************************)
CONSTANT Accounts

VARIABLES registered, active

vars == <<registered, active>>

Init == registered = {} /\ active = {}

Register(a) ==
    /\ a \notin registered
    /\ registered' = registered \cup {a}
    /\ UNCHANGED active

Activate(a) ==
    /\ a \in registered \ active
    /\ active' = active \cup {a}
    /\ UNCHANGED registered

Next == \E a \in Accounts : Register(a) \/ Activate(a)

Spec == Init /\ [][Next]_vars
==============================================================================
