--------------------------- MODULE SharedExclusive ---------------------------
(***************************************************************************)
(* What the gate of an MCP server promises: calls share it, a lifecycle    *)
(* transition has it alone.                                                *)
(***************************************************************************)
CONSTANTS Calls, Transitions

VARIABLES
    sharers,   \* the calls that hold the gate
    owners     \* the transition that holds it, if any

gate == <<sharers, owners>>

Init == sharers = {} /\ owners = {}

Share(c) ==
    /\ c \notin sharers /\ owners = {}
    /\ sharers' = sharers \cup {c}
    /\ UNCHANGED owners

Unshare(c) ==
    /\ c \in sharers
    /\ sharers' = sharers \ {c}
    /\ UNCHANGED owners

Own(w) ==
    /\ sharers = {} /\ owners = {}
    /\ owners' = {w}
    /\ UNCHANGED sharers

Disown(w) ==
    /\ owners = {w}
    /\ owners' = {}
    /\ UNCHANGED sharers

Next ==
    \/ \E c \in Calls : Share(c) \/ Unshare(c)
    \/ \E w \in Transitions : Own(w) \/ Disown(w)

Spec == Init /\ [][Next]_gate
=============================================================================
