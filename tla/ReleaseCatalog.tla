--------------------------- MODULE ReleaseCatalog ---------------------------
(* What the public data store promises its readers for one dataset, whatever *)
(* its processes do: a release never changes once installed, a registered    *)
(* release stays registered, and once a release is active some registered    *)
(* release always is.  After a live process has lost its lock (broken) an    *)
(* older registry may come back, but never one that names a release that is  *)
(* not installed.                                                            *)
EXTENDS FiniteSets

CONSTANTS Versions, Contents, None

VARIABLES installed, registered, active, broken

vars == <<installed, registered, active, broken>>

Init ==
    /\ installed = [v \in Versions |-> None]
    /\ registered = {}
    /\ active = None
    /\ broken = FALSE

Install(v, c) ==
    /\ installed[v] = None
    /\ installed' = [installed EXCEPT ![v] = c]
    /\ UNCHANGED <<registered, active, broken>>

Register(v) ==
    /\ installed[v] # None
    /\ registered' = registered \cup {v}
    /\ UNCHANGED <<installed, active, broken>>

Activate(v) ==
    /\ v \in registered
    /\ active' = v
    /\ UNCHANGED <<installed, registered, broken>>

Break ==
    /\ broken' = TRUE
    /\ UNCHANGED <<installed, registered, active>>

Revert ==
    /\ broken
    /\ registered' \in SUBSET {v \in Versions : installed[v] # None}
    /\ active' \in registered' \cup {None}
    /\ UNCHANGED <<installed, broken>>

Next ==
    \/ \E v \in Versions : (\E c \in Contents : Install(v, c)) \/ Register(v) \/ Activate(v)
    \/ Break
    \/ Revert

Spec == Init /\ [][Next]_vars
=============================================================================
