------------------------- MODULE MCProxyProperties --------------------------
(* Instances of ProxyProperties for TLC.                                    *)
EXTENDS ProxyProperties

CONSTANTS t1, t2
OneService == [t \in Targets |-> CHOOSE s \in Services : TRUE]
OwnPlace == [t \in Targets |-> t]

Mix(changes, writes, restarts, toggles, refusals) ==
    [changes |-> changes, writes |-> writes, restarts |-> restarts,
     switches |-> toggles, refusals |-> refusals]

\* Writes and a change; a proxy that is repointed while it loads; one that is
\* switched off and on; one that is for methods or signals only, and refused.
\* Two switches and a refusal are never together: see "Where the code falls short".
MCBudgets == {Mix(1, 2, 1, 0, 2), Mix(0, 0, 4, 0, 2), Mix(1, 0, 1, 2, 0), Mix(1, 0, 1, 1, 1)}

MCInvalidated == {Mix(1, 0, 0, 0, 1)}
MCCross == {Mix(0, 2, 1, 0, 1)}
=============================================================================
