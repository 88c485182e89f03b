---------------------------- MODULE MCSemaphore ----------------------------
(* Semaphore with a few permits and clients.                                *)
EXTENDS Semaphore
CONSTANTS c1, c2, c3, c4
Clients == {c1, c2, c3, c4}
Few == {c1, c2, c3}
Amounts == 1..3
TwoOfThem == {c1, c2}

(* Behaviours in which those who may be interrupted come when they have to wait: *)
(* it is a wake task that takes the permits for them.                        *)
LateNext == Next /\ \A c \in Interruptible : Take(c) => free < need[c]
LateSpec == Init /\ [][LateNext]_vars
=============================================================================
