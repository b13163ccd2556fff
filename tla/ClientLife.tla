----------------------------- MODULE ClientLife -----------------------------
(***************************************************************************)
(* What a client promises to the code that uses it: how its state moves    *)
(* and how the connect and disconnect notifications are tied to the state. *)
(* Every connection that was announced is announced as lost, before the    *)
(* next attempt begins and before the client is stopped.                   *)
(***************************************************************************)
VARIABLES state, note

lifeVars == <<state, note>>

Init == state = "stopped" /\ note = "none"

Announced == note = "connected"

Start == state = "stopped" /\ state' = "starting" /\ UNCHANGED note

\* An automatic attempt; the loss of the last connection was announced.
Reconnect == state = "stopping" /\ ~Announced /\ state' = "starting" /\ UNCHANGED note

\* The attempt succeeds, and the user is told.
Connect == state = "starting" /\ ~Announced /\ state' = "started" /\ note' = "connected"

\* The user is told that an attempt failed.
Fail == state \in {"starting", "stopping"} /\ ~Announced /\ note' = "failed" /\ UNCHANGED state

\* The attempt is given up, or the connection is lost or being closed.
Lose == state \in {"starting", "started"} /\ state' = "stopping" /\ UNCHANGED note

\* The user is told that the connection is lost.
Disconnect == state = "stopping" /\ Announced /\ note' = "disconnected" /\ UNCHANGED state

Stop == state = "stopping" /\ ~Announced /\ state' = "stopped" /\ UNCHANGED note

Next == Start \/ Reconnect \/ Connect \/ Fail \/ Lose \/ Disconnect \/ Stop

Spec == Init /\ [][Next]_lifeVars
=============================================================================
