----------------------------- MODULE ServerLife -----------------------------
(***************************************************************************)
(* What a server promises to the code that uses it: how its state moves,   *)
(* and that sessions come and go only while it runs.  A session is         *)
(* announced at most once and its loss at most once, after that; nothing   *)
(* is announced of a session once the server is stopped, and it starts     *)
(* again only after that.                                                  *)
(***************************************************************************)
EXTENDS Naturals

CONSTANT Sessions
VARIABLES state, told

lifeVars == <<state, told>>

Init == state = "stopped" /\ told = [s \in Sessions |-> "none"]

Running == state \in {"started", "stopping"}

Start == state = "stopped" /\ state' = "starting" /\ UNCHANGED told

Started == state = "starting" /\ state' = "started" /\ UNCHANGED told

Stop == state \in {"starting", "started"} /\ state' = "stopping" /\ UNCHANGED told

Connect(s) ==
  /\ Running /\ told[s] = "none"
  /\ told' = [told EXCEPT ![s] = "connected"]
  /\ UNCHANGED state

Disconnect(s) ==
  /\ Running /\ told[s] = "connected"
  /\ told' = [told EXCEPT ![s] = "disconnected"]
  /\ UNCHANGED state

Stopped == state = "stopping" /\ state' = "stopped" /\ UNCHANGED told

Next == Start \/ Started \/ Stop \/ Stopped \/ \E s \in Sessions : Connect(s) \/ Disconnect(s)

Spec == Init /\ [][Next]_lifeVars
=============================================================================
