------------------------------ MODULE CallLife ------------------------------
(***************************************************************************)
(* What a remote call promises to the code that makes it: one outcome and  *)
(* no second one; a result only if the function was run; and an outcome    *)
(* that says the request did not leave only if the function was not run    *)
(* and never will be.  The function is run at most once.                   *)
(***************************************************************************)
EXTENDS Naturals

CONSTANT Ids

VARIABLES status, ran

\* Outcomes after which the caller may try again without running twice.
Unsent == {"not_connected", "failed"}

\* Outcomes that leave the caller in doubt: the function may run, or have run.
InDoubt == {"timed_out", "aborted", "in_progress", "remote"}

Init == status = [c \in Ids |-> "none"] /\ ran = [c \in Ids |-> 0]

Ask(c) ==
  /\ status[c] = "none"
  /\ \E o \in {"pending", "not_connected", "in_progress"} :
       status' = [status EXCEPT ![c] = o]
  /\ UNCHANGED ran

Run(c) ==
  /\ status[c] \notin Unsent \cup {"none", "ok"}
  /\ ran[c] = 0
  /\ ran' = [ran EXCEPT ![c] = 1]
  /\ UNCHANGED status

Answer(c) ==
  /\ status[c] = "pending"
  /\ \E o \in Unsent \cup InDoubt \cup {"ok"} :
       /\ o \in Unsent => ran[c] = 0
       /\ o = "ok" => ran[c] = 1
       /\ status' = [status EXCEPT ![c] = o]
  /\ UNCHANGED ran

Next == \E c \in Ids : Ask(c) \/ Run(c) \/ Answer(c)

Spec == Init /\ [][Next]_<<status, ran>>
=============================================================================
