--------------------------- MODULE SerialExecutor ---------------------------
(***************************************************************************)
(* What an event queue promises to the code that pushes to it: events are  *)
(* accepted in some order, at most one of them is active, it is the oldest *)
(* one that is not done, and the next one is active as soon as it is done. *)
(* The events accepted and not done are accepted[done + 1 ..]; the first   *)
(* of them is the active one.                                              *)
(***************************************************************************)
EXTENDS Naturals, Sequences

CONSTANT Events

VARIABLES accepted, \* the events accepted, in order
          done      \* how many of them are done

execVars == <<accepted, done>>

Init == accepted = <<>> /\ done = 0

Fresh == {e \in Events : \A i \in DOMAIN accepted : accepted[i] # e}

Accept == /\ \E e \in Fresh : accepted' = Append(accepted, e)
          /\ UNCHANGED done

\* The active event is done; destroying it may submit one more event.
Finish == /\ done < Len(accepted)
          /\ done' = done + 1
          /\ \/ UNCHANGED accepted
             \/ \E e \in Fresh : accepted' = Append(accepted, e)

Next == Accept \/ Finish

Spec == Init /\ [][Next]_execVars

\* An event that is active is done some time, and the next one becomes active.
FairSpec == Spec /\ WF_execVars(Finish)
=============================================================================
