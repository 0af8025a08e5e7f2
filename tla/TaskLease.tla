----------------------------- MODULE TaskLease -----------------------------
(***************************************************************************)
(* What the TaskScheduler promises about who works on a task: it is with   *)
(* one worker at a time, and it is taken off that worker before it is      *)
(* given to another.                                                       *)
(***************************************************************************)
CONSTANTS Tasks, Workers, None

VARIABLE holder

Init == holder = [t \in Tasks |-> None]

Give(t, w) ==
    /\ holder[t] = None
    /\ holder' = [holder EXCEPT ![t] = w]

TakeBack(t) ==
    /\ holder[t] # None
    /\ holder' = [holder EXCEPT ![t] = None]

\* The Server can take several tasks back at once, by canceling them.
TakeBackAll(ts) ==
    /\ \A t \in ts : holder[t] # None
    /\ holder' = [t \in Tasks |-> IF t \in ts THEN None ELSE holder[t]]

Next ==
    \/ \E t \in Tasks, w \in Workers : Give(t, w)
    \/ \E t \in Tasks : TakeBack(t)
    \/ \E ts \in SUBSET Tasks : TakeBackAll(ts)

Spec == Init /\ [][Next]_holder
=============================================================================
