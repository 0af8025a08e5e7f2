-------------------------- MODULE ReliableDelivery --------------------------
(***************************************************************************)
(* What the update queue promises: an update that was accepted remains     *)
(* pending until the Server has handled it.  It may be handled more than   *)
(* once.                                                                   *)
(***************************************************************************)
VARIABLES pending, delivered

Init == pending = {} /\ delivered = {}

\* One update, which was never seen before.
Submit ==
    /\ \E u \in pending' \ pending : u \notin delivered /\ pending' = pending \cup {u}
    /\ UNCHANGED delivered

Deliver ==
    /\ delivered \subseteq delivered'
    /\ delivered' \ delivered \subseteq pending
    /\ UNCHANGED pending

Forget ==
    /\ pending' \subseteq pending
    /\ pending \ pending' \subseteq delivered
    /\ UNCHANGED delivered

Next == Submit \/ Deliver \/ Forget

Spec == Init /\ [][Next]_<<pending, delivered>>
=============================================================================
