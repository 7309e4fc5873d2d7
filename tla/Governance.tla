----------------------------- MODULE Governance -----------------------------
(***************************************************************************)
(* What the control plane promises about one machine identity: the         *)
(* canonical lifecycle of the protocol, seen from outside.  An identity    *)
(* that is not governed is "absent"; discovery, registration and           *)
(* provisioning govern it as "active"; from there it moves only along      *)
(* AllowedTransitions, and a retired record may be purged.                 *)
(***************************************************************************)
EXTENDS Protocol

CONSTANTS Ids               \* the identities that can be governed

VARIABLE gov                \* gov[id]: the lifecycle state of id, or "absent"

Init == gov \in [Ids -> {"absent", "active"}]

(* Discovery, Register and Provision put an identity under governance.     *)
Govern(id) ==
    /\ gov[id] = "absent"
    /\ gov' = [gov EXCEPT ![id] = "active"]

Transition(id, to) ==
    /\ CanTransition(gov[id], to)
    /\ gov' = [gov EXCEPT ![id] = to]

(* Delete is a purge of the record, legal for a retired identity only.     *)
Delete(id) ==
    /\ gov[id] = "retired"
    /\ gov' = [gov EXCEPT ![id] = "absent"]

Next == \E id \in Ids : \/ Govern(id)
                        \/ \E to \in States : Transition(id, to)
                        \/ Delete(id)

Spec == Init /\ [][Next]_gov
=============================================================================
