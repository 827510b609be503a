---------------------------- MODULE SubjectLife ----------------------------
(***************************************************************************)
(* What the handlers of babylon-runner promise together of one subject     *)
(* with a sandbox placement, whatever fails, is repeated or comes late:    *)
(* nothing is provisioned without a placement, the placement is given back *)
(* only for a subject that is deleted and after a destroy job for what was *)
(* provisioned has ended, and the subject goes only after that.  Another   *)
(* destroy job may be running then.  Lifecycle, with all its calls, runs,  *)
(* jobs and faults, is shown to implement it.                              *)
(***************************************************************************)

VARIABLES
    life,         \* "live", "deleting" by the user's wish, or "gone"
    held,         \* the subject has a placement
    provisioned,  \* a provision job was recorded
    destroying,   \* a destroy job is running, recorded or not
    destroyed     \* a destroy job has come to an end

vars == <<life, held, provisioned, destroying, destroyed>>

Init ==
    /\ life = "live"
    /\ held = FALSE
    /\ provisioned = FALSE
    /\ destroying = FALSE
    /\ destroyed = FALSE

Book ==
    /\ life # "gone"
    /\ held' = TRUE
    /\ UNCHANGED <<life, provisioned, destroying, destroyed>>

Provision ==
    /\ life # "gone"
    /\ held
    /\ provisioned' = TRUE
    /\ UNCHANGED <<life, held, destroying, destroyed>>

Delete ==
    /\ life = "live"
    /\ life' = "deleting"
    /\ UNCHANGED <<held, provisioned, destroying, destroyed>>

Destroy ==
    /\ life = "deleting"
    /\ provisioned
    /\ destroying' = TRUE
    /\ UNCHANGED <<life, held, provisioned, destroyed>>

\* One of them ends; another may be running.
DestroyEnds ==
    /\ destroying
    /\ destroying' \in BOOLEAN
    /\ destroyed' = TRUE
    /\ UNCHANGED <<life, held, provisioned>>

Release ==
    /\ life = "deleting"
    /\ provisioned => destroyed
    /\ held' = FALSE
    /\ UNCHANGED <<life, provisioned, destroying, destroyed>>

Vanish ==
    /\ life = "deleting"
    /\ ~held
    /\ provisioned => destroyed
    /\ life' = "gone"
    /\ UNCHANGED <<held, provisioned, destroying, destroyed>>

Next == Book \/ Provision \/ Delete \/ Destroy \/ DestroyEnds \/ Release \/ Vanish

Spec == Init /\ [][Next]_vars
=============================================================================
