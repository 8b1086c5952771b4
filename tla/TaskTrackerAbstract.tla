------------------------ MODULE TaskTrackerAbstract ------------------------
(***************************************************************************)
(* What a task_tracker promises its owner, with buckets, spin locks and    *)
(* the owner-delete handshake left out.  A tracked task is either linked   *)
(* to the tracker or claimed by the owner's sweep.  A task leaves the      *)
(* tracker in one of two ways: its own release unlinks it once it ended,   *)
(* or the sweep claims it and lets go of it only once it has ended,        *)
(* cancelling it first when the sweep cancels.  The sweep returns only     *)
(* when nothing is linked or claimed.                                      *)
(***************************************************************************)
CONSTANTS Tasks

VARIABLES
    mode,       \* the owner's sweep: "wait" or "cancel"
    phase,      \* the sweep: "idle", "sweeping" or "done"
    tracked,    \* tasks linked to the tracker
    claimed,    \* tasks the sweep took over
    exec        \* task -> "new", "pending", "running", "done", "cancelled"

avars == <<mode, phase, tracked, claimed, exec>>

Ended == {"done", "cancelled"}

SetExec(t, s) == exec' = [exec EXCEPT ![t] = s]

Init ==
    /\ mode \in {"wait", "cancel"}
    /\ phase = "idle"
    /\ tracked = {} /\ claimed = {}
    /\ exec = [t \in Tasks |-> "new"]

Add(t) ==
    /\ phase = "idle" /\ exec[t] = "new"
    /\ SetExec(t, "pending")
    /\ tracked' = tracked \cup {t}
    /\ UNCHANGED <<mode, phase, claimed>>

Run(t) ==
    /\ exec[t] = "pending" /\ SetExec(t, "running")
    /\ UNCHANGED <<mode, phase, tracked, claimed>>

Finish(t) ==
    /\ exec[t] = "running" /\ SetExec(t, "done")
    /\ UNCHANGED <<mode, phase, tracked, claimed>>

Untrack(t) ==
    /\ t \in tracked /\ exec[t] \in Ended
    /\ tracked' = tracked \ {t}
    /\ UNCHANGED <<mode, phase, claimed, exec>>

Sweep ==
    /\ phase = "idle" /\ phase' = "sweeping"
    /\ UNCHANGED <<mode, tracked, claimed, exec>>

Claim(t) ==
    /\ phase = "sweeping" /\ t \in tracked
    /\ tracked' = tracked \ {t} /\ claimed' = claimed \cup {t}
    /\ UNCHANGED <<mode, phase, exec>>

Cancel(t) ==
    /\ mode = "cancel" /\ t \in claimed /\ exec[t] = "pending"
    /\ SetExec(t, "cancelled")
    /\ UNCHANGED <<mode, phase, tracked, claimed>>

LetGo(t) ==
    /\ t \in claimed
    /\ \/ exec[t] \in Ended /\ UNCHANGED exec
       \/ mode = "cancel" /\ exec[t] = "pending" /\ SetExec(t, "cancelled")
    /\ claimed' = claimed \ {t}
    /\ UNCHANGED <<mode, phase, tracked>>

Return ==
    /\ phase = "sweeping" /\ tracked = {} /\ claimed = {}
    /\ phase' = "done"
    /\ UNCHANGED <<mode, tracked, claimed, exec>>

Next ==
    \/ Sweep \/ Return
    \/ \E t \in Tasks : \/ Add(t) \/ Run(t) \/ Finish(t) \/ Untrack(t)
                        \/ Claim(t) \/ Cancel(t) \/ LetGo(t)

(* Started tasks finish, and a sweep that may return does. *)
Spec ==
    /\ Init /\ [][Next]_avars
    /\ \A t \in Tasks : WF_avars(Finish(t))
    /\ WF_avars(Return)
=============================================================================
