------------------------- MODULE ConfigLogAbstract -------------------------
(***************************************************************************)
(* What the meta service's configuration log promises, per partition      *)
(* ballot, with record slots, file layout, the checkpoint, the balancer   *)
(* and freezing left out.  An update is issued, made durable, then        *)
(* applied to the served configuration, and only then answered.  The      *)
(* served ballot of a partition never exceeds its durable ballot and only *)
(* grows while the service is up.  A crash loses the served state and any *)
(* issued update not yet durable; a restart serves exactly the durable     *)
(* ballots; a clean start forgets everything.                             *)
(***************************************************************************)
EXTENDS Naturals

CONSTANTS
    Gpids,
    Updates   \* issued updates: records with fields req (gpid, ballot, cfg)
              \* and resp (a client waits for the answer)

VARIABLES
    up,       \* the service runs
    pending,  \* updates issued and not yet durable
    done,     \* durable updates not yet applied
    dur,      \* gpid -> the highest ballot a restart would recover
    served,   \* gpid -> the ballot the running service holds
    acked     \* requests whose client was answered

avars == <<up, pending, done, dur, served, acked>>

NoBallots == [g \in Gpids |-> 0]

Raise(f, u) ==
    [f EXCEPT ![u.req.gpid] = IF u.req.ballot > @ THEN u.req.ballot ELSE @]

RECURSIVE RaiseAll(_, _)
RaiseAll(f, us) ==
    IF us = {} THEN f
    ELSE LET u == CHOOSE x \in us : TRUE IN RaiseAll(Raise(f, u), us \ {u})

Init ==
    /\ up = FALSE
    /\ pending = {} /\ done = {}
    /\ dur = NoBallots /\ served = NoBallots
    /\ acked = {}

Start ==
    /\ ~up /\ up' = TRUE
    /\ served' = dur
    /\ UNCHANGED <<pending, done, dur, acked>>

StartClean ==
    /\ ~up /\ up' = TRUE
    /\ dur' = NoBallots /\ served' = NoBallots
    /\ acked' = {}
    /\ UNCHANGED <<pending, done>>

Issue(u) ==
    /\ up /\ u \notin pending \cup done
    /\ pending' = pending \cup {u}
    /\ UNCHANGED <<up, done, dur, served, acked>>

Persist(u) ==
    /\ up /\ u \in pending
    /\ pending' = pending \ {u} /\ done' = done \cup {u}
    /\ dur' = Raise(dur, u)
    /\ UNCHANGED <<up, served, acked>>

Apply(u) ==
    /\ up /\ u \in done
    /\ done' = done \ {u}
    /\ served' = Raise(served, u)
    /\ acked' = IF u.resp THEN acked \cup {u.req} ELSE acked
    /\ UNCHANGED <<up, pending, dur>>

Crash ==
    /\ up /\ up' = FALSE
    /\ \E landed \in SUBSET pending : dur' = RaiseAll(dur, landed)
    /\ pending' = {} /\ done' = {}
    /\ served' = NoBallots
    /\ UNCHANGED acked

\* An issued update is one of Updates that pending gains.
Next ==
    \/ \E u \in pending : Persist(u)
    \/ \E u \in done : Apply(u)
    \/ \E u \in (pending' \ pending) \cap Updates : Issue(u)
    \/ Crash \/ Start \/ StartClean

\* Safety only: that every issued update is answered while the service
\* stays up is UpdatesAnswered of MetaService.
Spec == Init /\ [][Next]_avars
=============================================================================
