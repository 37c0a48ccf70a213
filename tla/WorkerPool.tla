----------------------------- MODULE WorkerPool -----------------------------
(***************************************************************************)
(* What the process pool promises, without processes, signals, locks or    *)
(* slots: workers are hired, one of them at a time waits at the door for a *)
(* client, any of them may die at any place; once the pool has stopped     *)
(* hiring it never hires again, and it closes only when nobody is left.    *)
(***************************************************************************)
CONSTANTS Worker

VARIABLES
  staff,      \* workers alive
  accepting,  \* workers at the door
  busy,       \* workers with a client
  phase       \* of the pool

vars == <<staff, accepting, busy, phase>>

Init == staff = {} /\ accepting = {} /\ busy = {} /\ phase = "hiring"

Hire(w) ==
  /\ phase = "hiring" /\ w \notin staff
  /\ staff' = staff \cup {w}
  /\ UNCHANGED <<accepting, busy, phase>>

(* The door is narrow: nobody comes to it while another one is there.      *)
Take(w) ==
  /\ w \in staff \ busy /\ accepting = {}
  /\ accepting' = {w}
  /\ UNCHANGED <<staff, busy, phase>>

Serve(w) ==
  /\ w \in accepting
  /\ accepting' = accepting \ {w} /\ busy' = busy \cup {w}
  /\ UNCHANGED <<staff, phase>>

Done(w) ==
  /\ w \in busy
  /\ busy' = busy \ {w}
  /\ UNCHANGED <<staff, accepting, phase>>

(* A worker that dies leaves the door to the others and drops its client.  *)
Leave(w) ==
  /\ w \in staff
  /\ staff' = staff \ {w} /\ accepting' = accepting \ {w} /\ busy' = busy \ {w}
  /\ UNCHANGED phase

StopHiring ==
  /\ phase = "hiring" /\ phase' = "draining"
  /\ UNCHANGED <<staff, accepting, busy>>

Close ==
  /\ phase \in {"hiring", "draining"} /\ staff = {}
  /\ phase' = "closed"
  /\ UNCHANGED <<staff, accepting, busy>>

(* The pool's manager gives up and leaves its workers to themselves.       *)
Abandon ==
  /\ phase \in {"hiring", "draining"} /\ phase' = "abandoned"
  /\ UNCHANGED <<staff, accepting, busy>>

Next ==
  \/ \E w \in Worker : Hire(w) \/ Take(w) \/ Serve(w) \/ Done(w) \/ Leave(w)
  \/ StopHiring \/ Close \/ Abandon

Spec == Init /\ [][Next]_vars
=============================================================================
