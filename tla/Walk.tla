-------------------------------- MODULE Walk --------------------------------
(***************************************************************************)
(* What a script promises whoever wrote it: a request enters at an entry   *)
(* point and walks from state to state along the numbers the script gives, *)
(* whatever the services do, until it leaves; only states without a        *)
(* handler for what their services throw, or a value whose memory is not   *)
(* the table's own, can cost the process that walks.                       *)
(***************************************************************************)
CONSTANTS
  Walker,   \* who walks: the children
  Entry,    \* where a walk may begin
  Node,     \* the states the script has
  Edges,    \* <<n, m>>: from n a walk may go on to m; n may name no state
  Leaving,  \* states after which a walk may end
  Fragile,  \* states that can cost the walker
  Lending   \* states that store memory they do not give away

VARIABLES
  phase,    \* of each walker
  node,     \* the state it is in
  tainted   \* walkers that hold borrowed memory

vars == <<phase, node, tainted>>

NoNode == 0

Init ==
  /\ phase = [w \in Walker |-> "free"]
  /\ node = [w \in Walker |-> NoNode]
  /\ tainted = {}

Move(w, p, n) == phase' = [phase EXCEPT ![w] = p] /\ node' = [node EXCEPT ![w] = n]

Begin(w) ==
  /\ phase[w] = "free"
  /\ \E n \in Entry : Move(w, "walking", n)
  /\ UNCHANGED tainted

(* No entry point of the name asked for. *)
Refuse(w) == phase[w] = "free" /\ Move(w, "leaving", NoNode) /\ UNCHANGED tainted

Borrowing(w) ==
  \/ UNCHANGED tainted
  \/ node[w] \in Lending /\ tainted' = tainted \cup {w}

Step(w) ==
  /\ phase[w] = "walking"
  /\ \E n \in {e[2] : e \in {d \in Edges : d[1] = node[w]}} : Move(w, "walking", n)
  /\ Borrowing(w)

(* A state may come to own again what it stores anew. *)
Return(w) ==
  /\ phase[w] = "walking" /\ tainted' = tainted \ {w}
  /\ UNCHANGED <<phase, node>>

Leave(w) ==
  /\ phase[w] = "walking"
  /\ node[w] \in Node => node[w] \in Leaving
  /\ Move(w, "leaving", NoNode)
  /\ Borrowing(w)

(* What was borrowed is given back before the next request. *)
Free(w) ==
  /\ phase[w] = "leaving" /\ Move(w, "free", NoNode)
  /\ tainted' = tainted \ {w}

Die(w) ==
  /\ \/ phase[w] = "walking" /\ node[w] \in Fragile
     \/ phase[w] \in {"walking", "leaving"} /\ w \in tainted
  /\ Move(w, "dead", NoNode)
  /\ tainted' = tainted \ {w}

Replace(w) == phase[w] = "dead" /\ Move(w, "free", NoNode) /\ UNCHANGED tainted

Next ==
  \E w \in Walker :
    \/ Begin(w) \/ Refuse(w) \/ Step(w) \/ Return(w) \/ Leave(w) \/ Free(w)
    \/ Die(w) \/ Replace(w)

Spec == Init /\ [][Next]_vars
=============================================================================
