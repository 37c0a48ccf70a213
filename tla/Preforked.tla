----------------------------- MODULE Preforked -----------------------------
(***************************************************************************)
(* The preforked process pool: one master process, its children, the       *)
(* signals that pass between them, the two flock()ed files and the table   *)
(* of slots in shared memory (preforked.cpp).                              *)
(*                                                                         *)
(* The master's program counter "ppc" names the place its main code has    *)
(* reached; "pctx" names the stack of signal handlers that has interrupted *)
(* it.  SIGCHLD and SIGTERM are installed with an empty sa_mask, so either *)
(* handler can interrupt the other one, but not itself.                    *)
(***************************************************************************)
EXTENDS Integers, FiniteSets

CONSTANTS
  Pid,                        \* process ids the kernel can give to a child
  Parent,                     \* the master
  Nobody,                     \* no process: pid 0 in a slot, a free lock
  CHILDREN_HARDLIMIT,         \* slots in the table
  CHILDREN_QUANTUM,           \* slots visited by one call of forkChildren
  ThresholdNum, ThresholdDen, \* FORK_THRESHOLD as a fraction
  AdminSignals                \* signals the administrator sends

ASSUME PidAssumption ==
  IsFiniteSet(Pid) /\ Parent \notin Pid /\ Nobody \notin Pid \cup {Parent}
ASSUME LimitAssumption ==
  CHILDREN_HARDLIMIT \in Nat \ {0} /\ CHILDREN_QUANTUM \in Nat \ {0}
ASSUME ThresholdAssumption == ThresholdNum \in Nat /\ ThresholdDen \in Nat \ {0}
ASSUME SignalAssumption == AdminSignals \subseteq {"TERM", "HUP"}

VARIABLES
  children_count,     \* children started
  children_running,   \* children running, as the master counts them
  doRestart,          \* FALSE once the master is told to stop
  pslots,             \* the shared table
  shr_lock,           \* holder of the lock on the table
  tmp_lock,           \* holder of the accept lock
  ppc,                \* where the master's main code is
  pctx,               \* the handlers running on top of it
  quantum,            \* local of forkChildren
  num,                \* argument of forkChild, loop index of the hole scan
  repairing,          \* forkChild was called from the hole scan
  reg,                \* children_running as loaded by children_running++
  ki,                 \* loop index of sigterm_handler_parent
  chld_pending,       \* SIGCHLD is pending for the master
  sigterm,            \* processes a SIGTERM is pending for
  cpc,                \* where each child is; "none" if the pid is unused
  cslot,              \* child_number of each child
  repaired            \* history: the hole scan has found a hole

poolVars   == <<children_count, children_running, doRestart>>
localVars  == <<quantum, num, repairing, reg>>
signalVars == <<chld_pending, sigterm>>
childVars  == <<cpc, cslot>>
lockVars   == <<shr_lock, tmp_lock>>
vars == <<poolVars, pslots, lockVars, ppc, pctx, localVars, ki, signalVars,
          childVars, repaired>>

Slot == 0 .. CHILDREN_HARDLIMIT - 1
SlotState == {"ST_FREE", "ST_IDLE", "ST_BUSY"}
SlotRecord == [slotbusy : {0, 1}, childsts : SlotState, childpid : Pid \cup {Nobody}]
EmptySlot == [slotbusy |-> 0, childsts |-> "ST_FREE", childpid |-> Nobody]

MasterPc == {"forkChildren", "scan", "clear", "cleared", "fork", "inc_load",
             "inc_store", "assert", "grow", "loop", "sleep", "need", "needed",
             "exited", "failed", "aborted"}
Halted == {"exited", "failed", "aborted"}
Context == {"main", "chld", "term", "chld_term", "term_chld"}
ChildPc == {"none", "forked", "setup", "reg", "ready", "idle", "accept",
            "accepted", "serving", "zombie"}

Unreaped == {p \in Pid : cpc[p] # "none"}
Live == {p \in Pid : cpc[p] \notin {"none", "zombie"}}

\* /proc/<pid> exists until the process is reaped; there is no /proc/0.
procRunning(pid) == pid \in Unreaped

Init ==
  /\ children_count = 0 /\ children_running = 0 /\ doRestart = TRUE
  /\ pslots = [i \in Slot |-> EmptySlot]
  /\ shr_lock = Nobody /\ tmp_lock = Nobody
  /\ ppc = "forkChildren" /\ pctx = "main"
  /\ quantum = 0 /\ num = 0 /\ repairing = FALSE /\ reg = 0 /\ ki = 0
  /\ chld_pending = FALSE /\ sigterm = {}
  /\ cpc = [p \in Pid |-> "none"] /\ cslot = [p \in Pid |-> 0]
  /\ repaired = FALSE

-----------------------------------------------------------------------------
(* The master's main code runs only while no handler does.                 *)
MainAt(pc) == pctx = "main" /\ ppc = pc

(* forkChildren: leaves its locals behind when it returns. *)
LeaveForkChildren ==
  /\ ppc' = "loop" /\ quantum' = 0 /\ num' = 0 /\ repairing' = FALSE

SkipFork ==
  /\ MainAt("forkChildren") /\ ~doRestart
  /\ LeaveForkChildren
  /\ UNCHANGED <<poolVars, pslots, lockVars, pctx, reg, ki, signalVars, childVars, repaired>>

StartScan ==
  /\ MainAt("forkChildren") /\ doRestart /\ children_count # children_running
  /\ ppc' = "scan" /\ quantum' = CHILDREN_QUANTUM /\ num' = 0 /\ repairing' = TRUE
  /\ UNCHANGED <<poolVars, pslots, lockVars, pctx, reg, ki, signalVars, childVars, repaired>>

(* Seeded fault: forkChildren does not ask whether it may fork. *)
StartGrowAlways ==
  /\ MainAt("forkChildren") /\ children_count = children_running
  /\ ppc' = "grow" /\ quantum' = CHILDREN_QUANTUM /\ num' = 0 /\ repairing' = FALSE
  /\ UNCHANGED <<poolVars, pslots, lockVars, pctx, reg, ki, signalVars, childVars, repaired>>

StartGrow ==
  /\ MainAt("forkChildren") /\ doRestart /\ children_count = children_running
  /\ ppc' = "grow" /\ quantum' = CHILDREN_QUANTUM /\ num' = 0 /\ repairing' = FALSE
  /\ UNCHANGED <<poolVars, pslots, lockVars, pctx, reg, ki, signalVars, childVars, repaired>>

InScan == num < children_count /\ quantum > 0

SlotAlive ==
  /\ MainAt("scan") /\ InScan /\ procRunning(pslots[num].childpid)
  /\ num' = num + 1 /\ quantum' = quantum - 1
  /\ UNCHANGED <<poolVars, pslots, lockVars, ppc, pctx, repairing, reg, ki, signalVars, childVars, repaired>>

SlotDead ==
  /\ MainAt("scan") /\ InScan /\ ~procRunning(pslots[num].childpid)
  /\ ppc' = "clear" /\ repaired' = TRUE
  /\ UNCHANGED <<poolVars, pslots, lockVars, pctx, localVars, ki, signalVars, childVars>>

ScanDone ==
  /\ MainAt("scan") /\ ~InScan
  /\ ppc' = "assert"
  /\ UNCHANGED <<poolVars, pslots, lockVars, pctx, localVars, ki, signalVars, childVars, repaired>>

ClearLock ==
  /\ MainAt("clear") /\ shr_lock = Nobody
  /\ shr_lock' = Parent /\ ppc' = "cleared"
  /\ UNCHANGED <<poolVars, pslots, tmp_lock, pctx, localVars, ki, signalVars, childVars, repaired>>

ClearSlot ==
  /\ MainAt("cleared")
  /\ pslots' = [pslots EXCEPT ![num] = EmptySlot]
  /\ shr_lock' = Nobody /\ ppc' = "fork"
  /\ UNCHANGED <<poolVars, tmp_lock, pctx, localVars, ki, signalVars, childVars, repaired>>

(* Seeded fault: the limit is compared with <= instead of <. *)
GrowPastLimit ==
  /\ MainAt("grow") /\ quantum > 0 /\ children_count <= CHILDREN_HARDLIMIT
  /\ num' = children_count /\ children_count' = children_count + 1
  /\ ppc' = "fork"
  /\ UNCHANGED <<children_running, doRestart, pslots, lockVars, pctx, quantum, repairing, reg, ki, signalVars, childVars, repaired>>

Grow ==
  /\ MainAt("grow") /\ quantum > 0 /\ children_count < CHILDREN_HARDLIMIT
  /\ num' = children_count /\ children_count' = children_count + 1
  /\ ppc' = "fork"
  /\ UNCHANGED <<children_running, doRestart, pslots, lockVars, pctx, quantum, repairing, reg, ki, signalVars, childVars, repaired>>

GrowDone ==
  /\ MainAt("grow") /\ ~(quantum > 0 /\ children_count < CHILDREN_HARDLIMIT)
  /\ LeaveForkChildren
  /\ UNCHANGED <<poolVars, pslots, lockVars, pctx, reg, ki, signalVars, childVars, repaired>>

CountsAgree ==
  /\ MainAt("assert") /\ children_count = children_running
  /\ ppc' = "grow" /\ repairing' = FALSE /\ num' = 0
  /\ UNCHANGED <<poolVars, pslots, lockVars, pctx, quantum, reg, ki, signalVars, childVars, repaired>>

(* Seeded fault: the assertion compiled out by NDEBUG. *)
AssertIgnored ==
  /\ MainAt("assert") /\ children_count # children_running
  /\ ppc' = "grow" /\ repairing' = FALSE /\ num' = 0
  /\ UNCHANGED <<poolVars, pslots, lockVars, pctx, quantum, reg, ki, signalVars, childVars, repaired>>

AssertFails ==
  /\ MainAt("assert") /\ children_count # children_running
  /\ ppc' = "aborted"
  /\ UNCHANGED <<poolVars, pslots, lockVars, pctx, localVars, ki, signalVars, childVars, repaired>>

(* forkChild(num): fork, then children_running++ as a load and a store.    *)
Fork ==
  /\ MainAt("fork")
  /\ \E p \in Pid \ Unreaped :
       /\ cpc' = [cpc EXCEPT ![p] = "forked"]
       /\ cslot' = [cslot EXCEPT ![p] = num]
  /\ ppc' = "inc_load"
  /\ UNCHANGED <<poolVars, pslots, lockVars, pctx, localVars, ki, signalVars, repaired>>

ForkFail ==
  /\ MainAt("fork")
  /\ ppc' = "failed"
  /\ UNCHANGED <<poolVars, pslots, lockVars, pctx, localVars, ki, signalVars, childVars, repaired>>

IncLoad ==
  /\ MainAt("inc_load")
  /\ reg' = children_running /\ ppc' = "inc_store"
  /\ UNCHANGED <<poolVars, pslots, lockVars, pctx, quantum, num, repairing, ki, signalVars, childVars, repaired>>

(* Seeded fault: a refilled hole is not counted again. *)
IncStoreGrowing ==
  /\ MainAt("inc_store")
  /\ children_running' = (IF repairing THEN reg ELSE reg + 1)
  /\ reg' = 0 /\ quantum' = quantum - 1
  /\ \/ repairing /\ num' = num + 1 /\ ppc' = "scan"
     \/ ~repairing /\ num' = 0 /\ ppc' = "grow"
  /\ UNCHANGED <<children_count, doRestart, pslots, lockVars, pctx, repairing, ki, signalVars, childVars, repaired>>

IncStore ==
  /\ MainAt("inc_store")
  /\ children_running' = reg + 1 /\ reg' = 0 /\ quantum' = quantum - 1
  /\ \/ repairing /\ num' = num + 1 /\ ppc' = "scan"
     \/ ~repairing /\ num' = 0 /\ ppc' = "grow"
  /\ UNCHANGED <<children_count, doRestart, pslots, lockVars, pctx, repairing, ki, signalVars, childVars, repaired>>

(* runPreforked's loop and needFork. *)
Loop ==
  /\ MainAt("loop") /\ children_running > 0
  /\ ppc' = "sleep"
  /\ UNCHANGED <<poolVars, pslots, lockVars, pctx, localVars, ki, signalVars, childVars, repaired>>

(* Seeded fault: the loop ends as soon as the master is told to stop. *)
ShutdownAtOnce ==
  /\ MainAt("loop") /\ ~(doRestart /\ children_running > 0)
  /\ ppc' = "exited"
  /\ UNCHANGED <<poolVars, pslots, lockVars, pctx, localVars, ki, signalVars, childVars, repaired>>

Shutdown ==
  /\ MainAt("loop") /\ ~(children_running > 0)
  /\ ppc' = "exited"
  /\ UNCHANGED <<poolVars, pslots, lockVars, pctx, localVars, ki, signalVars, childVars, repaired>>

Wake ==
  /\ MainAt("sleep")
  /\ ppc' = IF children_count = CHILDREN_HARDLIMIT \/ ~doRestart THEN "loop" ELSE "need"
  /\ UNCHANGED <<poolVars, pslots, lockVars, pctx, localVars, ki, signalVars, childVars, repaired>>

NeedLock ==
  /\ MainAt("need") /\ shr_lock = Nobody
  /\ shr_lock' = Parent /\ ppc' = "needed"
  /\ UNCHANGED <<poolVars, pslots, tmp_lock, pctx, localVars, ki, signalVars, childVars, repaired>>

BusySlots == {i \in 0 .. children_count - 1 :
                /\ procRunning(pslots[i].childpid)
                /\ pslots[i].slotbusy = 1
                /\ pslots[i].childsts = "ST_BUSY"}

AboveThreshold ==
  Cardinality(BusySlots) * ThresholdDen > ThresholdNum * children_count

NeedScan ==
  /\ MainAt("needed")
  /\ ppc' = IF AboveThreshold THEN "forkChildren" ELSE "loop"
  /\ shr_lock' = Nobody
  /\ UNCHANGED <<poolVars, pslots, tmp_lock, pctx, localVars, ki, signalVars, childVars, repaired>>

MainStep ==
  \/ SkipFork \/ StartScan \/ StartGrow
  \/ SlotAlive \/ SlotDead \/ ScanDone \/ ClearLock \/ ClearSlot
  \/ Grow \/ GrowDone \/ CountsAgree \/ AssertFails
  \/ Fork \/ IncLoad \/ IncStore
  \/ Loop \/ Shutdown \/ Wake \/ NeedLock \/ NeedScan

-----------------------------------------------------------------------------
(* The master's signal handlers. *)
Interruptible == ppc \notin Halted
InChld == pctx \in {"chld", "term_chld"}
InTerm == pctx \in {"term", "chld_term"}


(* sigchld_handler waits, without WNOHANG, until waitpid says ECHILD.      *)
SigchldEnter ==
  /\ Interruptible /\ chld_pending /\ pctx \in {"main", "term"}
  /\ chld_pending' = FALSE
  /\ pctx' = IF pctx = "main" THEN "chld" ELSE "term_chld"
  /\ UNCHANGED <<poolVars, pslots, lockVars, ppc, localVars, ki, sigterm, childVars, repaired>>

Reap(p) ==
  /\ Interruptible /\ InChld /\ cpc[p] = "zombie"
  /\ cpc' = [cpc EXCEPT ![p] = "none"] /\ cslot' = [cslot EXCEPT ![p] = 0]
  /\ children_running' = children_running - 1
  /\ UNCHANGED <<children_count, doRestart, pslots, lockVars, ppc, pctx, localVars, ki, signalVars, repaired>>

(* Seeded fault: one waitpid per signal, an if instead of a while. *)
SigchldReturnEarly ==
  /\ Interruptible /\ InChld
  /\ pctx' = IF pctx = "chld" THEN "main" ELSE "term"
  /\ UNCHANGED <<poolVars, pslots, lockVars, ppc, localVars, ki, signalVars, childVars, repaired>>

SigchldReturn ==
  /\ Interruptible /\ InChld /\ Unreaped = {}
  /\ pctx' = IF pctx = "chld" THEN "main" ELSE "term"
  /\ UNCHANGED <<poolVars, pslots, lockVars, ppc, localVars, ki, signalVars, childVars, repaired>>

(* sigterm_handler_parent reads the table without its lock. *)
SigtermEnter ==
  /\ Interruptible /\ Parent \in sigterm /\ pctx \in {"main", "chld"}
  /\ sigterm' = sigterm \ {Parent} /\ doRestart' = FALSE /\ ki' = 0
  /\ pctx' = IF pctx = "main" THEN "term" ELSE "chld_term"
  /\ UNCHANGED <<children_count, children_running, pslots, lockVars, ppc, localVars, chld_pending, childVars, repaired>>

(* The processes that kill(pslots[i].childpid, SIGTERM) reaches: pid 0     *)
(* stands for the whole process group.                                     *)
KillTargets(i) ==
  CASE pslots[i].slotbusy = 0       -> {}
    [] pslots[i].slotbusy = 1 /\ pslots[i].childpid = Nobody -> Live \cup {Parent}
    [] pslots[i].slotbusy = 1 /\ pslots[i].childpid # Nobody -> Live \cap {pslots[i].childpid}

KillSlot ==
  /\ Interruptible /\ InTerm /\ ki < CHILDREN_HARDLIMIT
  /\ sigterm' = sigterm \cup KillTargets(ki) /\ ki' = ki + 1
  /\ UNCHANGED <<poolVars, pslots, lockVars, ppc, pctx, localVars, chld_pending, childVars, repaired>>

SigtermReturn ==
  /\ Interruptible /\ InTerm /\ ki = CHILDREN_HARDLIMIT
  /\ pctx' = IF pctx = "term" THEN "main" ELSE "chld"
  /\ ki' = 0
  /\ UNCHANGED <<poolVars, pslots, lockVars, ppc, localVars, signalVars, childVars, repaired>>

SigchldStep == SigchldEnter \/ SigchldReturn \/ \E p \in Pid : Reap(p)
SigtermStep == SigtermEnter \/ KillSlot \/ SigtermReturn

-----------------------------------------------------------------------------
(* The children: processRequest. *)
setSlotState(p, state) ==
  /\ shr_lock = Nobody
  /\ pslots' = [pslots EXCEPT ![cslot[p]].childsts = state]

(* Handlers, memcached, databases and lock files are set up.               *)
InstallHandlers(p) ==
  /\ cpc[p] = "forked"
  /\ cpc' = [cpc EXCEPT ![p] = "setup"]
  /\ UNCHANGED <<poolVars, pslots, lockVars, ppc, pctx, localVars, ki, signalVars, cslot, repaired>>

(* Registration under the table's lock, the pid after the busy mark.       *)
Register(p) ==
  /\ cpc[p] = "setup" /\ shr_lock = Nobody
  /\ shr_lock' = p
  /\ pslots' = [pslots EXCEPT ![cslot[p]].slotbusy = 1, ![cslot[p]].childsts = "ST_BUSY"]
  /\ cpc' = [cpc EXCEPT ![p] = "reg"]
  /\ UNCHANGED <<poolVars, tmp_lock, ppc, pctx, localVars, ki, signalVars, cslot, repaired>>

RegisterPid(p) ==
  /\ cpc[p] = "reg"
  /\ pslots' = [pslots EXCEPT ![cslot[p]].childpid = p]
  /\ shr_lock' = Nobody
  /\ cpc' = [cpc EXCEPT ![p] = "ready"]
  /\ UNCHANGED <<poolVars, tmp_lock, ppc, pctx, localVars, ki, signalVars, cslot, repaired>>

BecomeIdle(p) ==
  /\ setSlotState(p, "ST_IDLE")
  /\ cpc' = [cpc EXCEPT ![p] = "idle"]
  /\ UNCHANGED <<poolVars, lockVars, ppc, pctx, localVars, ki, signalVars, cslot, repaired>>

SetIdle(p) == cpc[p] = "ready" /\ BecomeIdle(p)

(* Every way through the body of the request loop ends here. *)
FinishRequest(p) == cpc[p] = "serving" /\ BecomeIdle(p)

(* Seeded fault: the child locks the descriptor it inherited, which shares *)
(* its lock with every other child, instead of opening the file again.     *)
LockInherited(p) ==
  /\ cpc[p] = "idle"
  /\ tmp_lock' = p
  /\ cpc' = [cpc EXCEPT ![p] = "accept"]
  /\ UNCHANGED <<poolVars, pslots, shr_lock, ppc, pctx, localVars, ki, signalVars, cslot, repaired>>

LockAccept(p) ==
  /\ cpc[p] = "idle" /\ tmp_lock = Nobody
  /\ tmp_lock' = p
  /\ cpc' = [cpc EXCEPT ![p] = "accept"]
  /\ UNCHANGED <<poolVars, pslots, shr_lock, ppc, pctx, localVars, ki, signalVars, cslot, repaired>>

(* A request arrives: FCGX_Accept_r returns. *)
Accept(p) ==
  /\ cpc[p] = "accept"
  /\ cpc' = [cpc EXCEPT ![p] = "accepted"]
  /\ UNCHANGED <<poolVars, pslots, lockVars, ppc, pctx, localVars, ki, signalVars, cslot, repaired>>

(* Seeded fault: the slot is not marked busy. *)
MarkNothing(p) ==
  /\ cpc[p] = "accepted" /\ shr_lock = Nobody
  /\ tmp_lock' = Nobody
  /\ cpc' = [cpc EXCEPT ![p] = "serving"]
  /\ UNCHANGED <<poolVars, pslots, shr_lock, ppc, pctx, localVars, ki, signalVars, cslot, repaired>>

(* The table's lock is taken and released inside the accept lock. *)
MarkBusy(p) ==
  /\ cpc[p] = "accepted" /\ setSlotState(p, "ST_BUSY")
  /\ tmp_lock' = Nobody
  /\ cpc' = [cpc EXCEPT ![p] = "serving"]
  /\ UNCHANGED <<poolVars, shr_lock, ppc, pctx, localVars, ki, signalVars, cslot, repaired>>

(* Seeded fault: a lock that outlives its holder, as a lock file would. *)
ExitHoldingLocks(p) ==
  /\ cpc' = [cpc EXCEPT ![p] = "zombie"]
  /\ sigterm' = sigterm \ {p}
  /\ chld_pending' = TRUE
  /\ UNCHANGED <<poolVars, pslots, lockVars, ppc, pctx, localVars, ki, cslot, repaired>>

(* The end of a process releases its locks, forgets its pending signal and *)
(* raises SIGCHLD; its slot is left as it is.                              *)
Exit(p) ==
  /\ cpc' = [cpc EXCEPT ![p] = "zombie"]
  /\ shr_lock' = IF shr_lock = p THEN Nobody ELSE shr_lock
  /\ tmp_lock' = IF tmp_lock = p THEN Nobody ELSE tmp_lock
  /\ sigterm' = sigterm \ {p}
  /\ chld_pending' = TRUE
  /\ UNCHANGED <<poolVars, pslots, ppc, pctx, localVars, ki, cslot, repaired>>

(* A crash, or one of processRequest's calls of log_error. *)
ChildExit(p) == p \in Live /\ Exit(p)

ChildSigterm(p) ==
  /\ p \in sigterm /\ p \in Live /\ cpc[p] # "forked"
  /\ Exit(p)

(* Before line 124 a child still has the master's handler: it signals the  *)
(* registered children and lives on.                                       *)
InheritedSigterm(p) ==
  /\ p \in sigterm /\ cpc[p] = "forked"
  /\ sigterm' = (sigterm \ {p}) \cup UNION {KillTargets(i) : i \in Slot}
  /\ UNCHANGED <<poolVars, pslots, lockVars, ppc, pctx, localVars, ki, chld_pending, childVars, repaired>>

ChildStep(p) ==
  \/ InstallHandlers(p) \/ Register(p) \/ RegisterPid(p) \/ SetIdle(p)
  \/ LockAccept(p) \/ Accept(p) \/ MarkBusy(p) \/ FinishRequest(p) \/ ChildExit(p)
  \/ ChildSigterm(p) \/ InheritedSigterm(p)

-----------------------------------------------------------------------------
(* The administrator. SIGINT has SIGTERM's handlers. *)
SendTerm ==
  /\ Interruptible /\ "TERM" \in AdminSignals
  /\ sigterm' = sigterm \cup {Parent}
  /\ UNCHANGED <<poolVars, pslots, lockVars, ppc, pctx, localVars, ki, chld_pending, childVars, repaired>>

Sighup ==
  /\ Interruptible /\ "HUP" \in AdminSignals
  /\ doRestart' = FALSE
  /\ UNCHANGED <<children_count, children_running, pslots, lockVars, ppc, pctx, localVars, ki, signalVars, childVars, repaired>>

Next ==
  \/ MainStep \/ ForkFail \/ SigchldStep \/ SigtermStep
  \/ \E p \in Pid : ChildStep(p)
  \/ SendTerm \/ Sighup

Safety == Init /\ [][Next]_vars

(***************************************************************************)
(* A signal that is pending and not blocked: the kernel delivers it before *)
(* the code that it interrupts runs on. A signal that a handler raises     *)
(* again is blocked only until that handler returns.                       *)
(***************************************************************************)
Deliverable ==
  \/ chld_pending /\ pctx \in {"main", "term"}
  \/ Parent \in sigterm /\ pctx \in {"main", "chld"}

(***************************************************************************)
(* The kernel runs every process and delivers every signal; the master's   *)
(* code, be it main code or a handler's, goes on if again and again no     *)
(* signal is about to interrupt it; a process that waits for the table's   *)
(* lock gets it if the lock is free again and again; some waiter gets a    *)
(* free accept lock; a script ends. Nothing obliges a client, an           *)
(* administrator or a crash.                                               *)
(***************************************************************************)
Fairness ==
  /\ WF_vars(SigchldEnter) /\ WF_vars(SigtermEnter)
  /\ SF_vars(~Deliverable /\ MainStep)
  /\ WF_vars(~Deliverable /\ (SigchldStep \/ SigtermStep))
  /\ \A p \in Pid :
       /\ WF_vars(InstallHandlers(p) \/ RegisterPid(p))
       /\ SF_vars(Register(p) \/ SetIdle(p) \/ FinishRequest(p) \/ MarkBusy(p))
       /\ WF_vars(ChildSigterm(p) \/ InheritedSigterm(p))
  /\ WF_vars(\E p \in Pid : LockAccept(p))

Spec == Safety /\ Fairness

-----------------------------------------------------------------------------
(* Every variable has its type; the locals of forkChildren, the loop of    *)
(* the SIGTERM handler and children_count stay within the code's limits.   *)
TypeOK ==
  /\ children_count \in 0 .. CHILDREN_HARDLIMIT /\ children_running \in Int
  /\ doRestart \in BOOLEAN
  /\ pslots \in [Slot -> SlotRecord]
  /\ shr_lock \in Pid \cup {Parent, Nobody} /\ tmp_lock \in Pid \cup {Nobody}
  /\ ppc \in MasterPc /\ pctx \in Context
  /\ quantum \in 0 .. CHILDREN_QUANTUM /\ num \in 0 .. CHILDREN_HARDLIMIT
  /\ repairing \in BOOLEAN /\ reg \in Int /\ ki \in 0 .. CHILDREN_HARDLIMIT
  /\ chld_pending \in BOOLEAN /\ sigterm \subseteq Pid \cup {Parent}
  /\ cpc \in [Pid -> ChildPc] /\ cslot \in [Pid -> Slot]
  /\ repaired \in BOOLEAN

(* At most one child is inside FCGX_Accept_r or between it and the end of  *)
(* the accept lock's scope, whoever crashed there before.                  *)
AcceptExclusive ==
  \A p, q \in Pid : {cpc[p], cpc[q]} \subseteq {"accept", "accepted"} => p = q

(* The master leaves its loop, and unmaps the table its children write to, *)
(* only when no child is left, although its counter can be wrong.          *)
ShutdownAfterChildren == ppc = "exited" => Unreaped = {}

(* Except while holes are being refilled there are never more children     *)
(* than the master thinks it started, and never more than slots.           *)
PoolBounded ==
  ~repairing => Cardinality(Unreaped) <= children_count

(* As long as no hole was refilled, a child that waits for a request is    *)
(* shown as idle and one that serves as busy: what needFork counts.        *)
SlotStateAccurate ==
  ~repaired => \A p \in Pid :
    /\ cpc[p] \in {"idle", "accept"} =>
         pslots[cslot[p]] = [slotbusy |-> 1, childsts |-> "ST_IDLE", childpid |-> p]
    /\ cpc[p] = "serving" =>
         pslots[cslot[p]] = [slotbusy |-> 1, childsts |-> "ST_BUSY", childpid |-> p]

(* The increment of children_running that a signal can split in two.       *)
InFlight == IF ppc \in {"inc_load", "inc_store"} THEN 1 ELSE 0

(* children_running never falls below the number of children, although     *)
(* children_running++ races with the handler that decrements it: a lost    *)
(* update can only make the counter too large.                             *)
NeverUndercounted == Cardinality(Unreaped) <= children_running + InFlight

(* forkChild has a slot to fill and quantum to use up. *)
ForkHasSlot ==
  ppc \in {"clear", "cleared", "fork", "inc_load", "inc_store"} =>
    num < children_count /\ quantum > 0

(* A lock's holder is where the lock is held. *)
LocksOwned ==
  /\ \A p \in Pid : /\ shr_lock = p <=> cpc[p] = "reg"
                    /\ tmp_lock = p <=> cpc[p] \in {"accept", "accepted"}
  /\ shr_lock = Parent <=> ppc \in {"cleared", "needed"}

(* Outside the hole scan a fork leaves the counter within children_count.  *)
CounterBounded ==
  /\ ppc \in {"scan", "clear", "cleared", "assert", "aborted"} => repairing
  /\ ppc \in {"forkChildren", "grow", "loop", "sleep", "need", "needed", "exited"} => ~repairing
  /\ ppc = "inc_store" => children_running <= reg
  /\ ~repairing =>
       /\ ppc \in {"fork", "inc_load"} => children_running + 1 <= children_count
       /\ ppc = "inc_store" => reg + 1 <= children_count
       /\ ppc \notin {"fork", "inc_load", "inc_store"} => children_running <= children_count

(* As long as no hole was refilled every child has a slot of its own, and  *)
(* a registered child's slot carries its pid.                              *)
SlotsPrivate ==
  /\ repairing /\ ppc \in {"clear", "cleared", "fork", "inc_load", "inc_store"} => repaired
  /\ ~repaired =>
       /\ ppc = "fork" => num = children_count - 1
       /\ \A p \in Unreaped :
            /\ cslot[p] < IF ppc = "fork" THEN num ELSE children_count
            /\ \A q \in Unreaped : cslot[p] = cslot[q] => p = q
       /\ \A p \in Pid :
            /\ cpc[p] = "reg" =>
                 pslots[cslot[p]].slotbusy = 1 /\ pslots[cslot[p]].childsts = "ST_BUSY"
            /\ cpc[p] \in {"ready", "serving"} =>
                 pslots[cslot[p]] = [slotbusy |-> 1, childsts |-> "ST_BUSY", childpid |-> p]
            /\ cpc[p] \in {"idle", "accept", "accepted"} =>
                 pslots[cslot[p]] = [slotbusy |-> 1, childsts |-> "ST_IDLE", childpid |-> p]

(* The inductive strengthening of the properties above. *)
IInv == ForkHasSlot /\ LocksOwned /\ CounterBounded /\ SlotsPrivate

(* A premise of liveness: signals that never cease leave no time between   *)
(* two runs of a handler.                                                  *)
TermsCease == <>[][~SendTerm]_vars

(* Once every child has a SIGTERM on its way and none can be forked any    *)
(* more, the master's counter reaches zero and the master ends, whatever   *)
(* handler it was in and whoever held which lock. One thing only can keep  *)
(* it: a child that died between the busy mark and its pid has left a slot *)
(* busy for pid 0. Each run of the SIGTERM handler then signals the master *)
(* again, and the next one begins before any other code has run.           *)
Doomed ==
  /\ ~doRestart /\ ppc \in {"loop", "sleep", "need", "needed"}
  /\ \A p \in Live : cpc[p] # "forked" /\ p \in sigterm
  /\ children_running = Cardinality(Unreaped)
BusyForNobody == \E i \in Slot : pslots[i].slotbusy = 1 /\ pslots[i].childpid = Nobody
SignalsItself == BusyForNobody /\ (Parent \in sigterm \/ InTerm)
SignalledPoolStops == TermsCease => (Doomed ~> (ppc = "exited" \/ []SignalsItself))

(* As long as there are children, again and again one of them waits for a  *)
(* client: the two locks, taken one inside the other, and a holder that    *)
(* dies never block the pool. Only the master can, by keeping the table's  *)
(* lock: a SIGCHLD that comes between its lock and its unlock waits for    *)
(* every child while the children wait for the lock.                       *)
Served == Live = {} \/ \E p \in Pid : cpc[p] = "accept"
KeepsAccepting == []<>(shr_lock # Parent) => []<>Served

(***************************************************************************)
(* The pool as its clients and its administrator see it. doRestart is read *)
(* once per call of forkChildren: a round that has begun goes on hiring.   *)
(***************************************************************************)
InRound == ppc \in {"scan", "clear", "cleared", "fork", "inc_load", "inc_store",
                    "assert", "grow"}
PoolPhase ==
  CASE ppc = "exited"                          -> "closed"
    [] ppc \in {"failed", "aborted"}           -> "abandoned"
    [] ppc \notin Halted /\ (doRestart \/ InRound)  -> "hiring"
    [] ppc \notin Halted /\ ~(doRestart \/ InRound) -> "draining"
Pool == INSTANCE WorkerPool WITH
  Worker    <- Pid,
  staff     <- Live,
  accepting <- {p \in Pid : cpc[p] \in {"accept", "accepted"}},
  busy      <- {p \in Pid : cpc[p] = "serving"},
  phase     <- PoolPhase

(* Every behaviour of the processes is one of the abstract pool: a child   *)
(* that crashes anywhere leaves the accept lock to another, no child is    *)
(* forked once a TERM or HUP has been taken notice of, and the master      *)
(* leaves only an empty pool, although its counter may be wrong.           *)
Implements == Pool!Spec

-----------------------------------------------------------------------------
(* Claims of the repository's comments and documents that the code breaks. *)

(* "daemon has been stopped" after a TERM (appserver.Linux.in:59): here    *)
(* all children are registered, the counter is right, no slot is left over *)
(* and the master sleeps when the signal comes.                            *)
Registered(p) ==
  /\ cpc[p] \in {"ready", "idle", "accept", "accepted", "serving"}
  /\ pslots[cslot[p]].slotbusy = 1 /\ pslots[cslot[p]].childpid = p
AllRegistered ==
  /\ ppc = "sleep" /\ pctx = "main" /\ Parent \in sigterm
  /\ \A p \in Unreaped : Registered(p)
  /\ children_running = Cardinality(Unreaped) /\ ~BusyForNobody
TermStops == TermsCease => (AllRegistered ~> ppc \in Halted)

(* "daemon has been stopped" after a TERM (appserver.Linux.in:59): here    *)
(* every child has its own one, and SignalledPoolStops is to hold without  *)
(* its exception.                                                          *)
DoomedPoolStops == TermsCease => (Doomed ~> ppc = "exited")

(* KeepsAccepting without its premise: "the port on which the application  *)
(* server will wait for incoming connections" (README:46) is waited on     *)
(* again and again as long as there are children.                          *)
PoolNeverBlocks == []<>Served

(* "slot is occupied by child if field != 0" (preforked.hpp:21).           *)
SlotOccupied ==
  \A p \in Pid : cpc[p] \in {"ready", "idle", "accept", "accepted", "serving"} =>
    pslots[cslot[p]].slotbusy # 0

=============================================================================
