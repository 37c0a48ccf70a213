--------------------------- MODULE PoolRefinement ---------------------------
(***************************************************************************)
(* The processes of Preforked implement the abstract pool of WorkerPool,   *)
(* for every number of pids, slots and every order of signals.  Each step  *)
(* is one of four kinds: it leaves the abstract pool as it is, it is the   *)
(* act of one worker, the end of one, or it ends a phase.                  *)
(***************************************************************************)
EXTENDS PreforkedProofs

AtDoor == {p \in Pid : cpc[p] \in {"accept", "accepted"}}
Serving == {p \in Pid : cpc[p] = "serving"}

(* The invariant the mapping rests on. *)
MapInv == TypeOK /\ LocksOwned /\ ShutdownAfterChildren

LEMMA MapInvariant == Safety => []MapInv
BY CountingInvariant, StrengtheningHolds, PTL DEF MapInv, IInv, CountInv

(* The phase is one of four, and the one the master's place says.          *)
LEMMA PhaseOf ==
  /\ ppc = "exited" => PoolPhase = "closed"
  /\ ppc \in {"failed", "aborted"} => PoolPhase = "abandoned"
  /\ ppc \notin Halted /\ (doRestart \/ InRound) => PoolPhase = "hiring"
  /\ ppc \notin Halted /\ ~(doRestart \/ InRound) => PoolPhase = "draining"
BY DEF PoolPhase, Halted

(* The same of the next state. *)
LEMMA PhaseAfter ==
  /\ ppc' = "exited" => PoolPhase' = "closed"
  /\ ppc' \in {"failed", "aborted"} => PoolPhase' = "abandoned"
  /\ ppc' \notin Halted /\ (doRestart' \/ InRound') => PoolPhase' = "hiring"
  /\ ppc' \notin Halted /\ ~(doRestart' \/ InRound') => PoolPhase' = "draining"
BY DEF PoolPhase, Halted

LEMMA PhaseStays == UNCHANGED <<ppc, doRestart>> => PoolPhase' = PoolPhase
BY DEF PoolPhase, InRound

LEMMA RefinesInit == Init => Pool!Init
<1> SUFFICES ASSUME Init PROVE Pool!Init
  OBVIOUS
<1>1. PoolPhase = "hiring"
  BY PhaseOf DEF Init, Halted
<1> QED BY <1>1 DEF Init, Pool!Init, Live

(* A step that changes no child's place changes at most the phase, which   *)
(* can only become "draining" as long as the master goes on.               *)
LEMMA QuietStep ==
  ASSUME UNCHANGED cpc, ppc \notin Halted, ppc' \notin Halted,
         doRestart' \/ InRound' => doRestart \/ InRound
  PROVE  [Pool!Next]_(Pool!vars)
<1>1. Live' = Live /\ AtDoor' = AtDoor /\ Serving' = Serving
  BY DEF Live, AtDoor, Serving
<1>2. CASE PoolPhase' = PoolPhase
  BY <1>1, <1>2 DEF Pool!vars, AtDoor, Serving
<1>3. CASE PoolPhase' # PoolPhase
  <2>1. PoolPhase = "hiring" /\ PoolPhase' = "draining"
    BY <1>3, PhaseOf, PhaseAfter
  <2> QED BY <1>1, <2>1 DEF Pool!Next, Pool!StopHiring, AtDoor, Serving
<1> QED BY <1>2, <1>3

(* The two ways the master gives up, and its orderly end.                  *)
LEMMA LastStep ==
  ASSUME UNCHANGED cpc, ppc \notin Halted, ppc' \in Halted, ShutdownAfterChildren'
  PROVE  [Pool!Next]_(Pool!vars)
<1>1. Live' = Live /\ AtDoor' = AtDoor /\ Serving' = Serving /\ Unreaped' = Unreaped
  BY DEF Live, AtDoor, Serving, Unreaped
<1>2. PoolPhase \in {"hiring", "draining"}
  BY PhaseOf
<1>3. CASE ppc' = "exited"
  <2>1. Live = {}
    BY <1>1, <1>3 DEF ShutdownAfterChildren, Unreaped, Live
  <2> QED BY <1>1, <1>2, <1>3, <2>1, PhaseAfter DEF Pool!Next, Pool!Close, AtDoor, Serving
<1>4. CASE ppc' # "exited"
  <2>1. PoolPhase' = "abandoned"
    BY <1>4, PhaseAfter DEF Halted
  <2> QED BY <1>1, <1>2, <2>1 DEF Pool!Next, Pool!Abandon, AtDoor, Serving
<1> QED BY <1>3, <1>4

LEMMA ForkHires ==
  ASSUME MapInv, Fork
  PROVE  [Pool!Next]_(Pool!vars)
<1>1. PICK p \in Pid \ Unreaped : cpc' = [cpc EXCEPT ![p] = "forked"]
  BY DEF Fork
<1>2. p \notin Live /\ p \notin AtDoor /\ p \notin Serving
  BY <1>1 DEF Unreaped, Live, AtDoor, Serving
<1>3. Live' = Live \cup {p} /\ AtDoor' = AtDoor /\ Serving' = Serving
  BY <1>1, <1>2 DEF MapInv, TypeOK, Live, AtDoor, Serving
<1>4. PoolPhase = "hiring" /\ PoolPhase' = "hiring"
  BY PhaseOf, PhaseAfter DEF Fork, MainAt, InRound, Halted
<1>5. Pool!Hire(p)
  BY <1>2, <1>3, <1>4 DEF Pool!Hire, AtDoor, Serving
<1> QED BY <1>5 DEF Pool!Next

(* A child is reaped, or on its way to the accept lock: nobody outside     *)
(* notices.                                                                *)
LEMMA HiddenChildStep ==
  ASSUME MapInv, NEW p \in Pid, UNCHANGED <<ppc, doRestart>>,
         NEW place, cpc' = [cpc EXCEPT ![p] = place],
         \/ cpc[p] = "zombie" /\ place = "none"
         \/ /\ cpc[p] \in {"forked", "setup", "reg", "ready"}
            /\ place \in {"setup", "reg", "ready", "idle"}
         \/ cpc[p] = "accept" /\ place = "accepted"
  PROVE  [Pool!Next]_(Pool!vars)
<1>1. Live' = Live /\ AtDoor' = AtDoor /\ Serving' = Serving
  BY DEF MapInv, TypeOK, Live, AtDoor, Serving
<1>2. PoolPhase' = PoolPhase
  BY PhaseStays
<1> QED BY <1>1, <1>2 DEF Pool!vars, AtDoor, Serving

LEMMA LockTakes ==
  ASSUME MapInv, NEW p \in Pid, LockAccept(p)
  PROVE  [Pool!Next]_(Pool!vars)
<1>1. AtDoor = {}
  BY PidAssumption DEF LockAccept, MapInv, LocksOwned, AtDoor
<1>2. p \in Live /\ p \notin Serving
  BY DEF LockAccept, Live, Serving
<1>3. Live' = Live /\ AtDoor' = {p} /\ Serving' = Serving
  BY <1>1, <1>2 DEF LockAccept, MapInv, TypeOK, Live, AtDoor, Serving
<1>4. PoolPhase' = PoolPhase
  <2>1. UNCHANGED <<ppc, doRestart>>
    BY Zenon DEF LockAccept, poolVars
  <2> QED BY <2>1, PhaseStays, Zenon
<1>5. Pool!Take(p)
  BY <1>1, <1>2, <1>3, <1>4 DEF Pool!Take, AtDoor, Serving
<1> QED BY <1>5 DEF Pool!Next

LEMMA BusyServes ==
  ASSUME MapInv, NEW p \in Pid, MarkBusy(p)
  PROVE  [Pool!Next]_(Pool!vars)
<1>1. p \in AtDoor /\ p \in Live
  BY DEF MarkBusy, AtDoor, Live
<1>2. Live' = Live /\ AtDoor' = AtDoor \ {p} /\ Serving' = Serving \cup {p}
  BY <1>1 DEF MarkBusy, MapInv, TypeOK, Live, AtDoor, Serving
<1>3. PoolPhase' = PoolPhase
  <2>1. UNCHANGED <<ppc, doRestart>>
    BY Zenon DEF MarkBusy, poolVars
  <2> QED BY <2>1, PhaseStays, Zenon
<1>4. Pool!Serve(p)
  BY <1>1, <1>2, <1>3 DEF Pool!Serve, AtDoor, Serving
<1> QED BY <1>4 DEF Pool!Next

LEMMA FinishIsDone ==
  ASSUME MapInv, NEW p \in Pid, FinishRequest(p)
  PROVE  [Pool!Next]_(Pool!vars)
<1>1. p \in Serving /\ p \in Live /\ p \notin AtDoor
  BY DEF FinishRequest, Serving, Live, AtDoor
<1>2. Live' = Live /\ AtDoor' = AtDoor /\ Serving' = Serving \ {p}
  BY <1>1 DEF FinishRequest, BecomeIdle, MapInv, TypeOK, Live, AtDoor, Serving
<1>3. PoolPhase' = PoolPhase
  <2>1. UNCHANGED <<ppc, doRestart>>
    BY Zenon DEF FinishRequest, BecomeIdle, poolVars
  <2> QED BY <2>1, PhaseStays, Zenon
<1>4. Pool!Done(p)
  BY <1>1, <1>2, <1>3 DEF Pool!Done, AtDoor, Serving
<1> QED BY <1>4 DEF Pool!Next

LEMMA ExitLeaves ==
  ASSUME MapInv, NEW p \in Live, Exit(p)
  PROVE  [Pool!Next]_(Pool!vars)
<1>0. p \in Pid
  BY DEF Live
<1>1. Live' = Live \ {p} /\ AtDoor' = AtDoor \ {p} /\ Serving' = Serving \ {p}
  BY <1>0 DEF Exit, MapInv, TypeOK, Live, AtDoor, Serving
<1>2. PoolPhase' = PoolPhase
  <2>1. UNCHANGED <<ppc, doRestart>>
    BY Zenon DEF Exit, poolVars
  <2> QED BY <2>1, PhaseStays, Zenon
<1>3. Pool!Leave(p)
  BY <1>1, <1>2 DEF Pool!Leave, AtDoor, Serving
<1> QED BY <1>0, <1>3 DEF Pool!Next

LEMMA RefinesStep ==
  ASSUME MapInv, MapInv', [Next]_vars
  PROVE  [Pool!Next]_(Pool!vars)
<1> USE DEF MainAt, Halted, InRound
<1>1. CASE SkipFork BY <1>1, QuietStep DEF SkipFork, LeaveForkChildren, childVars, poolVars
<1>2. CASE StartScan \/ StartGrow BY <1>2, QuietStep DEF StartScan, StartGrow, childVars, poolVars
<1>3. CASE SlotAlive \/ SlotDead \/ ScanDone
  BY <1>3, QuietStep DEF SlotAlive, SlotDead, ScanDone, childVars, poolVars
<1>4. CASE ClearLock \/ ClearSlot BY <1>4, QuietStep DEF ClearLock, ClearSlot, childVars, poolVars
<1>5. CASE Grow \/ GrowDone \/ CountsAgree
  BY <1>5, QuietStep DEF Grow, GrowDone, CountsAgree, LeaveForkChildren, childVars, poolVars
<1>6. CASE IncLoad \/ IncStore BY <1>6, QuietStep DEF IncLoad, IncStore, childVars, poolVars
<1>7. CASE Loop \/ Wake BY <1>7, QuietStep DEF Loop, Wake, childVars, poolVars
<1>8. CASE NeedLock \/ NeedScan
  <2>1. ppc' \notin Halted /\ (InRound' => InRound)
    BY <1>8 DEF NeedLock, NeedScan
  <2> QED BY <1>8, <2>1, QuietStep DEF NeedLock, NeedScan, childVars, poolVars
<1>9. CASE Fork BY <1>9, ForkHires
<1>10. CASE AssertFails \/ ForkFail \/ Shutdown
  BY <1>10, LastStep DEF AssertFails, ForkFail, Shutdown, childVars, MapInv
<1>11. CASE SigchldEnter \/ SigchldReturn
  BY <1>11, QuietStep DEF SigchldEnter, SigchldReturn, Interruptible, childVars, poolVars
<1>12. CASE SigtermEnter \/ Sighup
  BY <1>12, QuietStep DEF SigtermEnter, Sighup, Interruptible, childVars
<1>13. CASE KillSlot \/ SigtermReturn \/ SendTerm
  BY <1>13, QuietStep DEF KillSlot, SigtermReturn, SendTerm, Interruptible, childVars, poolVars
<1>14. ASSUME NEW p \in Pid, Reap(p) PROVE [Pool!Next]_(Pool!vars)
  BY <1>14, HiddenChildStep DEF Reap
<1>15. ASSUME NEW p \in Pid, InstallHandlers(p) \/ Register(p) \/ RegisterPid(p) \/ SetIdle(p) \/ Accept(p)
       PROVE  [Pool!Next]_(Pool!vars)
  BY <1>15, HiddenChildStep
     DEF InstallHandlers, Register, RegisterPid, SetIdle, BecomeIdle, Accept, poolVars
<1>16. ASSUME NEW p \in Pid, LockAccept(p) PROVE [Pool!Next]_(Pool!vars)
  BY <1>16, LockTakes
<1>17. ASSUME NEW p \in Pid, MarkBusy(p) PROVE [Pool!Next]_(Pool!vars)
  BY <1>17, BusyServes
<1>18. ASSUME NEW p \in Pid, FinishRequest(p) PROVE [Pool!Next]_(Pool!vars)
  BY <1>18, FinishIsDone
<1>19. ASSUME NEW p \in Pid, ChildExit(p) \/ ChildSigterm(p) PROVE [Pool!Next]_(Pool!vars)
  BY <1>19, ExitLeaves DEF ChildExit, ChildSigterm
<1>20. ASSUME NEW p \in Pid, InheritedSigterm(p) \/ UNCHANGED vars
       PROVE  [Pool!Next]_(Pool!vars)
  <2>1. UNCHANGED <<cpc, ppc, doRestart>>
    BY <1>20 DEF InheritedSigterm, childVars, poolVars, vars
  <2> QED BY <2>1 DEF Pool!vars, Live, PoolPhase
<1>21. CASE UNCHANGED vars
  BY <1>21 DEF vars, childVars, poolVars, Pool!vars, Live, PoolPhase
<1> QED BY <1>1, <1>2, <1>3, <1>4, <1>5, <1>6, <1>7, <1>8, <1>9, <1>10, <1>11, <1>12, <1>13,
           <1>14, <1>15, <1>16, <1>17, <1>18, <1>19, <1>20, <1>21
        DEF Next, MainStep, SigchldStep, SigtermStep, ChildStep

(* The pool of processes is a pool of workers: whatever order the signals, *)
(* crashes and requests come in, one worker at a time is at the door, none *)
(* is hired after the hiring has stopped, and the pool is closed empty.    *)
THEOREM PoolImplements == Safety => Implements
<1>1. Init => Pool!Init
  BY RefinesInit
<1>2. MapInv /\ MapInv' /\ [Next]_vars => [Pool!Next]_(Pool!vars)
  BY RefinesStep
<1> QED BY <1>1, <1>2, MapInvariant, PTL DEF Safety, Implements, Pool!Spec
=============================================================================
