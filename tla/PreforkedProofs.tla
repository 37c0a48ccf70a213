--------------------------- MODULE PreforkedProofs ---------------------------
(* Theorems about Preforked that hold for every value of its constants. *)
EXTENDS Preforked, FiniteSetTheorems, TLAPS

(* Writes to the table keep its type. *)
LEMMA StateWrite ==
  ASSUME NEW s \in [Slot -> SlotRecord], NEW i \in Slot, NEW state \in SlotState
  PROVE  [s EXCEPT ![i].childsts = state] \in [Slot -> SlotRecord]
<1>1. [s[i] EXCEPT !.childsts = state] \in SlotRecord
  BY DEF SlotRecord
<1> QED BY <1>1

LEMMA PidWrite ==
  ASSUME NEW s \in [Slot -> SlotRecord], NEW i \in Slot, NEW p \in Pid
  PROVE  [s EXCEPT ![i].childpid = p] \in [Slot -> SlotRecord]
<1>1. [s[i] EXCEPT !.childpid = p] \in SlotRecord
  BY DEF SlotRecord
<1> QED BY <1>1

LEMMA BusyWrite ==
  ASSUME NEW s \in [Slot -> SlotRecord], NEW i \in Slot
  PROVE  [s EXCEPT ![i].slotbusy = 1, ![i].childsts = "ST_BUSY"] \in [Slot -> SlotRecord]
<1>1. [s EXCEPT ![i].slotbusy = 1] \in [Slot -> SlotRecord]
  <2>1. [s[i] EXCEPT !.slotbusy = 1] \in SlotRecord
    BY DEF SlotRecord
  <2> QED BY <2>1
<1>2. "ST_BUSY" \in SlotState BY DEF SlotState
<1> QED BY <1>1, <1>2, StateWrite

TypeInv == TypeOK /\ ForkHasSlot

LEMMA TypeInvInit == Init => TypeInv
<1> SUFFICES ASSUME Init PROVE TypeInv
  OBVIOUS
<1>1. 0 \in Slot
  BY LimitAssumption DEF Slot
<1>2. EmptySlot \in SlotRecord
  BY DEF EmptySlot, SlotRecord, SlotState
<1>3. pslots \in [Slot -> SlotRecord] /\ cslot \in [Pid -> Slot] /\ cpc \in [Pid -> ChildPc]
  BY <1>1, <1>2 DEF Init, ChildPc
<1>4. /\ doRestart \in BOOLEAN /\ repairing \in BOOLEAN
      /\ chld_pending \in BOOLEAN /\ repaired \in BOOLEAN
  BY Zenon DEF Init
<1> QED BY <1>3, <1>4, LimitAssumption DEF Init, TypeInv, TypeOK, ForkHasSlot, MasterPc, Context

LEMMA TypeInvStep == TypeInv /\ [Next]_vars => TypeInv'
<1> SUFFICES ASSUME TypeInv, [Next]_vars PROVE TypeInv'
  OBVIOUS
<1> USE LimitAssumption, PidAssumption
<1> USE DEF TypeInv, TypeOK, ForkHasSlot, Slot, SlotRecord, SlotState, MasterPc, Context,
       ChildPc,
            poolVars, localVars, signalVars, childVars, lockVars
<1>1. CASE SkipFork
  <2>1. repairing' \in BOOLEAN
    BY <1>1, Zenon DEF SkipFork, LeaveForkChildren
  <2> QED BY <1>1, <2>1 DEF SkipFork, MainAt, LeaveForkChildren
<1>2. CASE StartScan BY <1>2 DEF StartScan, MainAt
<1>3. CASE StartGrow
  <2>1. repairing' \in BOOLEAN
    BY <1>3, Zenon DEF StartGrow
  <2> QED BY <1>3, <2>1 DEF StartGrow, MainAt
<1>4. CASE SlotAlive BY <1>4 DEF SlotAlive, MainAt, InScan
<1>5. CASE SlotDead BY <1>5 DEF SlotDead, MainAt, InScan
<1>6. CASE ScanDone BY <1>6 DEF ScanDone, MainAt, InScan
<1>7. CASE ClearLock BY <1>7 DEF ClearLock, MainAt
<1>8. CASE ClearSlot BY <1>8 DEF ClearSlot, MainAt, EmptySlot
<1>9. CASE Grow BY <1>9 DEF Grow, MainAt
<1>10. CASE GrowDone
  <2>1. repairing' \in BOOLEAN
    BY <1>10, Zenon DEF GrowDone, LeaveForkChildren
  <2> QED BY <1>10, <2>1 DEF GrowDone, MainAt, LeaveForkChildren
<1>11. CASE CountsAgree
  <2>1. repairing' \in BOOLEAN
    BY <1>11, Zenon DEF CountsAgree
  <2> QED BY <1>11, <2>1 DEF CountsAgree, MainAt
<1>12. CASE AssertFails BY <1>12 DEF AssertFails, MainAt
<1>13. CASE Fork BY <1>13 DEF Fork, MainAt
<1>14. CASE IncLoad BY <1>14 DEF IncLoad, MainAt
<1>15. CASE IncStore BY <1>15 DEF IncStore, MainAt
<1>16. CASE Loop BY <1>16 DEF Loop, MainAt
<1>17. CASE Shutdown BY <1>17 DEF Shutdown, MainAt
<1>18. CASE Wake BY <1>18 DEF Wake, MainAt
<1>19. CASE NeedLock BY <1>19 DEF NeedLock, MainAt
<1>20. CASE NeedScan BY <1>20 DEF NeedScan, MainAt
<1>21. CASE ForkFail BY <1>21 DEF ForkFail, MainAt
<1>22. CASE SigchldEnter
  <2>1. chld_pending' \in BOOLEAN
    BY <1>22, Zenon DEF SigchldEnter
  <2> QED BY <1>22, <2>1, SMTT(30) DEF SigchldEnter
<1>23. CASE SigchldReturn BY <1>23 DEF SigchldReturn
<1>24. CASE SigtermEnter
  <2>1. doRestart' \in BOOLEAN
    BY <1>24, Zenon DEF SigtermEnter
  <2> QED BY <1>24, <2>1 DEF SigtermEnter
<1>25. CASE KillSlot
  <2>1. KillTargets(ki) \subseteq Pid \cup {Parent}
    BY <1>25 DEF KillSlot, KillTargets, Live
  <2> QED BY <1>25, <2>1, SMTT(30) DEF KillSlot
<1>26. CASE SigtermReturn BY <1>26 DEF SigtermReturn
<1>27. CASE SendTerm BY <1>27 DEF SendTerm
<1>28. CASE Sighup
  <2>1. doRestart' \in BOOLEAN
    BY <1>28, Zenon DEF Sighup
  <2> QED BY <1>28, <2>1 DEF Sighup
<1>29. ASSUME NEW p \in Pid, Reap(p) PROVE TypeInv'
  BY <1>29 DEF Reap
<1>30. ASSUME NEW p \in Pid, InstallHandlers(p) PROVE TypeInv'
  BY <1>30 DEF InstallHandlers
<1>31. ASSUME NEW p \in Pid, Register(p) PROVE TypeInv'
  <2>1. pslots' \in [Slot -> SlotRecord]
    BY <1>31, BusyWrite DEF Register
  <2> QED BY <1>31, <2>1 DEF Register
<1>32. ASSUME NEW p \in Pid, RegisterPid(p) PROVE TypeInv'
  <2>1. pslots' \in [Slot -> SlotRecord]
    BY <1>32, PidWrite DEF RegisterPid
  <2> QED BY <1>32, <2>1 DEF RegisterPid
<1>33. ASSUME NEW p \in Pid, SetIdle(p) PROVE TypeInv'
  <2>1. pslots' \in [Slot -> SlotRecord]
    BY <1>33, StateWrite DEF SetIdle, BecomeIdle, setSlotState
  <2> QED BY <1>33, <2>1 DEF SetIdle, BecomeIdle, setSlotState
<1>34. ASSUME NEW p \in Pid, LockAccept(p) PROVE TypeInv'
  BY <1>34 DEF LockAccept
<1>35. ASSUME NEW p \in Pid, Accept(p) PROVE TypeInv'
  BY <1>35 DEF Accept
<1>36. ASSUME NEW p \in Pid, MarkBusy(p) PROVE TypeInv'
  <2>1. pslots' \in [Slot -> SlotRecord]
    BY <1>36, StateWrite DEF MarkBusy, setSlotState
  <2> QED BY <1>36, <2>1 DEF MarkBusy, setSlotState
<1>37. ASSUME NEW p \in Pid, ChildExit(p) PROVE TypeInv'
  BY <1>37 DEF ChildExit, Exit, Live
<1>38. ASSUME NEW p \in Pid, ChildSigterm(p) PROVE TypeInv'
  BY <1>38 DEF ChildSigterm, Exit, Live
<1>39. ASSUME NEW p \in Pid, InheritedSigterm(p) PROVE TypeInv'
  BY <1>39 DEF InheritedSigterm, KillTargets, Live
<1>40. CASE UNCHANGED vars BY <1>40 DEF vars
<1>41. ASSUME NEW p \in Pid, FinishRequest(p) PROVE TypeInv'
  <2>1. pslots' \in [Slot -> SlotRecord]
    BY <1>41, StateWrite DEF FinishRequest, BecomeIdle, setSlotState
  <2> QED BY <1>41, <2>1 DEF FinishRequest, BecomeIdle, setSlotState
<1> QED BY <1>1, <1>2, <1>3, <1>4, <1>5, <1>6, <1>7, <1>8, <1>9, <1>10, <1>11, <1>12, <1>13,
       <1>14, <1>15, <1>16, <1>17, <1>18, <1>19, <1>20, <1>21, <1>22, <1>23, <1>24, <1>25,
       <1>26, <1>27, <1>28, <1>29, <1>30, <1>31, <1>32, <1>33, <1>34, <1>35, <1>36, <1>37,
       <1>38, <1>39, <1>40, <1>41 DEF Next, MainStep, SigchldStep, SigtermStep, ChildStep

(* The type invariant of the pool: every variable keeps its type, the loops *)
(* of forkChildren and of the SIGTERM handler stay inside the table.        *)
THEOREM TypeCorrect == Safety => []TypeOK
<1>1. Safety => []TypeInv
  BY TypeInvInit, TypeInvStep, PTL DEF Safety
<1> QED BY <1>1, PTL DEF TypeInv

LEMMA LocksInit == Init => LocksOwned
BY PidAssumption DEF Init, LocksOwned

LEMMA LocksStep == TypeOK /\ LocksOwned /\ [Next]_vars => LocksOwned'
<1> SUFFICES ASSUME TypeOK, LocksOwned, [Next]_vars PROVE LocksOwned'
  OBVIOUS
<1> USE PidAssumption
<1> USE DEF TypeOK, LocksOwned, MasterPc, poolVars, localVars, signalVars, childVars, lockVars
<1>1. CASE SkipFork BY <1>1 DEF SkipFork, MainAt, LeaveForkChildren
<1>2. CASE StartScan BY <1>2 DEF StartScan, MainAt
<1>3. CASE StartGrow BY <1>3 DEF StartGrow, MainAt
<1>4. CASE SlotAlive BY <1>4 DEF SlotAlive, MainAt, InScan
<1>5. CASE SlotDead BY <1>5 DEF SlotDead, MainAt, InScan
<1>6. CASE ScanDone BY <1>6 DEF ScanDone, MainAt, InScan
<1>7. CASE ClearLock BY <1>7 DEF ClearLock, MainAt
<1>8. CASE ClearSlot BY <1>8 DEF ClearSlot, MainAt
<1>9. CASE Grow BY <1>9 DEF Grow, MainAt
<1>10. CASE GrowDone BY <1>10 DEF GrowDone, MainAt, LeaveForkChildren
<1>11. CASE CountsAgree BY <1>11 DEF CountsAgree, MainAt
<1>12. CASE AssertFails BY <1>12 DEF AssertFails, MainAt
<1>13. CASE Fork
  <2>1. PICK p \in Pid \ Unreaped : cpc' = [cpc EXCEPT ![p] = "forked"]
    BY <1>13 DEF Fork
  <2> QED BY <1>13, <2>1 DEF Fork, MainAt, Unreaped
<1>14. CASE IncLoad BY <1>14 DEF IncLoad, MainAt
<1>15. CASE IncStore BY <1>15 DEF IncStore, MainAt
<1>16. CASE Loop BY <1>16 DEF Loop, MainAt
<1>17. CASE Shutdown BY <1>17 DEF Shutdown, MainAt
<1>18. CASE Wake BY <1>18 DEF Wake, MainAt
<1>19. CASE NeedLock BY <1>19 DEF NeedLock, MainAt
<1>20. CASE NeedScan BY <1>20 DEF NeedScan, MainAt
<1>21. CASE ForkFail BY <1>21 DEF ForkFail, MainAt
<1>22. CASE SigchldEnter BY <1>22 DEF SigchldEnter
<1>23. CASE SigchldReturn BY <1>23 DEF SigchldReturn
<1>24. CASE SigtermEnter BY <1>24 DEF SigtermEnter
<1>25. CASE KillSlot BY <1>25 DEF KillSlot
<1>26. CASE SigtermReturn BY <1>26 DEF SigtermReturn
<1>27. CASE SendTerm BY <1>27 DEF SendTerm
<1>28. CASE Sighup BY <1>28 DEF Sighup
<1>29. ASSUME NEW p \in Pid, Reap(p) PROVE LocksOwned'
  BY <1>29 DEF Reap
<1>30. ASSUME NEW p \in Pid, InstallHandlers(p) PROVE LocksOwned'
  BY <1>30 DEF InstallHandlers
<1>31. ASSUME NEW p \in Pid, Register(p) PROVE LocksOwned'
  BY <1>31 DEF Register
<1>32. ASSUME NEW p \in Pid, RegisterPid(p) PROVE LocksOwned'
  BY <1>32 DEF RegisterPid
<1>33. ASSUME NEW p \in Pid, SetIdle(p) PROVE LocksOwned'
  BY <1>33 DEF SetIdle, BecomeIdle, setSlotState
<1>34. ASSUME NEW p \in Pid, LockAccept(p) PROVE LocksOwned'
  BY <1>34 DEF LockAccept
<1>35. ASSUME NEW p \in Pid, Accept(p) PROVE LocksOwned'
  BY <1>35 DEF Accept
<1>36. ASSUME NEW p \in Pid, MarkBusy(p) PROVE LocksOwned'
  BY <1>36 DEF MarkBusy, setSlotState
<1>37. ASSUME NEW p \in Pid, ChildExit(p) PROVE LocksOwned'
  BY <1>37 DEF ChildExit, Exit, Live
<1>38. ASSUME NEW p \in Pid, ChildSigterm(p) PROVE LocksOwned'
  BY <1>38 DEF ChildSigterm, Exit, Live
<1>39. ASSUME NEW p \in Pid, InheritedSigterm(p) PROVE LocksOwned'
  BY <1>39 DEF InheritedSigterm
<1>40. CASE UNCHANGED vars BY <1>40 DEF vars
<1>41. ASSUME NEW p \in Pid, FinishRequest(p) PROVE LocksOwned'
  BY <1>41 DEF FinishRequest, BecomeIdle, setSlotState
<1> QED BY <1>1, <1>2, <1>3, <1>4, <1>5, <1>6, <1>7, <1>8, <1>9, <1>10, <1>11, <1>12, <1>13,
       <1>14, <1>15, <1>16, <1>17, <1>18, <1>19, <1>20, <1>21, <1>22, <1>23, <1>24, <1>25,
       <1>26, <1>27, <1>28, <1>29, <1>30, <1>31, <1>32, <1>33, <1>34, <1>35, <1>36, <1>37,
       <1>38, <1>39, <1>40, <1>41 DEF Next, MainStep, SigchldStep, SigtermStep, ChildStep

(* At most one child is in the scope of the accept lock, for any number of *)
(* children and whatever crashes and signals there are.                    *)
THEOREM AcceptLockExclusive == Safety => []AcceptExclusive
<1>1. Safety => [](TypeInv /\ LocksOwned)
  BY TypeInvInit, TypeInvStep, LocksInit, LocksStep, PTL DEF Safety, TypeInv
<1>2. LocksOwned => AcceptExclusive
  BY DEF LocksOwned, AcceptExclusive
<1> QED BY <1>1, <1>2, PTL

LEMMA CounterInit == Init => CounterBounded
BY DEF Init, CounterBounded

LEMMA CounterStep == TypeOK /\ CounterBounded /\ [Next]_vars => CounterBounded'
<1> SUFFICES ASSUME TypeOK, CounterBounded, [Next]_vars PROVE CounterBounded'
  OBVIOUS
<1> USE DEF TypeOK, CounterBounded, MasterPc, poolVars, localVars, signalVars, childVars,
       lockVars
<1>1. CASE SkipFork BY <1>1 DEF SkipFork, MainAt, LeaveForkChildren
<1>2. CASE StartScan BY <1>2 DEF StartScan, MainAt
<1>3. CASE StartGrow BY <1>3 DEF StartGrow, MainAt
<1>4. CASE SlotAlive BY <1>4 DEF SlotAlive, MainAt, InScan
<1>5. CASE SlotDead BY <1>5 DEF SlotDead, MainAt, InScan
<1>6. CASE ScanDone BY <1>6 DEF ScanDone, MainAt, InScan
<1>7. CASE ClearLock BY <1>7 DEF ClearLock, MainAt
<1>8. CASE ClearSlot BY <1>8 DEF ClearSlot, MainAt
<1>9. CASE Grow BY <1>9 DEF Grow, MainAt
<1>10. CASE GrowDone BY <1>10 DEF GrowDone, MainAt, LeaveForkChildren
<1>11. CASE CountsAgree BY <1>11 DEF CountsAgree, MainAt
<1>12. CASE AssertFails BY <1>12 DEF AssertFails, MainAt
<1>13. CASE Fork BY <1>13 DEF Fork, MainAt
<1>14. CASE IncLoad BY <1>14 DEF IncLoad, MainAt
<1>15. CASE IncStore BY <1>15 DEF IncStore, MainAt
<1>16. CASE Loop BY <1>16 DEF Loop, MainAt
<1>17. CASE Shutdown BY <1>17 DEF Shutdown, MainAt
<1>18. CASE Wake BY <1>18 DEF Wake, MainAt
<1>19. CASE NeedLock BY <1>19 DEF NeedLock, MainAt
<1>20. CASE NeedScan BY <1>20 DEF NeedScan, MainAt
<1>21. CASE ForkFail BY <1>21 DEF ForkFail, MainAt
<1>22. CASE SigchldEnter BY <1>22 DEF SigchldEnter
<1>23. CASE SigchldReturn BY <1>23 DEF SigchldReturn
<1>24. CASE SigtermEnter BY <1>24 DEF SigtermEnter
<1>25. CASE KillSlot BY <1>25 DEF KillSlot
<1>26. CASE SigtermReturn BY <1>26 DEF SigtermReturn
<1>27. CASE SendTerm BY <1>27 DEF SendTerm
<1>28. CASE Sighup BY <1>28 DEF Sighup
<1>29. ASSUME NEW p \in Pid, Reap(p) PROVE CounterBounded'
  BY <1>29 DEF Reap
<1>30. ASSUME NEW p \in Pid, InstallHandlers(p) PROVE CounterBounded'
  BY <1>30 DEF InstallHandlers
<1>31. ASSUME NEW p \in Pid, Register(p) PROVE CounterBounded'
  BY <1>31 DEF Register
<1>32. ASSUME NEW p \in Pid, RegisterPid(p) PROVE CounterBounded'
  BY <1>32 DEF RegisterPid
<1>33. ASSUME NEW p \in Pid, SetIdle(p) PROVE CounterBounded'
  BY <1>33 DEF SetIdle, BecomeIdle, setSlotState
<1>34. ASSUME NEW p \in Pid, LockAccept(p) PROVE CounterBounded'
  BY <1>34 DEF LockAccept
<1>35. ASSUME NEW p \in Pid, Accept(p) PROVE CounterBounded'
  BY <1>35 DEF Accept
<1>36. ASSUME NEW p \in Pid, MarkBusy(p) PROVE CounterBounded'
  BY <1>36 DEF MarkBusy, setSlotState
<1>37. ASSUME NEW p \in Pid, ChildExit(p) PROVE CounterBounded'
  BY <1>37 DEF ChildExit, Exit, Live
<1>38. ASSUME NEW p \in Pid, ChildSigterm(p) PROVE CounterBounded'
  BY <1>38 DEF ChildSigterm, Exit, Live
<1>39. ASSUME NEW p \in Pid, InheritedSigterm(p) PROVE CounterBounded'
  BY <1>39 DEF InheritedSigterm
<1>40. CASE UNCHANGED vars BY <1>40 DEF vars
<1>41. ASSUME NEW p \in Pid, FinishRequest(p) PROVE CounterBounded'
  BY <1>41 DEF FinishRequest, BecomeIdle, setSlotState
<1> QED BY <1>1, <1>2, <1>3, <1>4, <1>5, <1>6, <1>7, <1>8, <1>9, <1>10, <1>11, <1>12, <1>13,
       <1>14, <1>15, <1>16, <1>17, <1>18, <1>19, <1>20, <1>21, <1>22, <1>23, <1>24, <1>25,
       <1>26, <1>27, <1>28, <1>29, <1>30, <1>31, <1>32, <1>33, <1>34, <1>35, <1>36, <1>37,
       <1>38, <1>39, <1>40, <1>41 DEF Next, MainStep, SigchldStep, SigtermStep, ChildStep

(* What a step does to the set of unreaped children. *)
LEMMA UnreapedFinite == IsFiniteSet(Unreaped) /\ Cardinality(Unreaped) \in Nat
BY PidAssumption, FS_Subset, FS_CardinalityType DEF Unreaped

LEMMA ForkAdds ==
  ASSUME TypeOK, NEW p \in Pid \ Unreaped, cpc' = [cpc EXCEPT ![p] = "forked"]
  PROVE  Cardinality(Unreaped') = Cardinality(Unreaped) + 1
<1>1. Unreaped' = Unreaped \cup {p}
  BY DEF Unreaped, TypeOK
<1> QED BY <1>1, UnreapedFinite, FS_AddElement

LEMMA ReapRemoves ==
  ASSUME TypeOK, NEW p \in Unreaped, cpc' = [cpc EXCEPT ![p] = "none"]
  PROVE  Cardinality(Unreaped') = Cardinality(Unreaped) - 1
<1>1. Unreaped' = Unreaped \ {p}
  BY DEF Unreaped, TypeOK
<1> QED BY <1>1, UnreapedFinite, FS_RemoveElement

LEMMA OthersKeep ==
  ASSUME TypeOK, NEW p \in Unreaped, NEW pc \in ChildPc \ {"none"},
       cpc' = [cpc EXCEPT ![p] = pc]
  PROVE  Unreaped' = Unreaped
BY DEF Unreaped, TypeOK, ChildPc

(* Only forkChild adds to the set and only waitpid takes from it. *)
LEMMA ChildStepKeeps ==
  ASSUME TypeOK, NEW p \in Pid, ChildStep(p)
  PROVE  Unreaped' = Unreaped
<1>1. \/ cpc' = cpc
      \/ p \in Unreaped /\ \E pc \in ChildPc \ {"none"} : cpc' = [cpc EXCEPT ![p] = pc]
  BY DEF ChildStep, InstallHandlers, Register, RegisterPid, SetIdle, FinishRequest,
       BecomeIdle, setSlotState, LockAccept, Accept, MarkBusy,
         ChildExit, ChildSigterm, InheritedSigterm, Exit, Live, Unreaped, ChildPc, childVars
<1>2. CASE cpc' = cpc
  BY <1>2 DEF Unreaped
<1> QED BY <1>1, <1>2, OthersKeep

CountInv == NeverUndercounted /\ ShutdownAfterChildren

LEMMA CountInit == Init => CountInv
<1>1. Init => Unreaped = {}
  BY DEF Init, Unreaped
<1> QED BY <1>1, FS_EmptySet DEF Init, CountInv, NeverUndercounted, ShutdownAfterChildren,
       InFlight

LEMMA CountStep ==
  TypeOK /\ CounterBounded /\ CountInv /\ [Next]_vars => CountInv'
<1> SUFFICES ASSUME TypeOK, CounterBounded, CountInv, [Next]_vars PROVE CountInv'
  OBVIOUS
<1> USE UnreapedFinite
<1> USE DEF TypeOK, CountInv, NeverUndercounted, ShutdownAfterChildren, InFlight,
            poolVars, localVars, signalVars, childVars, lockVars
<1>1. CASE SkipFork
  BY <1>1 DEF SkipFork, MainAt, LeaveForkChildren, Unreaped
<1>2. CASE StartScan
  BY <1>2 DEF StartScan, MainAt, Unreaped
<1>3. CASE StartGrow
  BY <1>3 DEF StartGrow, MainAt, Unreaped
<1>4. CASE SlotAlive
  BY <1>4 DEF SlotAlive, MainAt, InScan, Unreaped
<1>5. CASE SlotDead
  BY <1>5 DEF SlotDead, MainAt, InScan, Unreaped
<1>6. CASE ScanDone
  BY <1>6 DEF ScanDone, MainAt, InScan, Unreaped
<1>7. CASE ClearLock
  BY <1>7 DEF ClearLock, MainAt, Unreaped
<1>8. CASE ClearSlot
  BY <1>8 DEF ClearSlot, MainAt, Unreaped
<1>9. CASE Grow
  BY <1>9 DEF Grow, MainAt, Unreaped
<1>10. CASE GrowDone
  BY <1>10 DEF GrowDone, MainAt, LeaveForkChildren, Unreaped
<1>11. CASE CountsAgree
  BY <1>11 DEF CountsAgree, MainAt, Unreaped
<1>12. CASE AssertFails
  BY <1>12 DEF AssertFails, MainAt, Unreaped
<1>13. CASE Fork
  <2>1. PICK p \in Pid \ Unreaped : cpc' = [cpc EXCEPT ![p] = "forked"]
    BY <1>13 DEF Fork
  <2>2. Cardinality(Unreaped') = Cardinality(Unreaped) + 1
    BY <2>1, ForkAdds
  <2> QED BY <1>13, <2>2 DEF Fork, MainAt
<1>14. CASE IncLoad
  BY <1>14 DEF IncLoad, MainAt, Unreaped
<1>15. CASE IncStore
  <2>1. Unreaped' = Unreaped /\ children_running <= reg
    BY <1>15 DEF IncStore, MainAt, Unreaped, CounterBounded
  <2> QED BY <1>15, <2>1 DEF IncStore, MainAt
<1>16. CASE Loop
  BY <1>16 DEF Loop, MainAt, Unreaped
<1>17. CASE Shutdown
  <2>1. Unreaped' = Unreaped
    BY <1>17 DEF Shutdown, Unreaped
  <2>2. Cardinality(Unreaped) = 0
    BY <1>17 DEF Shutdown, MainAt
  <2>3. Unreaped = {}
    BY <2>2, FS_EmptySet
  <2> QED BY <1>17, <2>1, <2>2, <2>3 DEF Shutdown, MainAt
<1>18. CASE Wake
  BY <1>18 DEF Wake, MainAt, Unreaped
<1>19. CASE NeedLock
  BY <1>19 DEF NeedLock, MainAt, Unreaped
<1>20. CASE NeedScan
  BY <1>20 DEF NeedScan, MainAt, Unreaped
<1>21. CASE ForkFail
  BY <1>21 DEF ForkFail, MainAt, Unreaped
<1>22. CASE SigchldEnter
  BY <1>22 DEF SigchldEnter, Unreaped
<1>23. CASE SigchldReturn
  BY <1>23 DEF SigchldReturn, Unreaped
<1>24. CASE SigtermEnter
  BY <1>24 DEF SigtermEnter, Unreaped
<1>25. CASE KillSlot
  BY <1>25 DEF KillSlot, Unreaped
<1>26. CASE SigtermReturn
  BY <1>26 DEF SigtermReturn, Unreaped
<1>27. CASE SendTerm
  BY <1>27 DEF SendTerm, Unreaped
<1>28. CASE Sighup
  BY <1>28 DEF Sighup, Unreaped
<1>29. ASSUME NEW p \in Pid, Reap(p) PROVE CountInv'
  <2>1. p \in Unreaped /\ cpc' = [cpc EXCEPT ![p] = "none"]
    BY <1>29 DEF Reap, Unreaped
  <2>2. Cardinality(Unreaped') = Cardinality(Unreaped) - 1
    BY <2>1, ReapRemoves
  <2> QED BY <1>29, <2>2 DEF Reap, Interruptible, Halted
<1>30. ASSUME NEW p \in Pid, ChildStep(p) PROVE CountInv'
  <2>1. Unreaped' = Unreaped
    BY <1>30, ChildStepKeeps
  <2>2. children_running' = children_running /\ ppc' = ppc
    BY <1>30 DEF ChildStep, InstallHandlers, Register, RegisterPid, SetIdle, FinishRequest,
       BecomeIdle, setSlotState, LockAccept, Accept,
           MarkBusy, ChildExit, ChildSigterm, InheritedSigterm, Exit
  <2> QED BY <2>1, <2>2
<1>31. CASE UNCHANGED vars
  BY <1>31 DEF vars, Unreaped
<1> QED BY <1>1, <1>2, <1>3, <1>4, <1>5, <1>6, <1>7, <1>8, <1>9, <1>10, <1>11, <1>12, <1>13,
       <1>14, <1>15, <1>16, <1>17, <1>18, <1>19, <1>20, <1>21, <1>22, <1>23, <1>24, <1>25,
       <1>26, <1>27, <1>28, <1>29, <1>30, <1>31 DEF Next, MainStep, SigchldStep, SigtermStep

LEMMA CountingInvariant == Safety => [](TypeOK /\ CounterBounded /\ CountInv)
BY TypeInvInit, TypeInvStep, CounterInit, CounterStep, CountInit, CountStep, PTL
   DEF Safety, TypeInv

(* The master's counter never falls below the number of its children: the  *)
(* update that children_running++ can lose only makes it too large.        *)
THEOREM CounterNeverTooSmall == Safety => []NeverUndercounted
BY CountingInvariant, PTL DEF CountInv

(* The master does not leave its loop before its last child is reaped.     *)
THEOREM ShutdownComesLast == Safety => []ShutdownAfterChildren
BY CountingInvariant, PTL DEF CountInv

(* Outside the hole scan there are never more children than the master     *)
(* started.                                                                *)
THEOREM PoolIsBounded == Safety => []PoolBounded
<1>1. TypeOK /\ CounterBounded /\ CountInv => PoolBounded
  BY UnreapedFinite DEF TypeOK, CounterBounded, CountInv, NeverUndercounted, InFlight,
       PoolBounded, MasterPc
<1> QED BY <1>1, CountingInvariant, PTL

LEMMA SlotsInit == Init => SlotsPrivate
BY DEF Init, SlotsPrivate, Unreaped

LEMMA SlotsStep ==
  TypeInv /\ CounterBounded /\ SlotsPrivate /\ [Next]_vars => SlotsPrivate'
<1> SUFFICES ASSUME TypeInv, CounterBounded, SlotsPrivate, [Next]_vars PROVE SlotsPrivate'
  OBVIOUS
<1> USE DEF TypeInv, TypeOK, CounterBounded, SlotsPrivate, MasterPc, Unreaped,
            poolVars, localVars, signalVars, childVars, lockVars
<1>1. CASE SkipFork BY <1>1 DEF SkipFork, MainAt, LeaveForkChildren
<1>2. CASE StartScan BY <1>2 DEF StartScan, MainAt
<1>3. CASE StartGrow BY <1>3 DEF StartGrow, MainAt
<1>4. CASE SlotAlive BY <1>4 DEF SlotAlive, MainAt, InScan
<1>5. CASE SlotDead BY <1>5 DEF SlotDead, MainAt, InScan
<1>6. CASE ScanDone BY <1>6 DEF ScanDone, MainAt, InScan
<1>7. CASE ClearLock BY <1>7 DEF ClearLock, MainAt
<1>8. CASE ClearSlot BY <1>8 DEF ClearSlot, MainAt
<1>9. CASE Grow BY <1>9 DEF Grow, MainAt
<1>10. CASE GrowDone BY <1>10 DEF GrowDone, MainAt, LeaveForkChildren
<1>11. CASE CountsAgree BY <1>11 DEF CountsAgree, MainAt
<1>12. CASE AssertFails BY <1>12 DEF AssertFails, MainAt
<1>13. CASE Fork
  <2>1. PICK p \in Pid \ Unreaped :
          /\ cpc' = [cpc EXCEPT ![p] = "forked"]
          /\ cslot' = [cslot EXCEPT ![p] = num]
    BY <1>13 DEF Fork
  <2>2. /\ MainAt("fork") /\ ppc' = "inc_load"
        /\ UNCHANGED <<repairing, repaired, num, children_count, pslots>>
    BY <1>13 DEF Fork
  <2>3. ~repaired => ~repairing /\ num = children_count - 1
    BY <2>2 DEF MainAt
  <2>4. \A q \in Pid : /\ q # p => cpc'[q] = cpc[q] /\ cslot'[q] = cslot[q]
                       /\ cpc'[p] = "forked" /\ cslot'[p] = num
    BY <2>1
  <2>5. ASSUME ~repaired, NEW q \in Unreaped'
        PROVE  /\ cslot'[q] < children_count
               /\ \A r \in Unreaped' : cslot'[q] = cslot'[r] => q = r
    <3>1. \A r \in Unreaped : cslot[r] < num /\ cslot[r] \in Slot
      BY <2>2, <2>5 DEF MainAt
    <3> QED BY <2>3, <2>4, <2>5, <3>1 DEF Slot
  <2> QED BY <2>2, <2>4, <2>5 DEF MainAt
<1>14. CASE IncLoad BY <1>14 DEF IncLoad, MainAt
<1>15. CASE IncStore BY <1>15 DEF IncStore, MainAt
<1>16. CASE Loop BY <1>16 DEF Loop, MainAt
<1>17. CASE Shutdown BY <1>17 DEF Shutdown, MainAt
<1>18. CASE Wake BY <1>18 DEF Wake, MainAt
<1>19. CASE NeedLock BY <1>19 DEF NeedLock, MainAt
<1>20. CASE NeedScan BY <1>20 DEF NeedScan, MainAt
<1>21. CASE ForkFail BY <1>21 DEF ForkFail, MainAt, Slot
<1>22. CASE SigchldEnter BY <1>22 DEF SigchldEnter
<1>23. CASE SigchldReturn BY <1>23 DEF SigchldReturn
<1>24. CASE SigtermEnter BY <1>24 DEF SigtermEnter
<1>25. CASE KillSlot BY <1>25 DEF KillSlot
<1>26. CASE SigtermReturn BY <1>26 DEF SigtermReturn
<1>27. CASE SendTerm BY <1>27 DEF SendTerm
<1>28. CASE Sighup BY <1>28 DEF Sighup
<1>29. ASSUME NEW p \in Pid, Reap(p) PROVE SlotsPrivate'
  BY <1>29 DEF Reap
<1>30. ASSUME NEW p \in Pid, InstallHandlers(p) PROVE SlotsPrivate'
  BY <1>30 DEF InstallHandlers
<1>31. ASSUME NEW p \in Pid, Register(p) PROVE SlotsPrivate'
  BY <1>31 DEF Register
<1>32. ASSUME NEW p \in Pid, RegisterPid(p) PROVE SlotsPrivate'
  <2>1. /\ cpc[p] = "reg" /\ cpc' = [cpc EXCEPT ![p] = "ready"]
        /\ pslots' = [pslots EXCEPT ![cslot[p]].childpid = p]
        /\ UNCHANGED <<cslot, repaired, repairing, ppc, num, children_count>>
    BY <1>32 DEF RegisterPid
  <2>2. pslots[cslot[p]] \in SlotRecord /\ cslot[p] \in Slot
    OBVIOUS
  <2>3. ~repaired => pslots'[cslot[p]] = [slotbusy |-> 1, childsts |-> "ST_BUSY",
       childpid |-> p]
    <3> DEFINE r == pslots[cslot[p]]
    <3>1. pslots'[cslot[p]] = [r EXCEPT !.childpid = p]
      BY <2>1, <2>2
    <3>2. ~repaired => r.slotbusy = 1 /\ r.childsts = "ST_BUSY"
      BY <2>1
    <3>3. [r EXCEPT !.childpid = p] = [slotbusy |-> r.slotbusy, childsts |-> r.childsts,
       childpid |-> p]
      BY <2>2 DEF SlotRecord
    <3> QED BY <3>1, <3>2, <3>3
  <2>4. \A q \in Unreaped : ~repaired /\ q # p => pslots'[cslot[q]] = pslots[cslot[q]]
    BY <2>1
  <2> QED BY <2>1, <2>3, <2>4
<1>33. ASSUME NEW p \in Pid, SetIdle(p) PROVE SlotsPrivate'
  BY <1>33 DEF SetIdle, BecomeIdle, setSlotState
<1>34. ASSUME NEW p \in Pid, LockAccept(p) PROVE SlotsPrivate'
  BY <1>34 DEF LockAccept
<1>35. ASSUME NEW p \in Pid, Accept(p) PROVE SlotsPrivate'
  BY <1>35 DEF Accept
<1>36. ASSUME NEW p \in Pid, MarkBusy(p) PROVE SlotsPrivate'
  BY <1>36 DEF MarkBusy, setSlotState
<1>37. ASSUME NEW p \in Pid, ChildExit(p) PROVE SlotsPrivate'
  BY <1>37 DEF ChildExit, Exit, Live
<1>38. ASSUME NEW p \in Pid, ChildSigterm(p) PROVE SlotsPrivate'
  BY <1>38 DEF ChildSigterm, Exit, Live
<1>39. ASSUME NEW p \in Pid, InheritedSigterm(p) PROVE SlotsPrivate'
  BY <1>39 DEF InheritedSigterm
<1>40. CASE UNCHANGED vars BY <1>40 DEF vars
<1>41. ASSUME NEW p \in Pid, FinishRequest(p) PROVE SlotsPrivate'
  BY <1>41 DEF FinishRequest, BecomeIdle, setSlotState
<1> QED BY <1>1, <1>2, <1>3, <1>4, <1>5, <1>6, <1>7, <1>8, <1>9, <1>10, <1>11, <1>12, <1>13,
       <1>14, <1>15, <1>16, <1>17, <1>18, <1>19, <1>20, <1>21, <1>22, <1>23, <1>24, <1>25,
       <1>26, <1>27, <1>28, <1>29, <1>30, <1>31, <1>32, <1>33, <1>34, <1>35, <1>36, <1>37,
       <1>38, <1>39, <1>40, <1>41 DEF Next, MainStep, SigchldStep, SigtermStep, ChildStep

(* As long as no hole was refilled, what needFork reads about a child is    *)
(* what the child is doing.                                                *)
THEOREM SlotsTellTheTruth == Safety => []SlotStateAccurate
<1>1. Safety => [](TypeInv /\ CounterBounded /\ SlotsPrivate)
  BY TypeInvInit, TypeInvStep, CounterInit, CounterStep, SlotsInit, SlotsStep, PTL
     DEF Safety, TypeInv
<1>2. SlotsPrivate => SlotStateAccurate
  BY DEF SlotsPrivate, SlotStateAccurate
<1> QED BY <1>1, <1>2, PTL

(* The strengthening that the runs check is inductive.                     *)
THEOREM StrengtheningHolds == Safety => []IInv
BY TypeInvInit, TypeInvStep, LocksInit, LocksStep, CounterInit, CounterStep, SlotsInit,
       SlotsStep, PTL
   DEF Safety, TypeInv, IInv

==============================================================================
