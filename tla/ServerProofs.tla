---------------------------- MODULE ServerProofs ----------------------------
(***************************************************************************)
(* What holds of the pid file for any number of instances, any pids, and   *)
(* every order of their steps: TypeOK, DaemonIsNamed, NoFalseAlarm of      *)
(* Server.                                                                 *)
(*                                                                         *)
(* The two of the pid file are about the end of write_pid and after; the   *)
(* invariant that carries them there says at each of its system calls      *)
(* what an instance may rely on as long as no other one has touched the    *)
(* file: what lstat saw is still there (Seen), it is what was opened       *)
(* (Opened), and it is empty, then the pid (Emptied, Named); and that only *)
(* the grandchild of a daemon is there at all (Grandchild).                *)
(***************************************************************************)
EXTENDS Server, TLAPS

Writing == {"lstat", "open", "check", "truncate", "write"}
Written == {"prepare", "bind", "serving", "closed", "unlink"}

Grandchild(i) ==
  /\ pc[i] \in Writing => daemon[i]
  /\ daemon[i] /\ pc[i] \in Writing \cup Written => generation[i] = 2
Seen(i) == pc[i] \in {"open", "check"} => seen[i] = path
Opened(i) ==
  \/ pc[i] \in {"check", "truncate", "write"}
  \/ daemon[i] /\ pc[i] \in Written
  => fd[i] = path /\ fd[i] \in File
Emptied(i) == pc[i] = "write" => content[fd[i]] = <<>>
Named(i) == daemon[i] /\ pc[i] \in Written => content[fd[i]] = pid[i, 2]
Unalarmed(i) == pc[i] # "alarmed"

Trusted(i) == Seen(i) /\ Opened(i) /\ Emptied(i) /\ Named(i) /\ Unalarmed(i)

IInv ==
  /\ TypeOK
  /\ \A i \in Instance : Grandchild(i)
  /\ \A i \in Instance \ disturbed : Trusted(i)

-----------------------------------------------------------------------------
(* What is written over nothing is all there is.                           *)
LEMMA OverlayNothing ==
  ASSUME NEW new \in Digits
  PROVE  Overlay(<<>>, new) = new
<1>1. SubSeq(<<>>, Len(new) + 1, Len(<<>>)) = <<>>
  BY DEF Digits
<1> QED BY <1>1 DEF Overlay, Digits

(* What is written over digits is digits.                                  *)
LEMMA OverlayDigits ==
  ASSUME NEW old \in Digits, NEW new \in Digits
  PROVE  Overlay(old, new) \in Digits
<1>1. SubSeq(old, Len(new) + 1, Len(old)) \in Digits
  BY DEF Digits
<1> QED BY <1>1 DEF Overlay, Digits

LEMMA InitTypes == Init => TypeOK
<1> SUFFICES ASSUME Init PROVE TypeOK
  OBVIOUS
<1>1. <<>> \in Digits /\ <<9, 9, 9>> \in Digits
  BY DEF Digits
<1>2. content \in [File -> Digits]
  BY <1>1 DEF Init
<1> QED BY <1>2 DEF Init, TypeOK, Alive, Generation, File

LEMMA StepTypes ==
  ASSUME TypeOK, [Next]_vars
  PROVE  TypeOK'
<1> USE DEF TypeOK, GoTo, file, Alive, Ended
<1>1. CASE UNCHANGED vars
  BY <1>1 DEF vars
<1>2. ASSUME NEW i \in Instance, Load(i) \/ LeaveEarly(i) PROVE TypeOK'
  BY <1>2 DEF Load, LeaveEarly
<1>3. ASSUME NEW i \in Instance, Fork(i) PROVE TypeOK'
  BY <1>3 DEF Fork, Generation
<1>4. ASSUME NEW i \in Instance, Daemonized(i) \/ OpenFails(i) \/ Check(i) \/ WriteFails(i)
                                 \/ BindFails(i) \/ FreeScripts(i) \/ Kill(i)
      PROVE  TypeOK'
  BY <1>4 DEF Daemonized, OpenFails, Check, WriteFails, BindFails, FreeScripts, Kill
<1>5. ASSUME NEW i \in Instance, Lstat(i) \/ Open(i) PROVE TypeOK'
  BY <1>5 DEF Lstat, Open
<1>6. ASSUME NEW i \in Instance, Create(i) PROVE TypeOK'
  <2>1. i \in File /\ <<>> \in Digits
    BY DEF File, Digits
  <2> QED BY <1>6, <2>1 DEF Create, Touch, Relying
<1>7. ASSUME NEW i \in Instance, Truncate(i) PROVE TypeOK'
  <2>1. <<>> \in Digits
    BY DEF Digits
  <2> QED BY <1>7, <2>1 DEF Truncate, Touch, Relying
<1>8. ASSUME NEW i \in Instance, Write(i) PROVE TypeOK'
  <2>1. pid[i, generation[i]] \in Digits
    BY PidAssumption
  <2>2. \A f \in File : Overlay(content[f], pid[i, generation[i]]) \in Digits
    BY <2>1, OverlayDigits
  <2> QED BY <1>8, <2>2 DEF Write, Touch, Relying
<1>9. ASSUME NEW i \in Instance, Prepare(i) \/ Bind(i) \/ Close(i) \/ ChildrenEnd(i) PROVE TypeOK'
  BY <1>9 DEF Prepare, Bind, Close, ChildrenEnd
<1>10. ASSUME NEW i \in Instance, Unlink(i) PROVE TypeOK'
  BY <1>10 DEF Unlink, Touch, Relying
<1> QED BY <1>1, <1>2, <1>3, <1>4, <1>5, <1>6, <1>7, <1>8, <1>9, <1>10 DEF Next

(* Every variable keeps its type, with any number of instances.            *)
THEOREM TypesHold == Spec => []TypeOK
BY InitTypes, StepTypes, PTL DEF Spec

-----------------------------------------------------------------------------
(* Only the process that goes on reaches the pid file.                     *)
LEMMA StepGrandchild ==
  ASSUME TypeOK, NEW j \in Instance, Grandchild(j), [Next]_vars
  PROVE  Grandchild(j)'
<1> USE DEF TypeOK, Grandchild, Writing, Written, GoTo, file
<1>1. CASE UNCHANGED vars
  BY <1>1 DEF vars
<1>2. ASSUME NEW i \in Instance, Load(i) \/ LeaveEarly(i) PROVE Grandchild(j)'
  BY <1>2 DEF Load, LeaveEarly
<1>3. ASSUME NEW i \in Instance, Fork(i) \/ Daemonized(i) PROVE Grandchild(j)'
  BY <1>3 DEF Fork, Daemonized
<1>4. ASSUME NEW i \in Instance, Lstat(i) \/ Create(i) \/ Open(i) \/ OpenFails(i) \/ Check(i)
                                 \/ Truncate(i) \/ Write(i) \/ WriteFails(i)
      PROVE  Grandchild(j)'
  BY <1>4 DEF Lstat, Create, Open, OpenFails, Check, Truncate, Write, WriteFails
<1>5. ASSUME NEW i \in Instance, Prepare(i) \/ Bind(i) \/ BindFails(i) \/ Close(i)
                                 \/ FreeScripts(i) \/ Unlink(i) \/ Kill(i) \/ ChildrenEnd(i)
      PROVE  Grandchild(j)'
  BY <1>5 DEF Prepare, Bind, BindFails, Close, FreeScripts, Unlink, Kill, ChildrenEnd
<1> QED BY <1>1, <1>2, <1>3, <1>4, <1>5 DEF Next

(* The steps after which the pid file is another one, or has another       *)
(* content, are those that tell the others; every other step leaves it as  *)
(* it is.                                                                  *)
LEMMA FileSteps ==
  ASSUME NEW i \in Instance,
         \/ LeaveEarly(i) \/ Load(i) \/ Fork(i) \/ Daemonized(i)
         \/ Lstat(i) \/ Create(i) \/ Open(i) \/ OpenFails(i) \/ Check(i)
         \/ Truncate(i) \/ Write(i) \/ WriteFails(i)
         \/ Prepare(i) \/ Bind(i) \/ BindFails(i)
         \/ Close(i) \/ FreeScripts(i) \/ Unlink(i) \/ Kill(i) \/ ChildrenEnd(i)
  PROVE  UNCHANGED file \/ Touch(i)
BY DEF file, LeaveEarly, Load, Fork, Daemonized, Lstat, Create, Open, OpenFails, Check,
       Truncate, Write, WriteFails, Prepare, Bind, BindFails, Close, FreeScripts, Unlink,
       Kill, ChildrenEnd

(* A step of i changes nothing that another instance has of its own.       *)
LEMMA OwnSteps ==
  ASSUME TypeOK, NEW i \in Instance, NEW j \in Instance \ {i},
         \/ LeaveEarly(i) \/ Load(i) \/ Fork(i) \/ Daemonized(i)
         \/ Lstat(i) \/ Create(i) \/ Open(i) \/ OpenFails(i) \/ Check(i)
         \/ Truncate(i) \/ Write(i) \/ WriteFails(i)
         \/ Prepare(i) \/ Bind(i) \/ BindFails(i)
         \/ Close(i) \/ FreeScripts(i) \/ Unlink(i) \/ Kill(i) \/ ChildrenEnd(i)
  PROVE  UNCHANGED <<pc[j], daemon[j], seen[j], fd[j]>>
BY DEF TypeOK, GoTo, LeaveEarly, Load, Fork, Daemonized, Lstat, Create, Open, OpenFails, Check,
       Truncate, Write, WriteFails, Prepare, Bind, BindFails, Close, FreeScripts, Unlink,
       Kill, ChildrenEnd

(* What an instance relies on survives the steps of the others, or it is   *)
(* disturbed by them.                                                      *)
LEMMA OthersSteps ==
  ASSUME TypeOK, NEW i \in Instance, NEW j \in Instance \ {i}, Trusted(j), j \notin disturbed',
         UNCHANGED <<pc[j], daemon[j], seen[j], fd[j]>>, UNCHANGED file \/ Touch(i)
  PROVE  Trusted(j)'
<1>1. CASE UNCHANGED file
  BY <1>1 DEF file, Trusted, Seen, Opened, Emptied, Named, Unalarmed
<1>2. CASE Touch(i)
  <2>1. pc[j] \notin Alive \ {"load", "loaded"}
    BY <1>2 DEF Touch, Relying
  <2> QED BY <2>1 DEF Alive, Written, Trusted, Seen, Opened, Emptied, Named, Unalarmed
<1> QED BY <1>1, <1>2

-----------------------------------------------------------------------------
(* What an instance's own steps do to what it relies on.                   *)
LEMMA BeforeTheFile ==
  ASSUME TypeOK, NEW i \in Instance, Trusted(i),
         LeaveEarly(i) \/ Load(i) \/ Fork(i) \/ Daemonized(i)
  PROVE  Trusted(i)'
BY DEF TypeOK, GoTo, file, Written, Trusted, Seen, Opened, Emptied, Named, Unalarmed,
       LeaveEarly, Load, Fork, Daemonized

LEMMA LstatTrusted ==
  ASSUME TypeOK, NEW i \in Instance, Trusted(i), Lstat(i)
  PROVE  Trusted(i)'
BY DEF TypeOK, GoTo, file, Written, Trusted, Seen, Opened, Emptied, Named, Unalarmed, Lstat

LEMMA CreateTrusted ==
  ASSUME TypeOK, NEW i \in Instance, Trusted(i), Create(i)
  PROVE  Trusted(i)'
BY DEF TypeOK, GoTo, File, Written, Trusted, Seen, Opened, Emptied, Named, Unalarmed, Create

LEMMA OpenTrusted ==
  ASSUME TypeOK, NEW i \in Instance, Trusted(i), Open(i)
  PROVE  Trusted(i)'
BY DEF TypeOK, GoTo, file, Written, Trusted, Seen, Opened, Emptied, Named, Unalarmed, Open

(* What lstat saw is still there: no alarm.                                *)
LEMMA OpenFailsNever ==
  ASSUME NEW i \in Instance, Trusted(i)
  PROVE  ~OpenFails(i)
BY DEF Trusted, Seen, OpenFails

LEMMA CheckTrusted ==
  ASSUME TypeOK, NEW i \in Instance, Trusted(i), Check(i)
  PROVE  Trusted(i)'
BY DEF TypeOK, GoTo, file, Written, Trusted, Seen, Opened, Emptied, Named, Unalarmed, Check

LEMMA TruncateTrusted ==
  ASSUME TypeOK, NEW i \in Instance, Trusted(i), Truncate(i)
  PROVE  Trusted(i)'
BY DEF TypeOK, GoTo, Written, Trusted, Seen, Opened, Emptied, Named, Unalarmed, Truncate

(* The file is empty, and it is the grandchild that writes.                *)
LEMMA WriteTrusted ==
  ASSUME TypeOK, NEW i \in Instance, Trusted(i), Grandchild(i), Write(i)
  PROVE  Trusted(i)'
<1>1. daemon[i] /\ generation[i] = 2 /\ fd[i] = path /\ fd[i] \in File /\ content[fd[i]] = <<>>
  BY DEF Trusted, Opened, Emptied, Grandchild, Writing, Write
<1>2. pid[<<i, 2>>] \in Digits
  BY PidAssumption DEF Generation
<1>3. content' = [content EXCEPT ![fd[i]] = pid[<<i, 2>>]]
  <2>1. Overlay(content[fd[i]], pid[<<i, 2>>]) = pid[<<i, 2>>]
    BY <1>1, <1>2, OverlayNothing
  <2> QED BY <1>1, <2>1, Zenon DEF Write
<1>4. content'[fd[i]] = pid[<<i, 2>>]
  BY <1>1, <1>3 DEF TypeOK
<1>5. pc'[i] = "prepare" /\ fd' = fd /\ path' = path
  BY DEF Write, GoTo, TypeOK
<1> QED BY <1>1, <1>4, <1>5, Zenon DEF Trusted, Seen, Opened, Emptied, Named, Unalarmed

LEMMA AfterTheFile ==
  ASSUME TypeOK, NEW i \in Instance, Trusted(i),
         \/ WriteFails(i) \/ Prepare(i) \/ Bind(i) \/ BindFails(i) \/ Close(i)
         \/ FreeScripts(i) \/ Kill(i) \/ ChildrenEnd(i)
  PROVE  Trusted(i)'
BY DEF TypeOK, GoTo, file, Written, Trusted, Seen, Opened, Emptied, Named, Unalarmed,
       WriteFails, Prepare, Bind, BindFails, Close, FreeScripts, Kill, ChildrenEnd

LEMMA UnlinkTrusted ==
  ASSUME TypeOK, NEW i \in Instance, Trusted(i), Unlink(i)
  PROVE  Trusted(i)'
BY DEF TypeOK, GoTo, Written, Trusted, Seen, Opened, Emptied, Named, Unalarmed, Unlink

LEMMA InitIInv == Init => IInv
<1> SUFFICES ASSUME Init PROVE IInv
  OBVIOUS
<1>1. \A i \in Instance : Grandchild(i) /\ Trusted(i)
  BY DEF Init, Writing, Written, Grandchild, Trusted, Seen, Opened, Emptied, Named, Unalarmed
<1> QED BY <1>1, InitTypes DEF IInv

LEMMA StepIInv == IInv /\ [Next]_vars => IInv'
<1> SUFFICES ASSUME IInv, [Next]_vars PROVE IInv'
  OBVIOUS
<1>1. TypeOK'
  BY StepTypes DEF IInv
<1>2. \A j \in Instance : Grandchild(j)'
  BY StepGrandchild DEF IInv
<1>3. ASSUME NEW j \in Instance, j \notin disturbed' PROVE Trusted(j)'
  <2>1. j \notin disturbed /\ Trusted(j)
    <3>1. UNCHANGED file \/ \E i \in Instance : Touch(i)
      BY FileSteps DEF Next, vars
    <3>2. j \notin disturbed
      BY <1>3, <3>1 DEF Touch, file
    <3> QED BY <3>2 DEF IInv
  <2>2. CASE UNCHANGED vars
    BY <2>1, <2>2 DEF vars, file, Trusted, Seen, Opened, Emptied, Named, Unalarmed
  <2>3. CASE Next
    <3>1. PICK i \in Instance :
            \/ LeaveEarly(i) \/ Load(i) \/ Fork(i) \/ Daemonized(i)
            \/ Lstat(i) \/ Create(i) \/ Open(i) \/ OpenFails(i) \/ Check(i)
            \/ Truncate(i) \/ Write(i) \/ WriteFails(i)
            \/ Prepare(i) \/ Bind(i) \/ BindFails(i)
            \/ Close(i) \/ FreeScripts(i) \/ Unlink(i) \/ Kill(i) \/ ChildrenEnd(i)
      BY <2>3 DEF Next
    <3>2. CASE i # j
      <4>1. UNCHANGED <<pc[j], daemon[j], seen[j], fd[j]>>
        BY <3>1, <3>2, OwnSteps DEF IInv
      <4>2. UNCHANGED file \/ Touch(i)
        BY <3>1, FileSteps
      <4> QED BY <1>3, <2>1, <3>2, <4>1, <4>2, OthersSteps DEF IInv
    <3>3. CASE i = j
      BY <2>1, <3>1, <3>3, BeforeTheFile, LstatTrusted, CreateTrusted, OpenTrusted,
         OpenFailsNever, CheckTrusted, TruncateTrusted, WriteTrusted, AfterTheFile,
         UnlinkTrusted DEF IInv
    <3> QED BY <3>2, <3>3
  <2> QED BY <2>2, <2>3
<1> QED BY <1>1, <1>2, <1>3 DEF IInv

LEMMA Invariance == Spec => []IInv
BY InitIInv, StepIInv, PTL DEF Spec

(* From when a daemon has written the pid file until it removes it, the    *)
(* file holds the digits of the grandchild's pid and nothing else, unless  *)
(* another instance touched it meanwhile.                                  *)
THEOREM DaemonNamed == Spec => []DaemonIsNamed
<1>1. IInv => DaemonIsNamed
  BY DEF IInv, Trusted, Opened, Named, Written, DaemonIsNamed
<1> QED BY <1>1, Invariance, PTL

(* No start ends with the alarm about the pid file unless another instance *)
(* touched the file after this one's first look at it.                     *)
THEOREM NoAlarmWithoutCause == Spec => []NoFalseAlarm
<1>1. IInv => NoFalseAlarm
  BY DEF IInv, Trusted, Unalarmed, NoFalseAlarm
<1> QED BY <1>1, Invariance, PTL
=============================================================================
