------------------------------- MODULE Server -------------------------------
(***************************************************************************)
(* The life of the program from its command line to its exit              *)
(* (appserver.cpp main, utils.cpp daemonize and write_pid, the beginning   *)
(* and the end of preforked.cpp runPreforked): what is read first, who is  *)
(* the daemon, the pid file, the lock files and the socket.  Several       *)
(* instances are started, with the same pid file and socket, while others  *)
(* run, fail, stop or are killed; each system call that touches the pid    *)
(* file is a step of its own.                                              *)
(***************************************************************************)
EXTENDS Integers, Sequences

CONSTANTS
  Instance,   \* runs of the program
  pid,        \* <<instance, generation>> -> digits of the process's pid
  Sharing,    \* those with two names of the [script] section for one file
  NoFile

(* The process of the command line, its child and its grandchild. *)
Generation == 0 .. 2
Digits == Seq(0 .. 9)

ASSUME PidAssumption ==
  /\ DOMAIN pid = Instance \X Generation
  /\ \A p \in DOMAIN pid : pid[p] \in Digits /\ pid[p] # <<>>
  /\ \A p, q \in DOMAIN pid : pid[p] = pid[q] => p = q
ASSUME SharingAssumption == Sharing \subseteq Instance

VARIABLES
  pc,         \* where main is
  daemon,     \* daemon_mode
  generation, \* how often it has forked
  seen,       \* lstatInfo: the file that was there
  fd,         \* the pid file it has open
  path,       \* the file that has the pid file's name
  content,    \* of the files that had the name, by who created them
  locks,      \* instances whose lock files exist
  listening,  \* instances of which some process has the socket open
  disturbed   \* instances whose pid file another one changed (history)

file == <<path, content, disturbed>>
vars == <<pc, daemon, generation, seen, fd, file, locks, listening>>

Alive == {"load", "loaded", "lstat", "open", "check", "truncate", "write", "prepare",
          "bind", "serving", "closed", "unlink"}
Ended == {"left", "alarmed", "failed", "aborted", "killed", "ended"}

(* A file nobody here has created: what an earlier run has left. *)
Stale == "stale"
File == Instance \cup {Stale}
ASSUME NoFileAssumption == NoFile \notin File

Init ==
  /\ pc = [i \in Instance |-> "load"]
  /\ daemon = [i \in Instance |-> FALSE]
  /\ generation = [i \in Instance |-> 0]
  /\ seen = [i \in Instance |-> NoFile] /\ fd = [i \in Instance |-> NoFile]
  /\ path \in {NoFile, Stale}
  /\ content \in {[f \in File |-> <<>>], [f \in File |-> IF f = Stale THEN <<9, 9, 9>> ELSE <<>>]}
  /\ locks = {} /\ listening = {} /\ disturbed = {}

GoTo(i, s) == pc' = [pc EXCEPT ![i] = s]

(* From its first look at the pid file until its end an instance relies on *)
(* it; another one that changes it disturbs it.                            *)
Relying == {i \in Instance : pc[i] \in Alive \ {"load", "loaded"}}
Touch(i) == disturbed' = disturbed \cup (Relying \ {i})

-----------------------------------------------------------------------------
(* --help, --version; a bad option, configuration, regular expression or   *)
(* script: nothing has been touched.                                       *)
LeaveEarly(i) ==
  /\ pc[i] = "load" /\ GoTo(i, "left")
  /\ UNCHANGED <<daemon, generation, seen, fd, file, locks, listening>>

Load(i) ==
  /\ pc[i] = "load" /\ GoTo(i, "loaded")
  /\ \E d \in BOOLEAN : daemon' = [daemon EXCEPT ![i] = d]
  /\ UNCHANGED <<generation, seen, fd, file, locks, listening>>

(* Seeded fault: nothing tells the grandchild from the others. *)
ForkAlways(i) ==
  /\ pc[i] = "loaded" /\ daemon[i]
  /\ generation' = [generation EXCEPT ![i] = @ + 1]
  /\ UNCHANGED <<pc, daemon, seen, fd, file, locks, listening>>

(* daemonize: the child goes on; the command line gets status 0. *)
Fork(i) ==
  /\ pc[i] = "loaded" /\ daemon[i] /\ generation[i] < 2
  /\ generation' = [generation EXCEPT ![i] = @ + 1]
  /\ UNCHANGED <<pc, daemon, seen, fd, file, locks, listening>>

Daemonized(i) ==
  /\ pc[i] = "loaded" /\ (daemon[i] => generation[i] = 2)
  /\ GoTo(i, IF daemon[i] THEN "lstat" ELSE "prepare")
  /\ UNCHANGED <<daemon, generation, seen, fd, file, locks, listening>>

-----------------------------------------------------------------------------
(* write_pid *)
Lstat(i) ==
  /\ pc[i] = "lstat"
  /\ seen' = [seen EXCEPT ![i] = path]
  /\ GoTo(i, "open")
  /\ UNCHANGED <<daemon, generation, fd, file, locks, listening>>

(* O_CREAT | O_EXCL *)
Create(i) ==
  /\ pc[i] = "open" /\ seen[i] = NoFile /\ path = NoFile
  /\ path' = i /\ fd' = [fd EXCEPT ![i] = i]
  /\ content' = [content EXCEPT ![i] = <<>>]
  /\ Touch(i)
  /\ GoTo(i, "truncate")
  /\ UNCHANGED <<daemon, generation, seen, locks, listening>>

Open(i) ==
  /\ pc[i] = "open" /\ seen[i] # NoFile /\ path # NoFile
  /\ fd' = [fd EXCEPT ![i] = path]
  /\ GoTo(i, "check")
  /\ UNCHANGED <<daemon, generation, seen, file, locks, listening>>

(* Seeded fault: no file is opened that exists. *)
OpenExclusive(i) ==
  /\ pc[i] = "open" /\ path # NoFile
  /\ GoTo(i, "alarmed")
  /\ UNCHANGED <<daemon, generation, seen, fd, file, locks, listening>>

(* The file was there and is gone, or was not and is. *)
OpenFails(i) ==
  /\ pc[i] = "open" /\ (seen[i] = NoFile) # (path = NoFile)
  /\ GoTo(i, "alarmed")
  /\ UNCHANGED <<daemon, generation, seen, fd, file, locks, listening>>

(* "changed, possible race attack" *)
Check(i) ==
  /\ pc[i] = "check"
  /\ GoTo(i, IF fd[i] = seen[i] THEN "truncate" ELSE "alarmed")
  /\ UNCHANGED <<daemon, generation, seen, fd, file, locks, listening>>

(* Seeded fault: no ftruncate. *)
KeepContent(i) ==
  /\ pc[i] = "truncate" /\ GoTo(i, "write")
  /\ UNCHANGED <<daemon, generation, seen, fd, file, locks, listening>>

Truncate(i) ==
  /\ pc[i] = "truncate"
  /\ content' = [content EXCEPT ![fd[i]] = <<>>]
  /\ Touch(i)
  /\ GoTo(i, "write")
  /\ UNCHANGED <<daemon, generation, seen, fd, path, locks, listening>>

(* Written at the beginning of the file: what is longer stays behind it. *)
Overlay(old, new) == new \o SubSeq(old, Len(new) + 1, Len(old))

Write(i) ==
  /\ pc[i] = "write"
  /\ content' = [content EXCEPT ![fd[i]] = Overlay(@, pid[i, generation[i]])]
  /\ Touch(i)
  /\ GoTo(i, "prepare")
  /\ UNCHANGED <<daemon, generation, seen, fd, path, locks, listening>>

(* The disk is full. *)
WriteFails(i) ==
  /\ pc[i] = "write" /\ GoTo(i, "failed")
  /\ UNCHANGED <<daemon, generation, seen, fd, file, locks, listening>>

-----------------------------------------------------------------------------
(* runPreforked: handlers, lock files, the table, the socket. *)
Prepare(i) ==
  /\ pc[i] = "prepare"
  /\ locks' = locks \cup {i}
  /\ GoTo(i, "bind")
  /\ UNCHANGED <<daemon, generation, seen, fd, file, listening>>

Bind(i) ==
  /\ pc[i] = "bind" /\ listening = {}
  /\ listening' = {i}
  /\ GoTo(i, "serving")
  /\ UNCHANGED <<daemon, generation, seen, fd, file, locks>>

(* log_error ends the process as it is. *)
BindFails(i) ==
  /\ pc[i] = "bind" /\ listening # {}
  /\ GoTo(i, "failed")
  /\ UNCHANGED <<daemon, generation, seen, fd, file, locks, listening>>

(* The pool has stopped: socket and lock files go. *)
Close(i) ==
  /\ pc[i] = "serving"
  /\ listening' = listening \ {i} /\ locks' = locks \ {i}
  /\ GoTo(i, "closed")
  /\ UNCHANGED <<daemon, generation, seen, fd, file>>

(* Maps that two names share are freed twice, which may be survived. *)
FreeScripts(i) ==
  /\ pc[i] = "closed"
  /\ \/ GoTo(i, "unlink")
     \/ i \in Sharing /\ GoTo(i, "aborted")
  /\ UNCHANGED <<daemon, generation, seen, fd, file, locks, listening>>

(* In either mode, whatever has the name. *)
Unlink(i) ==
  /\ pc[i] = "unlink"
  /\ path' = NoFile /\ UNCHANGED content
  /\ Touch(i)
  /\ GoTo(i, "ended")
  /\ UNCHANGED <<daemon, generation, seen, fd, locks, listening>>

(* A killed master leaves its children, and with them the socket. *)
Kill(i) ==
  /\ pc[i] \in Alive \ {"load"} /\ GoTo(i, "killed")
  /\ UNCHANGED <<daemon, generation, seen, fd, file, locks, listening>>

ChildrenEnd(i) ==
  /\ i \in listening /\ pc[i] = "killed"
  /\ listening' = listening \ {i}
  /\ UNCHANGED <<pc, daemon, generation, seen, fd, file, locks>>

Next ==
  \E i \in Instance :
    \/ LeaveEarly(i) \/ Load(i) \/ Fork(i) \/ Daemonized(i)
    \/ Lstat(i) \/ Create(i) \/ Open(i) \/ OpenFails(i) \/ Check(i)
    \/ Truncate(i) \/ Write(i) \/ WriteFails(i)
    \/ Prepare(i) \/ Bind(i) \/ BindFails(i)
    \/ Close(i) \/ FreeScripts(i) \/ Unlink(i) \/ Kill(i) \/ ChildrenEnd(i)

Spec == Init /\ [][Next]_vars

-----------------------------------------------------------------------------
(* Every variable has its type. *)
TypeOK ==
  /\ pc \in [Instance -> Alive \cup Ended]
  /\ daemon \in [Instance -> BOOLEAN]
  /\ generation \in [Instance -> Generation]
  /\ seen \in [Instance -> File \cup {NoFile}] /\ fd \in [Instance -> File \cup {NoFile}]
  /\ path \in File \cup {NoFile}
  /\ content \in [File -> Digits]
  /\ locks \subseteq Instance /\ listening \subseteq Instance /\ disturbed \subseteq Instance

(* From when it has written it until it removes it, the pid file names the *)
(* daemon, the process that is left of the three, and nothing else is in   *)
(* it, whatever an earlier run has left in it; unless another instance     *)
(* meddled.                                                                *)
DaemonIsNamed ==
  \A i \in Instance :
    /\ daemon[i] /\ i \notin disturbed
    /\ pc[i] \in {"prepare", "bind", "serving", "closed", "unlink"}
    => path = fd[i] /\ content[fd[i]] = pid[i, 2]

(* The start ends with an alarm only if another instance did something to  *)
(* the pid file meanwhile: no file that is left over from a crash keeps    *)
(* the server from being started again.                                    *)
NoFalseAlarm == \A i \in Instance : pc[i] = "alarmed" => i \in disturbed
=============================================================================
