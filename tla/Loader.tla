------------------------------- MODULE Loader -------------------------------
(***************************************************************************)
(* The scripts, from the [script] section of the configuration to the end  *)
(* of the master (appserver.cpp): each file is parsed once into a map of   *)
(* states (parser.cpp and parse, verify of every class of states), which   *)
(* the names that stand for the file share, and freed when the master      *)
(* leaves its loop.                                                        *)
(*                                                                         *)
(* A line is a record: what the regular expressions of regexlib.dat find   *)
(* in it.  The file is chosen while it is read.                            *)
(***************************************************************************)
EXTENDS Integers, Sequences, FiniteSets

CONSTANTS
  Name,      \* script names
  File,      \* script files
  EntryPoint,
  Config,    \* [script] sections: script name -> file and entry point
  Line,      \* lines each file can have
  MaxLines,  \* bound: number of lines of each file
  Repeats,   \* bound: how often a line can be repeated in each file
  Smtp       \* what the [smtp] section defines: "server", "from"

ENDSTATE == -1
nullptr == 0

(* What may follow "=" in an assignment, in the order parseAssignment      *)
(* looks for it; a local name can be long or short.                        *)
Tried == <<"local", "global", "prop", "json", "short">>
Term == [k : {"local", "global", "prop", "json", "short", "text", "junk"}, n : Nat]

(* The definitions parse accepts in the states that have some.             *)
Definitions ==
  [end |-> {"data"}, file |-> {"file", "data"}, regex |-> {"regex", "match"},
   query |-> {"db", "query"}, match |-> {"match", "case"}, goto |-> {},
   http |-> {"url", "ucertenc", "pkeyenc", "outputvar", "option"},
   mail |-> {"from", "to", "subject", "attach", "data", "option"},
   shell |-> {"shell", "outputvar"}, structure |-> {"format", "match"}]
Swallowing == {"sms", "script"}  \* whose parse returns 0 for every line
Kind == DOMAIN Definitions \cup Swallowing
Assigning == {"regex", "query", "goto", "structure"}

(* ok says whether the value of a definition is usable.                    *)
Fields == UNION {Definitions[k] : k \in DOMAIN Definitions}
LineOK(l) ==
  CASE l.word = "header" -> l.kind \in Kind /\ l.n \in Nat
    [] l.word \in {"done", "error"} -> l.n \in Nat
    [] l.word = "define" -> l.field \in Fields /\ l.ok \in BOOLEAN
    [] l.word = "assign" -> /\ l.to \in Term /\ l.to.k \in {"local", "global", "short"}
                            /\ l.from \in Seq(Term) /\ l.from # <<>>
                            /\ l.from = <<l.from[1]>> \/ l.from[1].k # "text"
    [] OTHER -> l.word \in {"blank", "logprefix", "endstate", "junk"}

ASSUME ConfigAssumption == \A c \in Config :
  DOMAIN c \subseteq Name /\ c \in [DOMAIN c -> File \X EntryPoint]
ASSUME LineAssumption == \A f \in File : \A l \in Line[f] : LineOK(l)
ASSUME BoundAssumption == MaxLines \in [File -> Nat] /\ Repeats \in [File -> Nat]
ASSUME SmtpAssumption == Smtp \subseteq {"server", "from"}

VARIABLES
  phase,             \* place of main()
  config,            \* the [script] section
  left,              \* names the loop over the section, or of freeAllScripts, has left
  allScripts, allScriptsByFile,  \* pointers to maps of states
  scriptEntries,
  heap,              \* the maps of states allocated so far
  freed,             \* those that were deleted
  name,              \* script name whose file is read
  st,                \* the open state, if any
  text,              \* lines read from the file
  written            \* history: the states each file was seen to write

maps == <<allScripts, allScriptsByFile, scriptEntries, written>>
memory == <<heap, freed>>
vars == <<phase, config, left, maps, memory, name, st, text>>

Empty == [x \in {} |-> nullptr]
NoState == [kind |-> "none"]
Put(f, x, v) == [y \in DOMAIN f \cup {x} |-> IF y = x THEN v ELSE f[y]]

Init ==
  /\ phase = "config"
  /\ config \in Config
  /\ left = DOMAIN config
  /\ allScripts = Empty /\ allScriptsByFile = Empty /\ scriptEntries = Empty
  /\ heap = <<>> /\ freed = {}
  /\ name = CHOOSE n \in Name : TRUE
  /\ st = NoState
  /\ text = <<>> /\ written = Empty

file == config[name][1]
in_stateblock == st # NoState
sm == heap[Len(heap)]

-----------------------------------------------------------------------------
(* The constructors and verify of the classes of states.                   *)
NewState(kind, n) ==
  [kind |-> kind, number |-> n, done |-> ENDSTATE, error |-> ENDSTATE,
   fields |-> IF kind = "http" THEN {"ucertenc", "pkeyenc"}
              ELSE IF kind = "mail" THEN Smtp \cap {"server"} ELSE {},
   assignments |-> <<>>]

Required ==
  [end |-> {}, file |-> {"file"}, regex |-> {"regex", "match"}, query |-> {"db", "query"},
   match |-> {"match", "case"}, goto |-> {},
   http |-> {"url", "ucertenc", "pkeyenc", "outputvar"},
   mail |-> {"server", "from", "to", "subject", "data"},
   shell |-> {"shell", "outputvar"}, structure |-> {"format", "match"},
   sms |-> {}, script |-> {}]

verify(s) ==
  /\ Required[s.kind] \subseteq s.fields
  /\ CASE s.kind = "end" -> s.done = ENDSTATE /\ s.error = ENDSTATE
       [] s.kind = "goto" -> s.done > 0
       [] s.kind = "shell" -> s.done > 0 /\ s.error > 0
       [] OTHER -> s.done > 0 /\ s.error > 0 /\ s.done # s.error

(* verify completes a goto state. *)
Verified(s) ==
  IF s.kind = "goto" /\ s.error = 0 THEN [s EXCEPT !.error = s.done] ELSE s

-----------------------------------------------------------------------------
(* parseAssignment. Its expressions are not anchored: each looks for its   *)
(* kind of variable anywhere in the rest of the line, and what comes       *)
(* before the one found is skipped.                                        *)
Rank(t) == IF \E r \in DOMAIN Tried : Tried[r] = t.k
           THEN CHOOSE r \in DOMAIN Tried : Tried[r] = t.k ELSE Len(Tried) + 1
Parseable(t) == Rank(t) <= Len(Tried)

Before(ts, i, j) == Rank(ts[i]) < Rank(ts[j]) \/ (Rank(ts[i]) = Rank(ts[j]) /\ i <= j)
FirstFound(ts) == CHOOSE i \in DOMAIN ts : \A j \in DOMAIN ts : Before(ts, i, j)

(* The variables found, and what remains when none is. *)
Alternatives[ts \in Seq(Term)] ==
  IF \A i \in DOMAIN ts : ~Parseable(ts[i]) THEN ts
  ELSE <<ts[FirstFound(ts)]>> \o Alternatives[SubSeq(ts, FirstFound(ts) + 1, Len(ts))]

Assignable(ts) ==
  ts[1].k = "text" \/ \A i \in DOMAIN Alternatives[ts] : Parseable(Alternatives[ts][i])

(* prependState: a short name is a variable of its own state. *)
Long(t, n) == IF t.k = "short" THEN [k |-> "local", n |-> n] ELSE t

(* Seeded fault: the alternatives after the first are not read. *)
parseFirst(l, n) ==
  [to |-> Long(l.to, n), from |-> <<Long(Alternatives[l.from][1], n)>>]

parseAssignment(l, n) ==
  [to |-> Long(l.to, n),
   from |-> [i \in DOMAIN Alternatives[l.from] |-> Long(Alternatives[l.from][i], n)]]

-----------------------------------------------------------------------------
(* CState::parse. A database section that is missing ends the process, a   *)
(* bad regular expression is an exception; a url or an encoding is judged  *)
(* by verify. An attachment's name is stored as the subject, too.          *)
Judged == {"url", "ucertenc", "pkeyenc"}

Parses(s, l) ==
  \/ s.kind \in Swallowing
  \/ /\ s.kind \notin Swallowing /\ l.word = "define"
     /\ l.field \in Definitions[s.kind] /\ (l.ok \/ l.field \in Judged)
  \/ s.kind \in Assigning /\ l.word = "assign" /\ Assignable(l.from)

Sets(s, l) ==
  {l.field} \cup (IF l.field = "attach" THEN {"subject"} ELSE {})
            \cup (IF s.kind = "mail" THEN Smtp \cap {"from"} ELSE {})

parse(s, l) ==
  IF s.kind \in Swallowing THEN s
  ELSE IF l.word = "assign"
  THEN [s EXCEPT !.assignments = Append(@, parseAssignment(l, s.number))]
  ELSE [s EXCEPT !.fields = IF l.ok THEN @ \cup Sets(s, l) ELSE @ \ {l.field}]

-----------------------------------------------------------------------------
(* What the lines t of a file mean: its blocks, each from the first line   *)
(* that is not blank after the last block to the next endstate.            *)
Opens(t, i) ==
  /\ t[i].word = "header"
  /\ \A j \in 1 .. i - 1 :
       t[j].word = "blank" \/ \E k \in j .. i - 1 : t[k].word = "endstate"
Ends(t, i) == {k \in i .. Len(t) : t[k].word = "endstate"}
Block(t, i) == i .. (CHOOSE k \in Ends(t, i) : \A j \in Ends(t, i) : k <= j)
Blocks(t) == {i \in DOMAIN t : Opens(t, i) /\ Ends(t, i) # {}}

-----------------------------------------------------------------------------
(* main: the loop over the [script] section. *)

(* An entry without ":", with an entry point that is no number, or a file  *)
(* that cannot be opened.                                                  *)
BadEntry ==
  /\ phase = "config" /\ left # {}
  /\ phase' = "failed"
  /\ UNCHANGED <<config, left, maps, memory, name, st, text>>

NextEntry(n) ==
  /\ phase = "config" /\ n \in left
  /\ left' = left \ {n}
  /\ scriptEntries' = Put(scriptEntries, n, config[n][2])
  /\ UNCHANGED <<config, freed, st, text, written>>

(* The file is known under another name. *)
ShareFile(n) ==
  /\ NextEntry(n)
  /\ config[n][1] \in DOMAIN allScriptsByFile
  /\ allScripts' = Put(allScripts, n, allScriptsByFile[config[n][1]])
  /\ UNCHANGED <<phase, allScriptsByFile, heap, name>>

OpenFile(n) ==
  /\ NextEntry(n)
  /\ config[n][1] \notin DOMAIN allScriptsByFile
  /\ phase' = "parse"
  /\ name' = n
  /\ heap' = Append(heap, Empty)
  /\ UNCHANGED <<allScripts, allScriptsByFile>>

(* The section is read: the server runs if it has something to run. *)
Start ==
  /\ phase = "config" /\ left = {}
  /\ phase' = IF allScripts = Empty THEN "failed" ELSE "running"
  /\ UNCHANGED <<config, left, maps, memory, name, st, text>>

-----------------------------------------------------------------------------
(* parseScript, line by line. *)
Read(l) ==
  /\ phase = "parse" /\ Len(text) < MaxLines[file]
  /\ Cardinality({i \in DOMAIN text : text[i] = l}) <= Repeats[file]
  /\ UNCHANGED <<config, left, maps, freed, name>>

Take(l) == Read(l) /\ text' = Append(text, l)

(* Empty lines, comments; a log prefix only within a state. *)
SkipLine(l) ==
  /\ Take(l)
  /\ l.word = "blank" \/ (l.word = "logprefix" /\ in_stateblock)
  /\ UNCHANGED <<phase, heap, st>>

BeginState(l) ==
  /\ Take(l)
  /\ ~in_stateblock /\ l.word = "header"
  /\ st' = NewState(l.kind, l.n)
  /\ UNCHANGED <<phase, heap>>

SetTarget(l) ==
  /\ Take(l)
  /\ in_stateblock /\ l.word \in {"done", "error"}
  /\ st' = IF l.word = "done" THEN [st EXCEPT !.done = l.n] ELSE [st EXCEPT !.error = l.n]
  /\ UNCHANGED <<phase, heap>>

ParseLine(l) ==
  /\ Take(l)
  /\ in_stateblock /\ l.word \in {"header", "define", "assign", "junk"}
  /\ Parses(st, l)
  /\ st' = parse(st, l)
  /\ UNCHANGED <<phase, heap>>

(* Seeded fault: a duplicate number is not noticed, and insert keeps the first. *)
EndStateUnchecked(l) ==
  /\ Take(l)
  /\ in_stateblock /\ l.word = "endstate"
  /\ verify(st)
  /\ heap' = IF st.number \in DOMAIN sm THEN heap
             ELSE [heap EXCEPT ![Len(heap)] = Put(sm, st.number, Verified(st))]
  /\ st' = NoState
  /\ UNCHANGED phase

EndState(l) ==
  /\ Take(l)
  /\ in_stateblock /\ l.word = "endstate"
  /\ verify(st) /\ st.number \notin DOMAIN sm
  /\ heap' = [heap EXCEPT ![Len(heap)] = Put(sm, st.number, Verified(st))]
  /\ st' = NoState
  /\ UNCHANGED phase

(* parser_error or another exception ends the program: a line that does    *)
(* not belong where it is, a state that is invalid or not the first of its *)
(* number.                                                                 *)
RejectLine(l) ==
  /\ Read(l)
  /\ \/ ~in_stateblock /\ l.word \notin {"blank", "header"}
     \/ /\ in_stateblock /\ l.word = "endstate"
        /\ ~verify(st) \/ st.number \in DOMAIN sm
     \/ /\ in_stateblock /\ l.word \in {"header", "define", "assign", "junk"}
        /\ ~Parses(st, l)
  /\ phase' = "failed" /\ text' = <<>> /\ st' = NoState
  /\ UNCHANGED heap

(* Seeded fault: the map is not stored under the file's name. *)
EndOfFileUnshared ==
  /\ phase = "parse" /\ ~in_stateblock
  /\ phase' = "config"
  /\ allScripts' = Put(allScripts, name, IF sm = Empty THEN nullptr ELSE Len(heap))
  /\ freed' = IF sm = Empty THEN freed \cup {Len(heap)} ELSE freed
  /\ written' = Put(written, file, {text[i].n : i \in Blocks(text)})
  /\ text' = <<>>
  /\ UNCHANGED <<config, left, allScriptsByFile, scriptEntries, heap, name, st>>

(* A state must be finished; a file without states has no map. *)
EndOfFile ==
  /\ phase = "parse"
  /\ IF in_stateblock
     THEN phase' = "failed" /\ UNCHANGED <<allScripts, allScriptsByFile, freed, written>>
     ELSE LET map == IF sm = Empty THEN nullptr ELSE Len(heap)
          IN  /\ phase' = "config"
              /\ allScripts' = Put(allScripts, name, map)
              /\ allScriptsByFile' = Put(allScriptsByFile, file, map)
              /\ freed' = IF sm = Empty THEN freed \cup {Len(heap)} ELSE freed
              /\ written' = Put(written, file, {text[i].n : i \in Blocks(text)})
  /\ text' = <<>> /\ st' = NoState
  /\ UNCHANGED <<config, left, scriptEntries, heap, name>>

-----------------------------------------------------------------------------
(* runPreforked returns, or has ended the process with log_error. *)
PoolEnds ==
  /\ phase = "running"
  /\ \/ phase' = "free" /\ left' = DOMAIN allScripts
     \/ phase' = "failed" /\ UNCHANGED left
  /\ UNCHANGED <<config, maps, memory, name, st, text>>

(* Seeded faults: a null pointer is deleted; only the states are, not the map.    *)
FreeUnchecked(n) ==
  /\ phase = "free" /\ n \in left
  /\ freed' = freed \cup {allScripts[n]}
  /\ left' = left \ {n}
  /\ UNCHANGED <<phase, config, maps, heap, name, st, text>>
FreeStates(n) ==
  /\ phase = "free" /\ n \in left
  /\ allScripts[n] # nullptr
  /\ left' = left \ {n}
  /\ UNCHANGED <<phase, config, maps, memory, name, st, text>>

(* freeAllScripts: the map of one name and its states.                     *)
FreeScript(n) ==
  /\ phase = "free" /\ n \in left
  /\ allScripts[n] # nullptr /\ allScripts[n] \notin freed
  /\ freed' = freed \cup {allScripts[n]}
  /\ left' = left \ {n}
  /\ UNCHANGED <<phase, config, maps, heap, name, st, text>>

(* There is no map to iterate over. *)
FreeNothing(n) ==
  /\ phase = "free" /\ n \in left
  /\ allScripts[n] = nullptr
  /\ phase' = "crashed"
  /\ UNCHANGED <<config, left, maps, memory, name, st, text>>

(* The states of a map that was deleted are deleted again: undefined.      *)
FreeAgain(n) ==
  /\ phase = "free" /\ n \in left
  /\ allScripts[n] \in freed
  /\ \/ phase' = "crashed" /\ left' = left
     \/ phase' = "free" /\ left' = left \ {n}
  /\ UNCHANGED <<config, maps, memory, name, st, text>>

Stop ==
  /\ phase = "free" /\ left = {}
  /\ phase' = "stopped"
  /\ UNCHANGED <<config, left, maps, memory, name, st, text>>

-----------------------------------------------------------------------------
ReadLine(l) ==
  SkipLine(l) \/ BeginState(l) \/ SetTarget(l) \/ ParseLine(l) \/ EndState(l) \/ RejectLine(l)

Next ==
  \/ \E n \in Name : ShareFile(n) \/ OpenFile(n)
  \/ BadEntry \/ Start
  \/ phase = "parse" /\ \E l \in Line[file] : ReadLine(l)
  \/ EndOfFile
  \/ PoolEnds
  \/ \E n \in Name : FreeScript(n) \/ FreeNothing(n) \/ FreeAgain(n)
  \/ Stop

Spec == Init /\ [][Next]_vars

-----------------------------------------------------------------------------
Assignment == [to : Term, from : Seq(Term) \ {<<>>}]
State ==
  [kind : Kind, number : Nat, done : Nat \cup {ENDSTATE}, error : Nat \cup {ENDSTATE},
   fields : SUBSET (Fields \cup Smtp), assignments : Seq(Assignment)]

(* Types: pointers point to what was allocated, an assignment has a value, *)
(* and only while a file is read there are lines of it and an open state.  *)
TypeOK ==
  /\ phase \in {"config", "parse", "running", "free", "stopped", "failed", "crashed"}
  /\ config \in [DOMAIN config -> File \X EntryPoint]
  /\ left \subseteq DOMAIN config
  /\ \A n \in DOMAIN allScripts : n \in DOMAIN config /\ allScripts[n] \in 0 .. Len(heap)
  /\ \A f \in DOMAIN allScriptsByFile : f \in File /\ allScriptsByFile[f] \in 0 .. Len(heap)
  /\ \A n \in DOMAIN scriptEntries : n \in DOMAIN config /\ scriptEntries[n] \in EntryPoint
  /\ \A m \in DOMAIN heap : \A k \in DOMAIN heap[m] : heap[m][k] \in State
  /\ freed \subseteq DOMAIN heap
  /\ \A f \in DOMAIN written : f \in File /\ written[f] \subseteq Nat
  /\ IF phase = "parse"
     THEN name \in DOMAIN config /\ text \in Seq(Line[file]) /\ st \in State \cup {NoState}
     ELSE text = <<>> /\ st = NoState

(* What the lines of a block say: a target, a definition.                  *)
Target(t, word, lines) ==
  LET found == {k \in lines : t[k].word = word}
  IN  IF found = {} THEN ENDSTATE ELSE t[CHOOSE k \in found : \A j \in found : j <= k].n
Defines(l, f) == l.word = "define" /\ l.field = f
Given(t, f, kind, lines) ==
  /\ f \in NewState(kind, 0).fields \cup Smtp \/ \E k \in lines : Defines(t[k], f)
  /\ \A k \in lines : Defines(t[k], f) /\ ~t[k].ok => \E j \in lines : j > k /\ Defines(t[j], f)

(* Two things are left open here, for the comments of cstate.hpp (139,     *)
(* 252) and the code differ on them: whether an attachment can stand for   *)
(* the subject of a mail, and whether a goto state that names no error     *)
(* target has its done target for one, or none.                            *)
Supplied(t, f, kind, lines) ==
  \/ Given(t, f, kind, lines)
  \/ f = "subject" /\ \E k \in lines : Defines(t[k], "attach")
NoErrorTarget(t, kind, lines) == kind = "goto" /\ Target(t, "error", lines) \in {ENDSTATE, 0}

(* While a file is read, its map has one state for every block read so     *)
(* far, with the last targets and all the mandatory definitions of that    *)
(* block and of no other; and only an sms or a script state can hide the   *)
(* beginning of another state.                                             *)
LoadsWhatIsWritten ==
  phase = "parse" =>
    /\ DOMAIN sm = {text[i].n : i \in Blocks(text)}
    /\ \A i \in Blocks(text) :
         LET s == sm[text[i].n]
             lines == Block(text, i) IN
         /\ s.kind = text[i].kind /\ s.number = text[i].n
         /\ s.done = Target(text, "done", lines)
         /\ \/ s.error = Target(text, "error", lines)
            \/ NoErrorTarget(text, s.kind, lines) /\ s.error = s.done
         /\ \A f \in Required[s.kind] : Supplied(text, f, s.kind, lines)
         /\ s.kind \notin Swallowing => \A k \in lines : text[k].word = "header" => k = i

(* The block that is open, its assignments, and how one of them is written *)
(* with long names; line[q] is where the q-th is.                          *)
OpenBlock(t) == CHOOSE i \in DOMAIN t : Opens(t, i) /\ Ends(t, i) = {}
AssignmentLines(t, i) == {k \in i .. Len(t) : t[k].word = "assign"}
InSequence(places, n) ==
  {line \in [1 .. n -> places] :
     /\ \A p, q \in 1 .. n : p < q => line[p] < line[q]
     /\ \A k \in places : \E q \in 1 .. n : line[q] = k}
Written(l, n) ==
  [to |-> Long(l.to, n), from |-> [j \in DOMAIN l.from |-> Long(l.from[j], n)]]
InOrder(ts) == \A i, j \in DOMAIN ts : i < j => Rank(ts[i]) <= Rank(ts[j])

(* A state under construction has the assignments of its lines, in their   *)
(* order, and of each the alternatives that are written, in their order,   *)
(* as long as that is the order in which the parser looks for their kinds. *)
AlternativesKept ==
  phase = "parse" /\ in_stateblock /\ st.kind \in Assigning =>
    LET i == OpenBlock(text) IN
    \E line \in InSequence(AssignmentLines(text, i), Len(st.assignments)) :
      \A q \in DOMAIN st.assignments :
        InOrder(text[line[q]].from) => st.assignments[q] = Written(text[line[q]], text[i].n)

(* When the pool starts, the dispatcher finds for every configured name an *)
(* entry point and a map with just the states that the name's file has     *)
(* written, each verified and under its number; names share a map if and   *)
(* only if they share a file, and no map is lost. Only a file that has     *)
(* written no state may leave a null pointer instead, as it does: that the *)
(* dispatcher has a map to look at (preforked.cpp:269) is not promised.    *)
ScriptsReady ==
  phase = "running" =>
    /\ DOMAIN allScripts = DOMAIN config /\ DOMAIN scriptEntries = DOMAIN config
    /\ \A n \in DOMAIN config :
         LET states == written[config[n][1]] IN
         \/ states = {} /\ allScripts[n] = nullptr
         \/ /\ allScripts[n] \in DOMAIN heap \ freed
            /\ DOMAIN heap[allScripts[n]] = states
            /\ \A k \in states :
                 LET s == heap[allScripts[n]][k] IN verify(s) /\ s.number = k
    /\ \A n, m \in DOMAIN config :
         allScripts[n] # nullptr =>
           (allScripts[n] = allScripts[m] <=> config[n][1] = config[m][1])
    /\ \A m \in DOMAIN heap \ freed : \E n \in DOMAIN config : allScripts[n] = m

(* The end is clean, every map deleted and none twice, if every file has   *)
(* one name and at least one state.                                        *)
OneNameEach ==
  \A n, m \in DOMAIN allScripts :
    allScripts[n] # nullptr /\ (allScripts[n] = allScripts[m] => n = m)
StopIsClean ==
  /\ OneNameEach => phase # "crashed"
  /\ phase = "stopped" => freed = DOMAIN heap

=============================================================================
