---------------------------- MODULE Interpreter ----------------------------
(***************************************************************************)
(* A child's request loop and the interpreter of scripts: the parameters   *)
(* of a request become variables of state 0, then one state after another  *)
(* is executed until ENDSTATE is returned (preforked.cpp, *state.cpp,      *)
(* cassigner.cpp).  Every access to memcached, which the children share,   *)
(* is a step of its own; what a child does between two of them is not      *)
(* visible to the others.                                                  *)
(*                                                                         *)
(* A value is abstracted to the set of sources it was made from, and a     *)
(* char* that may be nullptr to a set of at most one value.                *)
(***************************************************************************)
EXTENDS Integers, Sequences

CONSTANTS
  Child,            \* the children that serve requests
  Local,            \* names of local variables, "@<state>.<name>"
  Param,            \* those of state 0 a request can bring
  Global,           \* names of global variables, "&<name>"
  REGMATCH_COUNT,   \* propositional variables of a state
  Script,           \* stateMap_t: state number -> state
  EntryPoint        \* entry points in scriptEntries

ENDSTATE == -1
Kind == {"regex", "match", "structure", "query", "file", "end", "goto",
         "http", "mail", "shell", "sms", "script"}

(* What an expression is made of: variables and strings. *)
Reading == {"local", "global", "prop", "text"}
Reference(r) ==
  /\ r.k \in Reading
  /\ r.k = "local" => r.x \in Local
  /\ r.k = "global" => r.x \in Global
Template(r) == r.k = "template" /\ \A i \in DOMAIN r.refs : Reference(r.refs[i])

(* What the parser lets through. *)
WellFormed(s) ==
  /\ s.kind \in Kind /\ s.done \in Int /\ s.error \in Int /\ s.cases \subseteq Int
  /\ Reference(s.subject) /\ s.subject.k \in {"local", "global"}
  /\ s.output \in Local
  /\ \A i \in DOMAIN s.text : Reference(s.text[i])
  /\ \A i \in DOMAIN s.assignments :
       /\ Reference(s.assignments[i].to) /\ s.assignments[i].to.k \in {"local", "global"}
       /\ \A j \in DOMAIN s.assignments[i].from :
            Reference(s.assignments[i].from[j]) \/ Template(s.assignments[i].from[j])

ASSUME ParamAssumption == Param \subseteq Local
ASSUME CountAssumption == REGMATCH_COUNT \in Nat \ {0}
ASSUME ScriptAssumption == \A n \in DOMAIN Script : n \in Int /\ WellFormed(Script[n])
ASSUME EntryAssumption == EntryPoint \subseteq Int

VARIABLES
  at,       \* where each child is
  val,      \* the value each child has under construction
  table,    \* m_symTable of each child
  foreign,  \* variables of the table whose value is not the table's own
  prop,     \* m_substring, m_qResult, m_pt of the states, per child
  cache     \* the global variables memcached knows

memory == <<table, foreign>>
vars == <<at, val, memory, prop, cache>>

Source == {"own", "old", "shared", "garbage"}
Prop == 0 .. REGMATCH_COUNT - 1
Pc == {"idle", "params", "enter", "text", "assign", "template", "store", "finish", "dead"}

Places == [pc : Pc, state : Int, ai : Nat \ {0}, ri : Nat \ {0}, ti : Nat \ {0}]

NoValue == {}
Unset == [x \in Local |-> NoValue]

(* Only three kinds of states override getPropositional. *)
PropStates == {n \in DOMAIN Script : Script[n].kind \in {"regex", "structure", "query"}}
NoProp == [i \in Prop |-> NoValue]

Place(pc, n) == [pc |-> pc, state |-> n, ai |-> 1, ri |-> 1, ti |-> 1]

Init ==
  /\ at = [c \in Child |-> Place("idle", 0)]
  /\ val = [c \in Child |-> {}]
  /\ table = [c \in Child |-> Unset]
  /\ foreign = [c \in Child |-> {}]
  /\ prop = [c \in Child |-> [n \in PropStates |-> NoProp]]
  /\ cache \in SUBSET Global

State(c) == Script[at[c].state]

(* verify() of a goto state completes it. *)
ErrorState(c) ==
  IF State(c).kind = "goto" /\ State(c).error = 0 THEN State(c).done ELSE State(c).error

AtKind(c, pc, kinds) == at[c].pc = pc /\ at[c].state \in DOMAIN Script /\ State(c).kind \in kinds

-----------------------------------------------------------------------------
(* Steps of a child's program counter. *)
MoveTo(c, place) == at' = [at EXCEPT ![c] = place]
Continue(c, pc) == MoveTo(c, Place(pc, at[c].state))

(* execute() returns n. *)
Return(c, n) ==
  /\ MoveTo(c, IF n = ENDSTATE THEN Place("finish", 0) ELSE Place("enter", n))
  /\ val' = [val EXCEPT ![c] = {}]

(* The process ends and its memory with it. *)
Die(c) ==
  /\ MoveTo(c, Place("dead", 0))
  /\ val' = [val EXCEPT ![c] = {}]
  /\ table' = [table EXCEPT ![c] = Unset]
  /\ foreign' = [foreign EXCEPT ![c] = {}]
  /\ prop' = [prop EXCEPT ![c] = [n \in PropStates |-> NoProp]]

Clear(c, result) == prop' = [prop EXCEPT ![c][at[c].state] = result]

(* What getLocal can return. A value the table does not own has been freed *)
(* or overwritten, or is still there.                                      *)
getLocal(c, x) ==
  {table[c][x]} \cup (IF x \in foreign[c] THEN {{{"garbage"}}} ELSE {})

getPropositional(c, i) ==
  IF at[c].state \in PropStates /\ i \in Prop
  THEN prop[c][at[c].state][i] ELSE NoValue

(* What reading r can return; memcached does not return a value it lost.   *)
Results(c, r) ==
  IF r.k = "local" THEN getLocal(c, r.x)
  ELSE IF r.k = "prop" THEN {getPropositional(c, r.x)}
  ELSE IF r.k = "text" THEN {{{}}}
  ELSE IF r.x \in cache THEN {{{"shared"}}} ELSE {}

(* assignLocal frees the old value. Freeing what malloc did not return is  *)
(* undefined: the allocator aborts, or goes on.                            *)
assignLocal(c, x, v, isForeign) ==
  /\ table' = [table EXCEPT ![c][x] = {v}]
  /\ foreign' = [foreign EXCEPT ![c] = IF isForeign THEN @ \cup {x} ELSE @ \ {x}]

-----------------------------------------------------------------------------
(* A request. What an earlier request has left is "old" from here on. *)
Age(v) == {IF s = "own" THEN "old" ELSE s : s \in v}
Aged(f) == [x \in DOMAIN f |-> {Age(v) : v \in f[x]}]

Accept(c) ==
  /\ at[c].pc = "idle"
  /\ MoveTo(c, Place("params", 0))
  /\ table' = [table EXCEPT ![c] = Aged(@)]
  /\ prop' = [prop EXCEPT ![c] = [n \in PropStates |-> Aged(@[n])]]
  /\ UNCHANGED <<val, foreign, cache>>

(* "nothing to do": answered without a look at the symbol table. *)
NoParameters(c) ==
  /\ at[c].pc = "params"
  /\ MoveTo(c, Place("idle", 0))
  /\ UNCHANGED <<val, memory, prop, cache>>

(* Parameters and CGI environment become variables of state 0. *)
StoreParameters(c) ==
  \E given \in SUBSET Param :
    /\ table' = [table EXCEPT ![c] = [x \in Local |-> IF x \in given THEN {{"own"}} ELSE @[x]]]
    /\ foreign' = [foreign EXCEPT ![c] = @ \ given]

(* No selector among the parameters, or no entry point of that name. *)
NoScript(c) ==
  /\ at[c].pc = "params"
  /\ StoreParameters(c)
  /\ MoveTo(c, Place("finish", 0))
  /\ UNCHANGED <<val, prop, cache>>

StartScript(c) ==
  /\ at[c].pc = "params"
  /\ StoreParameters(c)
  /\ \E n \in EntryPoint : MoveTo(c, Place("enter", n))
  /\ UNCHANGED <<val, prop, cache>>

(* Answered with status 500. *)
NoSuchState(c) ==
  /\ at[c].pc = "enter" /\ at[c].state \notin DOMAIN Script
  /\ MoveTo(c, Place("finish", 0))
  /\ UNCHANGED <<val, memory, prop, cache>>

(* Seeded fault: a request ends without resetTable(). *)
FinishKeepingTable(c) ==
  /\ at[c].pc = "finish"
  /\ MoveTo(c, Place("idle", 0))
  /\ UNCHANGED <<val, memory, prop, cache>>

(* r_finish: resetTable() frees every value of the table. *)
Finish(c) ==
  /\ at[c].pc = "finish"
  /\ MoveTo(c, Place("idle", 0))
  /\ table' = [table EXCEPT ![c] = Unset]
  /\ foreign' = [foreign EXCEPT ![c] = {}]
  /\ UNCHANGED <<val, prop, cache>>

FinishAborted(c) == at[c].pc = "finish" /\ foreign[c] # {} /\ Die(c) /\ UNCHANGED cache

-----------------------------------------------------------------------------
(* States that look at one variable. m_substring is freed first.           *)

(* Seeded fault: one substring more than m_substring has room for. *)
RegexOverrun(c) ==
  /\ AtKind(c, "enter", {"regex"})
  /\ \E v \in Results(c, State(c).subject) :
       \/ Return(c, ErrorState(c)) /\ Clear(c, NoProp)
       \/ /\ v # NoValue
          /\ Clear(c, [i \in 0 .. REGMATCH_COUNT |-> v])
          /\ Continue(c, "assign") /\ UNCHANGED val
  /\ UNCHANGED <<memory, cache>>

(* Seeded fault: substrings of an earlier run stay. *)
RegexStale(c) ==
  /\ AtKind(c, "enter", {"regex"})
  /\ \E v \in Results(c, State(c).subject) :
       \/ Return(c, ErrorState(c)) /\ UNCHANGED prop
       \/ \E groups \in 1 .. REGMATCH_COUNT :
            /\ v # NoValue
            /\ Clear(c, [i \in Prop |-> IF i < groups THEN v ELSE prop[c][at[c].state][i]])
            /\ Continue(c, "assign") /\ UNCHANGED val
  /\ UNCHANGED <<memory, cache>>

Regex(c) ==
  /\ AtKind(c, "enter", {"regex"})
  /\ \E v \in Results(c, State(c).subject) :
       \/ Return(c, ErrorState(c)) /\ Clear(c, NoProp)
       \/ \E groups \in 1 .. REGMATCH_COUNT :
            /\ v # NoValue
            /\ Clear(c, [i \in Prop |-> IF i < groups THEN v ELSE NoValue])
            /\ Continue(c, "assign") /\ UNCHANGED val
  /\ UNCHANGED <<memory, cache>>

(* The first case that matches, the done state, or the error state. *)
Match(c) ==
  /\ AtKind(c, "enter", {"match"})
  /\ \E v \in Results(c, State(c).subject) :
       \/ Return(c, ErrorState(c))
       \/ /\ v # NoValue
          /\ \E n \in State(c).cases \cup {State(c).done} : Return(c, n)
  /\ UNCHANGED <<memory, prop, cache>>

(* The tree read from the value has some of the names asked for. *)
Structure(c) ==
  /\ AtKind(c, "enter", {"structure"})
  /\ \E v \in Results(c, State(c).subject) :
       \/ Return(c, ErrorState(c)) /\ Clear(c, NoProp)
       \/ \E names \in SUBSET Prop :
            /\ v # NoValue
            /\ Clear(c, [i \in Prop |-> IF i \in names THEN v ELSE NoValue])
            /\ Continue(c, "assign") /\ UNCHANGED val
  /\ UNCHANGED <<memory, cache>>

(* States that evaluate a text first; file and mail may fail before it. *)
BeginText(c) ==
  /\ AtKind(c, "enter", {"query", "file", "end", "http", "mail", "shell"})
  /\ \/ Continue(c, "text") /\ UNCHANGED val
     \/ State(c).kind \in {"file", "mail"} /\ Return(c, ErrorState(c))
  /\ IF State(c).kind = "query" THEN Clear(c, NoProp) ELSE UNCHANGED prop
  /\ UNCHANGED <<memory, cache>>

BeginGoto(c) ==
  /\ AtKind(c, "enter", {"goto"})
  /\ Continue(c, "assign")
  /\ UNCHANGED <<val, memory, prop, cache>>

(* sms and script states do nothing yet. *)
Pass(c) ==
  /\ AtKind(c, "enter", {"sms", "script"})
  /\ Return(c, State(c).done)
  /\ UNCHANGED <<memory, prop, cache>>

(* evaluate() replaces a variable without a value by nothing. *)
Evaluate(c, r) ==
  \E v \in Results(c, r) : val' = [val EXCEPT ![c] = @ \cup UNION v]

Text(c) ==
  /\ AtKind(c, "text", Kind) /\ at[c].ti \in DOMAIN State(c).text
  /\ Evaluate(c, State(c).text[at[c].ti])
  /\ at' = [at EXCEPT ![c].ti = @ + 1]
  /\ UNCHANGED <<memory, prop, cache>>

TextDone(c, kind) == AtKind(c, "text", {kind}) /\ at[c].ti \notin DOMAIN State(c).text

(* The first row of the result, if any; its columns can be NULL, which     *)
(* reads as an empty string.                                               *)
Query(c) ==
  /\ TextDone(c, "query")
  /\ \/ Return(c, ErrorState(c)) /\ UNCHANGED prop
     \/ \E cols \in 0 .. REGMATCH_COUNT, nulls \in SUBSET Prop :
          /\ Clear(c, [i \in Prop |-> IF i >= cols THEN NoValue
                                      ELSE IF i \in nulls THEN {{}}
                                      ELSE {val[c] \cup {"shared"}}])
          /\ Continue(c, "assign") /\ val' = [val EXCEPT ![c] = {}]
  /\ UNCHANGED <<memory, cache>>

WriteFile(c) ==
  /\ TextDone(c, "file") /\ Return(c, State(c).done)
  /\ UNCHANGED <<memory, prop, cache>>

End(c) ==
  /\ TextDone(c, "end") /\ Return(c, ENDSTATE)
  /\ UNCHANGED <<memory, prop, cache>>

(* The string an http or shell state has read stays its own: what the      *)
(* table gets is a pointer into it, and the string ends with execute().    *)
Fetch(c) ==
  /\ TextDone(c, "http") \/ TextDone(c, "shell")
  /\ \/ Return(c, ErrorState(c)) /\ UNCHANGED memory
     \/ /\ assignLocal(c, State(c).output, val[c] \cup {"shared"}, TRUE)
        /\ Return(c, State(c).done)
  /\ UNCHANGED <<prop, cache>>

(* Freeing the variable's old value aborts, or libCURL rejects an option   *)
(* (log_error ends the process).                                           *)
FetchAborted(c) ==
  /\ \/ TextDone(c, "http")
     \/ TextDone(c, "shell") /\ State(c).output \in foreign[c]
  /\ Die(c) /\ UNCHANGED cache

SendMail(c) ==
  /\ TextDone(c, "mail")
  /\ Return(c, ErrorState(c)) \/ Return(c, State(c).done)
  /\ UNCHANGED <<memory, prop, cache>>

(* A sender without "@" makes substr() throw; libCURL rejects an option. *)
SendMailAborted(c) == TextDone(c, "mail") /\ Die(c) /\ UNCHANGED cache

-----------------------------------------------------------------------------
(* CAssigner::assign. The assignments of a state, and the alternatives of  *)
(* each, in their order; the first one with a value is stored.             *)
Assigning(c) == AtKind(c, "assign", Kind)
Assignment(c) == State(c).assignments[at[c].ai]
Pending(c) == Assigning(c) /\ at[c].ai \in DOMAIN State(c).assignments
HasAlternative(c) == Pending(c) /\ at[c].ri \in DOMAIN Assignment(c).from
Alternative(c) == Assignment(c).from[at[c].ri]
NextAssignment(c) == [Place("assign", at[c].state) EXCEPT !.ai = at[c].ai + 1]

AllAssigned(c) ==
  /\ Assigning(c) /\ at[c].ai \notin DOMAIN State(c).assignments
  /\ Return(c, State(c).done)
  /\ UNCHANGED <<memory, prop, cache>>

NoAlternative(c) ==
  /\ Pending(c) /\ at[c].ri \notin DOMAIN Assignment(c).from
  /\ MoveTo(c, NextAssignment(c))
  /\ UNCHANGED <<val, memory, prop, cache>>

(* Seeded fault: the iterator is not advanced past a missing value. *)
ReadAlternativeAgain(c) ==
  /\ HasAlternative(c) /\ Alternative(c).k \in Reading
  /\ \E v \in Results(c, Alternative(c)) :
       \/ v = NoValue /\ UNCHANGED <<at, val>>
       \/ /\ v # NoValue
          /\ at' = [at EXCEPT ![c].pc = "store"]
          /\ val' = [val EXCEPT ![c] = UNION v]
  /\ UNCHANGED <<memory, prop, cache>>

ReadAlternative(c) ==
  /\ HasAlternative(c) /\ Alternative(c).k \in Reading
  /\ \E v \in Results(c, Alternative(c)) :
       \/ /\ v = NoValue
          /\ at' = [at EXCEPT ![c].ri = @ + 1] /\ UNCHANGED val
       \/ /\ v # NoValue
          /\ at' = [at EXCEPT ![c].pc = "store"]
          /\ val' = [val EXCEPT ![c] = UNION v]
  /\ UNCHANGED <<memory, prop, cache>>

(* A string in double quotes. *)
BeginTemplate(c) ==
  /\ HasAlternative(c) /\ Alternative(c).k = "template"
  /\ at' = [at EXCEPT ![c].pc = "template"]
  /\ UNCHANGED <<val, memory, prop, cache>>

InTemplate(c) == AtKind(c, "template", Kind)

EvaluateTemplate(c) ==
  /\ InTemplate(c) /\ at[c].ti \in DOMAIN Alternative(c).refs
  /\ Evaluate(c, Alternative(c).refs[at[c].ti])
  /\ at' = [at EXCEPT ![c].ti = @ + 1]
  /\ UNCHANGED <<memory, prop, cache>>

TemplateDone(c) ==
  /\ InTemplate(c) /\ at[c].ti \notin DOMAIN Alternative(c).refs
  /\ at' = [at EXCEPT ![c].pc = "store"]
  /\ UNCHANGED <<val, memory, prop, cache>>

Storing(c, k) == AtKind(c, "store", Kind) /\ Assignment(c).to.k = k

StoreLocal(c) ==
  /\ Storing(c, "local")
  /\ assignLocal(c, Assignment(c).to.x, val[c], FALSE)
  /\ MoveTo(c, NextAssignment(c))
  /\ val' = [val EXCEPT ![c] = {}]
  /\ UNCHANGED <<prop, cache>>

StoreLocalAborted(c) ==
  /\ Storing(c, "local") /\ Assignment(c).to.x \in foreign[c]
  /\ Die(c) /\ UNCHANGED cache

assignGlobal(c) ==
  /\ Storing(c, "global")
  /\ cache' = cache \cup {Assignment(c).to.x}
  /\ MoveTo(c, NextAssignment(c))
  /\ val' = [val EXCEPT ![c] = {}]
  /\ UNCHANGED <<memory, prop>>

-----------------------------------------------------------------------------
(* getPropositional of a regex state converts the name to a number; that   *)
(* fails for what is none, or too large for an int, with an exception.     *)
NoNumber(c, r) == State(c).kind = "regex" /\ r.k = "prop" /\ r.x \notin Prop

(* memcached has no such value or does not answer: memcache_error; or a    *)
(* name that should be a number is none.                                   *)
Throws(c) ==
  \/ AtKind(c, "enter", {"regex", "match", "structure"}) /\ State(c).subject.k = "global"
  \/ /\ AtKind(c, "text", Kind) /\ at[c].ti \in DOMAIN State(c).text
     /\ State(c).text[at[c].ti].k = "global"
  \/ HasAlternative(c) /\ (Alternative(c).k = "global" \/ NoNumber(c, Alternative(c)))
  \/ /\ InTemplate(c) /\ at[c].ti \in DOMAIN Alternative(c).refs
     /\ LET r == Alternative(c).refs[at[c].ti] IN r.k = "global" \/ NoNumber(c, r)
  \/ Storing(c, "global")

(* Seeded fault: a query state without its catch-all handler. *)
CaughtButQuery(c) == State(c).kind \in {"regex", "goto"} /\ at[c].pc # "enter"

(* query catches everything; regex and goto what their assignments throw;  *)
(* structure catches ptree_error only; the others have no handler.         *)
Caught(c) ==
  \/ State(c).kind = "query"
  \/ State(c).kind \in {"regex", "goto"} /\ at[c].pc # "enter"

ThrowCaught(c) ==
  /\ Throws(c) /\ Caught(c)
  /\ Return(c, ErrorState(c))
  /\ UNCHANGED <<memory, prop, cache>>

(* No handler up to main: the process is terminated. *)
ThrowUncaught(c) == Throws(c) /\ ~Caught(c) /\ Die(c) /\ UNCHANGED cache

-----------------------------------------------------------------------------
(* The master forks a new child in place of a dead one. *)
Respawn(c) ==
  /\ at[c].pc = "dead"
  /\ MoveTo(c, Place("idle", 0))
  /\ UNCHANGED <<val, memory, prop, cache>>

(* memcached forgets values (eviction, a restart) and gets values of its    *)
(* other clients, the children that are not modelled here.                 *)
OtherClients ==
  /\ cache' \in SUBSET Global
  /\ UNCHANGED <<at, val, memory, prop>>

Aborted(c) == FinishAborted(c) \/ FetchAborted(c) \/ SendMailAborted(c) \/ StoreLocalAborted(c)

Enter(c) ==
  \/ NoSuchState(c) \/ Regex(c) \/ Match(c) \/ Structure(c)
  \/ BeginText(c) \/ BeginGoto(c) \/ Pass(c)

Effect(c) == Query(c) \/ WriteFile(c) \/ End(c) \/ Fetch(c) \/ SendMail(c)

Assign(c) ==
  \/ AllAssigned(c) \/ NoAlternative(c) \/ ReadAlternative(c) \/ BeginTemplate(c)
  \/ EvaluateTemplate(c) \/ TemplateDone(c) \/ StoreLocal(c) \/ assignGlobal(c)

(* What a child does once it has a request. *)
Serve(c) ==
  \/ NoParameters(c) \/ NoScript(c) \/ StartScript(c) \/ Finish(c)
  \/ Enter(c) \/ Text(c) \/ Effect(c) \/ Assign(c)
  \/ ThrowCaught(c) \/ ThrowUncaught(c) \/ Aborted(c)

Next == (\E c \in Child : Accept(c) \/ Serve(c) \/ Respawn(c)) \/ OtherClients

Safety == Init /\ [][Next]_vars

(* A child that has a request is scheduled, and its services answer or fail. *)
Spec == Safety /\ \A c \in Child : WF_vars(Serve(c))

-----------------------------------------------------------------------------
(* Every variable has its type; the indices stay within the script. *)
TypeOK ==
  /\ at \in [Child -> Places]
  /\ val \in [Child -> SUBSET Source]
  /\ table \in [Child -> [Local -> SUBSET SUBSET Source]]
  /\ foreign \in [Child -> SUBSET Local]
  /\ prop \in [Child -> [PropStates -> [Prop -> SUBSET SUBSET Source]]]
  /\ cache \subseteq Global

(* Nothing of one request is seen by the next one that the same process    *)
(* serves, although the symbol table and the states, with the substrings,  *)
(* rows and trees of their last run, outlive the request: what a child     *)
(* stores, queries, sends or prints has no old source.                     *)
RequestIsolation ==
  \A c \in Child :
    /\ "old" \notin val[c]
    /\ \A x \in Local : \A v \in table[c][x] : "old" \notin v

(* What an assignment reads and stores exists in the script. *)
IndicesInScript ==
  \A c \in Child : at[c].pc \in {"template", "store"} =>
    /\ at[c].state \in DOMAIN Script
    /\ at[c].ai \in DOMAIN State(c).assignments
    /\ at[c].pc = "template" =>
         at[c].ri \in DOMAIN Assignment(c).from /\ Alternative(c).k = "template"

(* Between two requests the symbol table is empty. *)
TableReset ==
  \A c \in Child : at[c].pc \in {"idle", "params", "dead"} => table[c] = Unset

(* While a state evaluates, its propositional variables are of this run. *)
PropFresh ==
  \A c \in Child :
    at[c].pc \in {"text", "assign", "template", "store"} /\ at[c].state \in PropStates =>
      \A i \in Prop : \A v \in prop[c][at[c].state][i] : "old" \notin v

(* RequestIsolation with what makes it inductive: the table is emptied at  *)
(* the end of a request, and a state's variables at the start of its run.  *)
IInv == TypeOK /\ IndicesInScript /\ TableReset /\ PropFresh /\ RequestIsolation

(* The symbol table owns what it will free, so that a variable keeps its   *)
(* value until the end of the request.                                     *)
OutputStored == \A c \in Child : foreign[c] = {}

(* Whatever fails in a state, its error state is next. *)
ErrorStateTaken ==
  [][\A c \in Child :
       (ThrowCaught(c) \/ ThrowUncaught(c)) /\ ErrorState(c) # ENDSTATE
         => at'[c].pc = "enter" /\ at'[c].state = ErrorState(c)]_vars

(* How a script is walked. A throw that no handler of the state's kind     *)
(* meets comes from a global variable; http and mail states end the        *)
(* process for reasons of their own.                                       *)
AsksMemcached(s) ==
  \/ s.kind \in {"regex", "match", "structure"} /\ s.subject.k = "global"
  \/ s.kind \in {"file", "end", "shell"} /\ \E i \in DOMAIN s.text : s.text[i].k = "global"
  \/ /\ s.kind = "structure"
     /\ \E i \in DOMAIN s.assignments :
          \/ s.assignments[i].to.k = "global"
          \/ \E j \in DOMAIN s.assignments[i].from :
               LET r == s.assignments[i].from[j]
               IN  \/ r.k = "global"
                   \/ r.k = "template" /\ \E m \in DOMAIN r.refs : r.refs[m].k = "global"

FragileStates ==
  {n \in DOMAIN Script : Script[n].kind \in {"http", "mail"} \/ AsksMemcached(Script[n])}

Targets(s) ==
  IF s.kind = "end" THEN {ENDSTATE}
  ELSE {s.done} \cup (IF s.kind \in {"sms", "script"} THEN {}
                      ELSE IF s.kind = "goto" /\ s.error = 0 THEN {} ELSE {s.error})
                \cup (IF s.kind = "match" THEN s.cases ELSE {})

ScriptEdges == UNION {{<<n, m>> : m \in Targets(Script[n]) \ {ENDSTATE}} : n \in DOMAIN Script}

WalkPhase(c) ==
  IF at[c].pc \in {"idle", "params"} THEN "free"
  ELSE IF at[c].pc = "finish" THEN "leaving"
  ELSE IF at[c].pc = "dead" THEN "dead" ELSE "walking"

Walked ==
  INSTANCE Walk WITH
    Walker <- Child, Entry <- EntryPoint, Node <- DOMAIN Script, Edges <- ScriptEdges,
    Leaving <- {n \in DOMAIN Script : ENDSTATE \in Targets(Script[n])},
    Fragile <- FragileStates,
    Lending <- {n \in DOMAIN Script : Script[n].kind \in {"http", "shell"}},
    phase <- [c \in Child |-> WalkPhase(c)],
    node <- [c \in Child |-> IF WalkPhase(c) = "walking" THEN at[c].state ELSE 0],
    tainted <- {c \in Child : foreign[c] # {}}

(* The interpreter walks scripts as Walk says: failing services and        *)
(* missing values take a request along the numbers of the script, and end  *)
(* its process only in the kinds of states that have no handler.           *)
WalksTheScript == Walked!Spec

(* A script without cycles answers every request it takes, or its process  *)
(* ends.                                                                   *)
RequestEnds ==
  \A c \in Child : at[c].pc = "params" ~> at[c].pc \in {"idle", "dead"}

=============================================================================
