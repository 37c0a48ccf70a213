--------------------------- MODULE WalkRefinement ---------------------------
(***************************************************************************)
(* The interpreter walks scripts as Walk says (WalksTheScript), for every  *)
(* script, any number of children and every order of their steps.          *)
(*                                                                         *)
(* Seen from outside a step of a child is one of nine: it waits for a      *)
(* request, begins or refuses one, stays in its state, returns from it,    *)
(* finds no such state, finishes, dies, or is replaced.  EachStep sorts    *)
(* the actions of Interpreter into these; one lemma for each of the nine   *)
(* then gives the step of Walk.  It rests on where a child can be: only    *)
(* states that have a text evaluate one, only those that have assignments  *)
(* assign, and no child waits for a request with borrowed memory (Placed). *)
(***************************************************************************)
EXTENDS InterpreterProofs

Waiting == {"idle", "params"}
Working == {"text", "assign", "template", "store"}
Walking == {"enter"} \cup Working

TextKinds == {"query", "file", "end", "http", "mail", "shell"}
AssignKinds == {"regex", "structure", "query", "goto"}

Placed(c) ==
  /\ at[c].pc \in Waiting \cup {"dead"} => foreign[c] = {}
  /\ at[c].pc \in Working => at[c].state \in DOMAIN Script
  /\ at[c].pc = "text" => State(c).kind \in TextKinds
  /\ at[c].pc \in Working \ {"text"} => State(c).kind \in AssignKinds

MapInv == TypeOK /\ IndicesInScript /\ \A c \in Child : Placed(c)

(* What a step of c is, seen from outside.                                 *)
Waits(c) == at[c].pc \in Waiting /\ at'[c].pc \in Waiting /\ foreign'[c] = foreign[c]
Begins(c) ==
  /\ at[c].pc = "params" /\ foreign'[c] \subseteq foreign[c]
  /\ \E n \in EntryPoint : at'[c] = Place("enter", n)
Refuses(c) == at[c].pc = "params" /\ at'[c].pc = "finish" /\ foreign'[c] \subseteq foreign[c]
Stays(c) ==
  /\ at[c].pc \in Walking /\ at[c].state \in DOMAIN Script
  /\ at'[c].state = at[c].state
  /\ \/ at'[c].pc = "text" /\ State(c).kind \in TextKinds
     \/ at'[c].pc \in Working \ {"text"} /\ State(c).kind \in AssignKinds
  /\ foreign'[c] \subseteq foreign[c]
Returns(c) ==
  /\ at[c].pc \in Walking /\ at[c].state \in DOMAIN Script
  /\ \E n \in Targets(State(c)) :
       at'[c] = IF n = ENDSTATE THEN Place("finish", 0) ELSE Place("enter", n)
  /\ \/ foreign'[c] = foreign[c]
     \/ State(c).kind \in {"http", "shell"} /\ foreign'[c] # {}
IsLost(c) ==
  /\ at[c].pc = "enter" /\ at[c].state \notin DOMAIN Script
  /\ at'[c].pc = "finish" /\ foreign'[c] = foreign[c]
Finishes(c) == at[c].pc = "finish" /\ at'[c].pc = "idle" /\ foreign'[c] = {}
Dies(c) ==
  /\ \/ at[c].pc \in Walking /\ at[c].state \in FragileStates
     \/ at[c].pc \in Walking \cup {"finish"} /\ foreign[c] # {}
  /\ at'[c].pc = "dead" /\ foreign'[c] = {}
IsReplaced(c) == at[c].pc = "dead" /\ at'[c].pc = "idle" /\ foreign'[c] = foreign[c]

Outside(c) ==
  \/ Waits(c) \/ Begins(c) \/ Refuses(c) \/ Stays(c) \/ Returns(c)
  \/ IsLost(c) \/ Finishes(c) \/ Dies(c) \/ IsReplaced(c)

-----------------------------------------------------------------------------
LEMMA PlaceParts ==
  \A pc, n : Place(pc, n).pc = pc /\ Place(pc, n).state = n
BY DEF Place

(* Where a child is after a step of the program counter.                   *)
LEMMA MoveHere ==
  ASSUME TypeOK, NEW c \in Child
  PROVE  /\ \A p : MoveTo(c, p) => at'[c] = p
         /\ \A pc : Continue(c, pc) => at'[c].pc = pc /\ at'[c].state = at[c].state
         /\ \A n : Return(c, n) =>
              at'[c] = IF n = ENDSTATE THEN Place("finish", 0) ELSE Place("enter", n)
         /\ Die(c) => at'[c].pc = "dead" /\ foreign'[c] = {}
<1>1. \A p : MoveTo(c, p) => at'[c] = p
  BY DEF MoveTo, TypeOK
<1>2. Die(c) => foreign'[c] = {}
  BY DEF Die, TypeOK
<1> QED BY <1>1, <1>2 DEF Continue, Return, Die, Place

(* execute() returns a number the state has.                               *)
LEMMA ReturnReturns ==
  ASSUME TypeOK, NEW c \in Child, at[c].pc \in Walking, at[c].state \in DOMAIN Script,
         NEW n \in Targets(State(c)), Return(c, n),
         \/ UNCHANGED memory
         \/ State(c).kind \in {"http", "shell"} /\ foreign'[c] # {}
  PROVE  Returns(c)
<1>1. at'[c] = IF n = ENDSTATE THEN Place("finish", 0) ELSE Place("enter", n)
  BY MoveHere
<1> QED BY <1>1 DEF Returns, memory

LEMMA TargetsOf ==
  ASSUME NEW c \in Child
  PROVE  /\ State(c).kind = "end" => ENDSTATE \in Targets(State(c))
         /\ State(c).kind # "end" => State(c).done \in Targets(State(c))
         /\ State(c).kind \notin {"end", "sms", "script"} => ErrorState(c) \in Targets(State(c))
         /\ State(c).kind = "match" => State(c).cases \subseteq Targets(State(c))
BY DEF Targets, ErrorState

(* Requests that do not get as far as a state, and the end of a request.   *)
LEMMA RequestSteps ==
  ASSUME TypeOK, NEW c \in Child,
         \/ Accept(c) \/ NoParameters(c) \/ NoScript(c) \/ StartScript(c) \/ NoSuchState(c)
         \/ Finish(c) \/ Respawn(c)
  PROVE  Outside(c)
<1>1. \A p : MoveTo(c, p) => at'[c] = p
  BY MoveHere
<1>2. CASE Accept(c) \/ NoParameters(c)
  BY <1>1, <1>2 DEF Accept, NoParameters, memory, Place, Outside, Waits, Waiting
<1>3. CASE NoScript(c) \/ StartScript(c)
  <2>1. foreign'[c] \subseteq foreign[c]
    BY <1>3 DEF NoScript, StartScript, StoreParameters, TypeOK
  <2> QED BY <1>1, <1>3, <2>1 DEF NoScript, StartScript, Place, Outside, Refuses, Begins
<1>4. CASE NoSuchState(c) \/ Respawn(c)
  BY <1>1, <1>4 DEF NoSuchState, Respawn, memory, Place, Outside, IsLost, IsReplaced
<1>5. CASE Finish(c)
  <2>1. foreign'[c] = {}
    BY <1>5 DEF Finish, TypeOK
  <2> QED BY <1>1, <1>5, <2>1 DEF Finish, Place, Outside, Finishes
<1> QED BY <1>2, <1>3, <1>4, <1>5

(* The states' entry points.                                               *)
LEMMA EnterSteps ==
  ASSUME TypeOK, NEW c \in Child, Placed(c),
         Regex(c) \/ Match(c) \/ Structure(c) \/ BeginText(c) \/ BeginGoto(c) \/ Pass(c)
  PROVE  Outside(c)
<1> USE DEF AtKind
<1>0. /\ \A pc : Continue(c, pc) => at'[c].pc = pc /\ at'[c].state = at[c].state
      /\ UNCHANGED memory => foreign'[c] = foreign[c]
  BY MoveHere DEF memory
<1>1. at[c].pc = "enter" /\ at[c].pc \in Walking /\ at[c].state \in DOMAIN Script
  BY DEF Regex, Match, Structure, BeginText, BeginGoto, Pass, Walking
<1>2. UNCHANGED memory
  BY Zenon DEF Regex, Match, Structure, BeginText, BeginGoto, Pass
<1>3. ASSUME NEW n \in Targets(State(c)), Return(c, n) PROVE Outside(c)
  BY <1>1, <1>2, <1>3, ReturnReturns DEF Outside
<1>4. ASSUME Continue(c, "text"), State(c).kind \in TextKinds PROVE Outside(c)
  BY <1>0, <1>1, <1>2, <1>4 DEF Outside, Stays
<1>5. ASSUME Continue(c, "assign"), State(c).kind \in AssignKinds PROVE Outside(c)
  BY <1>0, <1>1, <1>2, <1>5 DEF Outside, Stays, Working
<1>6. CASE Regex(c)
  <2>1. State(c).kind = "regex" /\ (Return(c, ErrorState(c)) \/ Continue(c, "assign"))
    BY <1>6 DEF Regex
  <2> QED BY <2>1, <1>3, <1>5, TargetsOf DEF AssignKinds
<1>7. CASE Match(c)
  <2>1. State(c).kind = "match"
    BY <1>7 DEF Match
  <2>2. \E n \in State(c).cases \cup {State(c).done, ErrorState(c)} : Return(c, n)
    BY <1>7 DEF Match
  <2> QED BY <2>1, <2>2, <1>3, TargetsOf
<1>8. CASE Structure(c)
  <2>1. State(c).kind = "structure" /\ (Return(c, ErrorState(c)) \/ Continue(c, "assign"))
    BY <1>8 DEF Structure
  <2> QED BY <2>1, <1>3, <1>5, TargetsOf DEF AssignKinds
<1>9. CASE BeginText(c)
  <2>1. State(c).kind \in TextKinds
    BY <1>9 DEF BeginText, TextKinds
  <2>2. \/ Continue(c, "text")
        \/ State(c).kind \in {"file", "mail"} /\ Return(c, ErrorState(c))
    BY <1>9 DEF BeginText
  <2> QED BY <2>1, <2>2, <1>3, <1>4, TargetsOf
<1>10. CASE BeginGoto(c)
  BY <1>5, <1>10 DEF BeginGoto, AssignKinds
<1>11. CASE Pass(c)
  BY <1>3, <1>11, TargetsOf DEF Pass
<1> QED BY <1>6, <1>7, <1>8, <1>9, <1>10, <1>11

(* Evaluating a text, and what a state does with it.                       *)
LEMMA TextSteps ==
  ASSUME TypeOK, NEW c \in Child, Placed(c),
         \/ Text(c) \/ Query(c) \/ WriteFile(c) \/ End(c) \/ Fetch(c) \/ SendMail(c)
  PROVE  Outside(c)
<1> USE DEF AtKind, TextDone
<1>1. /\ at[c].pc = "text" /\ at[c].pc \in Walking /\ at[c].state \in DOMAIN Script
      /\ State(c).kind \in TextKinds
  BY DEF Text, Query, WriteFile, End, Fetch, SendMail, Placed, Walking, Working
<1>2. ASSUME NEW n \in Targets(State(c)), Return(c, n), UNCHANGED memory PROVE Outside(c)
  BY <1>1, <1>2, ReturnReturns DEF Outside
<1>3. CASE Text(c)
  <2>1. at' = [at EXCEPT ![c].ti = @ + 1] /\ UNCHANGED memory
    BY <1>3 DEF Text
  <2>2. at'[c].pc = "text" /\ at'[c].state = at[c].state /\ foreign'[c] = foreign[c]
    BY <1>1, <2>1 DEF TypeOK, Places, memory
  <2> QED BY <1>1, <2>2 DEF Outside, Stays
<1>4. CASE Query(c)
  <2>1. State(c).kind = "query" /\ UNCHANGED memory
    BY <1>4 DEF Query
  <2>2. CASE Return(c, ErrorState(c))
    BY <1>2, <2>1, <2>2, TargetsOf
  <2>3. CASE Continue(c, "assign")
    <3>1. at'[c].pc = "assign" /\ at'[c].state = at[c].state /\ foreign'[c] = foreign[c]
      BY <2>1, <2>3, MoveHere DEF memory
    <3> QED BY <1>1, <2>1, <3>1 DEF Outside, Stays, Working, AssignKinds
  <2> QED BY <1>4, <2>2, <2>3 DEF Query
<1>5. CASE WriteFile(c) \/ End(c) \/ SendMail(c)
  <2>1. \E n \in Targets(State(c)) : Return(c, n)
    BY <1>5, TargetsOf DEF WriteFile, End, SendMail
  <2>2. UNCHANGED memory
    BY <1>5, Zenon DEF WriteFile, End, SendMail
  <2> QED BY <1>2, <2>1, <2>2
<1>6. CASE Fetch(c)
  <2>1. State(c).kind \in {"http", "shell"}
    BY <1>6 DEF Fetch
  <2>2. CASE Return(c, ErrorState(c)) /\ UNCHANGED memory
    BY <1>2, <2>1, <2>2, TargetsOf
  <2>3. CASE /\ assignLocal(c, State(c).output, val[c] \cup {"shared"}, TRUE)
             /\ Return(c, State(c).done)
    <3>1. foreign'[c] # {}
      BY <2>3 DEF assignLocal, TypeOK
    <3>2. Returns(c)
      BY <1>1, <2>1, <2>3, <3>1, TargetsOf, ReturnReturns
    <3> QED BY <3>2 DEF Outside
  <2> QED BY <1>6, <2>2, <2>3, Zenon DEF Fetch
<1> QED BY <1>3, <1>4, <1>5, <1>6

(* The assignments of a state.                                             *)
LEMMA AssignSteps ==
  ASSUME TypeOK, NEW c \in Child, Placed(c), Assign(c)
  PROVE  Outside(c)
<1> USE DEF AtKind, Assigning, Pending, HasAlternative, InTemplate, Storing
<1>1. /\ at[c].pc \in Working \ {"text"} /\ at[c].pc \in Walking
      /\ at[c].state \in DOMAIN Script /\ State(c).kind \in AssignKinds
  <2>1. at[c].pc \in {"assign", "template", "store"}
    BY DEF Assign, AllAssigned, NoAlternative, ReadAlternative, BeginTemplate,
           EvaluateTemplate, TemplateDone, StoreLocal, assignGlobal
  <2> QED BY <2>1 DEF Placed, Walking, Working
<1>2. CASE AllAssigned(c)
  <2>1. Return(c, State(c).done) /\ UNCHANGED memory
    BY <1>2, Zenon DEF AllAssigned
  <2>2. State(c).done \in Targets(State(c))
    BY <1>1, TargetsOf DEF AssignKinds
  <2> QED BY <1>1, <2>1, <2>2, ReturnReturns DEF Outside
<1>3. ASSUME at'[c].pc \in Working \ {"text"}, at'[c].state = at[c].state,
             foreign'[c] \subseteq foreign[c]
      PROVE  Outside(c)
  BY <1>1, <1>3 DEF Outside, Stays
<1>4. MoveTo(c, NextAssignment(c)) => at'[c].pc = "assign" /\ at'[c].state = at[c].state
  BY MoveHere, NextPlace
<1>5. UNCHANGED memory => foreign'[c] \subseteq foreign[c]
  BY DEF memory
<1>6. at \in [Child -> Places]
  BY DEF TypeOK
<1>7. CASE NoAlternative(c)
  BY <1>3, <1>4, <1>5, <1>7 DEF NoAlternative, Working
<1>8. CASE ReadAlternative(c) \/ BeginTemplate(c) \/ EvaluateTemplate(c) \/ TemplateDone(c)
  <2>1. UNCHANGED memory
    BY <1>8, Zenon DEF ReadAlternative, BeginTemplate, EvaluateTemplate, TemplateDone
  <2>2. at[c].pc \in {"assign", "template"}
    BY <1>8 DEF ReadAlternative, BeginTemplate, EvaluateTemplate, TemplateDone
  <2>3. \/ at' = [at EXCEPT ![c].ri = @ + 1] \/ at' = [at EXCEPT ![c].ti = @ + 1]
        \/ at' = [at EXCEPT ![c].pc = "store"] \/ at' = [at EXCEPT ![c].pc = "template"]
    BY <1>8 DEF ReadAlternative, BeginTemplate, EvaluateTemplate, TemplateDone
  <2>4. at'[c].pc \in Working \ {"text"} /\ at'[c].state = at[c].state
    BY <1>6, <2>2, <2>3 DEF Places, Working
  <2> QED BY <1>3, <1>5, <2>1, <2>4
<1>9. CASE StoreLocal(c)
  <2>1. foreign'[c] \subseteq foreign[c]
    BY <1>9 DEF StoreLocal, assignLocal, TypeOK
  <2>2. MoveTo(c, NextAssignment(c))
    BY <1>9, Zenon DEF StoreLocal
  <2> QED BY <1>3, <1>4, <2>1, <2>2 DEF Working
<1>10. CASE assignGlobal(c)
  <2>1. MoveTo(c, NextAssignment(c)) /\ UNCHANGED memory
    BY <1>10, Zenon DEF assignGlobal
  <2> QED BY <1>3, <1>4, <1>5, <2>1 DEF Working
<1> QED BY <1>2, <1>7, <1>8, <1>9, <1>10 DEF Assign

-----------------------------------------------------------------------------
(* What no handler catches comes from a global variable, in a state of a   *)
(* kind that has no handler there.                                         *)
LEMMA UncaughtIsFragile ==
  ASSUME IndicesInScript, NEW c \in Child, Placed(c), Throws(c), ~Caught(c)
  PROVE  at[c].pc \in Walking /\ at[c].state \in FragileStates
<1> USE DEF AtKind, Pending, Assigning, HasAlternative, InTemplate, Storing
<1>1. CASE AtKind(c, "enter", {"regex", "match", "structure"}) /\ State(c).subject.k = "global"
  BY <1>1 DEF Walking, FragileStates, AsksMemcached, State
<1>2. CASE /\ AtKind(c, "text", Kind) /\ at[c].ti \in DOMAIN State(c).text
           /\ State(c).text[at[c].ti].k = "global"
  <2>1. State(c).kind \in {"file", "end", "shell", "http", "mail"}
    BY <1>2 DEF Placed, TextKinds, Caught
  <2> QED BY <1>2, <2>1 DEF Walking, Working, FragileStates, AsksMemcached, State
<1>3. ASSUME at[c].pc \in {"assign", "template", "store"}
      PROVE  State(c).kind = "structure" /\ at[c].pc \in Walking /\ at[c].state \in DOMAIN Script
  BY <1>3 DEF Placed, Working, Walking, AssignKinds, Caught
<1>4. CASE HasAlternative(c) /\ Alternative(c).k = "global"
  <2>1. /\ State(c).assignments[at[c].ai].from[at[c].ri].k = "global"
        /\ at[c].ai \in DOMAIN State(c).assignments
        /\ at[c].ri \in DOMAIN State(c).assignments[at[c].ai].from
    BY <1>4 DEF Alternative, Assignment
  <2>2. AsksMemcached(State(c))
    BY <1>3, <1>4, <2>1 DEF AsksMemcached
  <2> QED BY <1>3, <1>4, <2>2 DEF FragileStates, State
<1>5. CASE /\ InTemplate(c) /\ at[c].ti \in DOMAIN Alternative(c).refs
           /\ Alternative(c).refs[at[c].ti].k = "global"
  <2>1. /\ State(c).assignments[at[c].ai].from[at[c].ri].k = "template"
        /\ at[c].ti \in DOMAIN State(c).assignments[at[c].ai].from[at[c].ri].refs
        /\ State(c).assignments[at[c].ai].from[at[c].ri].refs[at[c].ti].k = "global"
        /\ at[c].ai \in DOMAIN State(c).assignments
        /\ at[c].ri \in DOMAIN State(c).assignments[at[c].ai].from
    BY <1>5 DEF IndicesInScript, Alternative, Assignment
  <2>2. AsksMemcached(State(c))
    BY <1>3, <1>5, <2>1 DEF AsksMemcached
  <2> QED BY <1>3, <1>5, <2>2 DEF FragileStates, State
<1>6. CASE Storing(c, "global")
  <2>1. /\ State(c).assignments[at[c].ai].to.k = "global"
        /\ at[c].ai \in DOMAIN State(c).assignments
    BY <1>6 DEF IndicesInScript, Assignment
  <2>2. AsksMemcached(State(c))
    BY <1>3, <1>6, <2>1 DEF AsksMemcached
  <2> QED BY <1>3, <1>6, <2>2 DEF FragileStates, State
<1>7. at[c].pc \in {"assign", "template"} => \A r : ~NoNumber(c, r)
  BY <1>3 DEF NoNumber
<1> QED BY <1>1, <1>2, <1>4, <1>5, <1>6, <1>7 DEF Throws

LEMMA FailureSteps ==
  ASSUME TypeOK, IndicesInScript, NEW c \in Child, Placed(c),
         ThrowCaught(c) \/ ThrowUncaught(c) \/ Aborted(c)
  PROVE  Outside(c)
<1>1. CASE ThrowCaught(c)
  <2>1. at[c].pc \in Walking /\ at[c].state \in DOMAIN Script
    BY <1>1 DEF ThrowCaught, Throws, AtKind, HasAlternative, Pending, Assigning, InTemplate,
                Storing, Walking, Working
  <2>2. ErrorState(c) \in Targets(State(c))
    BY <1>1, TargetsOf DEF ThrowCaught, Caught
  <2> QED BY <1>1, <2>1, <2>2, ReturnReturns DEF ThrowCaught, Outside
<1>2. CASE ThrowUncaught(c)
  BY <1>2, UncaughtIsFragile, MoveHere DEF ThrowUncaught, Outside, Dies
<1>3. CASE FinishAborted(c)
  BY <1>3, MoveHere DEF FinishAborted, Outside, Dies
<1>4. CASE FetchAborted(c)
  <2>1. /\ at[c].pc \in Walking /\ at[c].state \in DOMAIN Script
        /\ State(c).kind = "http" \/ foreign[c] # {}
    BY <1>4 DEF FetchAborted, TextDone, AtKind, Walking, Working
  <2> QED BY <1>4, <2>1, MoveHere DEF FetchAborted, Outside, Dies, FragileStates, State
<1>5. CASE SendMailAborted(c)
  BY <1>5, MoveHere DEF SendMailAborted, TextDone, AtKind, Walking, Working, Outside, Dies,
                        FragileStates, State
<1>6. CASE StoreLocalAborted(c)
  BY <1>6, MoveHere DEF StoreLocalAborted, Storing, AtKind, Walking, Working, Outside, Dies
<1> QED BY <1>1, <1>2, <1>3, <1>4, <1>5, <1>6 DEF Aborted

(* Whatever a child does is one of the nine.                               *)
LEMMA EachStep ==
  ASSUME TypeOK, IndicesInScript, NEW c \in Child, Placed(c), Accept(c) \/ Serve(c) \/ Respawn(c)
  PROVE  Outside(c)
BY RequestSteps, EnterSteps, TextSteps, AssignSteps, FailureSteps, Zenon DEF Serve, Enter, Effect

-----------------------------------------------------------------------------
(* A step of c leaves the other children where they are.                   *)
LEMMA OthersStay ==
  ASSUME TypeOK, NEW c \in Child, NEW d \in Child, d # c, Accept(c) \/ Serve(c) \/ Respawn(c)
  PROVE  at'[d] = at[d] /\ foreign'[d] = foreign[d]
<1>1. at'[d] = at[d]
  BY Others
<1> SUFFICES foreign'[d] = foreign[d]
  BY <1>1
<1>2. ASSUME UNCHANGED foreign \/ \E S : foreign' = [foreign EXCEPT ![c] = S]
      PROVE  foreign'[d] = foreign[d]
  BY <1>2 DEF TypeOK
<1>3. UNCHANGED memory => UNCHANGED foreign
  BY DEF memory
<1>4. Die(c) => \E S : foreign' = [foreign EXCEPT ![c] = S]
  BY Zenon DEF Die
<1>5. \A x, v, b : assignLocal(c, x, v, b) => \E S : foreign' = [foreign EXCEPT ![c] = S]
  BY Zenon DEF assignLocal
<1>6. CASE Accept(c) \/ NoParameters(c) \/ NoSuchState(c) \/ Respawn(c) \/ Enter(c) \/ Text(c)
  BY <1>2, <1>3, <1>6, Zenon DEF Accept, NoParameters, NoSuchState, Respawn, Enter, Text,
     Regex, Match, Structure, BeginText, BeginGoto, Pass
<1>7. CASE NoScript(c) \/ StartScript(c) \/ Finish(c)
  BY <1>2, <1>7, Zenon DEF NoScript, StartScript, StoreParameters, Finish
<1>8. CASE Effect(c) \/ Assign(c)
  BY <1>2, <1>3, <1>5, <1>8, Zenon DEF Effect, Assign, Query, WriteFile, End, Fetch, SendMail,
     AllAssigned, NoAlternative, ReadAlternative, BeginTemplate, EvaluateTemplate, TemplateDone,
     StoreLocal, assignGlobal
<1>9. CASE ThrowCaught(c) \/ ThrowUncaught(c) \/ Aborted(c)
  BY <1>2, <1>3, <1>4, <1>9, Zenon DEF ThrowCaught, ThrowUncaught, Aborted, FinishAborted,
     FetchAborted, SendMailAborted, StoreLocalAborted
<1> QED BY <1>1, <1>6, <1>7, <1>8, <1>9, Zenon DEF Serve

(* Where a child is after its step.                                        *)
LEMMA StepPlaced ==
  ASSUME NEW c \in Child, Placed(c), Outside(c)
  PROVE  Placed(c)'
<1> USE DEF Placed, Waiting, Working
<1>1. CASE Waits(c) \/ Finishes(c) \/ Dies(c) \/ IsReplaced(c)
  BY <1>1 DEF Waits, Finishes, Dies, IsReplaced
<1>2. CASE Begins(c) \/ Refuses(c) \/ Returns(c) \/ IsLost(c)
  <2>1. at'[c].pc \in {"enter", "finish"}
    <3>1. Returns(c) => at'[c] = Place("finish", 0) \/ \E n : at'[c] = Place("enter", n)
      BY Zenon DEF Returns
    <3> QED BY <1>2, <3>1, PlaceParts DEF Begins, Refuses, IsLost
  <2> QED BY <2>1
<1>3. CASE Stays(c)
  BY <1>3 DEF Stays, State
<1> QED BY <1>1, <1>2, <1>3 DEF Outside

LEMMA MapInductive ==
  ASSUME MapInv, [Next]_vars
  PROVE  MapInv'
<1>1. TypeOK' /\ IndicesInScript'
  BY StepKeepsTypes DEF MapInv, Types
<1>2. ASSUME UNCHANGED <<at, foreign>> PROVE \A d \in Child : Placed(d)'
  BY <1>2 DEF MapInv, Placed, State
<1>3. ASSUME NEW c \in Child, Accept(c) \/ Serve(c) \/ Respawn(c)
      PROVE  \A d \in Child : Placed(d)'
  <2>1. Placed(c)'
    BY <1>3, EachStep, StepPlaced DEF MapInv
  <2>2. ASSUME NEW d \in Child, d # c PROVE Placed(d)'
    <3>1. at'[d] = at[d] /\ foreign'[d] = foreign[d]
      BY <1>3, <2>2, OthersStay DEF MapInv
    <3> QED BY <3>1 DEF MapInv, Placed, State
  <2> QED BY <2>1, <2>2
<1>4. UNCHANGED vars \/ OtherClients => UNCHANGED <<at, foreign>>
  BY DEF vars, memory, OtherClients
<1> QED BY <1>1, <1>2, <1>3, <1>4 DEF Next, MapInv

LEMMA MapInit == Init => MapInv
<1> SUFFICES ASSUME Init PROVE MapInv
  OBVIOUS
<1>1. \A c \in Child : at[c].pc = "idle" /\ foreign[c] = {}
  BY DEF Init, Place
<1> QED BY <1>1, InitTypes DEF MapInv, Types, Placed, Waiting, Working

LEMMA MapInvariant == Safety => []MapInv
BY MapInit, MapInductive, PTL DEF Safety

-----------------------------------------------------------------------------
(* The walker a child is.                                                  *)
WalkNode(c) == IF WalkPhase(c) = "walking" THEN at[c].state ELSE 0
Tainted == {c \in Child : foreign[c] # {}}

LEMMA PhaseOf ==
  ASSUME NEW c \in Child
  PROVE  /\ at[c].pc \in Waiting => WalkPhase(c) = "free" /\ WalkNode(c) = 0
         /\ at[c].pc \in Walking => WalkPhase(c) = "walking" /\ WalkNode(c) = at[c].state
         /\ at[c].pc = "finish" => WalkPhase(c) = "leaving" /\ WalkNode(c) = 0
         /\ at[c].pc = "dead" => WalkPhase(c) = "dead" /\ WalkNode(c) = 0
BY DEF WalkPhase, WalkNode, Waiting, Walking, Working

(* The same of the next state.                                             *)
LEMMA PhaseAfter ==
  ASSUME NEW c \in Child
  PROVE  /\ at'[c].pc \in Waiting => WalkPhase(c)' = "free" /\ WalkNode(c)' = 0
         /\ at'[c].pc \in Walking => WalkPhase(c)' = "walking" /\ WalkNode(c)' = at'[c].state
         /\ at'[c].pc = "finish" => WalkPhase(c)' = "leaving" /\ WalkNode(c)' = 0
         /\ at'[c].pc = "dead" => WalkPhase(c)' = "dead" /\ WalkNode(c)' = 0
BY DEF WalkPhase, WalkNode, Waiting, Walking, Working

Alone(c) == \A d \in Child : d # c => at'[d] = at[d] /\ foreign'[d] = foreign[d]

(* A step of c alone moves its walker alone.                               *)
LEMMA WalkerMoves ==
  ASSUME NEW c \in Child, Alone(c),
         NEW p, p = WalkPhase(c)', NEW n, n = WalkNode(c)'
  PROVE  Walked!Move(c, p, n)
<1>1. \A d \in Child : d # c => WalkPhase(d)' = WalkPhase(d) /\ WalkNode(d)' = WalkNode(d)
  BY DEF Alone, WalkPhase, WalkNode
<1> QED BY <1>1 DEF Walked!Move, WalkNode

LEMMA TaintMoves ==
  ASSUME NEW c \in Child, Alone(c)
  PROVE  /\ foreign'[c] = {} => Tainted' = Tainted \ {c}
         /\ foreign'[c] # {} => Tainted' = Tainted \cup {c}
         /\ (foreign'[c] = {} <=> foreign[c] = {}) => Tainted' = Tainted
BY DEF Alone, Tainted

LEMMA WalkerStays ==
  ASSUME NEW c \in Child, Alone(c), WalkPhase(c)' = WalkPhase(c), WalkNode(c)' = WalkNode(c)
  PROVE  /\ \A d \in Child : WalkPhase(d)' = WalkPhase(d) /\ WalkNode(d)' = WalkNode(d)
         /\ UNCHANGED <<[d \in Child |-> WalkPhase(d)], [d \in Child |-> WalkNode(d)]>>
BY DEF Alone, WalkPhase, WalkNode

-----------------------------------------------------------------------------
(* What the nine are of Walk.                                              *)
LEMMA WaitsOutside ==
  ASSUME NEW c \in Child, Alone(c), Waits(c)
  PROVE  UNCHANGED Walked!vars
<1>1. /\ WalkPhase(c)' = WalkPhase(c) /\ WalkNode(c)' = WalkNode(c)
      /\ Tainted' = Tainted
  BY PhaseOf, PhaseAfter, TaintMoves DEF Waits
<1> QED BY <1>1, WalkerStays DEF Walked!vars, WalkNode, Tainted

LEMMA BeginsWalk ==
  ASSUME NEW c \in Child, Alone(c), Placed(c), Begins(c)
  PROVE  Walked!Begin(c)
<1>1. PICK n \in EntryPoint : at'[c].pc = "enter" /\ at'[c].state = n
  BY PlaceParts DEF Begins
<1>2. WalkPhase(c) = "free" /\ WalkPhase(c)' = "walking" /\ WalkNode(c)' = n
  BY <1>1, PhaseOf, PhaseAfter DEF Begins, Waiting, Walking
<1>3. Tainted' = Tainted
  BY TaintMoves DEF Begins, Placed, Waiting
<1>4. Walked!Move(c, "walking", n)
  BY <1>2, WalkerMoves
<1> QED BY <1>2, <1>3, <1>4 DEF Walked!Begin, Tainted

LEMMA RefusesWalk ==
  ASSUME NEW c \in Child, Alone(c), Placed(c), Refuses(c)
  PROVE  Walked!Refuse(c)
<1>1. WalkPhase(c) = "free" /\ WalkPhase(c)' = "leaving" /\ WalkNode(c)' = 0
  BY PhaseOf, PhaseAfter DEF Refuses, Waiting
<1>2. Tainted' = Tainted
  BY TaintMoves DEF Refuses, Placed, Waiting
<1>3. Walked!Move(c, "leaving", 0)
  BY <1>1, WalkerMoves
<1> QED BY <1>1, <1>2, <1>3 DEF Walked!Refuse, Walked!NoNode, Tainted

LEMMA StaysInNode ==
  ASSUME NEW c \in Child, Alone(c), Stays(c)
  PROVE  UNCHANGED Walked!vars \/ Walked!Return(c)
<1>1. /\ WalkPhase(c) = "walking" /\ WalkPhase(c)' = WalkPhase(c) /\ WalkNode(c)' = WalkNode(c)
  BY PhaseOf, PhaseAfter DEF Stays, Walking, Working
<1>2. Tainted' = Tainted \/ Tainted' = Tainted \ {c}
  BY TaintMoves DEF Stays
<1>3. UNCHANGED <<[d \in Child |-> WalkPhase(d)], [d \in Child |-> WalkNode(d)]>>
  BY <1>1, WalkerStays
<1> QED BY <1>1, <1>2, <1>3 DEF Walked!vars, Walked!Return, WalkNode, Tainted

LEMMA ReturnsToNext ==
  ASSUME NEW c \in Child, Alone(c), Returns(c)
  PROVE  Walked!Step(c) \/ Walked!Leave(c)
<1>1. /\ at[c].state \in DOMAIN Script
      /\ WalkPhase(c) = "walking" /\ WalkNode(c) = at[c].state
  BY PhaseOf DEF Returns
<1>2. Walked!Borrowing(c)
  <2>1. \/ Tainted' = Tainted
        \/ State(c).kind \in {"http", "shell"} /\ Tainted' = Tainted \cup {c}
    BY TaintMoves DEF Returns
  <2> QED BY <1>1, <2>1 DEF Walked!Borrowing, Tainted, WalkNode, State
<1>3. PICK n \in Targets(State(c)) :
        at'[c] = IF n = ENDSTATE THEN Place("finish", 0) ELSE Place("enter", n)
  BY DEF Returns
<1>4. CASE n = ENDSTATE
  <2>1. at'[c].pc = "finish"
    BY <1>3, <1>4, PlaceParts
  <2>2. Walked!Move(c, "leaving", 0)
    BY <2>1, PhaseAfter, WalkerMoves
  <2>3. at[c].state \in {m \in DOMAIN Script : ENDSTATE \in Targets(Script[m])}
    BY <1>1, <1>3, <1>4 DEF State
  <2> QED BY <1>1, <1>2, <2>2, <2>3 DEF Walked!Leave, Walked!NoNode, WalkNode
<1>5. CASE n # ENDSTATE
  <2>1. at'[c].pc = "enter" /\ at'[c].state = n
    BY <1>3, <1>5, PlaceParts
  <2>2. Walked!Move(c, "walking", n)
    BY <2>1, PhaseAfter, WalkerMoves DEF Walking
  <2>3. <<at[c].state, n>> \in ScriptEdges
    BY <1>1, <1>3, <1>5 DEF ScriptEdges, State
  <2>4. n \in {e[2] : e \in {d \in ScriptEdges : d[1] = at[c].state}}
    BY <2>3
  <2> QED BY <1>1, <1>2, <2>2, <2>4 DEF Walked!Step, WalkNode
<1> QED BY <1>4, <1>5

LEMMA LostLeaves ==
  ASSUME NEW c \in Child, Alone(c), IsLost(c)
  PROVE  Walked!Leave(c)
<1>1. /\ WalkPhase(c) = "walking" /\ WalkNode(c) = at[c].state /\ at[c].state \notin DOMAIN Script
      /\ WalkPhase(c)' = "leaving" /\ WalkNode(c)' = 0
  BY PhaseOf, PhaseAfter DEF IsLost, Walking
<1>2. Walked!Move(c, "leaving", 0) /\ Tainted' = Tainted
  BY <1>1, WalkerMoves, TaintMoves DEF IsLost
<1> QED BY <1>1, <1>2 DEF Walked!Leave, Walked!Borrowing, Walked!NoNode, WalkNode, Tainted

LEMMA FinishesFree ==
  ASSUME NEW c \in Child, Alone(c), Finishes(c)
  PROVE  Walked!Free(c)
<1>1. WalkPhase(c) = "leaving" /\ WalkPhase(c)' = "free" /\ WalkNode(c)' = 0
  BY PhaseOf, PhaseAfter DEF Finishes, Waiting
<1>2. Walked!Move(c, "free", 0) /\ Tainted' = Tainted \ {c}
  BY <1>1, WalkerMoves, TaintMoves DEF Finishes
<1> QED BY <1>1, <1>2 DEF Walked!Free, Walked!NoNode, Tainted

LEMMA DiesOnTheWay ==
  ASSUME NEW c \in Child, Alone(c), Dies(c)
  PROVE  Walked!Die(c)
<1>1. /\ \/ WalkPhase(c) = "walking" /\ WalkNode(c) \in FragileStates
         \/ WalkPhase(c) \in {"walking", "leaving"} /\ c \in Tainted
      /\ WalkPhase(c)' = "dead" /\ WalkNode(c)' = 0
  BY PhaseOf, PhaseAfter DEF Dies, Tainted
<1>2. Walked!Move(c, "dead", 0) /\ Tainted' = Tainted \ {c}
  BY <1>1, WalkerMoves, TaintMoves DEF Dies
<1> QED BY <1>1, <1>2 DEF Walked!Die, Walked!NoNode, WalkNode, Tainted

LEMMA IsReplacedFree ==
  ASSUME NEW c \in Child, Alone(c), IsReplaced(c)
  PROVE  Walked!Replace(c)
<1>1. WalkPhase(c) = "dead" /\ WalkPhase(c)' = "free" /\ WalkNode(c)' = 0
  BY PhaseOf, PhaseAfter DEF IsReplaced, Waiting
<1>2. Walked!Move(c, "free", 0) /\ Tainted' = Tainted
  BY <1>1, WalkerMoves, TaintMoves DEF IsReplaced
<1> QED BY <1>1, <1>2 DEF Walked!Replace, Walked!NoNode, Tainted

-----------------------------------------------------------------------------
LEMMA RefinesInit == Init => Walked!Init
<1> SUFFICES ASSUME Init PROVE Walked!Init
  OBVIOUS
<1>1. \A c \in Child : at[c].pc = "idle" /\ foreign[c] = {}
  BY DEF Init, Place
<1>2. \A c \in Child : WalkPhase(c) = "free"
  BY <1>1 DEF WalkPhase
<1> QED BY <1>1, <1>2 DEF Walked!Init, Walked!NoNode

LEMMA RefinesNext ==
  ASSUME MapInv, [Next]_vars
  PROVE  [Walked!Next]_(Walked!vars)
<1>1. ASSUME UNCHANGED <<at, foreign>> PROVE UNCHANGED Walked!vars
  BY <1>1 DEF Walked!vars, WalkPhase
<1>2. ASSUME NEW c \in Child, Accept(c) \/ Serve(c) \/ Respawn(c)
      PROVE  [Walked!Next]_(Walked!vars)
  <2>1. Outside(c)
    BY <1>2, EachStep DEF MapInv
  <2>2. Alone(c)
    BY <1>2, OthersStay DEF MapInv, Alone
  <2>3. Placed(c)
    BY DEF MapInv
  <2>4. \/ UNCHANGED Walked!vars
        \/ Walked!Begin(c) \/ Walked!Refuse(c) \/ Walked!Step(c) \/ Walked!Return(c)
        \/ Walked!Leave(c) \/ Walked!Free(c) \/ Walked!Die(c) \/ Walked!Replace(c)
    BY <2>1, <2>2, <2>3, WaitsOutside, BeginsWalk, RefusesWalk, StaysInNode, ReturnsToNext,
       LostLeaves, FinishesFree, DiesOnTheWay, IsReplacedFree, Zenon DEF Outside
  <2> QED BY <2>4, Zenon DEF Walked!Next
<1>3. UNCHANGED vars \/ OtherClients => UNCHANGED <<at, foreign>>
  BY DEF vars, memory, OtherClients
<1> QED BY <1>1, <1>2, <1>3 DEF Next

(* Whatever the services do, a request walks along the numbers of its      *)
(* script, and its process ends only in the kinds of states that have no   *)
(* handler, or for memory that an http or shell state has lent the table.  *)
THEOREM WalksAlongScript == Safety => WalksTheScript
<1>1. Safety => Walked!Init
  BY RefinesInit DEF Safety
<1>2. Safety => [][Walked!Next]_(Walked!vars)
  BY MapInvariant, RefinesNext, PTL DEF Safety
<1> QED BY <1>1, <1>2, PTL DEF WalksTheScript, Walked!Spec

-----------------------------------------------------------------------------
(* What the walk says of scripts that read global variables only where     *)
(* there is a handler and have no http, mail or shell state.               *)
Guarded == FragileStates = {} /\ \A n \in DOMAIN Script : Script[n].kind # "shell"
Unharmed == \A c \in Child : at[c].pc # "dead" /\ foreign[c] = {}

LEMMA HttpIsFragile ==
  ASSUME Guarded, NEW n \in DOMAIN Script
  PROVE  Script[n].kind \notin {"http", "shell"}
BY DEF Guarded, FragileStates

(* A step of a child that owns all its memory, in such a script.           *)
LEMMA StaysUnharmed ==
  ASSUME Guarded, MapInv, Unharmed, [Next]_vars
  PROVE  Unharmed'
<1>1. CASE UNCHANGED <<at, foreign>>
  BY <1>1 DEF Unharmed
<1>2. ASSUME NEW c \in Child, Accept(c) \/ Serve(c) \/ Respawn(c)
      PROVE  Unharmed'
  <2>1. Outside(c)
    BY <1>2, EachStep DEF MapInv
  <2>2. Alone(c)
    BY <1>2, OthersStay DEF MapInv, Alone
  <2>3. foreign[c] = {} /\ at[c].pc # "dead"
    BY DEF Unharmed
  <2>4. foreign'[c] = {}
    <3>1. CASE Returns(c)
      <4>1. at[c].state \in DOMAIN Script
        BY <3>1 DEF Returns
      <4>2. State(c).kind \notin {"http", "shell"}
        BY <4>1, HttpIsFragile DEF State
      <4> QED BY <2>3, <3>1, <4>2 DEF Returns
    <3> QED BY <2>1, <2>3, <3>1 DEF Outside, Waits, Begins, Refuses, Stays, IsLost, Finishes,
                                    Dies, IsReplaced
  <2>5. at'[c].pc # "dead"
    <3>1. ~Dies(c)
      BY <2>3 DEF Dies, Guarded
    <3>2. CASE Returns(c) \/ Begins(c)
      BY <3>2, PlaceParts DEF Returns, Begins
    <3>3. CASE Waits(c) \/ Refuses(c) \/ Stays(c)
      BY <3>3 DEF Waits, Refuses, Stays, Waiting, Working
    <3>4. CASE IsLost(c) \/ Finishes(c) \/ IsReplaced(c)
      BY <3>4 DEF IsLost, Finishes, IsReplaced
    <3> QED BY <2>1, <3>1, <3>2, <3>3, <3>4 DEF Outside
  <2> QED BY <2>2, <2>4, <2>5 DEF Alone, Unharmed
<1>3. UNCHANGED vars \/ OtherClients => UNCHANGED <<at, foreign>>
  BY DEF vars, memory, OtherClients
<1> QED BY <1>1, <1>2, <1>3 DEF Next

(* With such a script no process is ever lost to an exception or to memory *)
(* that is not its own, whatever databases, memcached and its other        *)
(* clients do, and no value of another owner is in the table.              *)
THEOREM GuardedScriptsSurvive ==
  ASSUME Guarded
  PROVE  Safety => []Unharmed
<1>1. Init => Unharmed
  <2> SUFFICES ASSUME Init, NEW c \in Child PROVE at[c].pc # "dead" /\ foreign[c] = {}
    BY DEF Unharmed
  <2>1. at[c] = Place("idle", 0) /\ foreign[c] = {}
    BY DEF Init
  <2> QED BY <2>1, PlaceParts
<1>2. MapInv /\ Unharmed /\ [Next]_vars => Unharmed'
  BY StaysUnharmed
<1> QED BY <1>1, <1>2, MapInvariant, PTL DEF Safety
=============================================================================
