------------------------- MODULE InterpreterProofs -------------------------
(***************************************************************************)
(* Proofs about the interpreter of scripts, for every number of children   *)
(* and every script that is well formed.                                   *)
(***************************************************************************)
EXTENDS Interpreter, TLAPS

Types == TypeOK /\ IndicesInScript

(* A place of a child is well typed. *)
LEMMA PlaceType ==
  ASSUME NEW pc \in Pc, NEW n \in Int
  PROVE  Place(pc, n) \in Places
BY DEF Place, Places

(* What a reference to a variable of the script evaluates to. *)
LEMMA ResultsType ==
  ASSUME TypeOK, NEW c \in Child, NEW r, Reference(r), NEW v \in Results(c, r)
  PROVE  v \in SUBSET SUBSET Source
<1>1. CASE r.k = "local"
  <2>1. r.x \in Local BY <1>1 DEF Reference
  <2>2. table[c][r.x] \in SUBSET SUBSET Source BY <2>1 DEF TypeOK
  <2>3. {{"garbage"}} \in SUBSET SUBSET Source BY DEF Source
  <2>4. v \in getLocal(c, r.x) BY <1>1 DEF Results
  <2> QED BY <2>2, <2>3, <2>4 DEF getLocal
<1>2. CASE r.k = "prop"
  <2>1. v = getPropositional(c, r.x) BY <1>2 DEF Results
  <2>2. CASE at[c].state \in PropStates /\ r.x \in Prop
    <3>1. prop[c][at[c].state][r.x] \in SUBSET SUBSET Source BY <2>2 DEF TypeOK
    <3> QED BY <2>1, <2>2, <3>1 DEF getPropositional
  <2>3. CASE ~(at[c].state \in PropStates /\ r.x \in Prop)
    BY <2>1, <2>3 DEF getPropositional, NoValue
  <2> QED BY <2>2, <2>3
<1>3. CASE r.k = "text"
  BY <1>3 DEF Results
<1>4. CASE r.k = "global"
  <2>1. v = {{"shared"}} BY <1>4 DEF Results
  <2> QED BY <2>1 DEF Source
<1> QED BY <1>1, <1>2, <1>3, <1>4 DEF Reference, Reading

(* execute() returns to a well-typed place. *)
LEMMA ReturnType ==
  ASSUME TypeOK, NEW c \in Child, NEW n \in Int, Return(c, n)
  PROVE  /\ at' \in [Child -> Places]
         /\ val' \in [Child -> SUBSET Source]
         /\ at'[c].pc \in {"finish", "enter"}
         /\ val'[c] = {}
<1>1. Place("finish", 0) \in Places
  BY DEF Place, Places, Pc
<1>2. Place("enter", n) \in Places
  BY DEF Place, Places, Pc
<1>3. Place("finish", 0).pc = "finish" /\ Place("enter", n).pc = "enter"
  BY DEF Place
<1> QED BY <1>1, <1>2, <1>3 DEF Return, MoveTo, TypeOK

(* The end of a process leaves typed variables and an empty memory. *)
LEMMA DieType ==
  ASSUME TypeOK, NEW c \in Child, Die(c)
  PROVE  /\ at' \in [Child -> Places]
         /\ val' \in [Child -> SUBSET Source]
         /\ table' \in [Child -> [Local -> SUBSET SUBSET Source]]
         /\ foreign' \in [Child -> SUBSET Local]
         /\ prop' \in [Child -> [PropStates -> [Prop -> SUBSET SUBSET Source]]]
         /\ at'[c].pc = "dead" /\ val'[c] = {} /\ table'[c] = Unset
<1>1. Place("dead", 0) \in Places
  BY DEF Place, Places, Pc
<1>2. Unset \in [Local -> SUBSET SUBSET Source]
  BY DEF Unset, NoValue
<1>3. [n \in PropStates |-> NoProp] \in [PropStates -> [Prop -> SUBSET SUBSET Source]]
  BY DEF NoProp, NoValue
<1>4. Place("dead", 0).pc = "dead"
  BY DEF Place
<1> QED BY <1>1, <1>2, <1>3, <1>4 DEF Die, MoveTo, TypeOK

(* The indices of the other children do not move, and those of a child     *)
(* matter only while it evaluates a template or stores.                    *)
LEMMA IndicesFrame ==
  ASSUME TypeOK, IndicesInScript, NEW c \in Child,
         \A d \in Child : d # c => at'[d] = at[d],
         at'[c].pc \notin {"template", "store"}
  PROVE  IndicesInScript'
<1> SUFFICES ASSUME NEW d \in Child, at'[d].pc \in {"template", "store"}
             PROVE  /\ at'[d].state \in DOMAIN Script
                    /\ at'[d].ai \in DOMAIN State(d)'.assignments
                    /\ at'[d].pc = "template" =>
                         at'[d].ri \in DOMAIN Assignment(d)'.from /\ Alternative(d)'.k = "template"
  BY DEF IndicesInScript
<1>1. at'[d] = at[d]
  OBVIOUS
<1>2. State(d)' = State(d) /\ Assignment(d)' = Assignment(d) /\ Alternative(d)' = Alternative(d)
  BY <1>1 DEF State, Assignment, Alternative
<1> QED BY <1>1, <1>2 DEF IndicesInScript

(* A child's step that moves its place only. *)
LEMMA MoveOthers ==
  ASSUME TypeOK, NEW c \in Child, NEW p, MoveTo(c, p)
  PROVE  at'[c] = p /\ \A d \in Child : d # c => at'[d] = at[d]
BY DEF MoveTo, TypeOK

-----------------------------------------------------------------------------
MemoryType ==
  /\ table \in [Child -> [Local -> SUBSET SUBSET Source]]
  /\ foreign \in [Child -> SUBSET Local]
  /\ prop \in [Child -> [PropStates -> [Prop -> SUBSET SUBSET Source]]]
  /\ cache \subseteq Global

(* A state of the script is well formed. *)
LEMMA ScriptFacts ==
  ASSUME NEW c \in Child, at[c].state \in DOMAIN Script
  PROVE  /\ at[c].state \in Int /\ WellFormed(State(c))
         /\ State(c).done \in Int /\ ErrorState(c) \in Int
BY ScriptAssumption DEF State, ErrorState, WellFormed

(* An alternative of an assignment is a reference or a string. *)
LEMMA AlternativeFacts ==
  ASSUME NEW c \in Child, HasAlternative(c)
  PROVE  /\ at[c].pc = "assign" /\ at[c].state \in DOMAIN Script
         /\ at[c].ai \in DOMAIN State(c).assignments
         /\ at[c].ri \in DOMAIN Assignment(c).from
         /\ Alternative(c).k \in Reading => Reference(Alternative(c))
<1>1. /\ at[c].pc = "assign" /\ at[c].state \in DOMAIN Script
      /\ at[c].ai \in DOMAIN State(c).assignments
      /\ at[c].ri \in DOMAIN Assignment(c).from
  BY DEF HasAlternative, Pending, Assigning, AtKind
<1>2. WellFormed(State(c))
  BY <1>1, ScriptFacts
<1>3. Reference(Alternative(c)) \/ Template(Alternative(c))
  BY <1>1, <1>2 DEF WellFormed, Alternative, Assignment
<1> QED BY <1>1, <1>3 DEF Template, Reading

LEMMA ReturnKeepsTypes ==
  ASSUME Types, NEW c \in Child, NEW n \in Int, Return(c, n), MemoryType'
  PROVE  Types'
<1>1. \A d \in Child : d # c => at'[d] = at[d]
  BY DEF Return, MoveTo, Types, TypeOK
<1>2. TypeOK'
  BY ReturnType DEF Types, TypeOK, MemoryType
<1>3. at'[c].pc \notin {"template", "store"}
  BY ReturnType DEF Types
<1> QED BY <1>1, <1>2, <1>3, IndicesFrame DEF Types

LEMMA MoveKeepsTypes ==
  ASSUME Types, NEW c \in Child, NEW p \in Places, MoveTo(c, p),
         p.pc \notin {"template", "store"}, val' \in [Child -> SUBSET Source], MemoryType'
  PROVE  Types'
<1>1. at'[c] = p /\ \A d \in Child : d # c => at'[d] = at[d]
  BY MoveOthers DEF Types
<1>2. at' \in [Child -> Places]
  BY DEF MoveTo, Types, TypeOK
<1>3. TypeOK'
  BY <1>2 DEF TypeOK, MemoryType
<1> QED BY <1>1, <1>3, IndicesFrame DEF Types

LEMMA DieKeepsTypes ==
  ASSUME Types, NEW c \in Child, Die(c), cache' \subseteq Global
  PROVE  Types'
<1>1. \A d \in Child : d # c => at'[d] = at[d]
  BY DEF Die, MoveTo, Types, TypeOK
<1>2. TypeOK'
  BY DieType DEF Types, TypeOK
<1>3. at'[c].pc \notin {"template", "store"}
  BY DieType DEF Types
<1> QED BY <1>1, <1>2, <1>3, IndicesFrame DEF Types

(* The value a child is building stays a set of sources. *)
LEMMA EvaluateType ==
  ASSUME TypeOK, NEW c \in Child, NEW r, Reference(r), Evaluate(c, r)
  PROVE  val' \in [Child -> SUBSET Source]
<1> PICK v \in Results(c, r) : val' = [val EXCEPT ![c] = @ \cup UNION v]
  BY DEF Evaluate
<1>1. v \in SUBSET SUBSET Source
  BY ResultsType
<1>2. UNION v \in SUBSET Source
  BY <1>1
<1> QED BY <1>2 DEF TypeOK

(* Clear keeps the propositional variables typed. *)
LEMMA ClearType ==
  ASSUME TypeOK, NEW c \in Child, NEW result \in [Prop -> SUBSET SUBSET Source], Clear(c, result)
  PROVE  prop' \in [Child -> [PropStates -> [Prop -> SUBSET SUBSET Source]]]
BY DEF Clear, TypeOK

(* So does assignLocal the symbol table. *)
LEMMA AssignLocalType ==
  ASSUME TypeOK, NEW c \in Child, NEW x \in Local, NEW v \in SUBSET Source, NEW b \in BOOLEAN,
         assignLocal(c, x, v, b)
  PROVE  /\ table' \in [Child -> [Local -> SUBSET SUBSET Source]]
         /\ foreign' \in [Child -> SUBSET Local]
BY DEF assignLocal, TypeOK

LEMMA StoreParametersType ==
  ASSUME TypeOK, NEW c \in Child, StoreParameters(c)
  PROVE  /\ table' \in [Child -> [Local -> SUBSET SUBSET Source]]
         /\ foreign' \in [Child -> SUBSET Local]
BY ParamAssumption DEF StoreParameters, TypeOK, Source

-----------------------------------------------------------------------------
(* What an earlier request left has the same type. *)
LEMMA AgedType ==
  ASSUME NEW S, NEW f \in [S -> SUBSET SUBSET Source]
  PROVE  Aged(f) \in [S -> SUBSET SUBSET Source]
<1>1. ASSUME NEW v \in SUBSET Source PROVE Age(v) \in SUBSET Source
  BY DEF Age, Source
<1> QED BY <1>1 DEF Aged

LEMMA UnsetType == Unset \in [Local -> SUBSET SUBSET Source]
BY DEF Unset, NoValue

LEMMA NoPropType == NoProp \in [Prop -> SUBSET SUBSET Source]
BY DEF NoProp, NoValue

(* The place of the next assignment. *)
LEMMA NextAssignmentType ==
  ASSUME TypeOK, NEW c \in Child
  PROVE  NextAssignment(c) \in Places /\ NextAssignment(c).pc = "assign"
<1>1. at[c] \in Places
  BY DEF TypeOK
<1>2. at[c].state \in Int /\ at[c].ai + 1 \in Nat \ {0}
  BY <1>1 DEF Places
<1>3. NextAssignment(c) = [pc |-> "assign", state |-> at[c].state, ai |-> at[c].ai + 1, ri |-> 1, ti |-> 1]
  BY DEF NextAssignment, Place
<1> QED BY <1>2, <1>3 DEF Places, Pc

(* A child that starts to store has an assignment to store to. *)
LEMMA StoreKeepsTypes ==
  ASSUME Types, NEW c \in Child, MemoryType', val' \in [Child -> SUBSET Source],
         at' \in [Child -> Places], \A d \in Child : d # c => at'[d] = at[d],
         at[c].state \in DOMAIN Script, at[c].ai \in DOMAIN State(c).assignments,
         at'[c].pc = "store", at'[c].state = at[c].state, at'[c].ai = at[c].ai
  PROVE  Types'
<1>1. TypeOK'
  BY DEF TypeOK, MemoryType
<1>2. ASSUME NEW d \in Child, d # c
      PROVE  at'[d] = at[d] /\ State(d)' = State(d) /\ Assignment(d)' = Assignment(d)
             /\ Alternative(d)' = Alternative(d)
  BY <1>2 DEF State, Assignment, Alternative
<1>3. State(c)' = State(c)
  BY DEF State
<1> QED BY <1>1, <1>2, <1>3 DEF Types, IndicesInScript

(* The same for one that evaluates a template. *)
LEMMA TemplateKeepsTypes ==
  ASSUME Types, NEW c \in Child, MemoryType', val' \in [Child -> SUBSET Source],
         at' \in [Child -> Places], \A d \in Child : d # c => at'[d] = at[d],
         at[c].state \in DOMAIN Script, at[c].ai \in DOMAIN State(c).assignments,
         at[c].ri \in DOMAIN Assignment(c).from, Alternative(c).k = "template",
         at'[c].state = at[c].state, at'[c].ai = at[c].ai, at'[c].ri = at[c].ri
  PROVE  Types'
<1>1. TypeOK'
  BY DEF TypeOK, MemoryType
<1>2. ASSUME NEW d \in Child, d # c
      PROVE  at'[d] = at[d] /\ State(d)' = State(d) /\ Assignment(d)' = Assignment(d)
             /\ Alternative(d)' = Alternative(d)
  BY <1>2 DEF State, Assignment, Alternative
<1>3. State(c)' = State(c) /\ Assignment(c)' = Assignment(c) /\ Alternative(c)' = Alternative(c)
  BY DEF State, Assignment, Alternative
<1> QED BY <1>1, <1>2, <1>3 DEF Types, IndicesInScript

(* Every action keeps the types. *)
LEMMA StepKeepsTypes ==
  ASSUME Types, [Next]_vars
  PROVE  Types'
<1>0. /\ TypeOK /\ IndicesInScript /\ MemoryType
      /\ at \in [Child -> Places] /\ val \in [Child -> SUBSET Source]
  BY DEF Types, TypeOK, MemoryType
<1>1. ASSUME NEW c \in Child, Accept(c) PROVE Types'
  <2>1. Place("params", 0) \in Places /\ Place("params", 0).pc = "params"
    BY PlaceType DEF Place, Pc
  <2>2. table' \in [Child -> [Local -> SUBSET SUBSET Source]]
    <3>1. Aged(table[c]) \in [Local -> SUBSET SUBSET Source]
      BY <1>0, AgedType DEF MemoryType
    <3> QED BY <1>0, <1>1, <3>1 DEF Accept, MemoryType
  <2>3. prop' \in [Child -> [PropStates -> [Prop -> SUBSET SUBSET Source]]]
    <3>1. \A s \in PropStates : Aged(prop[c][s]) \in [Prop -> SUBSET SUBSET Source]
      BY <1>0, AgedType DEF MemoryType
    <3> QED BY <1>0, <1>1, <3>1 DEF Accept, MemoryType
  <2>4. MoveTo(c, Place("params", 0)) /\ val' \in [Child -> SUBSET Source] /\ MemoryType'
    BY <1>0, <1>1, <2>2, <2>3 DEF Accept, MemoryType
  <2> QED BY <2>1, <2>4, MoveKeepsTypes
<1>2. ASSUME NEW c \in Child, NoParameters(c) PROVE Types'
  <2>1. Place("idle", 0) \in Places /\ Place("idle", 0).pc = "idle"
    BY PlaceType DEF Place, Pc
  <2>2. MoveTo(c, Place("idle", 0)) /\ val' \in [Child -> SUBSET Source] /\ MemoryType'
    BY <1>0, <1>2 DEF NoParameters, memory, MemoryType
  <2> QED BY <2>1, <2>2, MoveKeepsTypes
<1>3. ASSUME NEW c \in Child, NoScript(c) PROVE Types'
  <2>1. Place("finish", 0) \in Places /\ Place("finish", 0).pc = "finish"
    BY PlaceType DEF Place, Pc
  <2>2. MoveTo(c, Place("finish", 0)) /\ val' \in [Child -> SUBSET Source] /\ MemoryType'
    BY <1>0, <1>3, StoreParametersType DEF NoScript, memory, MemoryType
  <2> QED BY <2>1, <2>2, MoveKeepsTypes
<1>4. ASSUME NEW c \in Child, StartScript(c) PROVE Types'
  <2>1. PICK n \in EntryPoint : MoveTo(c, Place("enter", n))
    BY <1>4 DEF StartScript
  <2>2. Place("enter", n) \in Places /\ Place("enter", n).pc = "enter"
    BY PlaceType, EntryAssumption DEF Place, Pc
  <2>3. val' \in [Child -> SUBSET Source] /\ MemoryType'
    BY <1>0, <1>4, StoreParametersType DEF StartScript, MemoryType
  <2> QED BY <2>1, <2>2, <2>3, MoveKeepsTypes
<1>5. ASSUME NEW c \in Child, NoSuchState(c) PROVE Types'
  <2>1. Place("finish", 0) \in Places /\ Place("finish", 0).pc = "finish"
    BY PlaceType DEF Place, Pc
  <2>2. MoveTo(c, Place("finish", 0)) /\ val' \in [Child -> SUBSET Source] /\ MemoryType'
    BY <1>0, <1>5 DEF NoSuchState, memory, MemoryType
  <2> QED BY <2>1, <2>2, MoveKeepsTypes
<1>6. ASSUME NEW c \in Child, Finish(c) PROVE Types'
  <2>1. Place("idle", 0) \in Places /\ Place("idle", 0).pc = "idle"
    BY PlaceType DEF Place, Pc
  <2>2. MoveTo(c, Place("idle", 0)) /\ val' \in [Child -> SUBSET Source] /\ MemoryType'
    BY <1>0, <1>6, UnsetType DEF Finish, memory, MemoryType
  <2> QED BY <2>1, <2>2, MoveKeepsTypes
<1>7. ASSUME NEW c \in Child, Respawn(c) PROVE Types'
  <2>1. Place("idle", 0) \in Places /\ Place("idle", 0).pc = "idle"
    BY PlaceType DEF Place, Pc
  <2>2. MoveTo(c, Place("idle", 0)) /\ val' \in [Child -> SUBSET Source] /\ MemoryType'
    BY <1>0, <1>7 DEF Respawn, memory, MemoryType
  <2> QED BY <2>1, <2>2, MoveKeepsTypes
<1>8. ASSUME NEW c \in Child, Regex(c) PROVE Types'
  <2>0. at[c].state \in DOMAIN Script /\ at[c].state \in Int /\ ErrorState(c) \in Int
        /\ Reference(State(c).subject)
    BY <1>8, ScriptFacts DEF Regex, AtKind, WellFormed
  <2>1. PICK v \in Results(c, State(c).subject) :
          \/ Return(c, ErrorState(c)) /\ Clear(c, NoProp)
          \/ \E groups \in 1 .. REGMATCH_COUNT :
               /\ Clear(c, [i \in Prop |-> IF i < groups THEN v ELSE NoValue])
               /\ Continue(c, "assign") /\ UNCHANGED val
    BY <1>8 DEF Regex
  <2>2. v \in SUBSET SUBSET Source
    BY <1>0, <2>0, ResultsType
  <2>3. UNCHANGED <<memory, cache>>
    BY <1>8 DEF Regex
  <2>4. CASE Return(c, ErrorState(c)) /\ Clear(c, NoProp)
    <3>1. MemoryType'
      BY <1>0, <2>3, <2>4, ClearType, NoPropType DEF MemoryType, memory
    <3> QED BY <2>0, <2>4, <3>1, ReturnKeepsTypes
  <2>5. ASSUME NEW groups \in 1 .. REGMATCH_COUNT, Clear(c, [i \in Prop |-> IF i < groups THEN v ELSE NoValue]),
               Continue(c, "assign"), UNCHANGED val
        PROVE  Types'
    <3>1. [i \in Prop |-> IF i < groups THEN v ELSE NoValue] \in [Prop -> SUBSET SUBSET Source]
      BY <2>2 DEF NoValue
    <3>2. MemoryType'
      BY <1>0, <2>3, <2>5, <3>1, ClearType DEF MemoryType, memory
    <3>3. Place("assign", at[c].state) \in Places /\ Place("assign", at[c].state).pc = "assign"
      BY <2>0, PlaceType DEF Place, Pc
    <3> QED BY <1>0, <2>5, <3>2, <3>3, MoveKeepsTypes DEF Continue
  <2> QED BY <2>1, <2>4, <2>5
<1>9. ASSUME NEW c \in Child, Structure(c) PROVE Types'
  <2>0. at[c].state \in DOMAIN Script /\ at[c].state \in Int /\ ErrorState(c) \in Int
        /\ Reference(State(c).subject)
    BY <1>9, ScriptFacts DEF Structure, AtKind, WellFormed
  <2>1. PICK v \in Results(c, State(c).subject) :
          \/ Return(c, ErrorState(c)) /\ Clear(c, NoProp)
          \/ \E names \in SUBSET Prop :
               /\ Clear(c, [i \in Prop |-> IF i \in names THEN v ELSE NoValue])
               /\ Continue(c, "assign") /\ UNCHANGED val
    BY <1>9 DEF Structure
  <2>2. v \in SUBSET SUBSET Source
    BY <1>0, <2>0, ResultsType
  <2>3. UNCHANGED <<memory, cache>>
    BY <1>9 DEF Structure
  <2>4. CASE Return(c, ErrorState(c)) /\ Clear(c, NoProp)
    <3>1. MemoryType'
      BY <1>0, <2>3, <2>4, ClearType, NoPropType DEF MemoryType, memory
    <3> QED BY <2>0, <2>4, <3>1, ReturnKeepsTypes
  <2>5. ASSUME NEW names \in SUBSET Prop, Clear(c, [i \in Prop |-> IF i \in names THEN v ELSE NoValue]),
               Continue(c, "assign"), UNCHANGED val
        PROVE  Types'
    <3>1. [i \in Prop |-> IF i \in names THEN v ELSE NoValue] \in [Prop -> SUBSET SUBSET Source]
      BY <2>2 DEF NoValue
    <3>2. MemoryType'
      BY <1>0, <2>3, <2>5, <3>1, ClearType DEF MemoryType, memory
    <3>3. Place("assign", at[c].state) \in Places /\ Place("assign", at[c].state).pc = "assign"
      BY <2>0, PlaceType DEF Place, Pc
    <3> QED BY <1>0, <2>5, <3>2, <3>3, MoveKeepsTypes DEF Continue
  <2> QED BY <2>1, <2>4, <2>5
<1>10. ASSUME NEW c \in Child, Match(c) PROVE Types'
  <2>1. ErrorState(c) \in Int /\ State(c).cases \cup {State(c).done} \subseteq Int
    BY <1>10, ScriptFacts DEF Match, AtKind, WellFormed
  <2>2. PICK n \in Int : Return(c, n)
    BY <1>10, <2>1 DEF Match
  <2>3. MemoryType'
    BY <1>0, <1>10 DEF Match, memory, MemoryType
  <2> QED BY <2>2, <2>3, ReturnKeepsTypes
<1>11. ASSUME NEW c \in Child, BeginText(c) PROVE Types'
  <2>1. at[c].state \in Int /\ ErrorState(c) \in Int
    BY <1>11, ScriptFacts DEF BeginText, AtKind
  <2>2. MemoryType'
    BY <1>0, <1>11, ClearType, NoPropType DEF BeginText, memory, MemoryType
  <2>3. CASE Return(c, ErrorState(c))
    BY <2>1, <2>2, <2>3, ReturnKeepsTypes
  <2>4. CASE Continue(c, "text") /\ UNCHANGED val
    <3>1. Place("text", at[c].state) \in Places /\ Place("text", at[c].state).pc = "text"
      BY <2>1, PlaceType DEF Place, Pc
    <3> QED BY <1>0, <2>2, <2>4, <3>1, MoveKeepsTypes DEF Continue
  <2> QED BY <1>11, <2>3, <2>4 DEF BeginText
<1>12. ASSUME NEW c \in Child, BeginGoto(c) PROVE Types'
  <2>1. Place("assign", at[c].state) \in Places /\ Place("assign", at[c].state).pc = "assign"
    BY <1>12, ScriptFacts, PlaceType DEF BeginGoto, AtKind, Place, Pc
  <2>2. MoveTo(c, Place("assign", at[c].state)) /\ val' \in [Child -> SUBSET Source] /\ MemoryType'
    BY <1>0, <1>12 DEF BeginGoto, Continue, memory, MemoryType
  <2> QED BY <2>1, <2>2, MoveKeepsTypes
<1>13. ASSUME NEW c \in Child, Pass(c) PROVE Types'
  <2>1. Return(c, State(c).done) /\ MemoryType'
    BY <1>0, <1>13 DEF Pass, memory, MemoryType
  <2>2. State(c).done \in Int
    BY <1>13, ScriptFacts DEF Pass, AtKind, TextDone, Assigning, ENDSTATE
  <2> QED BY <2>1, <2>2, ReturnKeepsTypes
<1>14. ASSUME NEW c \in Child, Text(c) PROVE Types'
  <2>1. Reference(State(c).text[at[c].ti])
    BY <1>14, ScriptFacts DEF Text, AtKind, WellFormed
  <2>2. val' \in [Child -> SUBSET Source]
    BY <1>0, <1>14, <2>1, EvaluateType DEF Text
  <2>3. MoveTo(c, [at[c] EXCEPT !.ti = @ + 1]) /\ MemoryType'
    BY <1>0, <1>14 DEF Text, MoveTo, memory, MemoryType, Places
  <2>4. /\ [at[c] EXCEPT !.ti = @ + 1] \in Places
        /\ [at[c] EXCEPT !.ti = @ + 1].pc = "text"
    BY <1>0, <1>14 DEF Text, AtKind, Places
  <2> QED BY <2>2, <2>3, <2>4, MoveKeepsTypes
<1>15. ASSUME NEW c \in Child, Query(c) PROVE Types'
  <2>0. at[c].state \in Int /\ ErrorState(c) \in Int
    BY <1>15, ScriptFacts DEF Query, TextDone, AtKind
  <2>1. CASE Return(c, ErrorState(c)) /\ UNCHANGED prop
    <3>1. MemoryType'
      BY <1>0, <1>15, <2>1 DEF Query, memory, MemoryType
    <3> QED BY <2>0, <2>1, <3>1, ReturnKeepsTypes
  <2>2. ASSUME NEW cols \in 0 .. REGMATCH_COUNT, NEW nulls \in SUBSET Prop,
               Clear(c, [i \in Prop |-> IF i >= cols THEN NoValue
                                        ELSE IF i \in nulls THEN {{}}
                                        ELSE {val[c] \cup {"shared"}}]),
               Continue(c, "assign"), val' = [val EXCEPT ![c] = {}]
        PROVE  Types'
    <3> DEFINE row == [i \in Prop |-> IF i >= cols THEN NoValue
                                      ELSE IF i \in nulls THEN {{}}
                                      ELSE {val[c] \cup {"shared"}}]
    <3>1. row \in [Prop -> SUBSET SUBSET Source]
      BY <1>0 DEF NoValue, Source
    <3>2. prop' \in [Child -> [PropStates -> [Prop -> SUBSET SUBSET Source]]]
      <4>1. Clear(c, row) BY <2>2
      <4> HIDE DEF row
      <4> QED BY <1>0, <3>1, <4>1, ClearType
    <3>3. MemoryType' /\ val' \in [Child -> SUBSET Source]
      BY <1>0, <1>15, <2>2, <3>2 DEF Query, memory, MemoryType
    <3>4. Place("assign", at[c].state) \in Places /\ Place("assign", at[c].state).pc = "assign"
      BY <2>0, PlaceType DEF Place, Pc
    <3> QED BY <2>2, <3>3, <3>4, MoveKeepsTypes DEF Continue
  <2> QED BY <1>15, <2>1, <2>2 DEF Query
<1>16. ASSUME NEW c \in Child, WriteFile(c) PROVE Types'
  <2>1. Return(c, State(c).done) /\ MemoryType'
    BY <1>0, <1>16 DEF WriteFile, memory, MemoryType
  <2>2. State(c).done \in Int
    BY <1>16, ScriptFacts DEF WriteFile, AtKind, TextDone, Assigning, ENDSTATE
  <2> QED BY <2>1, <2>2, ReturnKeepsTypes
<1>17. ASSUME NEW c \in Child, End(c) PROVE Types'
  <2>1. Return(c, ENDSTATE) /\ MemoryType'
    BY <1>0, <1>17 DEF End, memory, MemoryType
  <2>2. ENDSTATE \in Int
    BY <1>17, ScriptFacts DEF End, AtKind, TextDone, Assigning, ENDSTATE
  <2> QED BY <2>1, <2>2, ReturnKeepsTypes
<1>18. ASSUME NEW c \in Child, Fetch(c) PROVE Types'
  <2>1. /\ State(c).done \in Int /\ ErrorState(c) \in Int
        /\ State(c).output \in Local
    BY <1>18, ScriptFacts DEF Fetch, TextDone, AtKind, WellFormed
  <2>2. val[c] \cup {"shared"} \in SUBSET Source
    BY <1>0 DEF Source
  <2>3. CASE Return(c, ErrorState(c)) /\ UNCHANGED memory
    <3>1. MemoryType'
      BY <1>0, <1>18, <2>3 DEF Fetch, memory, MemoryType
    <3> QED BY <2>1, <2>3, <3>1, ReturnKeepsTypes
  <2>4. CASE assignLocal(c, State(c).output, val[c] \cup {"shared"}, TRUE) /\ Return(c, State(c).done)
    <3>1. MemoryType'
      BY <1>0, <1>18, <2>1, <2>2, <2>4, AssignLocalType DEF Fetch, MemoryType
    <3> QED BY <2>1, <2>4, <3>1, ReturnKeepsTypes
  <2> QED BY <1>18, <2>3, <2>4 DEF Fetch
<1>19. ASSUME NEW c \in Child, SendMail(c) PROVE Types'
  <2>1. State(c).done \in Int /\ ErrorState(c) \in Int
    BY <1>19, ScriptFacts DEF SendMail, TextDone, AtKind
  <2>2. MemoryType'
    BY <1>0, <1>19 DEF SendMail, memory, MemoryType
  <2> QED BY <1>19, <2>1, <2>2, ReturnKeepsTypes DEF SendMail
<1>20. ASSUME NEW c \in Child, AllAssigned(c) PROVE Types'
  <2>1. Return(c, State(c).done) /\ MemoryType'
    BY <1>0, <1>20 DEF AllAssigned, memory, MemoryType
  <2>2. State(c).done \in Int
    BY <1>20, ScriptFacts DEF AllAssigned, AtKind, TextDone, Assigning, ENDSTATE
  <2> QED BY <2>1, <2>2, ReturnKeepsTypes
<1>21. ASSUME NEW c \in Child, NoAlternative(c) PROVE Types'
  <2>1. NextAssignment(c) \in Places /\ NextAssignment(c).pc = "assign"
    BY <1>0, NextAssignmentType
  <2>2. MoveTo(c, NextAssignment(c)) /\ val' \in [Child -> SUBSET Source] /\ MemoryType'
    BY <1>0, <1>21 DEF NoAlternative, memory, MemoryType
  <2> QED BY <2>1, <2>2, MoveKeepsTypes
<1>22. ASSUME NEW c \in Child, ReadAlternative(c) PROVE Types'
  <2>0. /\ at[c].state \in DOMAIN Script /\ at[c].pc = "assign"
        /\ at[c].ai \in DOMAIN State(c).assignments
        /\ at[c].ri \in DOMAIN Assignment(c).from
        /\ Reference(Alternative(c))
    BY <1>22, AlternativeFacts DEF ReadAlternative
  <2>1. PICK v \in Results(c, Alternative(c)) :
          \/ v = NoValue /\ at' = [at EXCEPT ![c].ri = @ + 1] /\ UNCHANGED val
          \/ /\ at' = [at EXCEPT ![c].pc = "store"]
             /\ val' = [val EXCEPT ![c] = UNION v]
    BY <1>22 DEF ReadAlternative
  <2>2. MemoryType'
    BY <1>0, <1>22 DEF ReadAlternative, memory, MemoryType
  <2>3. CASE v = NoValue /\ at' = [at EXCEPT ![c].ri = @ + 1] /\ UNCHANGED val
    <3>1. MoveTo(c, [at[c] EXCEPT !.ri = @ + 1])
      BY <1>0, <2>3 DEF MoveTo, Places
    <3>2. /\ [at[c] EXCEPT !.ri = @ + 1] \in Places
          /\ [at[c] EXCEPT !.ri = @ + 1].pc = "assign"
      BY <1>0, <2>0 DEF Places
    <3> QED BY <1>0, <2>2, <2>3, <3>1, <3>2, MoveKeepsTypes
  <2>4. CASE at' = [at EXCEPT ![c].pc = "store"] /\ val' = [val EXCEPT ![c] = UNION v]
    <3>1. v \in SUBSET SUBSET Source
      BY <1>0, <2>0, ResultsType
    <3>2. val' \in [Child -> SUBSET Source]
      BY <1>0, <2>4, <3>1
    <3>3. at'[c] = [at[c] EXCEPT !.pc = "store"] /\ at' \in [Child -> Places]
      BY <1>0, <2>4 DEF Places, Pc
    <3>4. at'[c].pc = "store" /\ at'[c].state = at[c].state /\ at'[c].ai = at[c].ai
      BY <1>0, <3>3 DEF Places
    <3>5. \A d \in Child : d # c => at'[d] = at[d]
      BY <1>0, <2>4
    <3> QED BY <1>0, <2>0, <2>2, <3>2, <3>3, <3>4, <3>5, StoreKeepsTypes
  <2> QED BY <2>1, <2>3, <2>4
<1>23. ASSUME NEW c \in Child, BeginTemplate(c) PROVE Types'
  <2>0. /\ at[c].state \in DOMAIN Script
        /\ at[c].ai \in DOMAIN State(c).assignments
        /\ at[c].ri \in DOMAIN Assignment(c).from /\ Alternative(c).k = "template"
    BY <1>23 DEF BeginTemplate, HasAlternative, Pending, Assigning, AtKind
  <2>1. MemoryType' /\ val' \in [Child -> SUBSET Source]
    BY <1>0, <1>23 DEF BeginTemplate, memory, MemoryType
  <2>2. at'[c] = [at[c] EXCEPT !.pc = "template"] /\ at' \in [Child -> Places]
    BY <1>0, <1>23 DEF BeginTemplate, Places, Pc
  <2>3. /\ at'[c].state = at[c].state /\ at'[c].ai = at[c].ai /\ at'[c].ri = at[c].ri
    BY <1>0, <2>2 DEF Places
  <2>4. \A d \in Child : d # c => at'[d] = at[d]
    BY <1>0, <1>23 DEF BeginTemplate
  <2> QED BY <1>0, <2>0, <2>1, <2>2, <2>3, <2>4, TemplateKeepsTypes
<1>24. ASSUME NEW c \in Child, EvaluateTemplate(c) PROVE Types'
  <2>0. /\ at[c].pc = "template" /\ at[c].state \in DOMAIN Script
        /\ at[c].ai \in DOMAIN State(c).assignments
        /\ at[c].ri \in DOMAIN Assignment(c).from /\ Alternative(c).k = "template"
        /\ at[c].ti \in DOMAIN Alternative(c).refs
    BY <1>0, <1>24 DEF EvaluateTemplate, InTemplate, AtKind, IndicesInScript
  <2>1. Template(Alternative(c))
    BY <2>0, ScriptFacts DEF WellFormed, Alternative, Assignment, Reference, Reading
  <2>2. Reference(Alternative(c).refs[at[c].ti])
    BY <2>0, <2>1 DEF Template
  <2>3. MemoryType' /\ val' \in [Child -> SUBSET Source]
    BY <1>0, <1>24, <2>2, EvaluateType DEF EvaluateTemplate, memory, MemoryType
  <2>4. at'[c] = [at[c] EXCEPT !.ti = @ + 1] /\ at' \in [Child -> Places]
    BY <1>0, <1>24 DEF EvaluateTemplate, Places
  <2>5. /\ at'[c].state = at[c].state /\ at'[c].ai = at[c].ai /\ at'[c].ri = at[c].ri
    BY <1>0, <2>4 DEF Places
  <2>6. \A d \in Child : d # c => at'[d] = at[d]
    BY <1>0, <1>24 DEF EvaluateTemplate
  <2> QED BY <1>0, <2>0, <2>3, <2>4, <2>5, <2>6, TemplateKeepsTypes
<1>25. ASSUME NEW c \in Child, TemplateDone(c) PROVE Types'
  <2>0. /\ at[c].state \in DOMAIN Script
        /\ at[c].ai \in DOMAIN State(c).assignments
    BY <1>0, <1>25 DEF TemplateDone, InTemplate, AtKind, IndicesInScript
  <2>1. MemoryType' /\ val' \in [Child -> SUBSET Source]
    BY <1>0, <1>25 DEF TemplateDone, memory, MemoryType
  <2>2. at'[c] = [at[c] EXCEPT !.pc = "store"] /\ at' \in [Child -> Places]
    BY <1>0, <1>25 DEF TemplateDone, Places, Pc
  <2>3. at'[c].pc = "store" /\ at'[c].state = at[c].state /\ at'[c].ai = at[c].ai
    BY <1>0, <2>2 DEF Places
  <2>4. \A d \in Child : d # c => at'[d] = at[d]
    BY <1>0, <1>25 DEF TemplateDone
  <2> QED BY <1>0, <2>0, <2>1, <2>2, <2>3, <2>4, StoreKeepsTypes
<1>26. ASSUME NEW c \in Child, StoreLocal(c) PROVE Types'
  <2>1. NextAssignment(c) \in Places /\ NextAssignment(c).pc = "assign"
    BY <1>0, NextAssignmentType
  <2>2. Assignment(c).to.x \in Local
    <3>1. at[c].state \in DOMAIN Script /\ at[c].ai \in DOMAIN State(c).assignments
      BY <1>0, <1>26 DEF StoreLocal, Storing, AtKind, IndicesInScript
    <3> QED BY <1>26, <3>1, ScriptFacts DEF StoreLocal, Storing, Assignment, WellFormed, Reference
  <2>3. MemoryType' /\ val' \in [Child -> SUBSET Source] /\ MoveTo(c, NextAssignment(c))
    BY <1>0, <1>26, <2>2, AssignLocalType DEF StoreLocal, memory, MemoryType
  <2> QED BY <2>1, <2>3, MoveKeepsTypes
<1>27. ASSUME NEW c \in Child, assignGlobal(c) PROVE Types'
  <2>1. NextAssignment(c) \in Places /\ NextAssignment(c).pc = "assign"
    BY <1>0, NextAssignmentType
  <2>2. Assignment(c).to.x \in Global
    <3>1. at[c].state \in DOMAIN Script /\ at[c].ai \in DOMAIN State(c).assignments
      BY <1>0, <1>27 DEF assignGlobal, Storing, AtKind, IndicesInScript
    <3> QED BY <1>27, <3>1, ScriptFacts DEF assignGlobal, Storing, Assignment, WellFormed, Reference
  <2>3. MemoryType' /\ val' \in [Child -> SUBSET Source] /\ MoveTo(c, NextAssignment(c))
    BY <1>0, <1>27, <2>2 DEF assignGlobal, memory, MemoryType
  <2> QED BY <2>1, <2>3, MoveKeepsTypes
<1>28. ASSUME NEW c \in Child, ThrowCaught(c) PROVE Types'
  <2>1. Return(c, ErrorState(c)) /\ MemoryType'
    BY <1>0, <1>28 DEF ThrowCaught, memory, MemoryType
  <2>2. ErrorState(c) \in Int
    BY <1>28, ScriptFacts DEF ThrowCaught, Throws, AtKind, HasAlternative, Pending, Assigning,
       InTemplate, Storing
  <2> QED BY <2>1, <2>2, ReturnKeepsTypes
<1>29. ASSUME NEW c \in Child, ThrowUncaught(c) \/ Aborted(c) PROVE Types'
  <2>1. Die(c) /\ cache' \subseteq Global
    BY <1>0, <1>29
    DEF ThrowUncaught, Aborted, FinishAborted, FetchAborted, SendMailAborted, StoreLocalAborted, MemoryType
  <2> QED BY <2>1, DieKeepsTypes
<1>30. CASE OtherClients
  <2>1. TypeOK' /\ at' = at
    BY <1>0, <1>30 DEF OtherClients, memory, TypeOK
  <2> QED BY <1>0, <2>1 DEF Types, IndicesInScript, State, Assignment, Alternative
<1>31. CASE UNCHANGED vars
  <2>1. TypeOK' /\ at' = at
    BY <1>0, <1>31 DEF vars, memory, TypeOK
  <2> QED BY <1>0, <2>1 DEF Types, IndicesInScript, State, Assignment, Alternative
<1> QED
  BY <1>1, <1>2, <1>3, <1>4, <1>5, <1>6, <1>7, <1>8, <1>9, <1>10, <1>11, <1>12,
     <1>13, <1>14, <1>15, <1>16, <1>17, <1>18, <1>19, <1>20, <1>21, <1>22, <1>23,
     <1>24, <1>25, <1>26, <1>27, <1>28, <1>29, <1>30, <1>31
  DEF Next, Serve, Enter, Effect, Assign

(* The types and indices hold at first. *)
LEMMA InitTypes == Init => Types
<1> SUFFICES ASSUME Init PROVE Types
  OBVIOUS
<1>1. \A c \in Child : at[c] = Place("idle", 0) /\ at[c].pc = "idle"
  BY DEF Init, Place
<1>2. Place("idle", 0) \in Places
  BY PlaceType DEF Pc
<1>3. TypeOK
  BY <1>2, UnsetType, NoPropType DEF Init, TypeOK
<1> QED BY <1>1, <1>3 DEF Types, IndicesInScript

(* Every variable has its type, and what a child reads and stores exists   *)
(* in the script, for every script that is well formed.                    *)
THEOREM TypesHold == Safety => [](TypeOK /\ IndicesInScript)
<1>1. Init => Types
  BY InitTypes
<1>2. Types /\ [Next]_vars => Types'
  BY StepKeepsTypes
<1>3. Types <=> TypeOK /\ IndicesInScript
  BY DEF Types
<1> QED BY <1>1, <1>2, <1>3, PTL DEF Safety

-----------------------------------------------------------------------------
Fresh(values) == \A v \in values : "old" \notin v
Evaluating == {"text", "assign", "template", "store"}

(* What IInv says of one child besides its types. *)
Isolated(c) ==
  /\ "old" \notin val[c]
  /\ \A x \in Local : Fresh(table[c][x])
  /\ at[c].pc \in {"idle", "params", "dead"} => table[c] = Unset
  /\ at[c].pc \in Evaluating /\ at[c].state \in PropStates =>
       \A i \in Prop : Fresh(prop[c][at[c].state][i])

LEMMA IsolatedAll ==
  (TableReset /\ PropFresh /\ RequestIsolation) <=> \A c \in Child : Isolated(c)
BY DEF TableReset, PropFresh, RequestIsolation, Isolated, Fresh, Evaluating

(* A reference yields nothing old: its propositional variables are those   *)
(* of the state that evaluates, and the subject of a state is no such one. *)
LEMMA ResultsFresh ==
  ASSUME TypeOK, NEW c \in Child, Isolated(c), NEW r, Reference(r),
         at[c].pc \in Evaluating \/ r.k # "prop", NEW v \in Results(c, r)
  PROVE  Fresh(v)
<1>1. CASE r.k = "local"
  <2>1. r.x \in Local BY <1>1 DEF Reference
  <2>2. v \in getLocal(c, r.x) BY <1>1 DEF Results
  <2>3. CASE v = table[c][r.x]
    BY <2>1, <2>3 DEF Isolated
  <2>4. CASE v = {{"garbage"}}
    BY <2>4 DEF Fresh
  <2> QED BY <2>2, <2>3, <2>4 DEF getLocal
<1>2. CASE r.k = "prop"
  <2>1. v = getPropositional(c, r.x) BY <1>2 DEF Results
  <2>2. CASE at[c].state \in PropStates /\ r.x \in Prop
    BY <1>2, <2>1, <2>2 DEF getPropositional, Isolated
  <2>3. CASE ~(at[c].state \in PropStates /\ r.x \in Prop)
    BY <2>1, <2>3 DEF getPropositional, NoValue, Fresh
  <2> QED BY <2>2, <2>3
<1>3. CASE r.k = "text"
  BY <1>3 DEF Results, Fresh
<1>4. CASE r.k = "global"
  <2>1. v = {{"shared"}} BY <1>4 DEF Results
  <2> QED BY <2>1 DEF Fresh
<1> QED BY <1>1, <1>2, <1>3, <1>4 DEF Reference, Reading

(* Nor does an evaluated text. *)
LEMMA EvaluateFresh ==
  ASSUME TypeOK, NEW c \in Child, Isolated(c), NEW r, Reference(r),
         at[c].pc \in Evaluating, Evaluate(c, r)
  PROVE  "old" \notin val'[c]
<1>1. PICK v \in Results(c, r) : val' = [val EXCEPT ![c] = @ \cup UNION v]
  BY DEF Evaluate
<1>2. Fresh(v)
  BY ResultsFresh
<1>3. "old" \notin val[c] /\ val'[c] = val[c] \cup UNION v
  BY <1>1 DEF Isolated, TypeOK
<1> QED BY <1>2, <1>3 DEF Fresh

LEMMA UnsetFresh == \A x \in Local : Fresh(Unset[x])
BY DEF Unset, NoValue, Fresh

(* The ways in which a child can move: to a place without a request, ...   *)
LEMMA RestIsolated ==
  ASSUME NEW c \in Child, at'[c].pc \in {"idle", "params", "dead"},
         table'[c] = Unset, "old" \notin val'[c]
  PROVE  Isolated(c)'
BY UnsetFresh DEF Isolated, Evaluating

(* ... to the next state or the end of the script, ...                     *)
LEMMA LeaveIsolated ==
  ASSUME NEW c \in Child, at'[c].pc \in {"enter", "finish"},
         "old" \notin val'[c], \A x \in Local : Fresh(table'[c][x])
  PROVE  Isolated(c)'
BY DEF Isolated, Evaluating

(* ... into a state, ...                                                   *)
LEMMA BeginIsolated ==
  ASSUME NEW c \in Child, Isolated(c), NEW pc \in {"text", "assign"}, at'[c] = Place(pc, at[c].state),
         "old" \notin val'[c], table'[c] = table[c],
         at[c].state \in PropStates => \A i \in Prop : Fresh(prop'[c][at[c].state][i])
  PROVE  Isolated(c)'
<1>1. at'[c].pc = pc /\ at'[c].state = at[c].state
  BY DEF Place
<1> QED BY <1>1 DEF Isolated, Evaluating

(* ... and within it.                                                      *)
LEMMA StayIsolated ==
  ASSUME NEW c \in Child, Isolated(c), at[c].pc \in Evaluating,
         at'[c].pc \in Evaluating, at'[c].state = at[c].state, prop'[c] = prop[c],
         "old" \notin val'[c], \A x \in Local : Fresh(table'[c][x])
  PROVE  Isolated(c)'
BY DEF Isolated, Evaluating

(* A step of a child leaves what belongs to the others alone. *)
LEMMA Others ==
  ASSUME TypeOK, NEW c \in Child, NEW d \in Child, d # c, Accept(c) \/ Serve(c) \/ Respawn(c)
  PROVE  at'[d] = at[d] /\ val'[d] = val[d] /\ table'[d] = table[d] /\ prop'[d] = prop[d]
<1> DEFINE Same == at'[d] = at[d] /\ val'[d] = val[d] /\ table'[d] = table[d] /\ prop'[d] = prop[d]
<1>0. /\ DOMAIN at = Child /\ DOMAIN val = Child /\ DOMAIN table = Child /\ DOMAIN prop = Child
      /\ \A p : MoveTo(c, p) => at'[d] = at[d]
      /\ \A p : Continue(c, p) => at'[d] = at[d]
      /\ \A n : Return(c, n) => at'[d] = at[d] /\ val'[d] = val[d]
      /\ \A r : Clear(c, r) => prop'[d] = prop[d]
      /\ \A x, v, b : assignLocal(c, x, v, b) => table'[d] = table[d]
      /\ \A r : Evaluate(c, r) => val'[d] = val[d]
      /\ StoreParameters(c) => table'[d] = table[d]
      /\ Die(c) => Same
  BY DEF TypeOK, MoveTo, Continue, Return, Clear, assignLocal, Evaluate, StoreParameters, Die
<1>1. CASE Accept(c) \/ Respawn(c) \/ NoParameters(c) \/ NoScript(c) \/ StartScript(c) \/ Finish(c)
  BY <1>0, <1>1 DEF Accept, Respawn, NoParameters, NoScript, StartScript, Finish, memory
<1>2. CASE NoSuchState(c) \/ Match(c) \/ BeginText(c) \/ BeginGoto(c) \/ Pass(c)
  BY <1>0, <1>2 DEF NoSuchState, Match, BeginText, BeginGoto, Pass, memory
<1>3. CASE Regex(c)
  BY <1>0, <1>3 DEF Regex, memory
<1>4. CASE Structure(c)
  BY <1>0, <1>4 DEF Structure, memory
<1>5. CASE Text(c) \/ WriteFile(c) \/ End(c) \/ Fetch(c) \/ SendMail(c)
  BY <1>0, <1>5 DEF Text, WriteFile, End, Fetch, SendMail, memory
<1>6. CASE Query(c)
  <2>1. at'[d] = at[d] /\ prop'[d] = prop[d] /\ UNCHANGED memory
    BY <1>0, <1>6 DEF Query
  <2>2. val'[d] = val[d]
    BY <1>0, <1>6 DEF Query
  <2> QED BY <2>1, <2>2 DEF memory
<1>7. CASE AllAssigned(c) \/ NoAlternative(c) \/ ReadAlternative(c) \/ BeginTemplate(c)
  BY <1>0, <1>7 DEF AllAssigned, NoAlternative, ReadAlternative, BeginTemplate, memory
<1>8. CASE EvaluateTemplate(c) \/ TemplateDone(c) \/ StoreLocal(c) \/ assignGlobal(c)
  BY <1>0, <1>8 DEF EvaluateTemplate, TemplateDone, StoreLocal, assignGlobal, memory
<1>9. CASE ThrowCaught(c) \/ ThrowUncaught(c) \/ Aborted(c)
  BY <1>0, <1>9 DEF ThrowCaught, ThrowUncaught, Aborted, FinishAborted, FetchAborted,
     SendMailAborted, StoreLocalAborted, memory
<1> QED BY <1>1, <1>2, <1>3, <1>4, <1>5, <1>6, <1>7, <1>8, <1>9 DEF Serve, Enter, Effect, Assign

LEMMA NextPlace ==
  ASSUME NEW c \in Child
  PROVE  NextAssignment(c).pc = "assign" /\ NextAssignment(c).state = at[c].state
BY DEF NextAssignment, Place

(* No step of a child brings it anything old. *)
LEMMA StepIsolated ==
  ASSUME TypeOK, IndicesInScript, NEW c \in Child, Isolated(c), Accept(c) \/ Serve(c) \/ Respawn(c)
  PROVE  Isolated(c)'
<1>0. TypeOK
  OBVIOUS
<1>1. CASE Accept(c)
  <2>1. at[c].pc = "idle" /\ at'[c].pc = "params" /\ val'[c] = val[c] /\ table'[c] = Aged(table[c])
    BY <1>0, <1>1 DEF Accept, MoveTo, Place, TypeOK
  <2>2. Aged(Unset) = Unset
    BY DEF Aged, Unset, NoValue
  <2>3. table'[c] = Unset /\ "old" \notin val'[c]
    BY <2>1, <2>2 DEF Isolated
  <2> QED BY <2>1, <2>3, RestIsolated
<1>2. CASE NoParameters(c) \/ Respawn(c)
  <2>1. /\ at[c].pc \in {"params", "dead"} /\ at'[c].pc = "idle"
        /\ val'[c] = val[c] /\ table'[c] = table[c]
    BY <1>0, <1>2 DEF NoParameters, Respawn, memory, MoveTo, Place, TypeOK
  <2>2. table'[c] = Unset /\ "old" \notin val'[c]
    BY <2>1 DEF Isolated
  <2> QED BY <2>1, <2>2, RestIsolated
<1>3. CASE Finish(c)
  <2>1. at'[c].pc = "idle" /\ val'[c] = val[c] /\ table'[c] = Unset
    BY <1>0, <1>3 DEF Finish, MoveTo, Place, TypeOK
  <2> QED BY <2>1, RestIsolated DEF Isolated
<1>4. CASE ThrowUncaught(c) \/ Aborted(c)
  <2>1. Die(c)
    BY <1>4 DEF ThrowUncaught, Aborted, FinishAborted, FetchAborted, SendMailAborted, StoreLocalAborted
  <2>2. at'[c].pc = "dead" /\ val'[c] = {} /\ table'[c] = Unset
    BY <1>0, <2>1, DieType
  <2> QED BY <2>2, RestIsolated
<1>5. CASE NoScript(c) \/ StartScript(c)
  <2>1. at'[c].pc \in {"enter", "finish"} /\ val'[c] = val[c] /\ StoreParameters(c)
    BY <1>0, <1>5 DEF NoScript, StartScript, MoveTo, Place, TypeOK
  <2>2. PICK given \in SUBSET Param :
          table'[c] = [x \in Local |-> IF x \in given THEN {{"own"}} ELSE table[c][x]]
    BY <1>0, <2>1 DEF StoreParameters, TypeOK
  <2>3. \A x \in Local : Fresh(table'[c][x])
    BY <2>2 DEF Isolated, Fresh
  <2> QED BY <2>1, <2>3, LeaveIsolated DEF Isolated
<1>6. CASE NoSuchState(c)
  <2>1. at'[c].pc = "finish" /\ val'[c] = val[c] /\ table'[c] = table[c]
    BY <1>0, <1>6 DEF NoSuchState, MoveTo, Place, memory, TypeOK
  <2> QED BY <2>1, LeaveIsolated DEF Isolated
<1>7. CASE Regex(c)
  <2>0. at[c].state \in DOMAIN Script /\ Reference(State(c).subject)
        /\ State(c).subject.k # "prop" /\ ErrorState(c) \in Int
    BY <1>7, ScriptFacts DEF Regex, AtKind, WellFormed
  <2>1. table' = table
    BY <1>7 DEF Regex, memory
  <2>2. CASE Return(c, ErrorState(c))
    BY <1>0, <2>0, <2>1, <2>2, ReturnType, LeaveIsolated DEF Isolated
  <2>3. ASSUME NEW v \in Results(c, State(c).subject), NEW groups \in 1 .. REGMATCH_COUNT,
               Clear(c, [i \in Prop |-> IF i < groups THEN v ELSE NoValue]),
               Continue(c, "assign"), UNCHANGED val
        PROVE  Isolated(c)'
    <3>1. Fresh(v)
      BY <1>0, <2>0, ResultsFresh
    <3>2. at[c].state \in PropStates =>
            prop'[c][at[c].state] = [i \in Prop |-> IF i < groups THEN v ELSE NoValue]
      BY <1>0, <2>3 DEF Clear, TypeOK
    <3>3. at[c].state \in PropStates => \A i \in Prop : Fresh(prop'[c][at[c].state][i])
      BY <3>1, <3>2 DEF Fresh, NoValue
    <3>4. at'[c] = Place("assign", at[c].state)
      BY <1>0, <2>3 DEF Continue, MoveTo, TypeOK
    <3> QED BY <2>1, <2>3, <3>3, <3>4, BeginIsolated DEF Isolated
  <2> QED BY <1>7, <2>2, <2>3 DEF Regex
<1>8. CASE Structure(c)
  <2>0. at[c].state \in DOMAIN Script /\ Reference(State(c).subject)
        /\ State(c).subject.k # "prop" /\ ErrorState(c) \in Int
    BY <1>8, ScriptFacts DEF Structure, AtKind, WellFormed
  <2>1. table' = table
    BY <1>8 DEF Structure, memory
  <2>2. CASE Return(c, ErrorState(c))
    BY <1>0, <2>0, <2>1, <2>2, ReturnType, LeaveIsolated DEF Isolated
  <2>3. ASSUME NEW v \in Results(c, State(c).subject), NEW names \in SUBSET Prop,
               Clear(c, [i \in Prop |-> IF i \in names THEN v ELSE NoValue]),
               Continue(c, "assign"), UNCHANGED val
        PROVE  Isolated(c)'
    <3>1. Fresh(v)
      BY <1>0, <2>0, ResultsFresh
    <3>2. at[c].state \in PropStates =>
            prop'[c][at[c].state] = [i \in Prop |-> IF i \in names THEN v ELSE NoValue]
      BY <1>0, <2>3 DEF Clear, TypeOK
    <3>3. at[c].state \in PropStates => \A i \in Prop : Fresh(prop'[c][at[c].state][i])
      BY <3>1, <3>2 DEF Fresh, NoValue
    <3>4. at'[c] = Place("assign", at[c].state)
      BY <1>0, <2>3 DEF Continue, MoveTo, TypeOK
    <3> QED BY <2>1, <2>3, <3>3, <3>4, BeginIsolated DEF Isolated
  <2> QED BY <1>8, <2>2, <2>3 DEF Structure
<1>9. CASE Match(c)
  <2>1. ErrorState(c) \in Int /\ State(c).cases \cup {State(c).done} \subseteq Int
    BY <1>9, ScriptFacts DEF Match, AtKind, WellFormed
  <2>2. PICK n \in Int : Return(c, n)
    BY <1>9, <2>1 DEF Match
  <2>3. table' = table
    BY <1>9 DEF Match, memory
  <2> QED BY <1>0, <2>2, <2>3, ReturnType, LeaveIsolated DEF Isolated
<1>10. CASE BeginText(c)
  <2>1. at[c].state \in DOMAIN Script /\ ErrorState(c) \in Int /\ table' = table
    BY <1>10, ScriptFacts DEF BeginText, AtKind, memory
  <2>2. CASE Return(c, ErrorState(c))
    BY <1>0, <2>1, <2>2, ReturnType, LeaveIsolated DEF Isolated
  <2>3. CASE Continue(c, "text") /\ UNCHANGED val
    <3>1. at'[c] = Place("text", at[c].state)
      BY <1>0, <2>3 DEF Continue, MoveTo, TypeOK
    <3>2. at[c].state \in PropStates => prop'[c][at[c].state] = NoProp
      <4>1. at[c].state \in PropStates => State(c).kind = "query"
        BY <1>10 DEF PropStates, BeginText, AtKind, State
      <4> QED BY <1>0, <1>10, <4>1 DEF BeginText, Clear, TypeOK
    <3>3. at[c].state \in PropStates => \A i \in Prop : Fresh(prop'[c][at[c].state][i])
      BY <3>2 DEF NoProp, NoValue, Fresh
    <3> QED BY <2>1, <2>3, <3>1, <3>3, BeginIsolated DEF Isolated
  <2> QED BY <1>10, <2>2, <2>3 DEF BeginText
<1>11. CASE BeginGoto(c)
  <2>1. at'[c] = Place("assign", at[c].state) /\ val' = val /\ table' = table
    BY <1>0, <1>11 DEF BeginGoto, Continue, MoveTo, memory, TypeOK
  <2>2. at[c].state \notin PropStates
    BY <1>11 DEF BeginGoto, AtKind, PropStates, State
  <2> QED BY <2>1, <2>2, BeginIsolated DEF Isolated
<1>12. CASE Pass(c) \/ WriteFile(c) \/ End(c) \/ SendMail(c) \/ AllAssigned(c) \/ ThrowCaught(c)
  <2>1. at[c].state \in DOMAIN Script /\ table' = table
    BY <1>12 DEF Pass, WriteFile, End, SendMail, AllAssigned, ThrowCaught, Throws, TextDone, Assigning,
       Pending, HasAlternative, InTemplate, Storing, AtKind, memory
  <2>2. ErrorState(c) \in Int /\ State(c).done \in Int /\ ENDSTATE \in Int
    BY <2>1, ScriptFacts DEF ENDSTATE
  <2>3. PICK n \in Int : Return(c, n)
    BY <1>12, <2>2 DEF Pass, WriteFile, End, SendMail, AllAssigned, ThrowCaught
  <2> QED BY <1>0, <2>1, <2>3, ReturnType, LeaveIsolated DEF Isolated
<1>13. CASE Text(c)
  <2>1. at[c].pc = "text" /\ Reference(State(c).text[at[c].ti])
    BY <1>13, ScriptFacts DEF Text, AtKind, WellFormed
  <2>2. "old" \notin val'[c]
    BY <1>0, <1>13, <2>1, EvaluateFresh DEF Text, Evaluating
  <2>3. at'[c].pc = "text" /\ at'[c].state = at[c].state /\ prop' = prop /\ table' = table
    BY <1>0, <1>13, <2>1 DEF Text, memory, TypeOK, Places
  <2> QED BY <2>1, <2>2, <2>3, StayIsolated DEF Isolated, Evaluating
<1>14. CASE Query(c)
  <2>1. at[c].pc = "text" /\ at[c].state \in DOMAIN Script /\ ErrorState(c) \in Int /\ table' = table
    BY <1>14, ScriptFacts DEF Query, TextDone, AtKind, memory
  <2>2. CASE Return(c, ErrorState(c))
    BY <1>0, <2>1, <2>2, ReturnType, LeaveIsolated DEF Isolated
  <2>3. ASSUME NEW cols \in 0 .. REGMATCH_COUNT, NEW nulls \in SUBSET Prop,
               Clear(c, [i \in Prop |-> IF i >= cols THEN NoValue
                                        ELSE IF i \in nulls THEN {{}}
                                        ELSE {val[c] \cup {"shared"}}]),
               Continue(c, "assign"), val' = [val EXCEPT ![c] = {}]
        PROVE  Isolated(c)'
    <3>1. "old" \notin val[c] \cup {"shared"} /\ "old" \notin val'[c]
      BY <1>0, <2>3 DEF Isolated, TypeOK
    <3>2. at[c].state \in PropStates => \A i \in Prop :
            prop'[c][at[c].state][i] \in {NoValue, {{}}, {val[c] \cup {"shared"}}}
      BY <1>0, <2>3 DEF Clear, TypeOK
    <3>3. at[c].state \in PropStates => \A i \in Prop : Fresh(prop'[c][at[c].state][i])
      BY <3>1, <3>2 DEF Fresh, NoValue
    <3>4. at'[c] = Place("assign", at[c].state)
      BY <1>0, <2>3 DEF Continue, MoveTo, TypeOK
    <3> QED BY <2>1, <3>1, <3>3, <3>4, BeginIsolated
  <2> QED BY <1>14, <2>2, <2>3 DEF Query
<1>15. CASE Fetch(c)
  <2>1. /\ State(c).done \in Int /\ ErrorState(c) \in Int
        /\ State(c).output \in Local
    BY <1>15, ScriptFacts DEF Fetch, TextDone, AtKind, WellFormed
  <2>2. CASE Return(c, ErrorState(c)) /\ UNCHANGED memory
    BY <1>0, <2>1, <2>2, ReturnType, LeaveIsolated DEF Isolated, memory
  <2>3. CASE assignLocal(c, State(c).output, val[c] \cup {"shared"}, TRUE) /\ Return(c, State(c).done)
    <3>1. "old" \notin val[c] \cup {"shared"}
      BY DEF Isolated
    <3>2. table'[c] = [table[c] EXCEPT ![State(c).output] = {val[c] \cup {"shared"}}]
      BY <1>0, <2>3 DEF assignLocal, TypeOK
    <3>3. \A x \in Local : table'[c][x] = table[c][x] \/ table'[c][x] = {val[c] \cup {"shared"}}
      BY <1>0, <3>2 DEF TypeOK
    <3>4. \A x \in Local : Fresh(table'[c][x])
      BY <3>1, <3>3 DEF Isolated, Fresh
    <3> QED BY <1>0, <2>1, <2>3, <3>4, ReturnType, LeaveIsolated
  <2> QED BY <1>15, <2>2, <2>3 DEF Fetch
<1>16. CASE NoAlternative(c)
  <2>1. at'[c] = NextAssignment(c) /\ val' = val /\ prop' = prop /\ table' = table /\ at[c].pc = "assign"
    BY <1>0, <1>16 DEF NoAlternative, Pending, Assigning, AtKind, MoveTo, memory, TypeOK
  <2> QED BY <2>1, NextPlace, StayIsolated DEF Isolated, Evaluating
<1>17. CASE ReadAlternative(c)
  <2>0. at[c].pc = "assign" /\ at[c].state \in DOMAIN Script /\ Reference(Alternative(c))
    BY <1>17, AlternativeFacts DEF ReadAlternative
  <2>1. PICK v \in Results(c, Alternative(c)) :
          \/ at' = [at EXCEPT ![c].ri = @ + 1] /\ val' = val
          \/ at' = [at EXCEPT ![c].pc = "store"] /\ val' = [val EXCEPT ![c] = UNION v]
    BY <1>17 DEF ReadAlternative
  <2>2. Fresh(v)
    BY <1>0, <2>0, ResultsFresh DEF Evaluating
  <2>3. val'[c] = val[c] \/ val'[c] = UNION v
    BY <1>0, <2>1 DEF TypeOK
  <2>4. "old" \notin val'[c]
    BY <2>2, <2>3 DEF Isolated, Fresh
  <2>5. at'[c].pc \in Evaluating /\ at'[c].state = at[c].state
    BY <1>0, <2>0, <2>1 DEF TypeOK, Places, Evaluating
  <2>6. prop' = prop /\ table' = table
    BY <1>17 DEF ReadAlternative, memory
  <2> QED BY <2>0, <2>4, <2>5, <2>6, StayIsolated DEF Isolated, Evaluating
<1>18. CASE BeginTemplate(c) \/ TemplateDone(c)
  <2>1. at[c].pc \in Evaluating /\ at'[c].pc \in Evaluating /\ at'[c].state = at[c].state
    BY <1>0, <1>18 DEF BeginTemplate, TemplateDone, HasAlternative, Pending, Assigning, InTemplate, AtKind,
       TypeOK, Places, Evaluating
  <2>2. val' = val /\ prop' = prop /\ table' = table
    BY <1>18 DEF BeginTemplate, TemplateDone, memory
  <2> QED BY <2>1, <2>2, StayIsolated DEF Isolated
<1>19. CASE EvaluateTemplate(c)
  <2>1. /\ at[c].pc = "template" /\ at[c].state \in DOMAIN Script
        /\ at[c].ai \in DOMAIN State(c).assignments
        /\ at[c].ri \in DOMAIN Assignment(c).from /\ Alternative(c).k = "template"
        /\ at[c].ti \in DOMAIN Alternative(c).refs
    BY <1>19 DEF EvaluateTemplate, InTemplate, AtKind, IndicesInScript
  <2>2. Template(Alternative(c))
    BY <2>1, ScriptFacts DEF WellFormed, Alternative, Assignment, Reference, Reading
  <2>3. Reference(Alternative(c).refs[at[c].ti])
    BY <2>1, <2>2 DEF Template
  <2>4. "old" \notin val'[c]
    BY <1>0, <1>19, <2>1, <2>3, EvaluateFresh DEF EvaluateTemplate, Evaluating
  <2>5. at'[c].pc = "template" /\ at'[c].state = at[c].state /\ prop' = prop /\ table' = table
    BY <1>0, <1>19, <2>1 DEF EvaluateTemplate, memory, TypeOK, Places
  <2> QED BY <2>1, <2>4, <2>5, StayIsolated DEF Isolated, Evaluating
<1>20. CASE StoreLocal(c)
  <2>1. at'[c] = NextAssignment(c) /\ val'[c] = {} /\ prop' = prop /\ at[c].pc = "store"
    BY <1>0, <1>20 DEF StoreLocal, Storing, AtKind, MoveTo, TypeOK
  <2>2. \A x \in Local : table'[c][x] = table[c][x] \/ table'[c][x] = {val[c]}
    BY <1>0, <1>20 DEF StoreLocal, assignLocal, TypeOK
  <2>3. \A x \in Local : Fresh(table'[c][x])
    BY <2>2 DEF Isolated, Fresh
  <2> QED BY <2>1, <2>3, NextPlace, StayIsolated DEF Evaluating
<1>21. CASE assignGlobal(c)
  <2>1. /\ at'[c] = NextAssignment(c) /\ val'[c] = {} /\ prop' = prop /\ table' = table
        /\ at[c].pc = "store"
    BY <1>0, <1>21 DEF assignGlobal, Storing, AtKind, MoveTo, memory, TypeOK
  <2> QED BY <2>1, NextPlace, StayIsolated DEF Evaluating, Isolated
<1> QED
  BY <1>1, <1>2, <1>3, <1>4, <1>5, <1>6, <1>7, <1>8, <1>9, <1>10, <1>11, <1>12,
     <1>13, <1>14, <1>15, <1>16, <1>17, <1>18, <1>19, <1>20, <1>21
  DEF Serve, Enter, Effect, Assign

(* IInv is inductive. *)
LEMMA IInvInductive ==
  ASSUME IInv, [Next]_vars
  PROVE  IInv'
<1>1. TypeOK' /\ IndicesInScript'
  BY StepKeepsTypes DEF IInv, Types
<1>2. \A c \in Child : Isolated(c)
  BY IsolatedAll DEF IInv
<1>3. ASSUME NEW c \in Child, Accept(c) \/ Serve(c) \/ Respawn(c), NEW d \in Child
      PROVE  Isolated(d)'
  <2>1. CASE d = c
    BY <1>2, <1>3, <2>1, StepIsolated DEF IInv
  <2>2. CASE d # c
    BY <1>2, <1>3, <2>2, Others DEF IInv, Isolated
  <2> QED BY <2>1, <2>2
<1>4. ASSUME OtherClients \/ UNCHANGED vars
      PROVE  \A d \in Child : Isolated(d)'
  <2>1. at' = at /\ val' = val /\ table' = table /\ prop' = prop
    BY <1>4 DEF OtherClients, vars, memory
  <2> QED BY <1>2, <2>1 DEF Isolated
<1>5. \A d \in Child : Isolated(d)'
  BY <1>3, <1>4 DEF Next
<1>6. (TableReset /\ PropFresh /\ RequestIsolation)'
  BY <1>5 DEF TableReset, PropFresh, RequestIsolation, Isolated, Fresh, Evaluating
<1> QED BY <1>1, <1>6 DEF IInv

(* It holds at first. *)
LEMMA InitIInv == Init => IInv
<1> SUFFICES ASSUME Init PROVE IInv
  OBVIOUS
<1>1. TypeOK /\ IndicesInScript
  BY InitTypes DEF Types
<1>2. \A c \in Child : at[c].pc = "idle" /\ table[c] = Unset /\ val[c] = {}
  BY DEF Init, Place
<1>3. \A c \in Child : Isolated(c)
  BY <1>2, UnsetFresh DEF Isolated, Evaluating
<1> QED BY <1>1, <1>3, IsolatedAll DEF IInv

(* The strengthening holds in every state that can be reached. *)
THEOREM StrengtheningHolds == Safety => []IInv
BY InitIInv, IInvInductive, PTL DEF Safety

(* No value of an earlier request is seen by a later one, whatever the     *)
(* script, the number of children and the order of their steps.            *)
THEOREM RequestsIsolated == Safety => []RequestIsolation
<1>1. IInv => RequestIsolation
  BY DEF IInv
<1> QED BY <1>1, StrengtheningHolds, PTL

=============================================================================
