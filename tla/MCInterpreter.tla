--------------------------- MODULE MCInterpreter ---------------------------
(* Scripts for TLC. *)
EXTENDS Interpreter, TLC

L(x) == [k |-> "local", x |-> x]
G(x) == [k |-> "global", x |-> x]
P(i) == [k |-> "prop", x |-> i]
T    == [k |-> "text"]
Q(refs) == [k |-> "template", refs |-> refs]
Set(to, from) == [to |-> to, from |-> from]

(* A state as its constructor leaves it, with the lines of the script. *)
Block(kind, done, error) ==
  [kind |-> kind, done |-> done, error |-> error, subject |-> L("p"), text |-> <<>>,
   assignments |-> <<>>, cases |-> {}, output |-> "b"]

(* Every kind of state, without a cycle. *)
AllKinds ==
  << [Block("regex", 2, 7) EXCEPT !.assignments = <<Set(L("a"), <<P(1), P(0), P(9)>>)>>],
     [Block("structure", 3, 7) EXCEPT !.subject = G("g"),
                                           !.assignments = <<Set(L("a"), <<P(1)>>)>>],
     [Block("query", 4, 7) EXCEPT !.text = <<L("a")>>,
                                       !.assignments = <<Set(G("g"), <<P(0), T>>)>>],
     [Block("goto", 5, ENDSTATE) EXCEPT !.assignments = <<Set(L("b"), <<Q(<<L("a"), G("g")>>)>>)>>],
     [Block("http", 6, 7) EXCEPT !.text = <<L("a")>>],
     [Block("match", 7, 9) EXCEPT !.subject = L("b"), !.cases = {8, 11}],
     [Block("end", ENDSTATE, ENDSTATE) EXCEPT !.text = <<L("a"), P(0)>>],
     [Block("shell", 13, 7) EXCEPT !.text = <<L("b")>>],
     [Block("mail", 10, 7) EXCEPT !.text = <<L("b")>>],
     [Block("file", 7, 11) EXCEPT !.text = <<G("g")>>],
     Block("sms", 12, 7),
     Block("script", 13, 7),
     [Block("goto", 7, 0) EXCEPT !.assignments = <<Set(L("b"), <<L("b"), G("g")>>)>>] >>

(* script/http.sl: the output of an http state is printed. *)
HttpExample ==
  << [Block("http", 2, 3) EXCEPT !.text = <<T>>],
     [Block("end", ENDSTATE, ENDSTATE) EXCEPT !.text = <<L("b")>>],
     Block("end", ENDSTATE, ENDSTATE) >>

(* A case distinction on a global variable. *)
OnGlobal ==
  << [Block("match", 3, 2) EXCEPT !.subject = G("g"), !.cases = {2}],
     [Block("end", ENDSTATE, ENDSTATE) EXCEPT !.text = <<L("p")>>],
     [Block("end", ENDSTATE, ENDSTATE) EXCEPT !.text = <<L("a")>>] >>
=============================================================================
