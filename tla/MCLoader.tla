------------------------------ MODULE MCLoader ------------------------------
(* Lines and bounds for TLC. *)
EXTENDS Loader, TLC

Header(kind, n) == [word |-> "header", kind |-> kind, n |-> n]
Goto(word, n) == [word |-> word, n |-> n]
Define(field) == [word |-> "define", field |-> field, ok |-> TRUE]
Bad(field) == [word |-> "define", field |-> field, ok |-> FALSE]
Assign(to, from) == [word |-> "assign", to |-> to, from |-> from]
Word(word) == [word |-> word]

L == [k |-> "local", n |-> 2]
V(kind) == [k |-> kind, n |-> 0]

(* Expressions of one and two alternatives, and two of three. *)
Variables == {L, V("global"), V("prop"), V("json"), V("short"), V("junk")}
Expressions ==
  {<<V("text")>>, <<L, V("global"), V("short")>>, <<V("json"), V("junk"), V("prop")>>}
  \cup {<<v>> : v \in Variables} \cup {<<v, w>> : v, w \in Variables}

(* "long" has room for a state of every kind that has definitions, "short" *)
(* for several states and what an sms state swallows, "expressions" for    *)
(* one assignment, "a" and "b" for nothing or a single state.              *)
Lines ==
  [long |->
     {Header(kind, 1) : kind \in Kind \ {"sms", "script", "goto", "end"}}
     \cup {Goto("done", 1), Goto("done", 2), Goto("error", 2), Word("endstate")}
     \cup {Define(f) : f \in Fields \ {"option"}} \cup {Bad("url"), Bad("db")}
     \cup {Assign(V("short"), <<V("prop"), L>>)},
   short |->
     {Header("goto", 1), Header("goto", 2), Header("end", 2), Header("sms", 1),
      Goto("done", 0), Goto("done", 1), Goto("error", 0), Goto("error", 2),
      Word("endstate"), Word("blank"), Word("junk"), Assign(L, <<V("prop")>>)},
   expressions |->
     {Header("goto", 1)} \cup {Assign(V("global"), from) : from \in Expressions},
   a |-> {Header("end", 2), Word("endstate"), Word("blank"), Word("logprefix")},
   b |-> {Header("end", 2), Word("endstate"), Header("script", 1)}]
Lengths == [long |-> 7, short |-> 6, expressions |-> 2, a |-> 3, b |-> 2]
Repetitions == [f \in DOMAIN Lines |-> IF f = "long" THEN 0 ELSE 1]
Files == DOMAIN Lines

(* One of the first three files, or up to three names for the others, or  *)
(* nothing.                                                                *)
Sections ==
  {[n \in {"x"} |-> <<f, 1>>] : f \in {"long", "short", "expressions"}}
  \cup UNION {[N -> {<<"a", 1>>, <<"b", 2>>, <<"a", 2>>}] : N \in SUBSET Name}
=============================================================================
