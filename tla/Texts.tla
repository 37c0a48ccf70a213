------------------------------- MODULE Texts -------------------------------
(***************************************************************************)
(* From the text of a request to the text of an answer: the parameters     *)
(* become variables (Parameters), the states of the script that run first  *)
(* assign some more, and then a state evaluates a string in double quotes  *)
(* (cassigner.cpp evaluate, parser.cpp is_variable, conf/regexlib.dat).    *)
(***************************************************************************)
EXTENDS Parameters

CONSTANTS
  Script,   \* [kind, number, assigned, prop, source]: the state that evaluates source;
            \* prop by number, written "$" and its digits without leading zeros
  Global    \* what memcached has: names -> values

Dollar == 36
Backslash == 92
Underscore == 95
Signs == {At, Amp, Dollar}

Digits == 48 .. 57
Letters == (65 .. 90) \cup (97 .. 122)
WordChars == Letters \cup Digits \cup {Underscore}

ASSUME ScriptAssumption ==
  \A s \in Script :
    /\ s.kind \in {"regex", "query", "none"} /\ s.number \in 0 .. 9
    /\ s.source \in Text /\ Range(s.prop) \subseteq Text /\ Range(s.assigned) \subseteq Text
ASSUME GlobalAssumption == Range(Global) \subseteq Text

VARIABLES
  script,   \* what runs
  at,       \* i of evaluate
  result    \* of evaluate

vars == <<readVars, script, at, result>>

BeginWith(r, s) == request = r /\ script = s /\ Begin /\ at = 1 /\ result = NoText

Init == \E r \in Request, s \in Script : BeginWith(r, s)

(* The states before this one have assigned their variables. *)
BeginScript ==
  /\ stage = "selected"
  /\ symTable' = Assigned(symTable, script.assigned)
  /\ GoTo("evaluate")
  /\ UNCHANGED <<request, text, i, ii, decoded, script, at, result>>

-----------------------------------------------------------------------------
(* The regular expressions, in the order in which evaluate tries them. *)
Tries == <<"lvar", "slvar", "gvar", "pvar">>

Named(w, sign) ==
  /\ Len(w) >= 2 /\ w[1] = sign /\ w[2] \in Letters
  /\ \A k \in 3 .. Len(w) : w[k] \in WordChars

LongName(w) ==
  \E d \in 3 .. Len(w) - 1 :
    /\ w[1] = At /\ w[d] = Dot
    /\ \A k \in 2 .. d - 1 : w[k] \in Digits
    /\ Named(<<At>> \o SubSeq(w, d + 1, Len(w)), At)

Matches(name, w) ==
  CASE name = "lvar"  -> LongName(w)
    [] name = "slvar" -> Named(w, At)
    [] name = "gvar"  -> Named(w, Amp)
    [] name = "pvar"  -> Len(w) >= 2 /\ w[1] = Dollar /\ \A k \in 2 .. Len(w) : w[k] \in Digits

Occurrences(name, s) ==
  {o \in (1 .. Len(s)) \X (1 .. Len(s)) :
     s[o[1]] \in Signs /\ o[1] < o[2] /\ Matches(name, SubSeq(s, o[1], o[2]))}

(* eo - so: the length of the leftmost match, and of those the longest;    *)
(* where it begins is not looked at.                                       *)
is_variable(name, s) ==
  LET all == Occurrences(name, s)
      so == Min({o[1] : o \in all})
  IN  Max({o[2] : o \in {p \in all : p[1] = so}}) - so + 1

Rest == SubSeq(script.source, at, Len(script.source))

(* The first of the tries that finds anything in the rest of the text. *)
Found ==
  {n \in 1 .. 4 :
     /\ Occurrences(Tries[n], Rest) # {}
     /\ \A m \in 1 .. n - 1 : Occurrences(Tries[m], Rest) = {}}

(* A char* that may be nullptr: a set of at most one text. *)
LookUp(table, x) == IF x \in DOMAIN table THEN {table[x]} ELSE {}

IsNumber(w) == w # NoText /\ \A k \in DOMAIN w : w[k] \in Digits

(* The name of a substring or a column as a number: without leading zeros. *)
Canonical(name) ==
  LET first == Min({k \in 2 .. Len(name) : name[k] # 48} \cup {Len(name)})
  IN  <<Dollar>> \o SubSeq(name, first, Len(name))

getPropositional(name) ==
  IF script.kind = "none" THEN {} ELSE LookUp(script.prop, Canonical(name))

(* What is looked up for w: its long form, in memcached if that is a &name. *)
Asked(name, w) == IF name = "slvar" THEN <<At, 48 + script.number, Dot>> \o Tail(w) ELSE w

Value(name, w) ==
  IF name = "pvar" THEN getPropositional(w)
  ELSE IF Asked(name, w)[1] = Amp THEN LookUp(Global, Asked(name, w))
  ELSE LookUp(symTable, Asked(name, w))

(* getGlobal throws what memcached says; the number of a regex state's     *)
(* substring is converted outside any handler of its own.                  *)
Throws(name, w) ==
  \/ name # "pvar" /\ Asked(name, w)[1] = Amp /\ Asked(name, w) \notin DOMAIN Global
  \/ name = "pvar" /\ script.kind = "regex" /\ ~IsNumber(Tail(w))

AtSign == stage = "evaluate" /\ at <= Len(script.source) /\ Rest[1] \in Signs
Reference(n) == SubSeq(Rest, 1, is_variable(Tries[n], Rest))

Substitute ==
  /\ AtSign
  /\ \E n \in Found :
       LET w == Reference(n)
       IN  /\ ~Throws(Tries[n], w)
           /\ result' = result \o (IF Value(Tries[n], w) = {} THEN NoText
                                   ELSE CHOOSE v \in Value(Tries[n], w) : TRUE)
           /\ at' = at + Len(w)
  /\ UNCHANGED <<stage, request, text, i, ii, decoded, symTable, script>>

SubstituteThrows ==
  /\ AtSign
  /\ \E n \in Found : Throws(Tries[n], Reference(n))
  /\ GoTo("thrown")
  /\ UNCHANGED <<request, text, i, ii, decoded, symTable, script, at, result>>

(* Seeded fault: only the backslash is passed, and the sign looked at. *)
EscapeOnly ==
  /\ stage = "evaluate" /\ at <= Len(script.source) /\ Rest[1] = Backslash
  /\ at' = at + 1
  /\ UNCHANGED <<stage, request, text, i, ii, decoded, symTable, script, result>>

(* The character after a backslash; after the last one stands a NUL. *)
Escaped ==
  /\ stage = "evaluate" /\ at <= Len(script.source) /\ Rest[1] = Backslash
  /\ result' = Append(result, IF Len(Rest) = 1 THEN 0 ELSE Rest[2])
  /\ at' = at + 2
  /\ UNCHANGED <<stage, request, text, i, ii, decoded, symTable, script>>

(* Seeded fault: a sign that begins no reference is not copied. *)
CopyPlain ==
  /\ stage = "evaluate" /\ at <= Len(script.source)
  /\ Rest[1] # Backslash /\ Rest[1] \notin Signs
  /\ result' = Append(result, Rest[1])
  /\ at' = at + 1
  /\ UNCHANGED <<stage, request, text, i, ii, decoded, symTable, script>>

Copy ==
  /\ stage = "evaluate" /\ at <= Len(script.source)
  /\ Rest[1] # Backslash /\ (Rest[1] \in Signs => Found = {})
  /\ result' = Append(result, Rest[1])
  /\ at' = at + 1
  /\ UNCHANGED <<stage, request, text, i, ii, decoded, symTable, script>>

Evaluated ==
  /\ stage = "evaluate" /\ at > Len(script.source)
  /\ GoTo("evaluated")
  /\ UNCHANGED <<request, text, i, ii, decoded, symTable, script, at, result>>

Evaluating == Substitute \/ SubstituteThrows \/ Escaped \/ Copy \/ Evaluated

Next ==
  \/ Reading /\ UNCHANGED <<script, at, result>>
  \/ BeginScript
  \/ Evaluating

Spec == Init /\ [][Next]_vars /\ WF_vars(Next)

-----------------------------------------------------------------------------
(* Every variable has its type: no index runs further past the end of its  *)
(* text than the character after the last one, which is the terminator.    *)
TypeOK ==
  /\ stage \in {"read", "decode", "split", "environment", "selected", "evaluate",
               "died", "refused", "evaluated", "thrown"}
  /\ text \in Text /\ decoded \in Text /\ result \in Text
  /\ ii \in 0 .. 255
  /\ i \in 1 .. Max({Len(text), Len(request.environ)}) + 3
  /\ at \in 1 .. Len(script.source) + 2
  /\ Range(symTable) \subseteq Text

(* How the text of a script is meant: a backslash takes the next character *)
(* as it is, and a reference is the longest one that begins at its sign.   *)
IsEscaped(s) ==
  LET esc[k \in 0 .. Len(s)] ==
        k > 1 /\ s[k - 1] = Backslash /\ ~esc[k - 1]
  IN  esc

EndsAt(s, p) == {o[2] : o \in {q \in UNION {Occurrences(t, s) : t \in Range(Tries)} : q[1] = p}}

(* The place in Tries of the reference that begins at p, 5 if none does. *)
Rank(s, p) ==
  Min({n \in 1 .. 4 : \E o \in Occurrences(Tries[n], s) : o[1] = p} \cup {5})

(* No reference, escaped or not, is followed by one that is tried earlier, *)
(* and nothing that looks like one follows a sign that stands for itself.  *)
InOrder(s) ==
  \A p, q \in DOMAIN s :
    p < q /\ {s[p], s[q]} \subseteq Signs /\ ~IsEscaped(s)[p] => Rank(s, p) <= Rank(s, q)

Meant(n, w) ==
  IF n = 3 THEN LookUp(Global, w)
  ELSE IF n = 4 THEN getPropositional(w)
  ELSE LookUp(symTable, IF n = 1 THEN w ELSE <<At, 48 + script.number, Dot>> \o Tail(w))

(* The piece of s that begins at p: a backslash with what it escapes, a    *)
(* reference, or one character; and what stands in its place.              *)
PieceEnd(s, p) ==
  IF s[p] = Backslash THEN p + 1
  ELSE IF s[p] \in Signs /\ Rank(s, p) < 5 THEN Max(EndsAt(s, p)) ELSE p
Replacement(s, p) ==
  IF s[p] = Backslash THEN <<IF p = Len(s) THEN 0 ELSE s[p + 1]>>
  ELSE IF s[p] \in Signs /\ Rank(s, p) < 5
  THEN LET v == Meant(Rank(s, p), SubSeq(s, p, PieceEnd(s, p)))
       IN  IF v = {} THEN NoText ELSE CHOOSE x \in v : TRUE
  ELSE <<s[p]>>

Written(s) ==
  Concatenated([p \in DOMAIN s |-> Replacement(s, p)],
               [p \in DOMAIN s |-> PieceEnd(s, p) + 1], 1, Len(s))

AllKnown(s) ==
  \A p \in DOMAIN s : Rank(s, p) = 3 => SubSeq(s, p, Max(EndsAt(s, p))) \in DOMAIN Global

(* A text whose references come in the order in which their kinds are      *)
(* tried is substituted as it is written, however the regular expressions, *)
(* which are not anchored, are matched: each reference by its value, once, *)
(* and everything else literally.                                          *)
SubstitutedAsWritten ==
  stage \in {"evaluated", "thrown"} /\ InOrder(script.source) /\ AllKnown(script.source) =>
    stage = "evaluated" /\ result = Written(script.source)

(* Whatever a request or a script contains, reading and evaluating end:    *)
(* every way through the loops advances.                                   *)
TextsEnd == <>(stage \in {"died", "refused", "evaluated", "thrown"})
=============================================================================
