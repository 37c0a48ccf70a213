---------------------------- MODULE ReadingProofs ----------------------------
(***************************************************************************)
(* parseScript understands what is written: LoadsWhatIsWritten,            *)
(* AlternativesKept and ScriptsReady of Loader for files of any length.    *)
(*                                                                         *)
(* The first part is about what a text means and how that changes when a   *)
(* line is appended to it; the second relates it to what the handlers of   *)
(* the lines have built; the third is about the maps of the files that     *)
(* have been read to their end.                                            *)
(***************************************************************************)
EXTENDS LoaderProofs

(* The greatest element of a set of numbers with a bound.                  *)
LEMMA GreatestElement ==
  ASSUME NEW S \in SUBSET Nat, S # {}, NEW n \in Nat, \A y \in S : y <= n
  PROVE  \E m \in S : \A y \in S : y <= m
<1> DEFINE above == {k \in 0 .. n : \A y \in S : y <= k}
<1>1. PICK m \in above : \A k \in above : m <= k
  <2>1. above \in SUBSET Nat /\ n \in above
    OBVIOUS
  <2> HIDE DEF above
  <2> QED BY <2>1, LeastElement
<1>2. m \in S
  <2> SUFFICES ASSUME m \notin S PROVE FALSE
    OBVIOUS
  <2>1. \A y \in S : y <= m - 1
    BY <1>1
  <2>2. m >= 1
    <3> PICK y \in S : TRUE
      OBVIOUS
    <3>1. y \in Nat /\ m \in Nat /\ y <= m - 1
      BY <1>1, <2>1
    <3> QED BY <3>1
  <2>3. m - 1 \in above
    BY <1>1, <2>1, <2>2
  <2> QED BY <1>1, <2>2, <2>3
<1> QED BY <1>1, <1>2

-----------------------------------------------------------------------------
(* One more line.                                                          *)
LEMMA OneMoreLine ==
  ASSUME NEW S, NEW t \in Seq(S), NEW l \in S
  PROVE  /\ Len(t) \in Nat /\ DOMAIN t = 1 .. Len(t)
         /\ Append(t, l) \in Seq(S) /\ Len(Append(t, l)) = Len(t) + 1
         /\ DOMAIN Append(t, l) = 1 .. Len(t) + 1
         /\ \A k \in 1 .. Len(t) : Append(t, l)[k] = t[k]
         /\ Append(t, l)[Len(t) + 1] = l
BY LenProperties, AppendProperties

(* Where a block begins does not depend on what follows.                   *)
LEMMA OpensStays ==
  ASSUME NEW S, NEW t \in Seq(S), NEW l \in S, NEW i \in 1 .. Len(t)
  PROVE  Opens(Append(t, l), i) <=> Opens(t, i)
<1> DEFINE u == Append(t, l)
<1>1. Len(t) \in Nat /\ \A k \in 1 .. i : u[k] = t[k]
  BY OneMoreLine
<1>2. \A j \in 1 .. i - 1 : \A k \in j .. i - 1 : k \in 1 .. i /\ j \in 1 .. i
  BY <1>1
<1> HIDE DEF u
<1>3. u[i] = t[i] /\ \A j \in 1 .. i - 1 : u[j] = t[j]
  BY <1>1
<1>4. Opens(u, i) <=> Opens(t, i)
  BY <1>1, <1>2, <1>3 DEF Opens
<1> QED BY <1>4 DEF u

LEMMA EndsGrow ==
  ASSUME NEW S, NEW t \in Seq(S), NEW l \in S, NEW i \in 1 .. Len(t) + 1
  PROVE  Ends(Append(t, l), i) =
           Ends(t, i) \cup (IF l.word = "endstate" THEN {Len(t) + 1} ELSE {})
<1> DEFINE u == Append(t, l)
<1>1. /\ Len(t) \in Nat /\ Len(u) = Len(t) + 1
      /\ \A k \in 1 .. Len(t) : u[k] = t[k]
      /\ u[Len(t) + 1] = l
  BY OneMoreLine
<1>2. i .. Len(t) + 1 = (i .. Len(t)) \cup {Len(t) + 1} /\ i .. Len(t) \subseteq 1 .. Len(t)
  BY <1>1
<1> HIDE DEF u
<1>3. Ends(u, i) = Ends(t, i) \cup (IF l.word = "endstate" THEN {Len(t) + 1} ELSE {})
  BY <1>1, <1>2 DEF Ends
<1> QED BY <1>3 DEF u

(* What is said of lines that are there stays.                             *)
LEMMA SameLines ==
  ASSUME NEW S, NEW t \in Seq(S), NEW l \in S, NEW lines \in SUBSET (1 .. Len(t))
  PROVE  /\ \A word : Target(Append(t, l), word, lines) = Target(t, word, lines)
         /\ \A f, kind : Supplied(Append(t, l), f, kind, lines) <=> Supplied(t, f, kind, lines)
<1> DEFINE u == Append(t, l)
<1>1. Len(t) \in Nat /\ \A k \in lines : u[k] = t[k]
  BY OneMoreLine
<1> HIDE DEF u
<1>2. ASSUME NEW word PROVE Target(u, word, lines) = Target(t, word, lines)
  <2> DEFINE found == {k \in lines : t[k].word = word}
             last == CHOOSE k \in found : \A j \in found : j <= k
  <2>1. {k \in lines : u[k].word = word} = found
    BY <1>1
  <2>2. CASE found = {}
    BY <2>1, <2>2 DEF Target
  <2>3. CASE found # {}
    <3>1. \E k \in found : \A j \in found : j <= k
      <4>0. \A y \in lines : y \in Nat /\ y <= Len(t)
        BY <1>1
      <4>1. found \in SUBSET Nat /\ \A y \in found : y <= Len(t)
        BY <4>0
      <4> HIDE DEF found
      <4> QED BY <1>1, <2>3, <4>1, GreatestElement
    <3>2. last \in found
      <4> HIDE DEF found
      <4> QED BY <3>1
    <3>3. u[last] = t[last]
      BY <1>1, <3>2
    <3>4. Target(t, word, lines) = t[last].n /\ Target(u, word, lines) = u[last].n
      BY <2>1, <2>3 DEF Target
    <3> QED BY <3>3, <3>4
  <2> QED BY <2>2, <2>3
<1>3. ASSUME NEW f, NEW kind PROVE Supplied(u, f, kind, lines) <=> Supplied(t, f, kind, lines)
  BY <1>1 DEF Supplied, Given
<1> QED BY <1>2, <1>3 DEF u

(* A block that has ended stays as it is.                                  *)
LEMMA BlockLines ==
  ASSUME NEW S, NEW t \in Seq(S), NEW i \in Blocks(t)
  PROVE  /\ i \in 1 .. Len(t) /\ Block(t, i) \subseteq 1 .. Len(t) /\ Len(t) \in Nat
         /\ \E e \in Ends(t, i) : Block(t, i) = i .. e /\ \A k \in Ends(t, i) : e <= k
<1>1. i \in 1 .. Len(t) /\ Len(t) \in Nat /\ Ends(t, i) # {}
  BY LenProperties DEF Blocks
<1>2. Ends(t, i) \in SUBSET Nat /\ Ends(t, i) \subseteq i .. Len(t)
  BY <1>1 DEF Ends
<1>3. \E e \in Ends(t, i) : \A k \in Ends(t, i) : e <= k
  BY <1>1, <1>2, LeastElement
<1> DEFINE e == CHOOSE k \in Ends(t, i) : \A j \in Ends(t, i) : k <= j
<1>4. e \in Ends(t, i) /\ \A k \in Ends(t, i) : e <= k
  BY <1>3
<1>5. Block(t, i) = i .. e
  BY DEF Block
<1> HIDE DEF e
<1>6. i .. e \subseteq 1 .. Len(t)
  BY <1>1, <1>2, <1>4
<1> QED BY <1>1, <1>4, <1>5, <1>6

LEMMA BlockStays ==
  ASSUME NEW S, NEW t \in Seq(S), NEW l \in S, NEW i \in Blocks(t)
  PROVE  i \in Blocks(Append(t, l)) /\ Block(Append(t, l), i) = Block(t, i)
<1> DEFINE u == Append(t, l)
<1>0. i \in 1 .. Len(t) /\ Len(t) \in Nat /\ Opens(t, i) /\ Ends(t, i) # {}
  BY BlockLines DEF Blocks
<1>1. PICK e \in Ends(t, i) : Block(t, i) = i .. e /\ \A k \in Ends(t, i) : e <= k
  BY BlockLines
<1>2. Ends(u, i) = Ends(t, i) \cup (IF l.word = "endstate" THEN {Len(t) + 1} ELSE {})
  BY <1>0, EndsGrow
<1>3. i \in DOMAIN u /\ Opens(u, i)
  BY <1>0, OpensStays, OneMoreLine
<1> HIDE DEF u
<1>4. e \in Nat /\ e <= Len(t)
  BY <1>0 DEF Ends
<1>5. \A k \in Ends(t, i) : k \in Nat
  BY <1>0 DEF Ends
<1>6. e \in Ends(u, i) /\ \A k \in Ends(u, i) : e <= k /\ k \in Nat
  BY <1>0, <1>1, <1>2, <1>4, <1>5
<1>7. (CHOOSE k \in Ends(u, i) : \A j \in Ends(u, i) : k <= j) = e
  <2> DEFINE c == CHOOSE k \in Ends(u, i) : \A j \in Ends(u, i) : k <= j
  <2>1. c \in Ends(u, i) /\ \A j \in Ends(u, i) : c <= j
    BY <1>6
  <2> HIDE DEF c
  <2>2. c = e
    BY <1>4, <1>6, <2>1
  <2> QED BY <2>2 DEF c
<1>8. i \in Blocks(u) /\ Block(u, i) = Block(t, i)
  BY <1>1, <1>3, <1>6, <1>7 DEF Blocks, Block
<1> QED BY <1>8 DEF u

(* At most one block is open.                                              *)
Open(t, i) == i \in DOMAIN t /\ Opens(t, i) /\ Ends(t, i) = {}

LEMMA OneOpen ==
  ASSUME NEW S, NEW t \in Seq(S), NEW i, NEW k, Open(t, i), Open(t, k)
  PROVE  i = k
<1>0. i \in 1 .. Len(t) /\ k \in 1 .. Len(t) /\ Len(t) \in Nat
  BY LenProperties DEF Open
<1>1. ASSUME NEW a \in 1 .. Len(t), NEW b \in 1 .. Len(t), Open(t, a), Open(t, b), a < b
      PROVE  FALSE
  <2>1. t[a].word = "header" /\ a \in 1 .. b - 1
    BY <1>0, <1>1 DEF Open, Opens
  <2>2. PICK c \in a .. b - 1 : t[c].word = "endstate"
    BY <1>1, <2>1 DEF Open, Opens
  <2>3. c \in Ends(t, a)
    BY <1>0, <2>2 DEF Ends
  <2> QED BY <1>1, <2>3 DEF Open
<1> QED BY <1>0, <1>1

(* The blocks of a text with one more line.                                *)
LEMMA NoNewBlock ==
  ASSUME NEW S, NEW t \in Seq(S), NEW l \in S, l.word # "endstate"
  PROVE  Blocks(Append(t, l)) = Blocks(t)
<1> DEFINE u == Append(t, l)
<1>0. Len(t) \in Nat /\ DOMAIN t = 1 .. Len(t) /\ DOMAIN u = 1 .. Len(t) + 1
  BY OneMoreLine
<1>1. ASSUME NEW i \in 1 .. Len(t) + 1 PROVE Ends(u, i) = Ends(t, i)
  <2>1. Ends(u, i) = Ends(t, i) \cup (IF l.word = "endstate" THEN {Len(t) + 1} ELSE {})
    BY EndsGrow
  <2> HIDE DEF u
  <2> QED BY <2>1
<1>2. \A i \in 1 .. Len(t) : Opens(u, i) <=> Opens(t, i)
  BY OpensStays
<1>3. Ends(t, Len(t) + 1) = {}
  BY <1>0 DEF Ends
<1> HIDE DEF u
<1>4. Blocks(u) = Blocks(t)
  BY <1>0, <1>1, <1>2, <1>3 DEF Blocks
<1> QED BY <1>4 DEF u

LEMMA NewBlock ==
  ASSUME NEW S, NEW t \in Seq(S), NEW l \in S, l.word = "endstate", NEW i, Open(t, i)
  PROVE  /\ Blocks(Append(t, l)) = Blocks(t) \cup {i} /\ i \notin Blocks(t)
         /\ Block(Append(t, l), i) = i .. Len(t) + 1
<1> DEFINE u == Append(t, l)
<1>0. /\ Len(t) \in Nat /\ DOMAIN t = 1 .. Len(t) /\ DOMAIN u = 1 .. Len(t) + 1
      /\ u[Len(t) + 1] = l /\ i \in 1 .. Len(t) /\ Ends(t, i) = {} /\ Opens(t, i)
  BY OneMoreLine DEF Open
<1>1. \A k \in 1 .. Len(t) + 1 : Ends(u, k) = Ends(t, k) \cup {Len(t) + 1}
  BY EndsGrow
<1>2. \A k \in 1 .. Len(t) : Opens(u, k) <=> Opens(t, k)
  BY OpensStays
<1> HIDE DEF u
<1>3. ~Opens(u, Len(t) + 1)
  BY <1>0 DEF Opens
<1>4. \A k \in 1 .. Len(t) : Opens(t, k) /\ k # i => Ends(t, k) # {}
  BY <1>0, OneOpen DEF Open
<1>5. Blocks(u) = Blocks(t) \cup {i}
  <2>1. ASSUME NEW k \in Blocks(u) PROVE k \in Blocks(t) \cup {i}
    <3>1. k \in 1 .. Len(t) + 1 /\ Opens(u, k)
      BY <1>0 DEF Blocks
    <3>2. k \in 1 .. Len(t) /\ Opens(t, k)
      BY <1>0, <1>2, <1>3, <3>1
    <3> QED BY <1>0, <1>4, <3>2 DEF Blocks
  <2>2. ASSUME NEW k \in Blocks(t) \cup {i} PROVE k \in Blocks(u)
    <3>1. k \in 1 .. Len(t) /\ Opens(t, k)
      BY <1>0 DEF Blocks
    <3>2. k \in 1 .. Len(t) + 1 /\ Opens(u, k) /\ Len(t) + 1 \in Ends(u, k)
      BY <1>0, <1>1, <1>2, <3>1
    <3> QED BY <1>0, <3>2 DEF Blocks
  <2> QED BY <2>1, <2>2
<1>6. Block(u, i) = i .. Len(t) + 1
  <2>1. Ends(u, i) = {Len(t) + 1}
    BY <1>0, <1>1
  <2>2. (CHOOSE k \in Ends(u, i) : \A j \in Ends(u, i) : k <= j) = Len(t) + 1
    BY <1>0, <2>1
  <2> QED BY <2>2 DEF Block
<1>7. i \notin Blocks(t)
  BY <1>0 DEF Blocks
<1> QED BY <1>5, <1>6, <1>7 DEF u

(* The targets, as far as the block is read: the last line counts.         *)
LEMMA TargetGrows ==
  ASSUME NEW S, NEW t \in Seq(S), NEW l \in S, NEW i \in 1 .. Len(t) + 1, NEW word
  PROVE  Target(Append(t, l), word, i .. Len(t) + 1) =
           IF l.word = word THEN l.n ELSE Target(t, word, i .. Len(t))
<1> DEFINE u == Append(t, l)
           lines == i .. Len(t) + 1
           found == {k \in lines : u[k].word = word}
<1>0. /\ Len(t) \in Nat /\ \A k \in 1 .. Len(t) : u[k] = t[k]
      /\ u[Len(t) + 1] = l
  BY OneMoreLine
<1>1. lines = (i .. Len(t)) \cup {Len(t) + 1} /\ i .. Len(t) \in SUBSET (1 .. Len(t))
  BY <1>0
<1>2. CASE l.word = word
  <2>1. Len(t) + 1 \in found /\ \A j \in found : j \in Nat /\ j <= Len(t) + 1
    BY <1>0, <1>2
  <2> DEFINE c == CHOOSE k \in found : \A j \in found : j <= k
  <2>2. Target(u, word, lines) = u[c].n
    BY <2>1 DEF Target
  <2> HIDE DEF found
  <2>3. c \in found /\ \A j \in found : j <= c
    BY <2>1
  <2>4. c = Len(t) + 1
    <3> HIDE DEF c
    <3> QED BY <1>0, <2>1, <2>3
  <2> QED BY <1>0, <1>2, <2>2, <2>4
<1>3. CASE l.word # word
  <2>1. found = {k \in i .. Len(t) : u[k].word = word}
    BY <1>0, <1>1, <1>3
  <2> DEFINE value(at) == IF at = {} THEN ENDSTATE ELSE u[CHOOSE k \in at : \A j \in at : j <= k].n
  <2>2. Target(u, word, lines) = Target(u, word, i .. Len(t))
    <3>1. Target(u, word, lines) = value(found)
      BY DEF Target
    <3>2. Target(u, word, i .. Len(t)) = value({k \in i .. Len(t) : u[k].word = word})
      BY DEF Target
    <3> HIDE DEF value
    <3> QED BY <2>1, <3>1, <3>2
  <2>3. Target(u, word, i .. Len(t)) = Target(t, word, i .. Len(t))
    BY <1>1, SameLines
  <2> QED BY <1>3, <2>2, <2>3
<1> QED BY <1>2, <1>3

(* Definitions, as far as the block is read.                               *)
LEMMA SuppliedGrows ==
  ASSUME NEW S, NEW t \in Seq(S), NEW l \in S, NEW i \in 1 .. Len(t) + 1, NEW f, NEW kind,
         \/ Supplied(t, f, kind, i .. Len(t)) /\ (Defines(l, f) => l.ok)
         \/ Defines(l, f) /\ l.ok
         \/ f = "subject" /\ Defines(l, "attach")
  PROVE  Supplied(Append(t, l), f, kind, i .. Len(t) + 1)
<1> DEFINE u == Append(t, l)
<1>0. /\ Len(t) \in Nat /\ \A k \in 1 .. Len(t) : u[k] = t[k]
      /\ u[Len(t) + 1] = l
  BY OneMoreLine
<1>1. /\ i .. Len(t) + 1 = (i .. Len(t)) \cup {Len(t) + 1}
      /\ \A k \in i .. Len(t) : u[k] = t[k] /\ k < Len(t) + 1
  BY <1>0
<1> HIDE DEF u
<1>2. ASSUME Given(t, f, kind, i .. Len(t)), Defines(l, f) => l.ok
      PROVE  Given(u, f, kind, i .. Len(t) + 1)
  BY <1>0, <1>1, <1>2 DEF Given
<1>3. ASSUME Defines(l, f), l.ok PROVE Given(u, f, kind, i .. Len(t) + 1)
  BY <1>0, <1>1, <1>3 DEF Given
<1>4. ASSUME Defines(l, "attach") \/ \E k \in i .. Len(t) : Defines(t[k], "attach")
      PROVE  \E k \in i .. Len(t) + 1 : Defines(u[k], "attach")
  BY <1>0, <1>1, <1>4
<1>5. Supplied(u, f, kind, i .. Len(t) + 1)
  BY <1>2, <1>3, <1>4 DEF Supplied
<1> QED BY <1>5 DEF u

-----------------------------------------------------------------------------
(* What the handlers have built.  Between blocks, every line that is not   *)
(* blank belongs to a block that has ended.                                *)
Closed(t) == \A j \in DOMAIN t : t[j].word = "blank" \/ Ends(t, j) # {}

(* The open state s is what the lines of its block, from line i on, say.   *)
(* A definition with a bad value that parse does not reject is one that    *)
(* verify judges.                                                          *)
Said(s, t, i) ==
  /\ s.kind = t[i].kind /\ s.number = t[i].n
  /\ s.done = Target(t, "done", i .. Len(t)) /\ s.error = Target(t, "error", i .. Len(t))
  /\ \A f \in s.fields : Supplied(t, f, s.kind, i .. Len(t))
  /\ s.kind \in Swallowing => s.fields = {}
  /\ s.kind \notin Swallowing => \A k \in i .. Len(t) :
       /\ t[k].word = "header" => k = i
       /\ t[k].word = "define" /\ ~t[k].ok => t[k].field \in Judged

(* Its assignments are those of the lines.                                 *)
Kept(s, t, i) ==
  s.kind \in Assigning =>
    \E line \in InSequence(AssignmentLines(t, i), Len(s.assignments)) :
      \A q \in 1 .. Len(s.assignments) :
        InOrder(t[line[q]].from) => s.assignments[q] = Written(t[line[q]], t[i].n)

Understood ==
  phase = "parse" =>
    IF in_stateblock
    THEN \E i \in DOMAIN text : Open(text, i) /\ Said(st, text, i) /\ Kept(st, text, i)
    ELSE Closed(text)

(* A block begins.                                                         *)
LEMMA Begins ==
  ASSUME NEW S, NEW t \in Seq(S), NEW l \in S, Closed(t), l.word = "header", l.kind \in Kind
  PROVE  LET u == Append(t, l)
             i == Len(t) + 1
             s == NewState(l.kind, l.n)
         IN  i \in DOMAIN u /\ Open(u, i) /\ Said(s, u, i) /\ Kept(s, u, i)
<1> DEFINE u == Append(t, l)
           i == Len(t) + 1
           s == NewState(l.kind, l.n)
<1>0. /\ Len(t) \in Nat /\ Len(u) = i /\ DOMAIN u = 1 .. i /\ DOMAIN t = 1 .. Len(t)
      /\ \A k \in 1 .. Len(t) : u[k] = t[k]
      /\ u[i] = l
  BY OneMoreLine
<1>1. Open(u, i)
  <2>1. Ends(u, i) = {}
    BY <1>0 DEF Ends
  <2>2. ASSUME NEW j \in 1 .. i - 1, u[j].word # "blank"
        PROVE  \E k \in j .. i - 1 : u[k].word = "endstate"
    <3>1. j \in DOMAIN t /\ t[j].word # "blank"
      BY <1>0, <2>2
    <3>2. PICK k \in j .. Len(t) : t[k].word = "endstate"
      BY <3>1 DEF Closed, Ends
    <3> QED BY <1>0, <3>2
  <2>3. u[i].word = "header"
    BY <1>0
  <2> HIDE DEF u
  <2> QED BY <1>0, <2>1, <2>2, <2>3 DEF Open, Opens
<1>2. ASSUME NEW word, word # "header" PROVE Target(u, word, i .. i) = ENDSTATE
  <2>1. {k \in i .. i : u[k].word = word} = {}
    BY <1>0, <1>2
  <2> HIDE DEF u, i
  <2> QED BY <2>1 DEF Target
<1>3. /\ s.kind = l.kind /\ s.number = l.n /\ s.done = ENDSTATE /\ s.error = ENDSTATE
      /\ s.assignments = <<>> /\ s.fields = NewState(l.kind, 0).fields
      /\ s.kind \in Swallowing => s.fields = {}
  BY DEF NewState, Swallowing
<1> HIDE DEF s
<1>4. ASSUME NEW f \in s.fields PROVE Supplied(u, f, s.kind, i .. i)
  <2>1. \A k \in i .. i : ~Defines(u[k], f)
    BY <1>0 DEF Defines
  <2> HIDE DEF u, i
  <2> QED BY <1>3, <2>1 DEF Supplied, Given
<1>5. \A k \in i .. i : k = i /\ u[k].word = "header"
  BY <1>0
<1>6. Said(s, u, i)
  <2> HIDE DEF u, i
  <2> QED BY <1>0, <1>2, <1>3, <1>4, <1>5 DEF Said
<1>7. Kept(s, u, i)
  <2>1. AssignmentLines(u, i) = {} /\ Len(s.assignments) = 0
    BY <1>0, <1>3, <1>5 DEF AssignmentLines
  <2>2. <<>> \in InSequence({}, 0)
    BY DEF InSequence
  <2> HIDE DEF u, i
  <2> QED BY <2>1, <2>2 DEF Kept
<1>8. i \in DOMAIN u
  BY <1>0
<1> QED BY <1>1, <1>6, <1>7, <1>8 DEF s

(* An open block goes on.                                                  *)
LEMMA StaysOpen ==
  ASSUME NEW S, NEW t \in Seq(S), NEW l \in S, l.word # "endstate", NEW i, Open(t, i)
  PROVE  Open(Append(t, l), i) /\ i \in DOMAIN Append(t, l)
<1>0. Len(t) \in Nat /\ i \in 1 .. Len(t) /\ DOMAIN Append(t, l) = 1 .. Len(t) + 1
  BY OneMoreLine DEF Open
<1>1. Opens(Append(t, l), i)
  BY <1>0, OpensStays DEF Open
<1>2. Ends(Append(t, l), i) = Ends(t, i) \cup (IF l.word = "endstate" THEN {Len(t) + 1} ELSE {})
  BY <1>0, EndsGrow
<1> QED BY <1>0, <1>1, <1>2 DEF Open

(* A value that the [smtp] section gives is given.                         *)
LEMMA SmtpGiven ==
  ASSUME NEW S, NEW t \in Seq(S), NEW lines, NEW kind, NEW f \in Smtp,
         \A k \in lines : t[k].word = "define" /\ ~t[k].ok => t[k].field \in Judged
  PROVE  Given(t, f, kind, lines)
<1>1. f # "subject" /\ f \notin Judged
  BY SmtpAssumption DEF Judged
<1> QED BY <1>1 DEF Given, Defines

(* The open state follows the lines, if each line does to it what it says. *)
LEMMA SaidGrows ==
  ASSUME NEW S, NEW t \in Seq(S), NEW l \in S, NEW i, Open(t, i),
         NEW s, NEW r, Said(s, t, i),
         r.kind = s.kind, r.number = s.number,
         r.done = (IF l.word = "done" THEN l.n ELSE s.done),
         r.error = (IF l.word = "error" THEN l.n ELSE s.error),
         s.kind \in Swallowing => r.fields = {},
         s.kind \notin Swallowing =>
           /\ l.word # "header"
           /\ l.word = "define" /\ ~l.ok => l.field \in Judged
           /\ \A f \in r.fields : \/ f \in Smtp
                                  \/ f \in s.fields /\ (Defines(l, f) => l.ok)
                                  \/ Defines(l, f) /\ l.ok
                                  \/ f = "subject" /\ Defines(l, "attach")
  PROVE  Said(r, Append(t, l), i)
<1> DEFINE u == Append(t, l)
<1>0. /\ Len(t) \in Nat /\ Len(u) = Len(t) + 1 /\ i \in 1 .. Len(t) /\ i \in 1 .. Len(t) + 1
      /\ \A k \in 1 .. Len(t) : u[k] = t[k]
      /\ u[Len(t) + 1] = l
      /\ u \in Seq(S)
  BY OneMoreLine DEF Open
<1>1. /\ i .. Len(t) + 1 = (i .. Len(t)) \cup {Len(t) + 1}
      /\ \A k \in i .. Len(t) : u[k] = t[k]
      /\ u[i] = t[i]
  BY <1>0
<1>2. /\ r.done = Target(u, "done", i .. Len(t) + 1)
      /\ r.error = Target(u, "error", i .. Len(t) + 1)
  BY <1>0, TargetGrows DEF Said
<1>3. r.kind \notin Swallowing => \A k \in i .. Len(t) + 1 :
        /\ u[k].word = "header" => k = i
        /\ u[k].word = "define" /\ ~u[k].ok => u[k].field \in Judged
  <2> HIDE DEF u
  <2> QED BY <1>0, <1>1 DEF Said
<1>4. ASSUME NEW f \in r.fields PROVE Supplied(u, f, r.kind, i .. Len(t) + 1)
  <2>1. r.kind \notin Swallowing
    BY <1>4
  <2>2. CASE f \in Smtp
    <3> HIDE DEF u
    <3> QED BY <1>0, <1>3, <2>1, <2>2, SmtpGiven DEF Supplied
  <2>3. CASE f \in s.fields /\ (Defines(l, f) => l.ok)
    <3>1. Supplied(t, f, r.kind, i .. Len(t))
      BY <2>3 DEF Said
    <3> QED BY <1>0, <2>3, <3>1, SuppliedGrows
  <2>4. CASE (Defines(l, f) /\ l.ok) \/ (f = "subject" /\ Defines(l, "attach"))
    BY <1>0, <2>4, SuppliedGrows
  <2> QED BY <2>1, <2>2, <2>3, <2>4
<1> HIDE DEF u
<1>5. Said(r, u, i)
  BY <1>0, <1>1, <1>2, <1>3, <1>4 DEF Said
<1> QED BY <1>5 DEF u

(* So do its assignments.                                                  *)
LEMMA KeptWithout ==
  ASSUME NEW S, NEW t \in Seq(S), NEW l \in S, l.word # "assign", NEW i, Open(t, i),
         NEW s, NEW r, Kept(s, t, i), r.kind = s.kind, r.assignments = s.assignments
  PROVE  Kept(r, Append(t, l), i)
<1> DEFINE u == Append(t, l)
<1>0. /\ Len(t) \in Nat /\ Len(u) = Len(t) + 1 /\ i \in 1 .. Len(t)
      /\ \A k \in 1 .. Len(t) : u[k] = t[k]
      /\ u[Len(t) + 1] = l
  BY OneMoreLine DEF Open
<1>1. /\ i .. Len(t) + 1 = (i .. Len(t)) \cup {Len(t) + 1}
      /\ \A k \in i .. Len(t) : u[k] = t[k]
      /\ u[i] = t[i]
  BY <1>0
<1> HIDE DEF u
<1>2. AssignmentLines(u, i) = AssignmentLines(t, i)
  BY <1>0, <1>1 DEF AssignmentLines
<1>3. ASSUME r.kind \in Assigning
      PROVE  \E line \in InSequence(AssignmentLines(u, i), Len(r.assignments)) :
               \A q \in 1 .. Len(r.assignments) :
                 InOrder(u[line[q]].from) => r.assignments[q] = Written(u[line[q]], u[i].n)
  <2>1. PICK line \in InSequence(AssignmentLines(t, i), Len(s.assignments)) :
          \A q \in 1 .. Len(s.assignments) :
            InOrder(t[line[q]].from) => s.assignments[q] = Written(t[line[q]], t[i].n)
    BY <1>3 DEF Kept
  <2>2. \A q \in 1 .. Len(s.assignments) : u[line[q]] = t[line[q]]
    BY <1>1 DEF InSequence, AssignmentLines
  <2> QED BY <1>1, <1>2, <2>1, <2>2
<1>4. Kept(r, u, i)
  BY <1>3 DEF Kept
<1> QED BY <1>4 DEF u

LEMMA KeptWith ==
  ASSUME NEW S, NEW t \in Seq(S), NEW l \in S, l.word = "assign", NEW i, Open(t, i),
         l.from \in Seq(Term),
         NEW s, NEW r, s.assignments \in Seq(Assignment), Kept(s, t, i), Said(s, t, i),
         r.kind = s.kind, parseAssignment(l, s.number) \in Assignment,
         r.assignments = Append(s.assignments, parseAssignment(l, s.number))
  PROVE  Kept(r, Append(t, l), i)
<1> DEFINE u == Append(t, l)
           n == Len(s.assignments)
           a == parseAssignment(l, s.number)
<1>0. /\ Len(t) \in Nat /\ Len(u) = Len(t) + 1 /\ i \in 1 .. Len(t)
      /\ \A k \in 1 .. Len(t) : u[k] = t[k]
      /\ u[Len(t) + 1] = l
  BY OneMoreLine DEF Open
<1> HIDE DEF u
<1>1. /\ i .. Len(t) + 1 = (i .. Len(t)) \cup {Len(t) + 1}
      /\ \A k \in i .. Len(t) : u[k] = t[k] /\ k < Len(t) + 1 /\ k \in Nat
      /\ u[i] = t[i]
  <2>1. i .. Len(t) + 1 = (i .. Len(t)) \cup {Len(t) + 1} /\ i \in 1 .. Len(t)
    BY <1>0
  <2>2. \A k \in i .. Len(t) : k \in 1 .. Len(t) /\ k < Len(t) + 1 /\ k \in Nat
    BY <1>0
  <2> QED BY <1>0, <2>1, <2>2
<1>2. /\ n \in Nat /\ Len(r.assignments) = n + 1
      /\ \A q \in 1 .. n : r.assignments[q] = s.assignments[q]
      /\ r.assignments[n + 1] = a
  BY LenProperties, AppendProperties
<1>3. InOrder(l.from) => a = Written(l, t[i].n)
  <2>1. SUFFICES ASSUME InOrder(l.from) PROVE a = Written(l, t[i].n)
    OBVIOUS
  <2>2. Alternatives[l.from] = l.from /\ s.number = t[i].n
    BY <2>1, NothingSkipped DEF Said
  <2> QED BY <2>2 DEF parseAssignment, Written
<1> HIDE DEF n, a
<1>4. AssignmentLines(u, i) = AssignmentLines(t, i) \cup {Len(t) + 1}
  BY <1>0, <1>1 DEF AssignmentLines
<1>5. ASSUME r.kind \in Assigning
      PROVE  \E line \in InSequence(AssignmentLines(u, i), Len(r.assignments)) :
               \A q \in 1 .. Len(r.assignments) :
                 InOrder(u[line[q]].from) => r.assignments[q] = Written(u[line[q]], u[i].n)
  <2>1. PICK line \in InSequence(AssignmentLines(t, i), n) :
          \A q \in 1 .. n :
            InOrder(t[line[q]].from) => s.assignments[q] = Written(t[line[q]], t[i].n)
    BY <1>5 DEF Kept, n
  <2> DEFINE longer == [q \in 1 .. n + 1 |-> IF q = n + 1 THEN Len(t) + 1 ELSE line[q]]
  <2>2. /\ \A q \in 1 .. n : line[q] \in AssignmentLines(t, i) /\ line[q] \in i .. Len(t)
        /\ \A p, q \in 1 .. n : p < q => line[p] < line[q]
        /\ \A k \in AssignmentLines(t, i) : \E q \in 1 .. n : line[q] = k
    BY DEF InSequence, AssignmentLines
  <2>3. /\ 1 .. n + 1 = (1 .. n) \cup {n + 1} /\ n + 1 \notin 1 .. n
        /\ \A q \in 1 .. n : longer[q] = line[q]
        /\ longer[n + 1] = Len(t) + 1 /\ DOMAIN longer = 1 .. n + 1
    BY <1>2
  <2>4. longer \in [1 .. n + 1 -> AssignmentLines(u, i)]
    BY <1>4, <2>2, <2>3
  <2> HIDE DEF longer
  <2>5. ASSUME NEW p \in 1 .. n + 1, NEW q \in 1 .. n + 1, p < q PROVE longer[p] < longer[q]
    <3>1. p \in 1 .. n
      BY <1>2, <2>5
    <3>2. CASE q \in 1 .. n
      BY <2>2, <2>3, <2>5, <3>1, <3>2
    <3>3. CASE q = n + 1
      BY <1>1, <2>2, <2>3, <3>1, <3>3
    <3> QED BY <2>3, <3>2, <3>3
  <2>6. ASSUME NEW k \in AssignmentLines(u, i) PROVE \E q \in 1 .. n + 1 : longer[q] = k
    BY <1>4, <2>2, <2>3
  <2>7. longer \in InSequence(AssignmentLines(u, i), Len(r.assignments))
    BY <1>2, <2>4, <2>5, <2>6 DEF InSequence
  <2>8. ASSUME NEW q \in 1 .. n + 1, InOrder(u[longer[q]].from)
        PROVE  r.assignments[q] = Written(u[longer[q]], u[i].n)
    <3>1. CASE q \in 1 .. n
      <4>1. longer[q] = line[q] /\ line[q] \in i .. Len(t)
        BY <2>2, <2>3, <3>1
      <4>2. u[longer[q]] = t[line[q]] /\ u[i] = t[i] /\ r.assignments[q] = s.assignments[q]
        BY <1>1, <1>2, <3>1, <4>1
      <4> QED BY <2>1, <2>8, <3>1, <4>2
    <3>2. CASE q = n + 1
      BY <1>0, <1>1, <1>2, <1>3, <2>3, <2>8, <3>2
    <3> QED BY <2>3, <3>1, <3>2
  <2> QED BY <1>2, <2>7, <2>8
<1>6. Kept(r, u, i)
  BY <1>5 DEF Kept
<1> QED BY <1>6 DEF u

-----------------------------------------------------------------------------
(* What the map has for the block that begins at line i.                   *)
Loaded(s, t, i) ==
  LET lines == Block(t, i) IN
  /\ s.kind = t[i].kind /\ s.number = t[i].n
  /\ s.done = Target(t, "done", lines)
  /\ \/ s.error = Target(t, "error", lines)
     \/ NoErrorTarget(t, s.kind, lines) /\ s.error = s.done
  /\ \A f \in Required[s.kind] : Supplied(t, f, s.kind, lines)
  /\ s.kind \notin Swallowing => \A k \in lines : t[k].word = "header" => k = i

LEMMA LoadedStays ==
  ASSUME NEW S, NEW t \in Seq(S), NEW l \in S, NEW i \in Blocks(t), NEW s, Loaded(s, t, i)
  PROVE  Loaded(s, Append(t, l), i) /\ Append(t, l)[i] = t[i]
<1> DEFINE u == Append(t, l)
           lines == Block(t, i)
<1>0. i \in 1 .. Len(t) /\ lines \in SUBSET (1 .. Len(t))
  BY BlockLines
<1>1. u[i] = t[i] /\ \A k \in lines : u[k] = t[k]
  BY <1>0, OneMoreLine
<1>2. Block(u, i) = lines
  BY BlockStays
<1>3. /\ \A word : Target(u, word, lines) = Target(t, word, lines)
      /\ \A f, kind : Supplied(u, f, kind, lines) <=> Supplied(t, f, kind, lines)
      /\ NoErrorTarget(u, s.kind, lines) <=> NoErrorTarget(t, s.kind, lines)
  <2> HIDE DEF lines
  <2>1. /\ \A word : Target(u, word, lines) = Target(t, word, lines)
        /\ \A f, kind : Supplied(u, f, kind, lines) <=> Supplied(t, f, kind, lines)
    BY <1>0, SameLines
  <2> QED BY <2>1 DEF NoErrorTarget
<1>4. /\ s.kind = t[i].kind /\ s.number = t[i].n
      /\ s.done = Target(t, "done", lines)
      /\ \/ s.error = Target(t, "error", lines)
         \/ NoErrorTarget(t, s.kind, lines) /\ s.error = s.done
      /\ \A f \in Required[s.kind] : Supplied(t, f, s.kind, lines)
      /\ s.kind \notin Swallowing => \A k \in lines : t[k].word = "header" => k = i
  BY DEF Loaded
<1> HIDE DEF u, lines
<1>5. Loaded(s, u, i)
  BY <1>1, <1>2, <1>3, <1>4 DEF Loaded
<1> QED BY <1>1, <1>5 DEF u

LEMMA LoadedNew ==
  ASSUME NEW S, NEW t \in Seq(S), NEW l \in S, l.word = "endstate", NEW i, Open(t, i),
         NEW s \in State, Said(s, t, i), verify(s)
  PROVE  Loaded(Verified(s), Append(t, l), i)
<1> DEFINE u == Append(t, l)
           lines == i .. Len(t) + 1
           r == Verified(s)
<1>0. /\ Len(t) \in Nat /\ i \in 1 .. Len(t) /\ i \in 1 .. Len(t) + 1
      /\ \A k \in 1 .. Len(t) : u[k] = t[k]
      /\ u[Len(t) + 1] = l
  BY OneMoreLine DEF Open
<1>1. Block(u, i) = lines
  BY NewBlock
<1>2. /\ Target(u, "done", lines) = Target(t, "done", i .. Len(t))
      /\ Target(u, "error", lines) = Target(t, "error", i .. Len(t))
  BY <1>0, TargetGrows
<1>3. ASSUME NEW f \in Required[s.kind] PROVE Supplied(u, f, s.kind, lines)
  <2>1. Supplied(t, f, s.kind, i .. Len(t))
    BY <1>3 DEF verify, Said
  <2>2. ~Defines(l, f)
    BY DEF Defines
  <2> QED BY <1>0, <2>1, <2>2, SuppliedGrows
<1>4. ASSUME s.kind \notin Swallowing, NEW k \in lines, u[k].word = "header" PROVE k = i
  <2>1. k \in i .. Len(t)
    <3> HIDE DEF u
    <3> QED BY <1>0, <1>4
  <2> QED BY <1>0, <1>4, <2>1 DEF Said
<1>5. /\ r.kind = s.kind /\ r.number = s.number /\ r.done = s.done
      /\ r.error = s.error \/ (s.kind = "goto" /\ s.error = 0 /\ r.error = s.done)
  BY DEF Verified, State
<1>6. u[i] = t[i]
  BY <1>0
<1>7. /\ s.kind = t[i].kind /\ s.number = t[i].n
      /\ s.done = Target(t, "done", i .. Len(t)) /\ s.error = Target(t, "error", i .. Len(t))
  BY DEF Said
<1> HIDE DEF u, lines, r
<1>8. Loaded(r, u, i)
  BY <1>1, <1>2, <1>3, <1>4, <1>5, <1>6, <1>7 DEF Loaded, NoErrorTarget
<1> QED BY <1>8 DEF u, r

LEMMA LoadsMeans ==
  LoadsWhatIsWritten <=>
    (phase = "parse" =>
       /\ DOMAIN sm = {text[i].n : i \in Blocks(text)}
       /\ \A i \in Blocks(text) : Loaded(sm[text[i].n], text, i))
BY DEF LoadsWhatIsWritten, Loaded

(* The open state after a line that is not the last of its block.          *)
LEMMA LineUnderstood ==
  ASSUME IInv, Understood, phase = "parse", NEW l \in Line[file],
         SkipLine(l) \/ BeginState(l) \/ SetTarget(l) \/ ParseLine(l)
  PROVE  Understood'
<1>0. /\ text' = Append(text, l) /\ text \in Seq(Line[file]) /\ file \in File
      /\ Len(text) \in Nat /\ DOMAIN text = 1 .. Len(text)
  BY LineRead, MapInTheMaking, LenProperties
<1>1. st \in State \cup {NoState}
  BY DEF IInv, TypeOK
<1>2. CASE ~in_stateblock /\ SkipLine(l)
  <2>1. Closed(text) /\ l.word = "blank" /\ ~in_stateblock'
    BY <1>2 DEF Understood, SkipLine, in_stateblock
  <2>2. Closed(text')
    <3> DEFINE u == Append(text, l)
    <3> SUFFICES ASSUME NEW j \in 1 .. Len(text) + 1
                 PROVE  u[j].word = "blank" \/ Ends(u, j) # {}
      BY <1>0, OneMoreLine DEF Closed
    <3>1. Ends(u, j) = Ends(text, j)
      <4>1. Ends(u, j) = Ends(text, j) \cup (IF l.word = "endstate" THEN {Len(text) + 1} ELSE {})
        BY <1>0, EndsGrow
      <4> QED BY <2>1, <4>1
    <3>2. IF j = Len(text) + 1 THEN u[j] = l ELSE j \in DOMAIN text /\ u[j] = text[j]
      BY <1>0, OneMoreLine
    <3> HIDE DEF u
    <3> QED BY <2>1, <3>1, <3>2 DEF Closed
  <2> QED BY <2>1, <2>2 DEF Understood
<1>3. CASE BeginState(l)
  <2>1. Closed(text) /\ l.word = "header" /\ l.kind \in Kind /\ st' = NewState(l.kind, l.n)
    BY <1>0, <1>3, LineKnown DEF Understood, BeginState
  <2>2. LET i == Len(text) + 1 IN
        i \in DOMAIN text' /\ Open(text', i) /\ Said(st', text', i) /\ Kept(st', text', i)
    BY <1>0, <2>1, Begins
  <2>3. in_stateblock'
    <3>1. st' \in State
      BY <1>0, <2>1, LineKnown, NewStateType
    <3> QED BY <3>1, NoStateIsNone DEF in_stateblock
  <2> QED BY <2>2, <2>3 DEF Understood
<1>4. ASSUME in_stateblock, SkipLine(l) \/ SetTarget(l) \/ ParseLine(l) PROVE Understood'
  <2>1. PICK i \in DOMAIN text : Open(text, i) /\ Said(st, text, i) /\ Kept(st, text, i)
    BY <1>4 DEF Understood
  <2>2. st \in State
    BY <1>1, <1>4 DEF in_stateblock
  <2>3. l.word # "endstate"
    BY <1>4 DEF SkipLine, SetTarget, ParseLine
  <2>4. Open(text', i) /\ i \in DOMAIN text' /\ (st.kind \in Swallowing => st.fields = {})
    BY <1>0, <2>1, <2>3, StaysOpen DEF Said
  <2>5. CASE SkipLine(l)
    <3>1. l.word \in {"blank", "logprefix"} /\ st' = st
      BY <2>5 DEF SkipLine
    <3>2. \A f : ~Defines(l, f)
      BY <3>1 DEF Defines
    <3>3. Said(st, text', i)
      BY <1>0, <2>1, <3>1, <3>2, SaidGrows DEF Said
    <3>4. Kept(st, text', i)
      BY <1>0, <2>1, <3>1, KeptWithout
    <3> QED BY <1>4, <2>4, <3>1, <3>3, <3>4 DEF Understood, in_stateblock
  <2>6. CASE SetTarget(l)
    <3>1. /\ l.word \in {"done", "error"}
          /\ st' = IF l.word = "done" THEN [st EXCEPT !.done = l.n] ELSE [st EXCEPT !.error = l.n]
      BY <2>6 DEF SetTarget
    <3> DEFINE r == st'
    <3>2. /\ r.kind = st.kind /\ r.number = st.number /\ r.fields = st.fields
          /\ r.assignments = st.assignments
          /\ r.done = (IF l.word = "done" THEN l.n ELSE st.done)
          /\ r.error = (IF l.word = "error" THEN l.n ELSE st.error)
      BY <2>2, <3>1 DEF State
    <3>3. \A f : ~Defines(l, f)
      BY <3>1 DEF Defines
    <3>4. st' # NoState
      <4>1. r.kind \in Kind
        BY <2>2, <3>2 DEF State
      <4>2. NoState.kind = "none" /\ "none" \notin Kind
        BY DEF NoState, Kind, Definitions, Swallowing
      <4> QED BY <4>1, <4>2
    <3> HIDE DEF r
    <3>5. Said(r, text', i)
      BY <1>0, <2>1, <2>4, <3>1, <3>2, <3>3, SaidGrows
    <3>6. Kept(r, text', i)
      BY <1>0, <2>1, <3>1, <3>2, KeptWithout
    <3> QED BY <2>4, <3>4, <3>5, <3>6 DEF Understood, in_stateblock, r
  <2>7. CASE ParseLine(l)
    <3>1. /\ l.word \in {"header", "define", "assign", "junk"} /\ Parses(st, l)
          /\ st' = parse(st, l)
      BY <2>7 DEF ParseLine
    <3> DEFINE r == parse(st, l)
    <3>2. r \in State /\ r # NoState
      BY <1>0, <2>2, <3>1, ParseType, NoStateIsNone
    <3>3. Said(r, text', i) /\ Kept(r, text', i)
      <4>1. CASE st.kind \in Swallowing
        <5>1. r = st
          BY <4>1 DEF parse
        <5>2. Said(r, text', i)
          BY <1>0, <2>1, <3>1, <4>1, <5>1, SaidGrows DEF Said
        <5>3. st.kind \notin Assigning
          BY <4>1 DEF Swallowing, Assigning
        <5> QED BY <5>1, <5>2, <5>3 DEF Kept
      <4>2. CASE st.kind \notin Swallowing /\ l.word = "assign"
        <5>1. r = [st EXCEPT !.assignments = Append(@, parseAssignment(l, st.number))]
          BY <4>2 DEF parse
        <5>2. /\ r.kind = st.kind /\ r.number = st.number /\ r.done = st.done
              /\ r.error = st.error /\ r.fields = st.fields
              /\ r.assignments = Append(st.assignments, parseAssignment(l, st.number))
              /\ st.assignments \in Seq(Assignment) /\ st.number \in Nat
          BY <2>2, <5>1 DEF State
        <5>3. \A f : ~Defines(l, f)
          BY <4>2 DEF Defines
        <5>4. l.to \in Term /\ l.from \in Seq(Term) /\ l.from # <<>>
          BY <1>0, <4>2, LineKnown
        <5> HIDE DEF r
        <5>5. Said(r, text', i)
          BY <1>0, <2>1, <4>2, <5>2, <5>3, SaidGrows
        <5>6. parseAssignment(l, st.number) \in Assignment
          BY <5>2, <5>4, AssignmentType
        <5>7. Kept(r, text', i)
          BY <1>0, <2>1, <4>2, <5>2, <5>4, <5>6, KeptWith
        <5> QED BY <5>5, <5>7
      <4>3. CASE st.kind \notin Swallowing /\ l.word # "assign"
        <5>1. l.word = "define" /\ (l.ok \/ l.field \in Judged)
          BY <3>1, <4>3 DEF Parses
        <5> DEFINE set == IF l.ok THEN st.fields \cup Sets(st, l) ELSE st.fields \ {l.field}
        <5>2. r = [st EXCEPT !.fields = set]
          BY <4>3 DEF parse
        <5> HIDE DEF set
        <5>3. /\ r.kind = st.kind /\ r.number = st.number /\ r.done = st.done
              /\ r.error = st.error /\ r.assignments = st.assignments /\ r.fields = set
          BY <2>2, <5>2 DEF State
        <5>4. ASSUME NEW f \in set
              PROVE  \/ f \in Smtp
                     \/ f \in st.fields /\ (Defines(l, f) => l.ok)
                     \/ Defines(l, f) /\ l.ok
                     \/ f = "subject" /\ Defines(l, "attach")
          <6>1. CASE l.ok
            BY <5>1, <5>4, <6>1 DEF set, Sets, Defines
          <6>2. CASE ~l.ok
            <7>1. f \in st.fields /\ f # l.field
              BY <5>4, <6>2 DEF set
            <7> QED BY <7>1 DEF Defines
          <6> QED BY <6>1, <6>2
        <5> HIDE DEF r
        <5>5. Said(r, text', i)
          BY <1>0, <2>1, <4>3, <5>1, <5>3, <5>4, SaidGrows
        <5>6. Kept(r, text', i)
          BY <1>0, <2>1, <4>3, <5>3, KeptWithout
        <5> QED BY <5>5, <5>6
      <4> QED BY <4>1, <4>2, <4>3
    <3> QED BY <2>4, <3>1, <3>2, <3>3 DEF Understood, in_stateblock
  <2> QED BY <1>4, <2>5, <2>6, <2>7
<1>5. in_stateblock \/ (~in_stateblock /\ SkipLine(l)) \/ BeginState(l)
  BY DEF SetTarget, ParseLine
<1>6. BeginState(l) => ~in_stateblock
  BY DEF BeginState
<1> QED BY <1>2, <1>3, <1>4, <1>5, <1>6

(* A line that is not the last of its block adds nothing to the map.       *)
LEMMA LineLoads ==
  ASSUME IInv, LoadsWhatIsWritten, phase = "parse", NEW l \in Line[file],
         SkipLine(l) \/ BeginState(l) \/ SetTarget(l) \/ ParseLine(l)
  PROVE  LoadsWhatIsWritten'
<1>0. /\ text' = Append(text, l) /\ UNCHANGED <<heap, phase>> /\ text \in Seq(Line[file])
      /\ l.word # "endstate"
  BY LineRead, MapInTheMaking DEF memory, SkipLine, BeginState, SetTarget, ParseLine
<1>1. /\ DOMAIN sm = {text[i].n : i \in Blocks(text)}
      /\ \A i \in Blocks(text) : Loaded(sm[text[i].n], text, i)
  BY LoadsMeans
<1>2. Blocks(text') = Blocks(text) /\ sm' = sm
  BY <1>0, NoNewBlock DEF sm
<1>3. ASSUME NEW i \in Blocks(text)
      PROVE  text'[i] = text[i] /\ Loaded(sm[text[i].n], text', i)
  BY <1>0, <1>1, LoadedStays
<1>4. /\ DOMAIN sm' = {text'[i].n : i \in Blocks(text')}
      /\ \A i \in Blocks(text') : Loaded(sm'[text'[i].n], text', i)
  <2>1. {text'[i].n : i \in Blocks(text)} = {text[i].n : i \in Blocks(text)}
    BY <1>3
  <2> QED BY <1>1, <1>2, <1>3, <2>1
<1> QED BY <1>4, LoadsMeans DEF LoadsWhatIsWritten, Loaded

(* The last one does.                                                      *)
LEMMA EndLoads ==
  ASSUME IInv, Understood, LoadsWhatIsWritten, phase = "parse", NEW l \in Line[file], EndState(l)
  PROVE  LoadsWhatIsWritten' /\ Understood'
<1>0. /\ text' = Append(text, l) /\ phase' = phase /\ text \in Seq(Line[file])
      /\ l.word = "endstate" /\ in_stateblock /\ verify(st) /\ st.number \notin DOMAIN sm
      /\ st' = NoState
  BY MapInTheMaking DEF EndState, Take, Read
<1>1. st \in State
  BY <1>0 DEF IInv, TypeOK, in_stateblock
<1>2. PICK i \in DOMAIN text : Open(text, i) /\ Said(st, text, i)
  BY <1>0 DEF Understood
<1>3. /\ DOMAIN sm = {text[k].n : k \in Blocks(text)}
      /\ \A k \in Blocks(text) : Loaded(sm[text[k].n], text, k)
  BY LoadsMeans
<1>4. sm' = Put(sm, st.number, Verified(st))
  BY <1>1, EndStateHeap DEF sm
<1>5. /\ DOMAIN sm' = DOMAIN sm \cup {st.number}
      /\ sm'[st.number] = Verified(st)
      /\ \A n \in DOMAIN sm : sm'[n] = sm[n]
  BY <1>0, <1>4 DEF Put
<1>6. /\ Blocks(text') = Blocks(text) \cup {i} /\ i \notin Blocks(text)
      /\ text'[i] = text[i] /\ text[i].n = st.number
  BY <1>0, <1>2, NewBlock, OneMoreLine DEF Said
<1>7. Loaded(Verified(st), text', i)
  BY <1>0, <1>1, <1>2, LoadedNew
<1>8. ASSUME NEW k \in Blocks(text)
      PROVE  text'[k] = text[k] /\ Loaded(sm[text[k].n], text', k)
  <2>1. Loaded(sm[text[k].n], text, k)
    BY <1>3
  <2>2. text' = Append(text, l) /\ text \in Seq(Line[file])
    BY <1>0
  <2> QED BY <2>1, <2>2, LoadedStays
<1>9. /\ DOMAIN sm' = {text'[k].n : k \in Blocks(text')}
      /\ \A k \in Blocks(text') : Loaded(sm'[text'[k].n], text', k)
  <2>1. {text'[k].n : k \in Blocks(text')} = {text[k].n : k \in Blocks(text)} \cup {st.number}
    BY <1>6, <1>8
  <2>2. \A k \in Blocks(text) : sm'[text'[k].n] = sm[text[k].n]
    BY <1>3, <1>5, <1>8
  <2>3. sm'[text'[i].n] = Verified(st)
    BY <1>5, <1>6
  <2> QED BY <1>3, <1>5, <1>6, <1>7, <1>8, <2>1, <2>2, <2>3
<1>10. LoadsWhatIsWritten'
  BY <1>9, LoadsMeans DEF LoadsWhatIsWritten, Loaded
<1>11. Closed(text')
  <2> DEFINE u == Append(text, l)
  <2> SUFFICES ASSUME NEW j \in 1 .. Len(text) + 1 PROVE Ends(u, j) # {}
    BY <1>0, OneMoreLine DEF Closed
  <2>1. Ends(u, j) = Ends(text, j) \cup (IF l.word = "endstate" THEN {Len(text) + 1} ELSE {})
    BY <1>0, EndsGrow
  <2> QED BY <1>0, <2>1
<1>12. Understood'
  BY <1>0, <1>11 DEF Understood, in_stateblock
<1> QED BY <1>10, <1>12

(* A file is opened, and nothing is read yet.                              *)
LEMMA OpenLoads ==
  ASSUME IInv, NEW n, OpenFile(n)
  PROVE  LoadsWhatIsWritten' /\ Understood'
<1>0. phase = "config" /\ phase' = "parse" /\ text' = text /\ st' = st /\ heap' = Append(heap, Empty)
  BY DEF OpenFile, NextEntry
<1>1. text = <<>> /\ st = NoState
  BY <1>0 DEF IInv, TypeOK
<1>2. DOMAIN text' = {}
  BY <1>0, <1>1
<1>3. Blocks(text') = {}
  BY <1>2 DEF Blocks
<1>4. sm' = Empty
  BY <1>0, LenProperties, AppendProperties DEF IInv, sm
<1>5. DOMAIN sm' = {}
  BY <1>4 DEF Empty
<1>6. LoadsWhatIsWritten'
  BY <1>3, <1>5 DEF LoadsWhatIsWritten
<1>7. Understood'
  BY <1>0, <1>1, <1>2 DEF Understood, in_stateblock, Closed
<1> QED BY <1>6, <1>7

LEMMA StepUnderstands ==
  ASSUME IInv, Understood, LoadsWhatIsWritten, [Next]_vars
  PROVE  Understood' /\ LoadsWhatIsWritten'
<1>1. ASSUME phase' # "parse" PROVE Understood' /\ LoadsWhatIsWritten'
  BY <1>1 DEF Understood, LoadsWhatIsWritten
<1>2. ASSUME NEW n, OpenFile(n) PROVE Understood' /\ LoadsWhatIsWritten'
  BY <1>2, OpenLoads
<1>3. ASSUME phase = "parse", NEW l \in Line[file], ReadLine(l)
      PROVE  Understood' /\ LoadsWhatIsWritten'
  <2>1. CASE SkipLine(l) \/ BeginState(l) \/ SetTarget(l) \/ ParseLine(l)
    BY <1>3, <2>1, LineUnderstood, LineLoads
  <2>2. CASE EndState(l)
    BY <1>3, <2>2, EndLoads
  <2>3. CASE RejectLine(l)
    BY <1>1, <2>3 DEF RejectLine
  <2> QED BY <1>3, <2>1, <2>2, <2>3 DEF ReadLine
<1>4. CASE UNCHANGED vars
  BY <1>4 DEF vars, memory, Understood, LoadsWhatIsWritten, in_stateblock, sm
<1>5. \/ phase' # "parse" \/ UNCHANGED vars
      \/ \E n \in Name : OpenFile(n)
      \/ phase = "parse" /\ \E l \in Line[file] : ReadLine(l)
  BY DEF Next, ShareFile, NextEntry, BadEntry, Start, EndOfFile, PoolEnds, FreeScript, FreeNothing,
         FreeAgain, Stop
<1> QED BY <1>1, <1>2, <1>3, <1>4, <1>5

-----------------------------------------------------------------------------
LEMMA Understanding == Spec => [](Understood /\ LoadsWhatIsWritten)
<1>1. Init => Understood /\ LoadsWhatIsWritten
  BY DEF Init, Understood, LoadsWhatIsWritten
<1>2. IInv /\ Understood /\ LoadsWhatIsWritten /\ [Next]_vars =>
        (Understood /\ LoadsWhatIsWritten)'
  BY StepUnderstands
<1> QED BY <1>1, <1>2, Safety, PTL DEF Spec

(* The handlers of the lines, which know only the open state, make of a    *)
(* file of any length exactly the states of its blocks: parseScript and    *)
(* parse and verify of every class.                                        *)
THEOREM WrittenIsLoaded == Spec => []LoadsWhatIsWritten
BY Understanding, PTL

(* parseAssignment loses no assignment and, where the kinds of its         *)
(* alternatives come in the order in which it tries them, no alternative.  *)
THEOREM AssignmentsKept == Spec => []AlternativesKept
<1>1. IInv /\ Understood => AlternativesKept
  <2> SUFFICES ASSUME IInv, Understood, phase = "parse", in_stateblock, st.kind \in Assigning
               PROVE  AlternativesKept
    BY DEF AlternativesKept
  <2>1. PICK i \in DOMAIN text : Open(text, i) /\ Kept(st, text, i)
    BY DEF Understood
  <2>2. OpenBlock(text) = i
    <3>1. OpenBlock(text) \in DOMAIN text /\ Open(text, OpenBlock(text))
      BY <2>1 DEF OpenBlock, Open
    <3> QED BY <2>1, <3>1, OneOpen, MapInTheMaking
  <2>3. DOMAIN st.assignments = 1 .. Len(st.assignments)
    <3>1. st \in State
      BY DEF IInv, TypeOK, in_stateblock
    <3> QED BY <3>1, LenProperties DEF State
  <2> QED BY <2>1, <2>2, <2>3 DEF AlternativesKept, Kept
<1> QED BY <1>1, Understanding, Safety, PTL
-----------------------------------------------------------------------------
(* What the files that were read have left: a map with the states that     *)
(* were written, or no map where none was.                                 *)
Recorded ==
  Loading =>
    /\ DOMAIN written = DOMAIN allScriptsByFile
    /\ \A f \in DOMAIN allScriptsByFile :
         IF written[f] = {} THEN allScriptsByFile[f] = nullptr
         ELSE allScriptsByFile[f] # nullptr /\ DOMAIN heap[allScriptsByFile[f]] = written[f]

(* A file that was read has a map that is not the one in the making.       *)
LEMMA StoredMap ==
  ASSUME IInv, Loading, NEW f \in DOMAIN allScriptsByFile, allScriptsByFile[f] # nullptr
  PROVE  /\ allScriptsByFile[f] \in DOMAIN heap \ freed
         /\ phase = "parse" => allScriptsByFile[f] # Len(heap)
<1>1. allScriptsByFile[f] \in Stored
  BY DEF Stored
<1>2. DOMAIN heap \ freed = Stored \cup Current /\ Stored \cap Current = {}
  BY DEF IInv, OneEach
<1> QED BY <1>1, <1>2 DEF Current

(* The maps of files that were read stay as they are.                      *)
LEMMA RecordStays ==
  ASSUME IInv, Recorded, Loading, UNCHANGED <<allScriptsByFile, written>>,
         \A m \in DOMAIN heap : (phase = "parse" => m # Len(heap)) => heap'[m] = heap[m]
  PROVE  Recorded'
<1>1. \A f \in DOMAIN allScriptsByFile :
        allScriptsByFile[f] # nullptr => heap'[allScriptsByFile[f]] = heap[allScriptsByFile[f]]
  BY StoredMap
<1> QED BY <1>1 DEF Recorded

(* The map of a file without states is the only one that is empty.         *)
LEMMA EmptyMap ==
  ASSUME NEW m \in Map
  PROVE  m = Empty <=> DOMAIN m = {}
<1>1. PICK K \in SUBSET Nat : m \in [K -> State]
  BY DEF Map
<1>2. DOMAIN Empty = {}
  BY DEF Empty
<1>3. ASSUME DOMAIN m = {} PROVE m = Empty
  BY <1>1, <1>3 DEF Empty
<1> QED BY <1>2, <1>3

LEMMA EndOfFileRecords ==
  ASSUME IInv, Recorded, LoadsWhatIsWritten, EndOfFile
  PROVE  Recorded'
<1>0. phase = "parse" /\ Loading
  BY DEF EndOfFile, Loading
<1>1. CASE in_stateblock
  BY <1>1 DEF EndOfFile, Recorded, Loading
<1>2. CASE ~in_stateblock
  <2> DEFINE map == IF sm = Empty THEN nullptr ELSE Len(heap)
             states == {text[i].n : i \in Blocks(text)}
  <2>1. /\ allScriptsByFile' = Put(allScriptsByFile, file, map)
        /\ written' = Put(written, file, states) /\ heap' = heap
    BY <1>2 DEF EndOfFile
  <2>2. DOMAIN sm = states
    BY <1>0 DEF LoadsWhatIsWritten
  <2>3. IF states = {} THEN map = nullptr ELSE map # nullptr /\ DOMAIN heap[map] = states
    <3>1. sm \in Map /\ Len(heap) \in Nat \ {0}
      BY <1>0, MapInTheMaking
    <3>2. sm = Empty <=> states = {}
      <4> HIDE DEF states
      <4> QED BY <2>2, <3>1, EmptyMap
    <3> HIDE DEF states
    <3> QED BY <2>2, <3>1, <3>2 DEF sm, nullptr
  <2> HIDE DEF map, states
  <2>4. /\ DOMAIN allScriptsByFile' = DOMAIN allScriptsByFile \cup {file}
        /\ allScriptsByFile'[file] = map
        /\ \A f \in DOMAIN allScriptsByFile :
             f # file => allScriptsByFile'[f] = allScriptsByFile[f]
        /\ DOMAIN written' = DOMAIN written \cup {file} /\ written'[file] = states
        /\ \A f \in DOMAIN written : f # file => written'[f] = written[f]
    BY <2>1 DEF Put
  <2>5. /\ DOMAIN written = DOMAIN allScriptsByFile
        /\ \A f \in DOMAIN allScriptsByFile :
             IF written[f] = {} THEN allScriptsByFile[f] = nullptr
             ELSE allScriptsByFile[f] # nullptr /\ DOMAIN heap[allScriptsByFile[f]] = written[f]
    BY <1>0 DEF Recorded
  <2>6. ASSUME NEW f \in DOMAIN allScriptsByFile'
        PROVE  IF written'[f] = {} THEN allScriptsByFile'[f] = nullptr
               ELSE /\ allScriptsByFile'[f] # nullptr
                    /\ DOMAIN heap'[allScriptsByFile'[f]] = written'[f]
    <3>1. CASE f = file
      BY <2>1, <2>3, <2>4, <3>1
    <3>2. CASE f # file
      BY <2>1, <2>4, <2>5, <3>2
    <3> QED BY <3>1, <3>2
  <2> QED BY <2>4, <2>5, <2>6 DEF Recorded
<1> QED BY <1>1, <1>2

LEMMA StepRecords ==
  ASSUME IInv, Recorded, LoadsWhatIsWritten, [Next]_vars
  PROVE  Recorded'
<1>1. ASSUME ~Loading' PROVE Recorded'
  BY <1>1 DEF Recorded
<1>2. ASSUME NEW n \in Name, ShareFile(n) PROVE Recorded'
  BY <1>2, RecordStays DEF ShareFile, NextEntry, Loading
<1>3. ASSUME NEW n \in Name, OpenFile(n) PROVE Recorded'
  <2>1. /\ Loading /\ UNCHANGED <<allScriptsByFile, written>> /\ heap' = Append(heap, Empty)
    BY <1>3 DEF OpenFile, NextEntry, Loading
  <2>2. \A m \in DOMAIN heap : heap'[m] = heap[m]
    BY <2>1 DEF IInv
  <2> QED BY <2>1, <2>2, RecordStays
<1>4. CASE Start
  BY <1>4, RecordStays DEF Start, Loading, maps, memory
<1>5. ASSUME phase = "parse", NEW l \in Line[file], ReadLine(l) PROVE Recorded'
  <2>0. Loading
    BY <1>5 DEF Loading
  <2>1. CASE SkipLine(l) \/ BeginState(l) \/ SetTarget(l) \/ ParseLine(l)
    BY <1>5, <2>0, <2>1, LineRead, RecordStays DEF maps, memory
  <2>2. CASE EndState(l)
    <3>1. st \in State
      BY <2>2 DEF IInv, TypeOK, EndState, in_stateblock
    <3>2. \A m \in DOMAIN heap : m # Len(heap) => heap'[m] = heap[m]
      BY <1>5, <2>2, <3>1, EndStateHeap
    <3>3. UNCHANGED <<allScriptsByFile, written>>
      BY <2>2 DEF EndState, Take, Read, maps
    <3> QED BY <1>5, <2>0, <3>2, <3>3, RecordStays
  <2>3. CASE RejectLine(l)
    BY <1>1, <2>3 DEF RejectLine, Loading
  <2> QED BY <1>5, <2>1, <2>2, <2>3 DEF ReadLine
<1>6. CASE EndOfFile
  BY <1>6, EndOfFileRecords
<1>7. CASE UNCHANGED vars
  BY <1>7 DEF vars, maps, memory, Recorded, Loading
<1>8. \/ ~Loading' \/ Start \/ EndOfFile \/ UNCHANGED vars
      \/ \E n \in Name : ShareFile(n) \/ OpenFile(n)
      \/ phase = "parse" /\ \E l \in Line[file] : ReadLine(l)
  BY DEF Next, BadEntry, PoolEnds, FreeScript, FreeNothing, FreeAgain, Stop, Loading
<1> QED BY <1>1, <1>2, <1>3, <1>4, <1>5, <1>6, <1>7, <1>8

LEMMA Recording == Spec => []Recorded
<1>1. Init => Recorded
  <2>1. DOMAIN Empty = {}
    BY DEF Empty
  <2> QED BY <2>1 DEF Init, Recorded
<1>2. IInv /\ LoadsWhatIsWritten /\ Recorded /\ [Next]_vars => Recorded'
  BY StepRecords
<1> QED BY <1>1, <1>2, Safety, WrittenIsLoaded, PTL DEF Spec

(* What the pool starts with: every configured name has the verified       *)
(* states that its file has written, each under its number, in a map that  *)
(* it shares with the other names of the file and with no other name, and  *)
(* a null map only if the file has written no state; no map is lost.       *)
THEOREM DispatcherReady == Spec => []ScriptsReady
<1>1. IInv /\ Recorded => ScriptsReady
  <2> SUFFICES ASSUME IInv, Recorded, phase = "running" PROVE ScriptsReady
    BY DEF ScriptsReady
  <2>1. Loading /\ phase # "parse"
    BY DEF Loading
  <2>2. /\ DOMAIN allScripts = DOMAIN config /\ DOMAIN scriptEntries = DOMAIN config
        /\ \A n \in DOMAIN config :
             /\ config[n][1] \in DOMAIN allScriptsByFile
             /\ allScripts[n] = allScriptsByFile[config[n][1]]
    BY <2>1 DEF IInv, Named, Unread
  <2>3. ASSUME NEW n \in DOMAIN config, written[config[n][1]] # {}
        PROVE  /\ allScripts[n] \in DOMAIN heap \ freed
               /\ DOMAIN heap[allScripts[n]] = written[config[n][1]]
               /\ \A k \in written[config[n][1]] :
                    /\ verify(heap[allScripts[n]][k])
                    /\ heap[allScripts[n]][k].number = k
    <3>1. allScripts[n] # nullptr /\ DOMAIN heap[allScripts[n]] = written[config[n][1]]
      BY <2>1, <2>2, <2>3 DEF Recorded
    <3>2. allScripts[n] \in DOMAIN heap \ freed
      BY <2>1, <2>2, <3>1, StoredMap
    <3>3. EachVerified
      BY DEF IInv
    <3> QED BY <3>1, <3>2, <3>3 DEF EachVerified
  <2>4. ASSUME NEW n \in DOMAIN config, written[config[n][1]] = {}
        PROVE  allScripts[n] = nullptr
    BY <2>1, <2>2, <2>4 DEF Recorded
  <2>5. ASSUME NEW n \in DOMAIN config, NEW m \in DOMAIN config, allScripts[n] # nullptr
        PROVE  allScripts[n] = allScripts[m] <=> config[n][1] = config[m][1]
    BY <2>1, <2>2, <2>5 DEF IInv, OneEach
  <2>6. \A m \in DOMAIN heap \ freed : \E n \in DOMAIN config : allScripts[n] = m
    BY <2>2, RunningMaps
  <2> QED BY <2>2, <2>3, <2>4, <2>5, <2>6 DEF ScriptsReady
<1> QED BY <1>1, Safety, Recording, PTL
=============================================================================
