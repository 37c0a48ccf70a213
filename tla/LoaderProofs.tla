---------------------------- MODULE LoaderProofs ----------------------------
(***************************************************************************)
(* What holds of the loader for files of any length and any [script]       *)
(* section: types (TypeOK) and how the maps are freed (StopIsClean).  What *)
(* the maps contain is the subject of ReadingProofs.                       *)
(*                                                                         *)
(* Alternatives, the loop of parseAssignment, is a recursive function: it  *)
(* is shown to exist by looking at a shortest expression for which it      *)
(* would not.                                                              *)
(***************************************************************************)
EXTENDS Loader, SequenceTheorems, WellFoundedInduction, TLAPS

(* Every set of natural numbers that is not empty has a least element.     *)
LEMMA LeastElement ==
  ASSUME NEW S \in SUBSET Nat, S # {}
  PROVE  \E x \in S : \A y \in S : x <= y
<1>0. OpToRel(<, Nat) = {ss \in Nat \X Nat : ss[1] < ss[2]}
  BY DEF OpToRel
<1>1. PICK x \in S : \A y \in S : <<y, x>> \notin OpToRel(<, Nat)
  BY NatLessThanWellFounded, WFMin
<1>2. ASSUME NEW y \in S PROVE x <= y
  <2>1. <<y, x>> \in Nat \X Nat /\ <<y, x>>[1] = y /\ <<y, x>>[2] = x
    OBVIOUS
  <2>2. ~(y < x)
    BY <1>0, <1>1, <2>1
  <2> QED BY <2>2
<1> QED BY <1>2

-----------------------------------------------------------------------------
(* The leftmost term of the kind that is looked for first.                 *)
LEMMA RankType == ASSUME NEW t PROVE Rank(t) \in 1 .. 6
<1>1. DOMAIN Tried = 1 .. 5 /\ Len(Tried) = 5
  BY DEF Tried
<1>2. CASE \E r \in DOMAIN Tried : Tried[r] = t.k
  BY <1>1, <1>2 DEF Rank
<1>3. CASE ~ \E r \in DOMAIN Tried : Tried[r] = t.k
  BY <1>1, <1>3 DEF Rank
<1> QED BY <1>2, <1>3

LEMMA ParseableRank == ASSUME NEW t PROVE Parseable(t) <=> Rank(t) <= 5
BY DEF Parseable, Tried

LEMMA FoundFirst ==
  ASSUME NEW ts \in Seq(Term), ts # <<>>
  PROVE  /\ FirstFound(ts) \in 1 .. Len(ts)
         /\ \A j \in 1 .. Len(ts) : Before(ts, FirstFound(ts), j)
<1> DEFINE ranks == {Rank(ts[i]) : i \in 1 .. Len(ts)}
           places(r) == {i \in 1 .. Len(ts) : Rank(ts[i]) = r}
<1>0. Len(ts) \in Nat /\ DOMAIN ts = 1 .. Len(ts) /\ 1 \in 1 .. Len(ts)
  BY EmptySeq, LenProperties
<1>1. PICK r \in ranks : \A q \in ranks : r <= q
  <2>1. ranks \in SUBSET Nat
    BY RankType
  <2>2. ranks # {}
    BY <1>0
  <2> HIDE DEF ranks
  <2> QED BY <2>1, <2>2, LeastElement
<1>2. PICK i \in places(r) : \A j \in places(r) : i <= j
  <2>1. places(r) \in SUBSET Nat /\ places(r) # {}
    BY <1>0, <1>1
  <2> HIDE DEF places
  <2> QED BY <2>1, LeastElement
<1>3. ASSUME NEW j \in 1 .. Len(ts) PROVE Before(ts, i, j)
  <2>1. Rank(ts[i]) = r /\ r <= Rank(ts[j]) /\ r \in Nat /\ Rank(ts[j]) \in Nat
    BY <1>1, <1>2, RankType
  <2>2. CASE Rank(ts[j]) = r
    BY <1>2, <2>1, <2>2 DEF Before
  <2>3. CASE Rank(ts[j]) # r
    BY <2>1, <2>3 DEF Before
  <2> QED BY <2>2, <2>3
<1>4. \E k \in DOMAIN ts : \A j \in DOMAIN ts : Before(ts, k, j)
  BY <1>0, <1>2, <1>3
<1> QED BY <1>0, <1>4 DEF FirstFound

-----------------------------------------------------------------------------
(* Alternatives: a function that does what the loop does on every          *)
(* expression in its domain agrees with any other such function, and every *)
(* expression is in the domain of one.                                     *)
Exhausted(ts) == \A i \in DOMAIN ts : ~Parseable(ts[i])
Remaining(ts) == SubSeq(ts, FirstFound(ts) + 1, Len(ts))
Loops(h) ==
  /\ h = [ts \in DOMAIN h |-> h[ts]]
  /\ DOMAIN h \subseteq Seq(Term)
  /\ \A ts \in DOMAIN h :
       IF Exhausted(ts) THEN h[ts] = ts
       ELSE Remaining(ts) \in DOMAIN h /\ h[ts] = <<ts[FirstFound(ts)]>> \o h[Remaining(ts)]

LEMMA RemainingShorter ==
  ASSUME NEW ts \in Seq(Term), ~Exhausted(ts)
  PROVE  /\ ts # <<>> /\ Remaining(ts) \in Seq(Term)
         /\ ts[FirstFound(ts)] \in Term
         /\ Len(Remaining(ts)) = Len(ts) - FirstFound(ts)
         /\ Len(Remaining(ts)) < Len(ts)
         /\ \A i \in 1 .. Len(Remaining(ts)) : Remaining(ts)[i] = ts[FirstFound(ts) + i]
<1>0. ts # <<>> /\ Len(ts) \in Nat
  BY DEF Exhausted
<1>1. FirstFound(ts) \in 1 .. Len(ts)
  BY <1>0, FoundFirst
<1>2. \A i \in FirstFound(ts) + 1 .. Len(ts) : ts[i] \in Term
  BY <1>0, <1>1, ElementOfSeq
<1>3. /\ Remaining(ts) \in Seq(Term)
      /\ Len(Remaining(ts)) = Len(ts) - (FirstFound(ts) + 1) + 1
      /\ \A i \in 1 .. Len(Remaining(ts)) : Remaining(ts)[i] = ts[FirstFound(ts) + 1 + i - 1]
  BY <1>0, <1>1, <1>2, SubSeqProperties DEF Remaining
<1> QED BY <1>0, <1>1, <1>3, ElementOfSeq

(* Of some expressions, a shortest one.                                    *)
LEMMA Shortest ==
  ASSUME NEW S \in SUBSET Seq(Term), S # {}
  PROVE  \E us \in S : ~Exhausted(us) => Remaining(us) \in Seq(Term) /\ Remaining(us) \notin S
<1> DEFINE lengths == {Len(us) : us \in S}
<1>1. \A us \in S : us \in Seq(Term) /\ Len(us) \in Nat
  BY LenProperties
<1>2. PICK n \in lengths : \A m \in lengths : n <= m
  <2>1. lengths \in SUBSET Nat /\ lengths # {}
    BY <1>1
  <2> HIDE DEF lengths
  <2> QED BY <2>1, LeastElement
<1>3. PICK us \in S : Len(us) = n
  OBVIOUS
<1>4. ASSUME ~Exhausted(us) PROVE Remaining(us) \in Seq(Term) /\ Remaining(us) \notin S
  <2>1. /\ Remaining(us) \in Seq(Term) /\ Len(Remaining(us)) < Len(us)
        /\ Len(us) \in Nat /\ Len(Remaining(us)) \in Nat
    BY <1>1, <1>4, RemainingShorter, LenProperties
  <2>2. Len(Remaining(us)) \notin lengths
    <3> HIDE DEF lengths
    <3> QED BY <1>2, <1>3, <2>1
  <2> QED BY <2>1, <2>2
<1> QED BY <1>3, <1>4

LEMMA LoopsAgree ==
  ASSUME NEW g, NEW h, Loops(g), Loops(h), NEW ts \in DOMAIN g \cap DOMAIN h
  PROVE  g[ts] = h[ts]
<1> DEFINE differ == {us \in DOMAIN g \cap DOMAIN h : g[us] # h[us]}
<1> SUFFICES ASSUME differ # {} PROVE FALSE
  OBVIOUS
<1>1. PICK us \in differ :
        ~Exhausted(us) => Remaining(us) \in Seq(Term) /\ Remaining(us) \notin differ
  <2>1. differ \in SUBSET Seq(Term)
    BY DEF Loops
  <2> HIDE DEF differ
  <2> QED BY <2>1, Shortest
<1>2. ~Exhausted(us)
  BY <1>1 DEF Loops
<1>3. Remaining(us) \in DOMAIN g \cap DOMAIN h
  BY <1>1, <1>2 DEF Loops
<1> QED BY <1>1, <1>2, <1>3 DEF Loops

LEMMA LoopsEverywhere ==
  ASSUME NEW ts \in Seq(Term)
  PROVE  \E h : Loops(h) /\ ts \in DOMAIN h
<1> DEFINE without == {us \in Seq(Term) : ~ \E h : Loops(h) /\ us \in DOMAIN h}
<1> SUFFICES ASSUME without # {} PROVE FALSE
  OBVIOUS
<1>1. PICK us \in without :
        ~Exhausted(us) => Remaining(us) \in Seq(Term) /\ Remaining(us) \notin without
  <2>1. without \in SUBSET Seq(Term)
    OBVIOUS
  <2> HIDE DEF without
  <2> QED BY <2>1, Shortest
<1>2. CASE Exhausted(us)
  <2> DEFINE h == [vs \in {us} |-> us]
  <2>1. Loops(h) /\ us \in DOMAIN h
    BY <1>1, <1>2 DEF Loops
  <2> HIDE DEF h
  <2> QED BY <1>1, <2>1
<1>3. CASE ~Exhausted(us)
  <2>1. PICK g : Loops(g) /\ Remaining(us) \in DOMAIN g
    BY <1>1, <1>3
  <2> DEFINE value == <<us[FirstFound(us)]>> \o g[Remaining(us)]
             h == [vs \in DOMAIN g \cup {us} |-> IF vs = us THEN value ELSE g[vs]]
  <2>2. us \notin DOMAIN g
    BY <1>1, <2>1
  <2>3. DOMAIN h = DOMAIN g \cup {us} /\ h[us] = value /\ \A vs \in DOMAIN g : h[vs] = g[vs]
    BY <2>2
  <2>4. h = [vs \in DOMAIN h |-> h[vs]]
    OBVIOUS
  <2> HIDE DEF h
  <2>5. Loops(h)
    BY <1>1, <1>3, <2>1, <2>2, <2>3, <2>4 DEF Loops
  <2> QED BY <1>1, <2>3, <2>5
<1> QED BY <1>2, <1>3

LEMMA AlternativesDef ==
  Alternatives = [ts \in Seq(Term) |->
    IF \A i \in DOMAIN ts : ~Parseable(ts[i]) THEN ts
    ELSE <<ts[FirstFound(ts)]>> \o Alternatives[SubSeq(ts, FirstFound(ts) + 1, Len(ts))]]
<1> DEFINE pick(ts) == CHOOSE h : Loops(h) /\ ts \in DOMAIN h
           g == [ts \in Seq(Term) |-> pick(ts)[ts]]
           body(ts) == IF \A i \in DOMAIN ts : ~Parseable(ts[i]) THEN ts
                       ELSE <<ts[FirstFound(ts)]>> \o g[SubSeq(ts, FirstFound(ts) + 1, Len(ts))]
<1>1. ASSUME NEW ts \in Seq(Term) PROVE Loops(pick(ts)) /\ ts \in DOMAIN pick(ts)
  BY LoopsEverywhere
<1> HIDE DEF pick
<1>2. ASSUME NEW ts \in Seq(Term) PROVE g[ts] = body(ts)
  <2>1. g[ts] = pick(ts)[ts]
    OBVIOUS
  <2>2. CASE Exhausted(ts)
    BY <1>1, <2>1, <2>2 DEF Loops, Exhausted
  <2>3. CASE ~Exhausted(ts)
    <3>1. /\ Remaining(ts) \in DOMAIN pick(ts) /\ Remaining(ts) \in Seq(Term)
          /\ pick(ts)[ts] = <<ts[FirstFound(ts)]>> \o pick(ts)[Remaining(ts)]
      BY <1>1, <2>3 DEF Loops
    <3>2. pick(ts)[Remaining(ts)] = pick(Remaining(ts))[Remaining(ts)]
      BY <1>1, <3>1, LoopsAgree
    <3>3. g[ts] = <<ts[FirstFound(ts)]>> \o g[Remaining(ts)]
      BY <2>1, <3>1, <3>2
    <3>4. body(ts) = <<ts[FirstFound(ts)]>> \o g[Remaining(ts)]
      BY <2>3 DEF Exhausted, Remaining
    <3> QED BY <3>3, <3>4
  <2> QED BY <2>2, <2>3
<1>3. g = [ts \in Seq(Term) |-> body(ts)]
  <2> SUFFICES ASSUME TRUE PROVE [ts \in Seq(Term) |-> g[ts]] = [ts \in Seq(Term) |-> body(ts)]
    OBVIOUS
  <2> QED BY <1>2
<1> HIDE DEF g
<1> QED BY <1>3 DEF Alternatives

(* What the loop does with one expression.                                 *)
LEMMA AlternativesOf ==
  ASSUME NEW ts \in Seq(Term)
  PROVE  Alternatives[ts] =
           IF Exhausted(ts) THEN ts ELSE <<ts[FirstFound(ts)]>> \o Alternatives[Remaining(ts)]
BY AlternativesDef DEF Exhausted, Remaining

(* An expression has at least one alternative, and all are terms.          *)
LEMMA AlternativesType ==
  ASSUME NEW ts \in Seq(Term)
  PROVE  Alternatives[ts] \in Seq(Term) /\ (ts # <<>> => Alternatives[ts] # <<>>)
<1> DEFINE untyped == {us \in Seq(Term) : Alternatives[us] \notin Seq(Term)}
<1>1. untyped = {}
  <2> SUFFICES ASSUME untyped # {} PROVE FALSE
    OBVIOUS
  <2>1. PICK us \in untyped :
          ~Exhausted(us) => Remaining(us) \in Seq(Term) /\ Remaining(us) \notin untyped
    <3>1. untyped \in SUBSET Seq(Term)
      OBVIOUS
    <3> HIDE DEF untyped
    <3> QED BY <3>1, Shortest
  <2>2. ~Exhausted(us)
    BY <2>1, AlternativesOf
  <2>3. Alternatives[us] = <<us[FirstFound(us)]>> \o Alternatives[Remaining(us)]
    BY <2>2, AlternativesOf
  <2>4. <<us[FirstFound(us)]>> \in Seq(Term) /\ Alternatives[Remaining(us)] \in Seq(Term)
    BY <2>1, <2>2, RemainingShorter
  <2>5. Alternatives[us] \in Seq(Term)
    BY <2>3, <2>4, ConcatProperties
  <2> QED BY <2>5
<1>2. ASSUME ts # <<>> PROVE Alternatives[ts] # <<>>
  <2>1. CASE Exhausted(ts)
    BY <1>2, <2>1, AlternativesOf
  <2>2. CASE ~Exhausted(ts)
    <3>1. Remaining(ts) \in Seq(Term) /\ ts[FirstFound(ts)] \in Term
      BY <2>2, RemainingShorter
    <3>2. Alternatives[ts] = <<ts[FirstFound(ts)]>> \o Alternatives[Remaining(ts)]
      BY <2>2, AlternativesOf
    <3>3. <<ts[FirstFound(ts)]>> \in Seq(Term) /\ Alternatives[Remaining(ts)] \in Seq(Term)
      BY <1>1, <3>1
    <3> QED BY <3>2, <3>3, ConcatEqualIffEmpty, ConcatProperties
  <2> QED BY <2>1, <2>2
<1> QED BY <1>1, <1>2

(* If the kinds of the terms come in the order in which the parser looks   *)
(* for them, it finds every term of the expression.                        *)
LEMMA NothingSkipped ==
  ASSUME NEW ts \in Seq(Term), InOrder(ts)
  PROVE  Alternatives[ts] = ts
<1> DEFINE skipping == {us \in Seq(Term) : InOrder(us) /\ Alternatives[us] # us}
<1> SUFFICES ASSUME skipping # {} PROVE FALSE
  OBVIOUS
<1>1. PICK us \in skipping :
        ~Exhausted(us) => Remaining(us) \in Seq(Term) /\ Remaining(us) \notin skipping
  <2>1. skipping \in SUBSET Seq(Term)
    OBVIOUS
  <2> HIDE DEF skipping
  <2> QED BY <2>1, Shortest
<1>2. us \in Seq(Term) /\ InOrder(us) /\ ~Exhausted(us)
  BY <1>1, AlternativesOf
<1>3. /\ us # <<>> /\ us[FirstFound(us)] \in Term
      /\ Len(Remaining(us)) = Len(us) - FirstFound(us)
      /\ \A i \in 1 .. Len(Remaining(us)) : Remaining(us)[i] = us[FirstFound(us) + i]
      /\ Len(us) \in Nat /\ Len(Remaining(us)) \in Nat
  BY <1>1, <1>2, RemainingShorter, LenProperties
<1>4. FirstFound(us) = 1
  <2>1. FirstFound(us) \in 1 .. Len(us) /\ Before(us, FirstFound(us), 1) /\ 1 \in 1 .. Len(us)
    BY <1>2, <1>3, FoundFirst
  <2>2. CASE FirstFound(us) > 1
    <3>1. Rank(us[1]) <= Rank(us[FirstFound(us)])
      BY <1>2, <2>1, <2>2 DEF InOrder
    <3>2. Rank(us[1]) \in 1 .. 6 /\ Rank(us[FirstFound(us)]) \in 1 .. 6
      BY RankType
    <3> QED BY <2>1, <2>2, <3>1, <3>2 DEF Before
  <2> QED BY <2>1, <2>2
<1>5. Alternatives[Remaining(us)] = Remaining(us)
  <2>1. InOrder(Remaining(us))
    <3> SUFFICES ASSUME NEW i \in 1 .. Len(Remaining(us)), NEW j \in 1 .. Len(Remaining(us)), i < j
                 PROVE  Rank(Remaining(us)[i]) <= Rank(Remaining(us)[j])
      BY <1>1, <1>2 DEF InOrder
    <3>1. 1 + i \in DOMAIN us /\ 1 + j \in DOMAIN us /\ 1 + i < 1 + j
      BY <1>2, <1>3, <1>4
    <3>2. Rank(us[1 + i]) <= Rank(us[1 + j])
      BY <1>2, <3>1 DEF InOrder
    <3> QED BY <1>3, <1>4, <3>2
  <2> QED BY <1>1, <1>2, <2>1
<1>6. Alternatives[us] = <<us[1]>> \o Remaining(us)
  BY <1>2, <1>4, <1>5, AlternativesOf
<1>7. <<us[1]>> \o Remaining(us) = us
  <2>1. <<us[1]>> \in Seq(Term) /\ Len(<<us[1]>>) = 1 /\ <<us[1]>>[1] = us[1]
    BY <1>3, <1>4
  <2> DEFINE rest == Remaining(us)
             joined == <<us[1]>> \o rest
  <2>2. /\ joined \in Seq(Term) /\ Len(joined) = Len(us)
        /\ \A i \in 1 .. Len(us) : joined[i] = IF i <= 1 THEN us[1] ELSE rest[i - 1]
    <3>1. rest \in Seq(Term) /\ Len(rest) \in Nat /\ 1 + Len(rest) = Len(us)
      BY <1>1, <1>2, <1>3, <1>4
    <3> HIDE DEF rest
    <3> QED BY <2>1, <3>1, ConcatProperties
  <2>3. \A i \in 1 .. Len(us) : joined[i] = us[i]
    <3> SUFFICES ASSUME NEW i \in 1 .. Len(us) PROVE joined[i] = us[i]
      OBVIOUS
    <3>1. i > 1 => i - 1 \in 1 .. Len(Remaining(us)) /\ 1 + (i - 1) = i
      BY <1>3, <1>4
    <3>2. i > 1 => rest[i - 1] = us[i]
      BY <1>3, <1>4, <3>1
    <3> HIDE DEF joined, rest
    <3> QED BY <1>3, <2>2, <3>2
  <2>4. joined = us
    <3> HIDE DEF joined
    <3> QED BY <1>2, <2>2, <2>3, SeqEqual
  <2> QED BY <2>4
<1> QED BY <1>1, <1>6, <1>7

-----------------------------------------------------------------------------
(* The inductive invariant.  A map of states is a function from numbers.   *)
Map == UNION {[K -> State] : K \in SUBSET Nat}

(* What is in a map has passed verify and is found under its number.       *)
EachVerified ==
  \A m \in DOMAIN heap : \A k \in DOMAIN heap[m] : verify(heap[m][k]) /\ heap[m][k].number = k

(* While a file is read its name has no map yet, and the map in the making *)
(* is there.                                                               *)
Reading ==
  phase = "parse" =>
    /\ name \notin left /\ file \notin DOMAIN allScriptsByFile
    /\ heap # <<>> /\ Len(heap) \notin freed

(* The names read so far, and only they, have the map of their file.       *)
Loading == phase \in {"config", "parse", "running"}
Unread == IF phase = "parse" THEN left \cup {name} ELSE left
Named ==
  Loading =>
    /\ DOMAIN scriptEntries = DOMAIN config \ left
    /\ DOMAIN allScripts = DOMAIN config \ Unread
    /\ phase = "running" => left = {}
    /\ \A n \in DOMAIN allScripts :
         /\ config[n][1] \in DOMAIN allScriptsByFile
         /\ allScripts[n] = allScriptsByFile[config[n][1]]
    /\ \A f \in DOMAIN allScriptsByFile : \E n \in DOMAIN allScripts : config[n][1] = f

(* No two files share a map, and every map that is not freed is the map of *)
(* a file, but for the one in the making.                                  *)
Current == IF phase = "parse" THEN {Len(heap)} ELSE {}
Stored == {allScriptsByFile[f] : f \in DOMAIN allScriptsByFile} \ {nullptr}
OneEach ==
  Loading =>
    /\ \A f, g \in DOMAIN allScriptsByFile :
         allScriptsByFile[f] = allScriptsByFile[g] => f = g \/ allScriptsByFile[f] = nullptr
    /\ DOMAIN heap \ freed = Stored \cup Current
    /\ Stored \cap Current = {}

(* What is still to be freed belongs to a name that is left; with one name *)
(* for each map, nothing that is left is freed.                            *)
Freeing ==
  phase = "free" =>
    /\ left \subseteq DOMAIN allScripts
    /\ \A m \in DOMAIN heap \ freed : \E n \in left : allScripts[n] = m
    /\ OneNameEach => \A n \in left : allScripts[n] \notin freed

IInv ==
  /\ TypeOK /\ heap \in Seq(Map)
  /\ EachVerified /\ Reading /\ Named /\ OneEach /\ Freeing /\ StopIsClean

LEMMA InitIInv == Init => IInv
<1> SUFFICES ASSUME Init PROVE IInv
  OBVIOUS
<1>1. config \in [DOMAIN config -> File \X EntryPoint]
  BY ConfigAssumption DEF Init
<1>2. DOMAIN Empty = {}
  BY DEF Empty
<1>3. TypeOK /\ heap \in Seq(Map)
  BY <1>1, <1>2 DEF Init, TypeOK
<1>4. EachVerified /\ Reading /\ Freeing /\ StopIsClean
  BY DEF Init, EachVerified, Reading, Freeing, StopIsClean
<1>5. Named /\ OneEach
  BY <1>1, <1>2 DEF Init, Named, OneEach, Unread, Current, Stored
<1> QED BY <1>3, <1>4, <1>5 DEF IInv

-----------------------------------------------------------------------------
(* The states that are made.                                               *)
LEMMA KindHas ==
  ASSUME NEW k \in Kind
  PROVE  /\ k \in Swallowing \/ k \in DOMAIN Definitions
         /\ k \notin Swallowing => Definitions[k] \subseteq Fields
BY DEF Kind, Fields

LEMMA KnownFields == {"ucertenc", "pkeyenc", "subject"} \subseteq Fields
<1>1. "http" \in DOMAIN Definitions /\ "mail" \in DOMAIN Definitions
  BY DEF Definitions
<1>2. {"ucertenc", "pkeyenc"} \subseteq Definitions["http"] /\ "subject" \in Definitions["mail"]
  BY DEF Definitions
<1> QED BY <1>1, <1>2 DEF Fields

LEMMA NewStateType ==
  ASSUME NEW kind \in Kind, NEW n \in Nat
  PROVE  NewState(kind, n) \in State
<1>1. (IF kind = "http" THEN {"ucertenc", "pkeyenc"}
       ELSE IF kind = "mail" THEN Smtp \cap {"server"} ELSE {}) \subseteq Fields \cup Smtp
  BY KnownFields
<1>2. <<>> \in Seq(Assignment)
  OBVIOUS
<1> QED BY <1>1, <1>2 DEF NewState, State

LEMMA LongType == ASSUME NEW t \in Term, NEW n \in Nat PROVE Long(t, n) \in Term
BY DEF Long, Term

LEMMA AssignmentType ==
  ASSUME NEW l, l.to \in Term, l.from \in Seq(Term), l.from # <<>>, NEW n \in Nat
  PROVE  parseAssignment(l, n) \in Assignment
<1> DEFINE found == Alternatives[l.from]
<1>1. found \in Seq(Term) /\ found # <<>>
  BY AlternativesType
<1>2. [i \in DOMAIN found |-> Long(found[i], n)] \in Seq(Term) \ {<<>>}
  <2> HIDE DEF found
  <2>1. DOMAIN found = 1 .. Len(found) /\ Len(found) \in Nat /\ Len(found) # 0
    BY <1>1, LenProperties, EmptySeq
  <2>2. \A i \in 1 .. Len(found) : Long(found[i], n) \in Term
    BY <1>1, LongType, ElementOfSeq
  <2>3. [i \in 1 .. Len(found) |-> Long(found[i], n)] \in Seq(Term)
    BY <2>1, <2>2, IsASeq
  <2>4. 1 \in DOMAIN [i \in 1 .. Len(found) |-> Long(found[i], n)]
    BY <2>1
  <2> QED BY <2>1, <2>3, <2>4
<1>3. Long(l.to, n) \in Term
  BY LongType
<1> QED BY <1>2, <1>3 DEF parseAssignment, Assignment

LEMMA LineKnown ==
  ASSUME NEW f \in File, NEW l \in Line[f]
  PROVE  /\ l.word = "header" => l.kind \in Kind /\ l.n \in Nat
         /\ l.word \in {"done", "error"} => l.n \in Nat
         /\ l.word = "define" => l.field \in Fields
         /\ l.word = "assign" => l.to \in Term /\ l.from \in Seq(Term) /\ l.from # <<>>
<1>1. LineOK(l)
  BY LineAssumption
<1> QED BY <1>1 DEF LineOK

LEMMA ParseType ==
  ASSUME NEW f \in File, NEW l \in Line[f], NEW s \in State, Parses(s, l)
  PROVE  parse(s, l) \in State
<1>1. CASE s.kind \in Swallowing
  BY <1>1 DEF parse
<1>2. CASE s.kind \notin Swallowing /\ l.word = "assign"
  <2>1. parseAssignment(l, s.number) \in Assignment
    BY <1>2, LineKnown, AssignmentType DEF State
  <2>2. Append(s.assignments, parseAssignment(l, s.number)) \in Seq(Assignment)
    BY <2>1 DEF State
  <2>3. parse(s, l) = [s EXCEPT !.assignments = Append(@, parseAssignment(l, s.number))]
    BY <1>2 DEF parse
  <2> QED BY <2>2, <2>3 DEF State
<1>3. CASE s.kind \notin Swallowing /\ l.word # "assign"
  <2>1. l.word = "define" /\ l.field \in Fields
    BY <1>3, LineKnown DEF Parses
  <2>2. Sets(s, l) \subseteq Fields \cup Smtp
    BY <2>1, KnownFields DEF Sets
  <2>3. s.fields \cup Sets(s, l) \in SUBSET (Fields \cup Smtp)
        /\ s.fields \ {l.field} \in SUBSET (Fields \cup Smtp)
    BY <2>2 DEF State
  <2> DEFINE set == IF l.ok THEN s.fields \cup Sets(s, l) ELSE s.fields \ {l.field}
  <2>4. set \in SUBSET (Fields \cup Smtp)
    BY <2>3
  <2>5. parse(s, l) = [s EXCEPT !.fields = set]
    BY <1>3 DEF parse
  <2> HIDE DEF set
  <2> QED BY <2>4, <2>5 DEF State
<1> QED BY <1>1, <1>2, <1>3

(* verify accepts what it has completed.                                   *)
LEMMA VerifiedState ==
  ASSUME NEW s \in State, verify(s)
  PROVE  /\ Verified(s) \in State /\ verify(Verified(s))
         /\ Verified(s).number = s.number
<1>1. CASE s.kind = "goto" /\ s.error = 0
  <2> DEFINE t == [s EXCEPT !.error = s.done]
  <2>1. t \in State /\ t.number = s.number /\ t.kind = "goto" /\ t.fields = s.fields /\ t.done = s.done
    BY <1>1 DEF State
  <2>2. verify(t)
    BY <1>1, <2>1 DEF verify
  <2>3. Verified(s) = t
    BY <1>1 DEF Verified
  <2> HIDE DEF t
  <2> QED BY <2>1, <2>2, <2>3
<1>2. CASE ~(s.kind = "goto" /\ s.error = 0)
  <2>1. Verified(s) = s
    BY <1>2 DEF Verified
  <2> QED BY <2>1
<1> QED BY <1>1, <1>2

LEMMA NoStateIsNone == NoState \notin State
<1>1. NoState.kind = "none"
  BY DEF NoState
<1>2. "none" \notin Kind
  BY DEF Kind, Definitions, Swallowing
<1> QED BY <1>1, <1>2 DEF State

-----------------------------------------------------------------------------
(* The maps.                                                               *)
LEMMA PutProperties ==
  ASSUME NEW f, NEW x, NEW v
  PROVE  /\ DOMAIN Put(f, x, v) = DOMAIN f \cup {x}
         /\ Put(f, x, v)[x] = v
         /\ \A y \in DOMAIN f : y # x => Put(f, x, v)[y] = f[y]
         /\ \A y \in DOMAIN Put(f, x, v) : IF y = x THEN Put(f, x, v)[y] = v
                                            ELSE y \in DOMAIN f /\ Put(f, x, v)[y] = f[y]
BY DEF Put

LEMMA PutWithin ==
  ASSUME NEW D, NEW R, NEW f, \A y \in DOMAIN f : y \in D /\ f[y] \in R, NEW x \in D, NEW v \in R
  PROVE  \A y \in DOMAIN Put(f, x, v) : y \in D /\ Put(f, x, v)[y] \in R
BY DEF Put

LEMMA PutType ==
  ASSUME NEW f \in Map, NEW k \in Nat, NEW s \in State
  PROVE  Put(f, k, s) \in Map
<1>1. PICK K \in SUBSET Nat : f \in [K -> State]
  BY DEF Map
<1>2. Put(f, k, s) \in [K \cup {k} -> State]
  BY <1>1 DEF Put
<1> QED BY <1>2 DEF Map

(* The map that is being made.                                             *)
LEMMA MapInTheMaking ==
  ASSUME IInv, phase = "parse"
  PROVE  /\ Len(heap) \in Nat \ {0} /\ Len(heap) \in DOMAIN heap /\ DOMAIN heap = 1 .. Len(heap)
         /\ sm \in Map /\ name \in DOMAIN config /\ file \in File /\ text \in Seq(Line[file])
<1>1. heap \in Seq(Map) /\ heap # <<>> /\ TypeOK
  BY DEF IInv, Reading
<1>2. Len(heap) \in Nat \ {0} /\ Len(heap) \in DOMAIN heap /\ DOMAIN heap = 1 .. Len(heap)
  BY <1>1, LenProperties, EmptySeq
<1> QED BY <1>1, <1>2, ElementOfSeq DEF sm, file, TypeOK

(* The numbers of the states that a file writes.                           *)
LEMMA BlockNumbers ==
  ASSUME IInv, phase = "parse"
  PROVE  {text[i].n : i \in Blocks(text)} \in SUBSET Nat
<1>1. text \in Seq(Line[file]) /\ file \in File
  BY MapInTheMaking
<1>2. ASSUME NEW i \in Blocks(text) PROVE text[i].n \in Nat
  <2>1. i \in 1 .. Len(text) /\ text[i].word = "header"
    BY <1>1 DEF Blocks, Opens
  <2>2. text[i] \in Line[file]
    BY <1>1, <2>1, ElementOfSeq
  <2> QED BY <1>1, <2>1, <2>2, LineKnown
<1> QED BY <1>2

(* A state ends.                                                           *)
LEMMA EndStateHeap ==
  ASSUME IInv, NEW l, phase = "parse", EndState(l), st \in State
  PROVE  /\ heap' \in Seq(Map) /\ Len(heap') = Len(heap) /\ DOMAIN heap' = DOMAIN heap
         /\ \A m \in DOMAIN heap : m # Len(heap) => heap'[m] = heap[m]
         /\ heap'[Len(heap)] = Put(sm, st.number, Verified(st))
         /\ Verified(st) \in State /\ verify(Verified(st)) /\ Verified(st).number = st.number
<1>1. Verified(st) \in State /\ verify(Verified(st)) /\ Verified(st).number = st.number
  BY VerifiedState DEF EndState
<1>2. Put(sm, st.number, Verified(st)) \in Map
  BY <1>1, MapInTheMaking, PutType DEF State
<1>3. heap \in Seq(Map) /\ heap' = [heap EXCEPT ![Len(heap)] = Put(sm, st.number, Verified(st))]
  BY DEF IInv, EndState
<1>4. heap' \in Seq(Map) /\ Len(heap') = Len(heap) /\ DOMAIN heap' = DOMAIN heap
  BY <1>2, <1>3, MapInTheMaking, ExceptSeq
<1> QED BY <1>1, <1>3, <1>4, MapInTheMaking

LEMMA MapStates ==
  ASSUME NEW h \in Seq(Map)
  PROVE  \A m \in DOMAIN h : \A k \in DOMAIN h[m] : h[m][k] \in State
<1> SUFFICES ASSUME NEW m \in DOMAIN h, NEW k \in DOMAIN h[m] PROVE h[m][k] \in State
  OBVIOUS
<1>1. h[m] \in Map
  BY ElementOfSeq, LenProperties
<1> QED BY <1>1 DEF Map

(* A line is read: it is one of the file's, and the state that is open is  *)
(* a state.                                                                *)
LEMMA LineRead ==
  ASSUME IInv, phase = "parse", NEW l \in Line[file],
         SkipLine(l) \/ BeginState(l) \/ SetTarget(l) \/ ParseLine(l)
  PROVE  /\ UNCHANGED <<phase, config, left, maps, memory, name>>
         /\ text' = Append(text, l)
         /\ st' \in State \cup {NoState}
<1>1. st \in State \cup {NoState} /\ file \in File
  BY MapInTheMaking DEF IInv, TypeOK
<1>2. CASE SkipLine(l)
  BY <1>1, <1>2 DEF SkipLine, Take, Read, memory
<1>3. CASE BeginState(l)
  BY <1>1, <1>3, LineKnown, NewStateType DEF BeginState, Take, Read, memory
<1>4. CASE SetTarget(l)
  <2>1. st \in State /\ l.n \in Nat
    BY <1>1, <1>4, LineKnown DEF SetTarget, in_stateblock
  <2>2. [st EXCEPT !.done = l.n] \in State /\ [st EXCEPT !.error = l.n] \in State
    BY <2>1 DEF State
  <2> QED BY <1>4, <2>2 DEF SetTarget, Take, Read, memory
<1>5. CASE ParseLine(l)
  <2>1. st \in State
    BY <1>1, <1>5 DEF ParseLine, in_stateblock
  <2> QED BY <1>1, <1>5, <2>1, ParseType DEF ParseLine, Take, Read, memory
<1> QED BY <1>2, <1>3, <1>4, <1>5

-----------------------------------------------------------------------------
(* Types.                                                                  *)
LEMMA StepTypes ==
  ASSUME IInv, Next
  PROVE  TypeOK' /\ (heap \in Seq(Map))'
<1> USE DEF maps, memory
<1>0. /\ TypeOK /\ heap \in Seq(Map)
      /\ \A n \in DOMAIN config : config[n][1] \in File /\ config[n][2] \in EntryPoint
  BY DEF IInv, TypeOK
<1>1. ASSUME NEW n \in Name, ShareFile(n) PROVE TypeOK' /\ (heap \in Seq(Map))'
  <2>1. n \in DOMAIN config
    BY <1>0, <1>1 DEF TypeOK, ShareFile, NextEntry
  <2>2. \A m \in DOMAIN allScripts' : m \in DOMAIN config /\ allScripts'[m] \in 0 .. Len(heap)
    <3> DEFINE Pointer == 0 .. Len(heap)
    <3>1. \A m \in DOMAIN allScripts : m \in DOMAIN config /\ allScripts[m] \in Pointer
      BY <1>0 DEF TypeOK
    <3>2. allScriptsByFile[config[n][1]] \in Pointer
      BY <1>0, <1>1 DEF TypeOK, ShareFile
    <3>3. allScripts' = Put(allScripts, n, allScriptsByFile[config[n][1]])
      BY <1>1 DEF ShareFile
    <3> HIDE DEF Pointer
    <3>4. \A m \in DOMAIN allScripts' : m \in DOMAIN config /\ allScripts'[m] \in Pointer
      BY <2>1, <3>1, <3>2, <3>3, PutWithin
    <3> QED BY <3>4 DEF Pointer
  <2>3. \A m \in DOMAIN scriptEntries' : m \in DOMAIN config /\ scriptEntries'[m] \in EntryPoint
    <3>1. \A m \in DOMAIN scriptEntries : m \in DOMAIN config /\ scriptEntries[m] \in EntryPoint
      BY <1>0 DEF TypeOK
    <3>2. scriptEntries' = Put(scriptEntries, n, config[n][2])
      BY <1>1 DEF ShareFile, NextEntry
    <3> QED BY <1>0, <2>1, <3>1, <3>2, PutWithin
  <2> QED BY <1>0, <1>1, <2>2, <2>3 DEF TypeOK, ShareFile, NextEntry
<1>2. ASSUME NEW n \in Name, OpenFile(n) PROVE TypeOK' /\ (heap \in Seq(Map))'
  <2>1. n \in DOMAIN config
    BY <1>0, <1>2 DEF TypeOK, OpenFile, NextEntry
  <2>2. Empty \in Map
    <3>1. Empty \in [{} -> State]
      BY DEF Empty
    <3> QED BY <3>1 DEF Map
  <2>3. heap' \in Seq(Map) /\ Len(heap') = Len(heap) + 1 /\ DOMAIN heap \subseteq DOMAIN heap'
        /\ Len(heap) \in Nat
    BY <1>0, <1>2, <2>2, AppendProperties, LenProperties DEF OpenFile
  <2>4. \A m \in (DOMAIN heap)' : \A k \in (DOMAIN heap[m])' : (heap[m][k])' \in State
    BY <2>3, MapStates
  <2>5. text' = <<>> /\ st' = NoState /\ text' \in Seq(Line[file'])
    BY <1>0, <1>2 DEF TypeOK, OpenFile, NextEntry
  <2>6. \A m \in DOMAIN scriptEntries' : m \in DOMAIN config /\ scriptEntries'[m] \in EntryPoint
    <3>1. \A m \in DOMAIN scriptEntries : m \in DOMAIN config /\ scriptEntries[m] \in EntryPoint
      BY <1>0 DEF TypeOK
    <3>2. scriptEntries' = Put(scriptEntries, n, config[n][2])
      BY <1>2 DEF OpenFile, NextEntry
    <3> QED BY <1>0, <2>1, <3>1, <3>2, PutWithin
  <2>7. /\ \A m \in DOMAIN allScripts : m \in DOMAIN config /\ allScripts[m] \in 0 .. Len(heap')
        /\ \A f \in DOMAIN allScriptsByFile : f \in File /\ allScriptsByFile[f] \in 0 .. Len(heap')
    BY <1>0, <2>3 DEF TypeOK
  <2> QED BY <1>0, <1>2, <2>1, <2>3, <2>4, <2>5, <2>6, <2>7 DEF TypeOK, OpenFile, NextEntry
<1>3. CASE BadEntry
  BY <1>0, <1>3 DEF TypeOK, BadEntry
<1>4. CASE Start
  BY <1>0, <1>4 DEF TypeOK, Start
<1>5. ASSUME phase = "parse", NEW l \in Line[file], ReadLine(l)
      PROVE  TypeOK' /\ (heap \in Seq(Map))'
  <2>0. text \in Seq(Line[file]) /\ st \in State \cup {NoState}
    BY <1>0, <1>5 DEF TypeOK
  <2>1. CASE SkipLine(l) \/ BeginState(l) \/ SetTarget(l) \/ ParseLine(l)
    <3>1. /\ UNCHANGED <<phase, config, left, maps, memory, name>>
          /\ text' = Append(text, l) /\ st' \in State \cup {NoState}
      BY <1>5, <2>1, LineRead
    <3>2. text' \in Seq(Line[file])
      BY <2>0, <3>1
    <3> QED BY <1>0, <1>5, <3>1, <3>2 DEF TypeOK, file
  <2>2. CASE EndState(l)
    <3>1. st \in State
      BY <2>0, <2>2 DEF EndState, in_stateblock
    <3>2. /\ heap' \in Seq(Map) /\ Len(heap') = Len(heap) /\ DOMAIN heap' = DOMAIN heap
      BY <1>5, <2>2, <3>1, EndStateHeap
    <3>3. \A m \in (DOMAIN heap)' : \A k \in (DOMAIN heap[m])' : (heap[m][k])' \in State
      BY <3>2, MapStates
    <3>4. /\ UNCHANGED <<phase, config, left, maps, freed, name>>
          /\ text' = Append(text, l) /\ st' = NoState
      BY <2>2 DEF EndState, Take, Read
    <3>5. text' \in Seq(Line[file])
      BY <2>0, <3>4
    <3> QED BY <1>0, <1>5, <3>2, <3>3, <3>4, <3>5 DEF TypeOK, file
  <2>3. CASE RejectLine(l)
    BY <1>0, <2>3 DEF TypeOK, RejectLine, Read
  <2> QED BY <1>5, <2>1, <2>2, <2>3 DEF ReadLine
<1>6. CASE EndOfFile
  <2>1. phase = "parse"
    BY <1>6 DEF EndOfFile
  <2>2. Len(heap) \in DOMAIN heap /\ Len(heap) \in Nat /\ name \in DOMAIN config /\ file \in File
    BY <2>1, MapInTheMaking
  <2>3. CASE in_stateblock
    BY <1>0, <1>6, <2>3 DEF TypeOK, EndOfFile
  <2>4. CASE ~in_stateblock
    <3> DEFINE map == IF sm = Empty THEN nullptr ELSE Len(heap)
    <3>1. map \in 0 .. Len(heap)
      BY <2>2 DEF nullptr
    <3>2. /\ allScripts' = Put(allScripts, name, map)
          /\ allScriptsByFile' = Put(allScriptsByFile, file, map)
          /\ freed' \subseteq DOMAIN heap /\ phase' = "config"
          /\ written' = Put(written, file, {text[i].n : i \in Blocks(text)})
          /\ text' = <<>> /\ st' = NoState
          /\ UNCHANGED <<config, left, scriptEntries, heap, name>>
      BY <1>0, <1>6, <2>2, <2>4 DEF TypeOK, EndOfFile
    <3> HIDE DEF map
    <3>3. \A m \in DOMAIN allScripts' : m \in DOMAIN config /\ allScripts'[m] \in 0 .. Len(heap)
      <4>1. \A m \in DOMAIN allScripts : m \in DOMAIN config /\ allScripts[m] \in 0 .. Len(heap)
        BY <1>0 DEF TypeOK
      <4> QED BY <2>2, <3>1, <3>2, <4>1, PutWithin
    <3>4. \A f \in DOMAIN allScriptsByFile' : f \in File /\ allScriptsByFile'[f] \in 0 .. Len(heap)
      <4>1. \A f \in DOMAIN allScriptsByFile : f \in File /\ allScriptsByFile[f] \in 0 .. Len(heap)
        BY <1>0 DEF TypeOK
      <4> QED BY <2>2, <3>1, <3>2, <4>1, PutWithin
    <3>5. \A f \in DOMAIN written' : f \in File /\ written'[f] \subseteq Nat
      <4>1. {text[i].n : i \in Blocks(text)} \in SUBSET Nat
        BY <2>1, BlockNumbers
      <4>2. \A f \in DOMAIN written : f \in File /\ written[f] \in SUBSET Nat
        BY <1>0 DEF TypeOK
      <4> DEFINE Numbers == SUBSET Nat
                 states == {text[i].n : i \in Blocks(text)}
      <4>3. states \in Numbers /\ written' = Put(written, file, states)
            /\ \A f \in DOMAIN written : f \in File /\ written[f] \in Numbers
        BY <3>2, <4>1, <4>2
      <4>4. \A f \in DOMAIN written' : f \in File /\ written'[f] \in SUBSET Nat
        <5> HIDE DEF Numbers, states
        <5>1. \A f \in DOMAIN written' : f \in File /\ written'[f] \in Numbers
          BY <2>2, <4>3, PutWithin
        <5> QED BY <5>1 DEF Numbers
      <4> QED BY <4>4
    <3> QED BY <1>0, <3>2, <3>3, <3>4, <3>5 DEF TypeOK
  <2> QED BY <2>3, <2>4
<1>7. CASE PoolEnds
  BY <1>0, <1>7 DEF TypeOK, PoolEnds
<1>8. ASSUME NEW n \in Name, FreeScript(n) PROVE TypeOK' /\ (heap \in Seq(Map))'
  <2>1. allScripts[n] \in DOMAIN heap
    <3>1. n \in DOMAIN allScripts
      BY <1>8 DEF IInv, Freeing, FreeScript
    <3>2. allScripts[n] \in 0 .. Len(heap) /\ allScripts[n] # 0
      BY <1>0, <1>8, <3>1 DEF TypeOK, FreeScript, nullptr
    <3>3. DOMAIN heap = 1 .. Len(heap) /\ Len(heap) \in Nat
      BY <1>0, LenProperties
    <3> QED BY <3>2, <3>3
  <2> QED BY <1>0, <1>8, <2>1 DEF TypeOK, FreeScript
<1>9. ASSUME NEW n \in Name, FreeNothing(n) PROVE TypeOK' /\ (heap \in Seq(Map))'
  BY <1>0, <1>9 DEF TypeOK, FreeNothing
<1>10. ASSUME NEW n \in Name, FreeAgain(n) PROVE TypeOK' /\ (heap \in Seq(Map))'
  BY <1>0, <1>10 DEF TypeOK, FreeAgain
<1>11. CASE Stop
  BY <1>0, <1>11 DEF TypeOK, Stop
<1> QED BY <1>1, <1>2, <1>3, <1>4, <1>5, <1>6, <1>7, <1>8, <1>9, <1>10, <1>11 DEF Next

-----------------------------------------------------------------------------
(* A line changes nothing but the text, the open state and the map in the  *)
(* making, or ends the program.                                            *)
LEMMA StepReads ==
  ASSUME IInv, phase = "parse", NEW l \in Line[file], ReadLine(l)
  PROVE  /\ EachVerified'
         /\ \/ phase' = "failed" /\ UNCHANGED heap
            \/ /\ UNCHANGED <<phase, config, left, maps, freed, name>>
               /\ Len(heap') = Len(heap) /\ DOMAIN heap' = DOMAIN heap /\ heap' # <<>>
<1>0. EachVerified /\ heap # <<>> /\ DOMAIN heap # {}
  BY MapInTheMaking DEF IInv, Reading
<1>1. CASE SkipLine(l) \/ BeginState(l) \/ SetTarget(l) \/ ParseLine(l)
  <2>1. UNCHANGED <<phase, config, left, maps, memory, name>>
    BY <1>1, LineRead
  <2> QED BY <1>0, <2>1 DEF EachVerified, memory
<1>2. CASE EndState(l)
  <2>1. st \in State
    BY <1>2 DEF IInv, TypeOK, EndState, in_stateblock
  <2>2. /\ Len(heap') = Len(heap) /\ DOMAIN heap' = DOMAIN heap
        /\ \A m \in DOMAIN heap : m # Len(heap) => heap'[m] = heap[m]
        /\ heap'[Len(heap)] = Put(sm, st.number, Verified(st))
        /\ verify(Verified(st)) /\ Verified(st).number = st.number
    BY <1>2, <2>1, EndStateHeap
  <2>3. ASSUME NEW m \in DOMAIN heap, NEW k \in DOMAIN heap'[m]
        PROVE  verify(heap'[m][k]) /\ heap'[m][k].number = k
    <3>1. CASE m # Len(heap)
      BY <1>0, <2>2, <2>3, <3>1 DEF EachVerified
    <3>2. CASE m = Len(heap) /\ k = st.number
      BY <2>2, <3>2 DEF Put
    <3>3. CASE m = Len(heap) /\ k # st.number
      <4>1. k \in DOMAIN sm /\ heap'[m][k] = sm[k]
        BY <2>2, <2>3, <3>3 DEF Put
      <4> QED BY <1>0, <2>3, <3>3, <4>1 DEF EachVerified, sm
    <3> QED BY <3>1, <3>2, <3>3
  <2>4. EachVerified'
    BY <2>2, <2>3 DEF EachVerified
  <2> QED BY <1>0, <1>2, <2>2, <2>4 DEF EndState, Take, Read
<1>3. CASE RejectLine(l)
  BY <1>0, <1>3 DEF RejectLine, EachVerified
<1> QED BY <1>1, <1>2, <1>3 DEF ReadLine

LEMMA StepEachVerified ==
  ASSUME IInv, Next
  PROVE  EachVerified'
<1>0. EachVerified /\ heap \in Seq(Map)
  BY DEF IInv
<1>1. ASSUME NEW n \in Name, OpenFile(n) PROVE EachVerified'
  <2>1. /\ DOMAIN heap' = DOMAIN heap \cup {Len(heap) + 1}
        /\ \A m \in DOMAIN heap : heap'[m] = heap[m]
        /\ heap'[Len(heap) + 1] = Empty
    BY <1>0, <1>1 DEF OpenFile
  <2>2. DOMAIN Empty = {}
    BY DEF Empty
  <2> QED BY <1>0, <2>1, <2>2 DEF EachVerified
<1>2. ASSUME phase = "parse", NEW l \in Line[file], ReadLine(l) PROVE EachVerified'
  BY <1>2, StepReads
<1>3. ASSUME UNCHANGED heap PROVE EachVerified'
  BY <1>0, <1>3 DEF EachVerified
<1>4. \/ \E n \in Name : OpenFile(n)
      \/ phase = "parse" /\ \E l \in Line[file] : ReadLine(l)
      \/ UNCHANGED heap
  BY DEF Next, ShareFile, BadEntry, Start, EndOfFile, PoolEnds, FreeScript, FreeNothing, FreeAgain,
         Stop, memory
<1> QED BY <1>1, <1>2, <1>3, <1>4

LEMMA StepReading ==
  ASSUME IInv, Next
  PROVE  Reading'
<1> USE DEF maps, memory
<1> SUFFICES ASSUME phase' = "parse" PROVE Reading'
  BY DEF Reading
<1>0. Reading /\ heap \in Seq(Map) /\ freed \subseteq DOMAIN heap
  BY DEF IInv, TypeOK
<1>1. ASSUME NEW n \in Name, OpenFile(n) PROVE Reading'
  <2>1. Len(heap) \in Nat /\ DOMAIN heap = 1 .. Len(heap) /\ Len(heap') = Len(heap) + 1
    BY <1>0, <1>1, LenProperties DEF OpenFile
  <2>2. Len(heap') \notin freed /\ heap' # <<>>
    BY <1>0, <2>1
  <2> QED BY <1>1, <2>2 DEF Reading, OpenFile, NextEntry, file
<1>2. ASSUME phase = "parse", NEW l \in Line[file], ReadLine(l) PROVE Reading'
  BY <1>0, <1>2, StepReads DEF Reading, file
<1>3. \/ \E n \in Name : OpenFile(n)
      \/ phase = "parse" /\ \E l \in Line[file] : ReadLine(l)
  BY DEF Next, ShareFile, NextEntry, BadEntry, Start, EndOfFile, PoolEnds, FreeScript, FreeNothing,
         FreeAgain, Stop
<1> QED BY <1>1, <1>2, <1>3

-----------------------------------------------------------------------------
(* The names and their maps.                                               *)
LEMMA StepNamed ==
  ASSUME IInv, Next
  PROVE  Named'
<1> USE DEF maps, memory
<1>0. /\ TypeOK /\ Named /\ Reading
  BY DEF IInv
<1>1. ASSUME NEW n \in Name, ShareFile(n) PROVE Named'
  <2>1. /\ phase = "config" /\ phase' = "config" /\ left' = left \ {n}
        /\ n \in left /\ left \subseteq DOMAIN config
        /\ UNCHANGED <<config, allScriptsByFile>>
        /\ config[n][1] \in DOMAIN allScriptsByFile
    BY <1>0, <1>1 DEF ShareFile, NextEntry, TypeOK
  <2>2. /\ DOMAIN scriptEntries = DOMAIN config \ left /\ DOMAIN allScripts = DOMAIN config \ left
    BY <1>0, <2>1 DEF Named, Loading, Unread
  <2>3. /\ DOMAIN scriptEntries' = DOMAIN scriptEntries \cup {n}
        /\ DOMAIN allScripts' = DOMAIN allScripts \cup {n}
        /\ allScripts'[n] = allScriptsByFile[config[n][1]]
        /\ \A m \in DOMAIN allScripts : m # n => allScripts'[m] = allScripts[m]
    BY <1>1 DEF ShareFile, NextEntry, Put
  <2>4. ASSUME NEW m \in DOMAIN allScripts'
        PROVE  /\ config[m][1] \in DOMAIN allScriptsByFile
               /\ allScripts'[m] = allScriptsByFile[config[m][1]]
    BY <1>0, <2>1, <2>3 DEF Named, Loading
  <2>5. \A f \in DOMAIN allScriptsByFile : \E m \in DOMAIN allScripts' : config[m][1] = f
    BY <1>0, <2>1, <2>3 DEF Named, Loading
  <2> QED BY <2>1, <2>2, <2>3, <2>4, <2>5 DEF Named, Loading, Unread
<1>2. ASSUME NEW n \in Name, OpenFile(n) PROVE Named'
  <2>1. /\ phase = "config" /\ phase' = "parse" /\ left' = left \ {n} /\ name' = n
        /\ n \in left /\ left \subseteq DOMAIN config
        /\ UNCHANGED <<config, allScripts, allScriptsByFile>>
    BY <1>0, <1>2 DEF OpenFile, NextEntry, TypeOK
  <2>2. DOMAIN scriptEntries' = DOMAIN scriptEntries \cup {n}
    BY <1>2 DEF OpenFile, NextEntry, Put
  <2> QED BY <1>0, <2>1, <2>2 DEF Named, Loading, Unread
<1>3. ASSUME phase = "parse", NEW l \in Line[file], ReadLine(l) PROVE Named'
  BY <1>0, <1>3, StepReads DEF Named, Loading, Unread
<1>4. CASE EndOfFile
  <2>1. phase = "parse" /\ name \notin left /\ file \notin DOMAIN allScriptsByFile
        /\ name \in DOMAIN config
    BY <1>0, <1>4 DEF EndOfFile, Reading, TypeOK
  <2>2. CASE in_stateblock
    BY <1>4, <2>2 DEF EndOfFile, Named, Loading
  <2>3. CASE ~in_stateblock
    <3> DEFINE map == IF sm = Empty THEN nullptr ELSE Len(heap)
    <3>1. /\ allScripts' = Put(allScripts, name, map)
          /\ allScriptsByFile' = Put(allScriptsByFile, file, map)
          /\ phase' = "config" /\ UNCHANGED <<config, left, scriptEntries, name>>
      BY <1>4, <2>3 DEF EndOfFile
    <3> HIDE DEF map
    <3>2. /\ DOMAIN allScripts' = DOMAIN allScripts \cup {name} /\ allScripts'[name] = map
          /\ \A m \in DOMAIN allScripts : m # name => allScripts'[m] = allScripts[m]
      BY <3>1 DEF Put
    <3>3. /\ DOMAIN allScriptsByFile' = DOMAIN allScriptsByFile \cup {file}
          /\ allScriptsByFile'[file] = map
          /\ \A f \in DOMAIN allScriptsByFile :
               f # file => allScriptsByFile'[f] = allScriptsByFile[f]
      BY <3>1 DEF Put
    <3>4. ASSUME NEW m \in DOMAIN allScripts'
          PROVE  /\ config[m][1] \in DOMAIN allScriptsByFile'
                 /\ allScripts'[m] = allScriptsByFile'[config[m][1]]
      <4>1. CASE m = name
        BY <3>2, <3>3, <4>1 DEF file
      <4>2. CASE m # name
        BY <1>0, <2>1, <3>2, <3>3, <4>2 DEF Named, Loading
      <4> QED BY <4>1, <4>2
    <3>5. ASSUME NEW f \in DOMAIN allScriptsByFile'
          PROVE  \E m \in DOMAIN allScripts' : config[m][1] = f
      <4>1. CASE f = file
        BY <3>2, <4>1 DEF file
      <4>2. CASE f # file
        BY <1>0, <2>1, <3>2, <3>3, <4>2 DEF Named, Loading
      <4> QED BY <4>1, <4>2
    <3>6. /\ DOMAIN scriptEntries = DOMAIN config \ left
          /\ DOMAIN allScripts = DOMAIN config \ (left \cup {name})
      BY <1>0, <2>1 DEF Named, Loading, Unread
    <3>7. DOMAIN allScripts' = DOMAIN config \ left
      BY <2>1, <3>2, <3>6
    <3> QED BY <3>1, <3>4, <3>5, <3>6, <3>7 DEF Named, Loading, Unread
  <2> QED BY <2>2, <2>3
<1>5. CASE Start
  BY <1>0, <1>5 DEF Named, Loading, Unread, Start
<1>6. CASE PoolEnds \/ BadEntry \/ Stop
  BY <1>6 DEF Named, Loading, PoolEnds, BadEntry, Stop
<1>7. ASSUME NEW n \in Name, FreeScript(n) \/ FreeNothing(n) \/ FreeAgain(n) PROVE Named'
  BY <1>7 DEF Named, Loading, FreeScript, FreeNothing, FreeAgain
<1> QED BY <1>1, <1>2, <1>3, <1>4, <1>5, <1>6, <1>7 DEF Next

LEMMA StepOneEach ==
  ASSUME IInv, Next
  PROVE  OneEach'
<1> USE DEF maps, memory
<1>0. TypeOK /\ OneEach /\ Reading /\ heap \in Seq(Map)
  BY DEF IInv
<1>1. ASSUME NEW n \in Name, ShareFile(n) PROVE OneEach'
  BY <1>0, <1>1 DEF OneEach, Loading, Stored, Current, ShareFile, NextEntry
<1>2. ASSUME NEW n \in Name, OpenFile(n) PROVE OneEach'
  <2>1. /\ phase = "config" /\ phase' = "parse"
        /\ UNCHANGED <<allScriptsByFile, freed>> /\ heap' = Append(heap, Empty)
    BY <1>2 DEF OpenFile, NextEntry
  <2>2. /\ Len(heap) \in Nat /\ DOMAIN heap = 1 .. Len(heap) /\ Len(heap') = Len(heap) + 1
        /\ DOMAIN heap' = 1 .. Len(heap) + 1
    BY <1>0, <2>1, LenProperties
  <2>3. DOMAIN heap' = DOMAIN heap \cup {Len(heap')} /\ Len(heap') \notin DOMAIN heap
    BY <2>2
  <2>4. DOMAIN heap \ freed = Stored /\ Stored \subseteq DOMAIN heap /\ freed \subseteq DOMAIN heap
    BY <1>0, <2>1 DEF OneEach, Loading, Current, TypeOK
  <2>5. Stored' = Stored /\ Current' = {Len(heap')}
    BY <2>1 DEF Stored, Current
  <2>6. DOMAIN heap' \ freed = Stored \cup {Len(heap')} /\ Stored \cap {Len(heap')} = {}
    BY <2>3, <2>4
  <2> QED BY <1>0, <2>1, <2>5, <2>6 DEF OneEach, Loading
<1>3. ASSUME phase = "parse", NEW l \in Line[file], ReadLine(l) PROVE OneEach'
  BY <1>0, <1>3, StepReads DEF OneEach, Loading, Stored, Current
<1>4. CASE EndOfFile
  <2>1. phase = "parse" /\ file \notin DOMAIN allScriptsByFile /\ Len(heap) \in Nat \ {0}
    <3>1. phase = "parse"
      BY <1>4 DEF EndOfFile
    <3> QED BY <1>0, <3>1, MapInTheMaking DEF Reading
  <2>2. /\ \A f, g \in DOMAIN allScriptsByFile :
             allScriptsByFile[f] = allScriptsByFile[g] => f = g \/ allScriptsByFile[f] = nullptr
        /\ DOMAIN heap \ freed = Stored \cup {Len(heap)}
        /\ Len(heap) \notin Stored
    BY <1>0, <2>1 DEF OneEach, Loading, Current
  <2>3. CASE in_stateblock
    BY <1>4, <2>3 DEF EndOfFile, OneEach, Loading
  <2>4. CASE ~in_stateblock
    <3> DEFINE map == IF sm = Empty THEN nullptr ELSE Len(heap)
    <3>1. /\ allScriptsByFile' = Put(allScriptsByFile, file, map)
          /\ freed' = IF sm = Empty THEN freed \cup {Len(heap)} ELSE freed
          /\ phase' = "config" /\ UNCHANGED heap
      BY <1>4, <2>4 DEF EndOfFile
    <3>2. \/ map = nullptr /\ freed' = freed \cup {Len(heap)}
          \/ map = Len(heap) /\ map # nullptr /\ freed' = freed
      BY <2>1, <3>1 DEF nullptr
    <3> HIDE DEF map
    <3>3. /\ DOMAIN allScriptsByFile' = DOMAIN allScriptsByFile \cup {file}
          /\ allScriptsByFile'[file] = map
          /\ \A f \in DOMAIN allScriptsByFile : allScriptsByFile'[f] = allScriptsByFile[f]
      BY <2>1, <3>1 DEF Put
    <3>4. Stored' = (Stored \cup {map}) \ {nullptr}
      BY <3>3 DEF Stored
    <3>5. \A f \in DOMAIN allScriptsByFile : allScriptsByFile[f] \in Stored \cup {nullptr}
      BY DEF Stored
    <3>6. ASSUME NEW f \in DOMAIN allScriptsByFile', NEW g \in DOMAIN allScriptsByFile',
                 allScriptsByFile'[f] = allScriptsByFile'[g]
          PROVE  f = g \/ allScriptsByFile'[f] = nullptr
      BY <2>2, <3>2, <3>3, <3>5, <3>6
    <3>7. DOMAIN heap \ freed' = Stored'
      BY <2>2, <3>2, <3>4 DEF Stored
    <3>8. Current' = {}
      BY <3>1 DEF Current
    <3> QED BY <3>1, <3>6, <3>7, <3>8 DEF OneEach
  <2> QED BY <2>3, <2>4
<1>5. CASE Start
  BY <1>0, <1>5 DEF OneEach, Loading, Stored, Current, Start
<1>6. CASE PoolEnds \/ BadEntry \/ Stop
  BY <1>6 DEF OneEach, Loading, PoolEnds, BadEntry, Stop
<1>7. ASSUME NEW n \in Name, FreeScript(n) \/ FreeNothing(n) \/ FreeAgain(n) PROVE OneEach'
  BY <1>7 DEF OneEach, Loading, FreeScript, FreeNothing, FreeAgain
<1> QED BY <1>1, <1>2, <1>3, <1>4, <1>5, <1>6, <1>7 DEF Next

-----------------------------------------------------------------------------
(* The end.  When the pool starts and when it ends, the maps that are not  *)
(* freed are those of the names.                                           *)
LEMMA RunningMaps ==
  ASSUME IInv, phase = "running"
  PROVE  /\ DOMAIN allScripts = DOMAIN config /\ DOMAIN scriptEntries = DOMAIN config
         /\ \A m \in DOMAIN heap \ freed : \E n \in DOMAIN allScripts : allScripts[n] = m
         /\ \A n \in DOMAIN allScripts : allScripts[n] # nullptr => allScripts[n] \in DOMAIN heap \ freed
<1>1. /\ DOMAIN allScripts = DOMAIN config /\ DOMAIN scriptEntries = DOMAIN config
      /\ \A n \in DOMAIN allScripts :
           /\ config[n][1] \in DOMAIN allScriptsByFile
           /\ allScripts[n] = allScriptsByFile[config[n][1]]
      /\ \A f \in DOMAIN allScriptsByFile : \E n \in DOMAIN allScripts : config[n][1] = f
  BY DEF IInv, Named, Loading, Unread
<1>2. DOMAIN heap \ freed = Stored
  BY DEF IInv, OneEach, Loading, Current
<1>3. ASSUME NEW m \in DOMAIN heap \ freed PROVE \E n \in DOMAIN allScripts : allScripts[n] = m
  <2>1. PICK f \in DOMAIN allScriptsByFile : allScriptsByFile[f] = m
    BY <1>2 DEF Stored
  <2>2. PICK n \in DOMAIN allScripts : config[n][1] = f
    BY <1>1
  <2> QED BY <1>1, <2>1, <2>2
<1>4. ASSUME NEW n \in DOMAIN allScripts, allScripts[n] # nullptr
      PROVE  allScripts[n] \in DOMAIN heap \ freed
  BY <1>1, <1>2, <1>4 DEF Stored
<1> QED BY <1>1, <1>3, <1>4

LEMMA StepFreeing ==
  ASSUME IInv, Next
  PROVE  Freeing'
<1> USE DEF maps, memory
<1> SUFFICES ASSUME phase' = "free" PROVE Freeing'
  BY DEF Freeing
<1>0. Freeing /\ TypeOK
  BY DEF IInv
<1>1. CASE PoolEnds
  <2>1. phase = "running" /\ left' = DOMAIN allScripts /\ UNCHANGED <<allScripts, heap, freed>>
    BY <1>1 DEF PoolEnds
  <2>2. OneNameEach => \A n \in DOMAIN allScripts : allScripts[n] \notin freed
    BY <2>1, RunningMaps DEF OneNameEach
  <2> QED BY <2>1, <2>2, RunningMaps DEF Freeing, OneNameEach
<1>2. ASSUME NEW n \in Name, FreeScript(n) PROVE Freeing'
  <2>1. /\ phase = "free" /\ n \in left /\ left' = left \ {n} /\ freed' = freed \cup {allScripts[n]}
        /\ UNCHANGED <<allScripts, heap>>
    BY <1>2 DEF FreeScript
  <2>2. left' \subseteq DOMAIN allScripts /\ left \subseteq DOMAIN allScripts
    BY <1>0, <2>1 DEF Freeing
  <2>3. ASSUME NEW m \in DOMAIN heap \ freed' PROVE \E k \in left' : allScripts[k] = m
    <3>1. m \in DOMAIN heap \ freed /\ m # allScripts[n]
      BY <2>1
    <3>2. PICK k \in left : allScripts[k] = m
      BY <1>0, <2>1, <3>1 DEF Freeing
    <3> QED BY <2>1, <3>1, <3>2
  <2>4. ASSUME OneNameEach, NEW k \in left' PROVE allScripts[k] \notin freed'
    <3>1. k \in left /\ k # n /\ allScripts[k] \notin freed
      BY <1>0, <2>1, <2>4 DEF Freeing
    <3>2. allScripts[k] # allScripts[n]
      BY <2>1, <2>2, <2>4, <3>1 DEF OneNameEach
    <3> QED BY <2>1, <3>1, <3>2
  <2> QED BY <2>1, <2>2, <2>3, <2>4 DEF Freeing, OneNameEach
<1>3. ASSUME NEW n \in Name, FreeAgain(n) PROVE Freeing'
  <2>1. /\ phase = "free" /\ n \in left /\ left' = left \ {n} /\ allScripts[n] \in freed
        /\ UNCHANGED <<allScripts, heap, freed>>
    BY <1>3 DEF FreeAgain
  <2>2. ASSUME NEW m \in DOMAIN heap \ freed PROVE \E k \in left' : allScripts[k] = m
    <3>1. PICK k \in left : allScripts[k] = m
      BY <1>0, <2>1 DEF Freeing
    <3> QED BY <2>1, <3>1
  <2> QED BY <1>0, <2>1, <2>2 DEF Freeing, OneNameEach
<1>4. PoolEnds \/ \E n \in Name : FreeScript(n) \/ FreeAgain(n)
  BY StepReads, <1>0 DEF Next, ShareFile, OpenFile, NextEntry, BadEntry, Start, EndOfFile, FreeNothing, Stop
<1> QED BY <1>1, <1>2, <1>3, <1>4

LEMMA StepStopIsClean ==
  ASSUME IInv, Next
  PROVE  StopIsClean'
<1> USE DEF maps, memory
<1>0. StopIsClean /\ Freeing /\ TypeOK
  BY DEF IInv
<1>1. ASSUME phase' \notin {"crashed", "stopped"} PROVE StopIsClean'
  BY <1>1 DEF StopIsClean
<1>2. ASSUME NEW n \in Name, FreeNothing(n) \/ FreeAgain(n) PROVE StopIsClean'
  <2>1. /\ phase = "free" /\ phase' \in {"free", "crashed"} /\ n \in left /\ UNCHANGED allScripts
        /\ allScripts[n] = nullptr \/ allScripts[n] \in freed
    BY <1>2 DEF FreeNothing, FreeAgain
  <2>2. ~OneNameEach
    BY <1>0, <2>1 DEF Freeing, OneNameEach
  <2> QED BY <2>1, <2>2 DEF StopIsClean, OneNameEach
<1>3. CASE Stop
  <2>1. phase = "free" /\ left = {} /\ phase' = "stopped" /\ UNCHANGED <<heap, freed, allScripts>>
    BY <1>3 DEF Stop
  <2>2. DOMAIN heap \ freed = {} /\ freed \subseteq DOMAIN heap
    BY <1>0, <2>1 DEF Freeing, TypeOK
  <2> QED BY <2>1, <2>2 DEF StopIsClean
<1>4. \/ phase' \notin {"crashed", "stopped"} \/ Stop
      \/ \E n \in Name : FreeNothing(n) \/ FreeAgain(n)
  BY StepReads DEF Next, ShareFile, OpenFile, NextEntry, BadEntry, Start, EndOfFile, PoolEnds, FreeScript
<1> QED BY <1>1, <1>2, <1>3, <1>4

LEMMA StepIInv == IInv /\ [Next]_vars => IInv'
<1> SUFFICES ASSUME IInv, [Next]_vars PROVE IInv'
  OBVIOUS
<1>1. CASE Next
  BY <1>1, StepTypes, StepEachVerified, StepReading, StepNamed, StepOneEach, StepFreeing,
     StepStopIsClean DEF IInv
<1>2. CASE UNCHANGED vars
  BY <1>2 DEF IInv, vars, maps, memory, TypeOK, file, EachVerified, Reading, Named, Loading, Unread,
              OneEach, Stored, Current, Freeing, StopIsClean, OneNameEach
<1> QED BY <1>1, <1>2

-----------------------------------------------------------------------------
LEMMA Safety == Spec => []IInv
BY InitIInv, StepIInv, PTL DEF Spec

(* Every pointer points to a map that was allocated, every state has the   *)
(* fields of its class, and every assignment that parseAssignment makes    *)
(* has a value: the loop over the alternatives ends with at least one.     *)
THEOREM TypesHold == Spec => []TypeOK
<1>1. IInv => TypeOK
  BY DEF IInv
<1> QED BY <1>1, Safety, PTL

(* freeAllScripts frees every map once, if every file has one name and at  *)
(* least one state.                                                        *)
THEOREM CleanStop == Spec => []StopIsClean
<1>1. IInv => StopIsClean
  BY DEF IInv
<1> QED BY <1>1, Safety, PTL
=============================================================================
