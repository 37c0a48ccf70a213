---------------------------- MODULE TextsProofs ----------------------------
(***************************************************************************)
(* What holds of reading a request and of evaluating a string for texts of *)
(* any length: every index stays within its text (TypeOK of Texts), the    *)
(* CGI environment has the last word on its variables (EnvironmentWins of  *)
(* Parameters), parameters arrive as they were sent (ParametersAsSent),    *)
(* and a text is substituted as it is written (SubstitutedAsWritten).      *)
(*                                                                         *)
(* Find, is_variable and the bounds are least and greatest elements of     *)
(* sets of places.  That these exist follows from the order of the natural *)
(* numbers being well-founded, and so does all that holds of a text piece  *)
(* by piece: a place of which something does not hold, although it does of *)
(* all later ones, would be the last such place (FromTheEnd).              *)
(***************************************************************************)
EXTENDS Texts, SequenceTheorems, WellFoundedInduction, TLAPS

(* Every set of natural numbers that is not empty has a least element.     *)
LEMMA LeastElement ==
  ASSUME NEW S \in SUBSET Nat, S # {}
  PROVE  Min(S) \in S /\ \A y \in S : Min(S) <= y
<1>1. \E x \in S : \A y \in S : x <= y
  <2>0. OpToRel(<, Nat) = {ss \in Nat \X Nat : ss[1] < ss[2]}
    BY DEF OpToRel
  <2>1. PICK x \in S : \A y \in S : <<y, x>> \notin OpToRel(<, Nat)
    BY NatLessThanWellFounded, WFMin
  <2>2. ASSUME NEW y \in S PROVE x <= y
    <3>1. <<y, x>> \in Nat \X Nat /\ <<y, x>>[1] = y /\ <<y, x>>[2] = x
      OBVIOUS
    <3>2. ~(y < x)
      BY <2>0, <2>1, <3>1
    <3> QED BY <3>2
  <2> QED BY <2>2
<1> QED BY <1>1 DEF Min

(* Every such set with a bound has a greatest one.                         *)
LEMMA GreatestElement ==
  ASSUME NEW S \in SUBSET Nat, S # {}, NEW n \in Nat, \A y \in S : y <= n
  PROVE  Max(S) \in S /\ \A y \in S : y <= Max(S)
<1> DEFINE Above == {k \in 0 .. n : \A y \in S : y <= k}
<1>1. PICK m \in Above : \A k \in Above : m <= k
  <2>1. Above \in SUBSET Nat /\ n \in Above
    OBVIOUS
  <2> HIDE DEF Above
  <2> QED BY <2>1, LeastElement
<1>2. m \in S
  <2> SUFFICES ASSUME m \notin S PROVE FALSE
    OBVIOUS
  <2>1. \A y \in S : y <= m - 1
    BY <1>1
  <2>2. m >= 1
    <3> PICK y \in S : TRUE
      OBVIOUS
    <3>1. y \in Nat /\ m \in Nat /\ y <= m - 1
      BY <1>1, <2>1
    <3> QED BY <3>1
  <2>3. m - 1 \in Above
    BY <1>1, <2>1, <2>2
  <2> QED BY <1>1, <2>2, <2>3
<1> QED BY <1>1, <1>2 DEF Max

-----------------------------------------------------------------------------
(* After the first n entries of the environment the table holds what they  *)
(* say, the last of those that name the same variable.                     *)
HeldFrom(k, n) ==
  \A x \in DOMAIN Pair(request.environ[k]) :
    \/ x \in DOMAIN symTable /\ symTable[x] = Pair(request.environ[k])[x]
    \/ \E m \in k + 1 .. n : x \in DOMAIN Pair(request.environ[m])
Held(n) == \A k \in 1 .. n : HeldFrom(k, n)

EnvironmentInv ==
  /\ request \in Request
  /\ stage = "read" => i = 1
  /\ stage = "environment" => i \in 1 .. Len(request.environ) + 1 /\ Held(i - 1)
  /\ stage = "selected" \/ (stage = "refused" /\ i > 1) => Held(Len(request.environ))

(* One more entry: it is held, and those before it as long as it does not  *)
(* name what they name.                                                    *)
LEMMA StoreHolds ==
  ASSUME request \in Request, i \in 1 .. Len(request.environ), Held(i - 1), StoreEnvironment
  PROVE  Held(i - 1)'
<1> DEFINE own == Pair(request.environ[i])
<1>1. i' = i + 1 /\ request' = request /\ i \in Nat /\ i' - 1 = i
  BY RequestAssumption DEF StoreEnvironment
<1>2. /\ DOMAIN symTable' = DOMAIN symTable \cup DOMAIN own
      /\ \A x \in DOMAIN symTable' :
           symTable'[x] = IF x \in DOMAIN own THEN own[x] ELSE symTable[x]
  BY DEF StoreEnvironment, Assigned
<1> SUFFICES ASSUME NEW k \in 1 .. i, NEW x \in DOMAIN Pair(request.environ[k])
             PROVE  \/ x \in DOMAIN symTable' /\ symTable'[x] = Pair(request.environ[k])[x]
                    \/ \E m \in k + 1 .. i : x \in DOMAIN Pair(request.environ[m])
  BY <1>1, Zenon DEF Held, HeldFrom
<1>3. CASE x \in DOMAIN own
  BY <1>1, <1>2, <1>3
<1>4. CASE x \notin DOMAIN own
  <2>1. k \in 1 .. i - 1
    BY <1>1, <1>4
  <2>2. \/ x \in DOMAIN symTable /\ symTable[x] = Pair(request.environ[k])[x]
        \/ \E m \in k + 1 .. i - 1 : x \in DOMAIN Pair(request.environ[m])
    BY <2>1, Zenon DEF Held, HeldFrom
  <2> QED BY <1>1, <1>2, <1>4, <2>2
<1> QED BY <1>3, <1>4

(* What Held says of a state it says of the next one, if neither the table *)
(* nor the request change.                                                 *)
LEMMA HeldStays ==
  ASSUME UNCHANGED <<request, symTable>>, NEW n, Held(n)
  PROVE  Held(n)'
BY Zenon DEF Held, HeldFrom

(* At the start no entry has been stored.                                  *)
LEMMA EnvironmentInit == Init => EnvironmentInv
BY DEF Init, BeginWith, Begin, EnvironmentInv

(* Every step keeps what the environment has stored so far.                *)
LEMMA EnvironmentStep ==
  ASSUME EnvironmentInv, [Next]_vars
  PROVE  EnvironmentInv'
<1> USE DEF EnvironmentInv, GoTo
<1>0. \A n : UNCHANGED <<request, symTable>> /\ Held(n) => Held(n)'
  BY HeldStays
<1>1. CASE UNCHANGED vars
  BY <1>0, <1>1 DEF vars, readVars
<1>2. CASE ReadFails \/ NoParameters \/ Read \/ DecodeEscape \/ DecodePlain \/ Decoded
  BY <1>2 DEF ReadFails, NoParameters, Read, DecodeEscape, DecodePlain, Decoded
<1>3. CASE Split
  <2>1. /\ request' = request
        /\ stage' = "split" \/ (stage' = "environment" /\ i' = 1)
    BY <1>3 DEF Split
  <2>2. stage' = "environment" => Held(i - 1)'
    BY <2>1 DEF Held
  <2> QED BY <2>1, <2>2, RequestAssumption
<1>4. CASE StoreEnvironment
  <2>1. i \in 1 .. Len(request.environ) /\ request' = request /\ stage' = "environment" /\ i' = i + 1
    BY <1>4, RequestAssumption DEF StoreEnvironment
  <2>2. Held(i - 1)'
    BY <1>4, <2>1, StoreHolds DEF StoreEnvironment
  <2> QED BY <2>1, <2>2, RequestAssumption
<1>5. CASE NoSelector \/ Selected
  <2>1. /\ stage = "environment" /\ i > Len(request.environ)
        /\ stage' \in {"selected", "refused"} /\ UNCHANGED <<request, i, symTable>>
    BY <1>5 DEF NoSelector, Selected
  <2>2. i - 1 = Len(request.environ)
    BY <2>1, RequestAssumption
  <2>3. Held(Len(request.environ))'
    BY <1>0, <2>1, <2>2
  <2> QED BY <2>1, <2>3
<1>6. CASE BeginScript \/ Evaluating
  BY <1>6 DEF BeginScript, Evaluating, Substitute, SubstituteThrows, Escaped, Copy, Evaluated, AtSign
<1> QED BY <1>1, <1>2, <1>3, <1>4, <1>5, <1>6 DEF Next, Reading

(* No parameter of a request, however it is written, stays in the place of *)
(* a CGI variable: for any request, environment and buffer.                *)
THEOREM EnvironmentStays == Spec => []EnvironmentWins
<1>1. EnvironmentInv => EnvironmentWins
  <2> SUFFICES ASSUME EnvironmentInv, stage \in {"selected", "refused"}, i > 1,
                      NEW k \in DOMAIN request.environ, NEW x \in DOMAIN Pair(request.environ[k])
               PROVE  \/ symTable[x] = Pair(request.environ[k])[x]
                      \/ \E m \in {n \in DOMAIN request.environ : n > k} :
                           x \in DOMAIN Pair(request.environ[m])
    BY Zenon DEF EnvironmentWins
  <2>1. request.environ \in Seq(Text) /\ DOMAIN request.environ = 1 .. Len(request.environ)
    BY RequestAssumption DEF EnvironmentInv
  <2>2. \/ symTable[x] = Pair(request.environ[k])[x]
        \/ \E m \in k + 1 .. Len(request.environ) : x \in DOMAIN Pair(request.environ[m])
    BY <2>1, Zenon DEF EnvironmentInv, Held, HeldFrom
  <2> QED BY <2>1, <2>2
<1>2. Spec => []EnvironmentInv
  BY EnvironmentInit, EnvironmentStep, PTL DEF Spec
<1> QED BY <1>1, <1>2, PTL

-----------------------------------------------------------------------------
(* Parts of texts are texts.                                               *)
LEMMA SubText ==
  ASSUME NEW s \in Text, NEW m \in Nat \ {0}, NEW n \in 0 .. Len(s)
  PROVE  /\ SubSeq(s, m, n) \in Text
         /\ Len(SubSeq(s, m, n)) = IF m <= n THEN n - m + 1 ELSE 0
<1>1. Len(s) \in Nat /\ \A k \in 1 .. Len(s) : s[k] \in 0 .. 255
  BY ElementOfSeq, LenProperties DEF Text
<1>2. \A k \in m .. n : s[k] \in 0 .. 255
  BY <1>1
<1> QED BY <1>1, <1>2, SubSeqProperties DEF Text

(* A place in the text, or the one after its end.                          *)
LEMMA FindPlace ==
  ASSUME NEW s \in Text, NEW c
  PROVE  Find(s, c) \in 1 .. Len(s) + 1
<1> DEFINE places == {k \in 1 .. Len(s) : s[k] = c} \cup {Len(s) + 1}
<1>1. Len(s) \in Nat
  BY DEF Text
<1>2. places \in SUBSET Nat /\ places # {}
  BY <1>1
<1>3. Min(places) \in places
  <2> HIDE DEF places
  <2> QED BY <1>2, LeastElement
<1> QED BY <1>1, <1>3 DEF Find

(* What a char* shows of a text is a text.                                 *)
LEMMA CStringText ==
  ASSUME NEW s \in Text
  PROVE  CString(s) \in Text
<1>1. Find(s, 0) - 1 \in 0 .. Len(s)
  BY FindPlace DEF Text
<1> QED BY <1>1, SubText DEF CString

(* The body is cut where it ends, or the buffer.                           *)
LEMMA ReceivedText ==
  ASSUME request \in Request, ~BadLength
  PROVE  Received \in Text
<1>1. /\ request.query \in Text /\ request.body \in Text /\ NoText \in Text
      /\ Len(request.body) \in Nat
  BY RequestAssumption DEF Text, NoText
<1>2. CASE request.method = "POST"
  <2> DEFINE limits == {request.length, Len(request.body), PARAMBUF_LENGTH - 1}
  <2>1. limits \in SUBSET Nat /\ limits # {} /\ Len(request.body) \in limits
    BY <1>1, <1>2, RequestAssumption, BufferAssumption DEF BadLength
  <2>2. Min(limits) \in Nat /\ Min(limits) <= Len(request.body)
    <3> HIDE DEF limits
    <3> QED BY <2>1, LeastElement
  <2>3. SubSeq(request.body, 1, Min(limits)) \in Text
    <3> HIDE DEF limits
    <3> QED BY <1>1, <2>2, SubText
  <2> QED BY <1>2, <2>3 DEF Received
<1> QED BY <1>1, <1>2 DEF Received

(* A hexadecimal digit is below 16.                                        *)
LEMMA DigitValue ==
  ASSUME NEW c \in DOMAIN Digit
  PROVE  Digit[c] \in 0 .. 15
BY DEF Digit

(* Two digits, one, or what the variable held before: a byte.              *)
LEMMA HexReadByte ==
  ASSUME NEW s \in Text, NEW old \in 0 .. 255
  PROVE  HexRead(s, old) \in 0 .. 255
<1>1. \A c \in DOMAIN Digit : Digit[c] \in 0 .. 15
  BY DigitValue
<1>2. \A a, b \in 0 .. 15 : 16 * a + b \in 0 .. 255
  OBVIOUS
<1> HIDE DEF Digit
<1> QED BY <1>1, <1>2 DEF HexRead

(* The values of a table after an assignment are those of the two.         *)
LEMMA AssignedTexts ==
  ASSUME NEW table, NEW new, Range(table) \subseteq Text, Range(new) \subseteq Text
  PROVE  Range(Assigned(table, new)) \subseteq Text
BY DEF Range, Assigned

(* A pair brings texts into the table.                                     *)
LEMMA PairTexts ==
  ASSUME NEW s \in Text
  PROVE  Range(Pair(s)) \subseteq Text
<1> DEFINE n == Find(s, Equals)
<1>1. n \in 1 .. Len(s) + 1 /\ Len(s) \in Nat
  BY FindPlace DEF Text
<1>2. CString(SubSeq(s, n + 1, Len(s))) \in Text
  <2>1. SubSeq(s, n + 1, Len(s)) \in Text
    BY <1>1, SubText
  <2> QED BY <2>1, CStringText
<1> QED BY <1>2 DEF Pair, Range, NoTable

(* The bound on the index of the text and of the environment.              *)
LEMMA MaxOfTwo ==
  ASSUME NEW a \in Nat, NEW b \in Nat
  PROVE  Max({a, b}) \in Nat /\ a <= Max({a, b}) /\ b <= Max({a, b})
<1>1. {a, b} \in SUBSET Nat /\ {a, b} # {} /\ a + b \in Nat /\ \A y \in {a, b} : y <= a + b
  OBVIOUS
<1>2. Max({a, b}) \in {a, b} /\ \A y \in {a, b} : y <= Max({a, b})
  BY <1>1, GreatestElement
<1> QED BY <1>2

(* A match is not empty and lies in the text.                              *)
LEMMA MatchLength ==
  ASSUME NEW name, NEW s \in Text, Occurrences(name, s) # {}
  PROVE  is_variable(name, s) \in 1 .. Len(s)
<1> DEFINE all == Occurrences(name, s)
           begins == {o[1] : o \in all}
           so == Min(begins)
           ends == {o[2] : o \in {p \in all : p[1] = so}}
<1>1. Len(s) \in Nat /\ \A o \in all : o[1] \in 1 .. Len(s) /\ o[2] \in 1 .. Len(s) /\ o[1] < o[2]
  BY DEF Occurrences, Text
<1>2. so \in begins
  <2>1. begins \in SUBSET Nat /\ begins # {}
    BY <1>1
  <2> HIDE DEF begins
  <2> QED BY <2>1, LeastElement
<1>3. Max(ends) \in ends
  <2>1. PICK o \in all : o[1] = so
    BY <1>2
  <2>2. o[2] \in ends
    BY <2>1
  <2>3. \A y \in ends : y \in 1 .. Len(s)
    BY <1>1
  <2>4. ends \in SUBSET Nat /\ ends # {} /\ \A y \in ends : y <= Len(s)
    <3> HIDE DEF ends
    <3> QED BY <1>1, <2>2, <2>3
  <2> HIDE DEF ends
  <2> QED BY <1>1, <2>4, GreatestElement
<1>4. PICK o \in all : o[1] = so /\ o[2] = Max(ends)
  BY <1>3
<1>5. Max(ends) - so + 1 \in 1 .. Len(s)
  BY <1>1, <1>4
<1> QED BY <1>5 DEF is_variable

-----------------------------------------------------------------------------
TypeInv == TypeOK /\ EnvironmentInv /\ script \in Script

(* What is left of a text is a text.                                       *)
LEMMA RestText ==
  ASSUME TypeInv
  PROVE  /\ Rest \in Text /\ Len(script.source) \in Nat /\ at \in Nat
         /\ at <= Len(script.source) => Len(Rest) = Len(script.source) - at + 1
<1>1. script.source \in Text /\ Len(script.source) \in Nat /\ at \in Nat \ {0}
  BY ScriptAssumption DEF TypeInv, TypeOK, Text
<1> QED BY <1>1, SubText DEF Rest

(* What a reference yields is a text.                                      *)
LEMMA ValueTexts ==
  ASSUME TypeInv, NEW name, NEW w, NEW v \in Value(name, w)
  PROVE  v \in Text
<1>1. \A table, x : Range(table) \subseteq Text => LookUp(table, x) \subseteq Text
  BY DEF LookUp, Range
<1>2. Range(script.prop) \subseteq Text /\ Range(Global) \subseteq Text /\ Range(symTable) \subseteq Text
  BY ScriptAssumption, GlobalAssumption DEF TypeInv, TypeOK
<1> QED BY <1>1, <1>2 DEF Value, getPropositional

(* The types hold at the start.                                            *)
LEMMA TypeInit == Init => TypeInv
<1> SUFFICES ASSUME Init PROVE TypeInv
  OBVIOUS
<1>1. PICK r \in Request, s \in Script : BeginWith(r, s)
  BY DEF Init
<1>2. EnvironmentInv /\ script \in Script
  BY <1>1, EnvironmentInit DEF BeginWith
<1>3. <<>> \in Text /\ Range(symTable) = {}
  BY <1>1 DEF BeginWith, Begin, NoTable, Range, Text
<1>4. i \in 1 .. Max({Len(text), Len(request.environ)}) + 3
  <2>1. i = 1 /\ Len(text) \in Nat /\ Len(request.environ) \in Nat
    BY <1>1, <1>3, RequestAssumption DEF BeginWith, Begin, NoText, Text
  <2> QED BY <2>1, MaxOfTwo
<1>5. at \in 1 .. Len(script.source) + 2
  BY <1>1, ScriptAssumption DEF BeginWith, Text
<1> QED BY <1>1, <1>2, <1>3, <1>4, <1>5, GarbageAssumption DEF BeginWith, Begin, NoText, TypeInv, TypeOK

Ending == {"died", "refused", "evaluated", "thrown"}

(* Steps that change nothing but the place in the program.                 *)
LEMMA PlaceTypes ==
  ASSUME TypeInv, UNCHANGED <<request, text, i, ii, decoded, symTable, script, at, result>>,
         stage' \in {"environment", "selected", "evaluate"} \cup Ending
  PROVE  TypeOK'
BY DEF TypeInv, TypeOK, Ending

(* The buffer holds a text after it has been read.                         *)
LEMMA ReadTypes ==
  ASSUME TypeInv, Read, UNCHANGED <<script, at, result>>
  PROVE  TypeOK'
<1>1. i = 1 /\ request \in Request
  BY DEF TypeInv, EnvironmentInv, Read
<1>2. text' \in Text
  BY <1>1, ReceivedText, CStringText DEF Read
<1>3. i' \in 1 .. Max({Len(text'), Len(request'.environ)}) + 3
  <2>1. Len(text') \in Nat /\ Len(request.environ) \in Nat /\ request' = request /\ i' = i
    BY <1>1, <1>2, RequestAssumption DEF Read, Text
  <2> QED BY <1>1, <2>1, MaxOfTwo
<1> QED BY <1>2, <1>3 DEF TypeInv, TypeOK, Read, GoTo

(* The bounds of the two loops over a text and over the environment.       *)
LEMMA IndexBounds ==
  ASSUME TypeInv
  PROVE  /\ Len(text) \in Nat /\ Len(request.environ) \in Nat
         /\ Max({Len(text), Len(request.environ)}) \in Nat
         /\ Len(text) <= Max({Len(text), Len(request.environ)})
         /\ Len(request.environ) <= Max({Len(text), Len(request.environ)})
<1>1. Len(text) \in Nat /\ Len(request.environ) \in Nat
  BY RequestAssumption DEF TypeInv, TypeOK, EnvironmentInv, Text
<1> QED BY <1>1, MaxOfTwo

(* urlDecode appends bytes and stays within three of the end.              *)
LEMMA DecodeTypes ==
  ASSUME TypeInv, DecodeEscape \/ DecodePlain, UNCHANGED <<script, at, result>>
  PROVE  TypeOK'
<1>1. /\ text \in Text /\ decoded \in Text /\ ii \in 0 .. 255 /\ i \in Nat \ {0} /\ i <= Len(text)
      /\ Len(text) \in Nat
  BY IndexBounds DEF TypeInv, TypeOK, DecodeEscape, DecodePlain
<1>2. text[i] \in 0 .. 255
  BY <1>1, ElementOfSeq DEF Text
<1>3. CASE DecodePlain
  <2>1. decoded' \in Text
    BY <1>1, <1>2, <1>3 DEF DecodePlain, Text
  <2> QED BY <1>1, <1>3, <2>1, IndexBounds DEF TypeInv, TypeOK, DecodePlain
<1>4. CASE DecodeEscape
  <2> DEFINE e == Min({i + 2, Len(text)})
             n == HexRead(SubSeq(text, i + 1, e), ii)
  <2>1. e \in 0 .. Len(text)
    <3>1. {i + 2, Len(text)} \in SUBSET Nat /\ {i + 2, Len(text)} # {}
      BY <1>1
    <3>2. e \in {i + 2, Len(text)} /\ e <= Len(text)
      BY <3>1, LeastElement
    <3> QED BY <1>1, <3>1, <3>2
  <2>2. n \in 0 .. 255
    <3>1. SubSeq(text, i + 1, e) \in Text
      BY <1>1, <2>1, SubText
    <3> QED BY <1>1, <3>1, HexReadByte
  <2>3. decoded' \in Text /\ ii' \in 0 .. 255
    <3>1. decoded' = Append(decoded, n) /\ ii' = n
      BY <1>4, Zenon DEF DecodeEscape
    <3> QED BY <1>1, <2>2, <3>1 DEF Text
  <2> QED BY <1>1, <1>4, <2>3, IndexBounds DEF TypeInv, TypeOK, DecodeEscape
<1> QED BY <1>3, <1>4

(* The decoded text is one, and the index starts again.                    *)
LEMMA DecodedTypes ==
  ASSUME TypeInv, Decoded, UNCHANGED <<script, at, result>>
  PROVE  TypeOK'
<1>1. text' \in Text /\ decoded' \in Text /\ i' = 1
  BY DEF TypeInv, TypeOK, Decoded, NoText, Text
<1>2. i' \in 1 .. Max({Len(text'), Len(request'.environ)}) + 3
  <2>1. Len(text') \in Nat /\ Len(request.environ) \in Nat /\ request' = request
    BY <1>1, IndexBounds DEF Decoded, Text
  <2> QED BY <1>1, <2>1, MaxOfTwo
<1> QED BY <1>1, <1>2 DEF TypeInv, TypeOK, Decoded, GoTo

(* The index goes to the next piece, or starts again.                      *)
LEMMA SplitTypes ==
  ASSUME TypeInv, Split, UNCHANGED <<script, at, result>>
  PROVE  TypeOK'
<1> DEFINE rest == SubSeq(text, i, Len(text))
           n == Find(rest, Amp)
<1>1. text \in Text /\ i \in Nat \ {0} /\ Len(text) \in Nat
  BY IndexBounds DEF TypeInv, TypeOK
<1>2. rest \in Text /\ Len(rest) = IF i <= Len(text) THEN Len(text) - i + 1 ELSE 0
  BY <1>1, SubText
<1>3. n \in 1 .. Len(rest) + 1
  <2> HIDE DEF rest
  <2> QED BY <1>2, FindPlace
<1>4. SubSeq(rest, 1, n - 1) \in Text
  <2> HIDE DEF rest, n
  <2> QED BY <1>1, <1>2, <1>3, SubText
<1>5. Range(symTable') \subseteq Text
  <2>1. symTable' = Assigned(symTable, Pair(SubSeq(rest, 1, n - 1)))
    BY Zenon DEF Split
  <2> HIDE DEF rest, n
  <2> QED BY <1>4, <2>1, PairTexts, AssignedTexts DEF TypeInv, TypeOK
<1>6. /\ stage' \in {"split", "environment"}
      /\ i' = 1 \/ (n <= Len(rest) /\ i' = i + n)
      /\ UNCHANGED <<request, text, ii, decoded>>
  BY DEF Split, GoTo
<1>7. i' \in 1 .. Len(text) + 3
  <2> HIDE DEF rest, n
  <2> QED BY <1>1, <1>2, <1>3, <1>6
<1> HIDE DEF rest, n
<1> QED BY <1>5, <1>6, <1>7, IndexBounds DEF TypeInv, TypeOK

(* One more entry of the environment in the table.                         *)
LEMMA StoreTypes ==
  ASSUME TypeInv, StoreEnvironment, UNCHANGED <<script, at, result>>
  PROVE  TypeOK'
<1>1. i \in 1 .. Len(request.environ) /\ request.environ \in Seq(Text)
  BY IndexBounds, RequestAssumption DEF TypeInv, TypeOK, EnvironmentInv, StoreEnvironment
<1>2. Range(symTable') \subseteq Text
  BY <1>1, ElementOfSeq, PairTexts, AssignedTexts DEF TypeInv, TypeOK, StoreEnvironment
<1> QED BY <1>1, <1>2, IndexBounds DEF TypeInv, TypeOK, StoreEnvironment

(* The states before this one assign texts.                                *)
LEMMA BeginScriptTypes ==
  ASSUME TypeInv, BeginScript
  PROVE  TypeOK'
<1>1. Range(symTable') \subseteq Text
  BY ScriptAssumption, AssignedTexts DEF TypeInv, TypeOK, BeginScript
<1> QED BY <1>1 DEF TypeInv, TypeOK, BeginScript, GoTo

(* A reference is at most the rest of the text.                            *)
LEMMA SubstituteTypes ==
  ASSUME TypeInv, Substitute
  PROVE  TypeOK'
<1>1. /\ Rest \in Text /\ Len(script.source) \in Nat /\ at \in Nat \ {0}
      /\ Len(Rest) = Len(script.source) - at + 1 /\ Len(Rest) \in Nat
  BY RestText DEF TypeInv, TypeOK, Substitute, AtSign
<1>2. PICK n \in Found :
        /\ result' = result \o (IF Value(Tries[n], Reference(n)) = {} THEN NoText
                                ELSE CHOOSE v \in Value(Tries[n], Reference(n)) : TRUE)
        /\ at' = at + Len(Reference(n))
  BY Zenon DEF Substitute
<1>3. Len(Reference(n)) \in 1 .. Len(Rest)
  <2>1. is_variable(Tries[n], Rest) \in 1 .. Len(Rest)
    BY <1>1, MatchLength DEF Found
  <2> QED BY <1>1, <2>1, SubText DEF Reference
<1>4. at' \in 1 .. Len(script.source) + 2
  BY <1>1, <1>2, <1>3
<1>5. result' \in Text
  <2> DEFINE values == Value(Tries[n], Reference(n))
             new == IF values = {} THEN NoText ELSE CHOOSE v \in values : TRUE
  <2>1. \A v \in values : v \in Text
    BY ValueTexts
  <2>2. new \in Text
    <3> HIDE DEF values
    <3>1. NoText \in Text
      BY DEF NoText, Text
    <3> QED BY <2>1, <3>1
  <2>3. result \in Text /\ result' = result \o new
    BY <1>2 DEF TypeInv, TypeOK
  <2> HIDE DEF new
  <2> QED BY <2>2, <2>3, ConcatProperties DEF Text
<1>6. UNCHANGED <<stage, request, text, i, ii, decoded, symTable, script>>
  BY Zenon DEF Substitute
<1> QED BY <1>4, <1>5, <1>6 DEF TypeInv, TypeOK

(* What evaluate copies is a character, or the terminator.                 *)
LEMMA CopyTypes ==
  ASSUME TypeInv, Escaped \/ Copy
  PROVE  TypeOK'
<1>1. /\ Rest \in Text /\ Len(script.source) \in Nat /\ at \in Nat \ {0}
      /\ at <= Len(script.source) /\ Len(Rest) = Len(script.source) - at + 1
  BY RestText DEF TypeInv, TypeOK, Escaped, Copy
<1>2. /\ Rest[1] \in 0 .. 255
      /\ Len(Rest) # 1 => Rest[2] \in 0 .. 255
  <2>1. 1 \in 1 .. Len(Rest) /\ (Len(Rest) # 1 => 2 \in 1 .. Len(Rest))
    BY <1>1
  <2> QED BY <1>1, <2>1, ElementOfSeq DEF Text
<1>3. /\ UNCHANGED <<stage, request, text, i, ii, decoded, symTable, script>>
      /\ at' \in {at + 1, at + 2}
      /\ \E c \in 0 .. 255 : result' = Append(result, c)
  <2>1. CASE Escaped
    <3>1. (IF Len(Rest) = 1 THEN 0 ELSE Rest[2]) \in 0 .. 255
      BY <1>2
    <3> QED BY <2>1, <3>1, Zenon DEF Escaped
  <2>2. CASE Copy
    BY <1>2, <2>2, Zenon DEF Copy
  <2> QED BY <2>1, <2>2
<1>4. result' \in Text
  BY <1>3 DEF TypeInv, TypeOK, Text
<1> QED BY <1>1, <1>3, <1>4 DEF TypeInv, TypeOK

(* Every step keeps the types.                                             *)
LEMMA StepTypes ==
  ASSUME TypeInv, [Next]_vars
  PROVE  TypeInv'
<1>1. EnvironmentInv'
  BY EnvironmentStep DEF TypeInv
<1>2. script' \in Script
  BY DEF TypeInv, Next, vars, BeginScript, Evaluating, Substitute, SubstituteThrows, Escaped,
         Copy, Evaluated
<1>3. TypeOK'
  <2>1. CASE UNCHANGED vars
    BY <2>1 DEF vars, readVars, TypeInv, TypeOK
  <2>2. CASE Reading /\ UNCHANGED <<script, at, result>>
    <3>1. CASE ReadFails \/ NoParameters \/ NoSelector \/ Selected
      BY <2>2, <3>1, PlaceTypes DEF ReadFails, NoParameters, NoSelector, Selected, GoTo, Ending
    <3> QED BY <2>2, <3>1, ReadTypes, DecodeTypes, DecodedTypes, SplitTypes, StoreTypes DEF Reading
  <2>3. CASE Evaluating
    <3>1. CASE SubstituteThrows \/ Evaluated
      BY <3>1, PlaceTypes DEF SubstituteThrows, Evaluated, GoTo, Ending
    <3> QED BY <2>3, <3>1, SubstituteTypes, CopyTypes DEF Evaluating
  <2> QED BY <2>1, <2>2, <2>3, BeginScriptTypes DEF Next
<1> QED BY <1>1, <1>2, <1>3 DEF TypeInv

(* Whatever a request, its environment and a script contain: no loop over  *)
(* a text looks further past its end than the loop's step allows, what     *)
(* urlDecode takes for a character is one, and every variable is a text.   *)
THEOREM TypesHold == Spec => []TypeOK
<1>1. TypeInv => TypeOK
  BY DEF TypeInv
<1> QED BY <1>1, TypeInit, StepTypes, PTL DEF Spec

-----------------------------------------------------------------------------
(* A text in pieces.  What holds of a place if it holds of all later ones  *)
(* holds of all places.                                                    *)
LEMMA FromTheEnd ==
  ASSUME NEW p \in Nat, NEW q \in Nat, NEW S,
         \A k \in p .. q : k + 1 .. q \subseteq S => k \in S
  PROVE  p .. q \subseteq S
<1> DEFINE missing == {d \in Nat : q - d \in p .. q /\ q - d \notin S}
<1> SUFFICES ASSUME NEW k \in p .. q, k \notin S PROVE FALSE
  OBVIOUS
<1>1. q - k \in missing
  <2>1. q - k \in Nat /\ q - (q - k) = k
    OBVIOUS
  <2> QED BY <2>1
<1>2. PICK d \in missing : \A e \in missing : d <= e
  <2>1. missing \in SUBSET Nat /\ missing # {}
    BY <1>1
  <2> HIDE DEF missing
  <2> QED BY <2>1, LeastElement
<1>3. q - d + 1 .. q \subseteq S
  <2> SUFFICES ASSUME NEW j \in q - d + 1 .. q, j \notin S PROVE FALSE
    OBVIOUS
  <2>1. q - j \in Nat /\ q - (q - j) = j /\ j \in p .. q /\ q - j < d
    BY <1>2
  <2>2. q - j \in missing
    BY <2>1
  <2> QED BY <1>2, <2>1, <2>2
<1> QED BY <1>2, <1>3

(* The recursive functions of Concatenated exist, and two of them agree    *)
(* where both are defined, since each place looks only at later ones.      *)
Pieces(word, next, p, q) ==
  /\ p \in Nat \ {0} /\ q \in Nat /\ p <= q + 3
  /\ \A k \in p .. q : word[k] \in Text /\ next[k] \in k + 1 .. q + 3

From(h, word, next, p, q) ==
  h = [k \in p .. q + 3 |-> IF k > q THEN NoText ELSE word[k] \o h[next[k]]]

(* By what holds of all later places: one more piece in front.             *)
LEMMA FromExists ==
  ASSUME NEW word, NEW next, NEW p, NEW q, Pieces(word, next, p, q)
  PROVE  \E h : From(h, word, next, p, q)
<1> DEFINE with == {k \in p .. q + 3 : \E h : From(h, word, next, k, q)}
<1>1. p \in Nat \ {0} /\ q \in Nat /\ q + 3 \in Nat /\ p \in p .. q + 3
  BY DEF Pieces
<1>2. ASSUME NEW k \in p .. q + 3, k + 1 .. q + 3 \subseteq with
      PROVE  k \in with
  <2>1. CASE k > q
    <3> DEFINE h == [j \in k .. q + 3 |-> NoText]
    <3>1. \A j \in k .. q + 3 : h[j] = NoText /\ j > q
      BY <1>1, <2>1
    <3>2. h = [j \in k .. q + 3 |-> h[j]]
      OBVIOUS
    <3> HIDE DEF h
    <3>3. From(h, word, next, k, q)
      BY <3>1, <3>2 DEF From
    <3> QED BY <3>3
  <2>2. CASE k <= q
    <3>1. k + 1 \in with
      BY <1>1, <1>2, <2>2
    <3>2. PICK g : From(g, word, next, k + 1, q)
      BY <3>1
    <3> DEFINE value == word[k] \o g[next[k]]
               h == [j \in k .. q + 3 |-> IF j = k THEN value ELSE g[j]]
    <3>3. next[k] \in k + 1 .. q + 3 /\ k \in k .. q + 3
      BY <1>1, <2>2 DEF Pieces
    <3>4. h[k] = value /\ \A j \in k + 1 .. q + 3 : h[j] = g[j]
      <4>1. \A j \in k + 1 .. q + 3 : j \in k .. q + 3 /\ j # k
        BY <1>1
      <4> HIDE DEF value
      <4> QED BY <3>3, <4>1
    <3>5. ASSUME NEW j \in k .. q + 3
          PROVE  h[j] = IF j > q THEN NoText ELSE word[j] \o h[next[j]]
      <4>1. CASE j = k
        <5>1. h[k] = word[k] \o h[next[k]] /\ ~(k > q)
          <6>1. h[next[k]] = g[next[k]] /\ ~(k > q)
            <7> HIDE DEF h, value
            <7> QED BY <1>1, <2>2, <3>3, <3>4
          <6> HIDE DEF h
          <6> QED BY <3>4, <6>1
        <5> QED BY <4>1, <5>1
      <4>2. CASE j # k
        <5>1. j \in k + 1 .. q + 3 /\ h[j] = g[j]
          BY <1>1, <2>2, <3>4, <4>2
        <5>2. g[j] = IF j > q THEN NoText ELSE word[j] \o g[next[j]]
          BY <3>2, <5>1 DEF From
        <5>3. j <= q => next[j] \in k + 1 .. q + 3
          BY <1>1, <2>2, <5>1 DEF Pieces
        <5>4. j <= q => h[next[j]] = g[next[j]]
          BY <1>1, <2>2, <3>4, <5>3
        <5> HIDE DEF h
        <5> QED BY <1>1, <2>2, <5>1, <5>2, <5>4
      <4> QED BY <4>1, <4>2
    <3>6. h = [j \in k .. q + 3 |-> h[j]]
      OBVIOUS
    <3> HIDE DEF h
    <3>7. From(h, word, next, k, q)
      BY <3>5, <3>6 DEF From
    <3> QED BY <3>7
  <2> QED BY <1>1, <2>1, <2>2
<1>3. p .. q + 3 \subseteq with
  <2> HIDE DEF with
  <2> QED BY <1>1, <1>2, FromTheEnd
<1> QED BY <1>1, <1>3

(* Two of them agree from the later of their first places on.              *)
LEMMA FromAgree ==
  ASSUME NEW word, NEW next, NEW p, NEW q, NEW r, Pieces(word, next, p, q), r \in p .. q + 3,
         NEW g, NEW h, From(g, word, next, p, q), From(h, word, next, r, q)
  PROVE  g[r] = h[r]
<1> DEFINE same == {k \in r .. q + 3 : g[k] = h[k]}
<1>1. p \in Nat \ {0} /\ q \in Nat /\ r \in Nat /\ q + 3 \in Nat
  BY DEF Pieces
<1>2. ASSUME NEW k \in r .. q + 3, k + 1 .. q + 3 \subseteq same
      PROVE  k \in same
  <2>1. /\ g[k] = IF k > q THEN NoText ELSE word[k] \o g[next[k]]
        /\ h[k] = IF k > q THEN NoText ELSE word[k] \o h[next[k]]
    <3>1. k \in p .. q + 3
      BY <1>1
    <3> QED BY <3>1 DEF From
  <2>2. CASE k > q
    BY <2>1, <2>2
  <2>3. CASE k <= q
    <3>1. next[k] \in k + 1 .. q + 3
      BY <1>1, <2>3 DEF Pieces
    <3>2. g[next[k]] = h[next[k]]
      BY <1>2, <3>1
    <3> QED BY <2>1, <3>2
  <2> QED BY <1>1, <2>2, <2>3
<1>3. r .. q + 3 \subseteq same
  <2> HIDE DEF same
  <2> QED BY <1>1, <1>2, FromTheEnd
<1> QED BY <1>1, <1>3

(* So what is put together is what any of them says.                       *)
LEMMA ConcatenatedFrom ==
  ASSUME NEW word, NEW next, NEW p, NEW q, Pieces(word, next, p, q)
  PROVE  \E h : From(h, word, next, p, q) /\ Concatenated(word, next, p, q) = h[p]
<1> DEFINE f == CHOOSE h : From(h, word, next, p, q)
<1>1. From(f, word, next, p, q)
  BY FromExists
<1>2. Concatenated(word, next, p, q) = f[p]
  BY DEF Concatenated, From
<1> QED BY <1>1, <1>2

(* The first piece, and then the others.                                   *)
LEMMA FirstPiece ==
  ASSUME NEW word, NEW next, NEW p, NEW q, Pieces(word, next, p, q)
  PROVE  Concatenated(word, next, p, q) =
           IF p > q THEN NoText ELSE word[p] \o Concatenated(word, next, next[p], q)
<1>1. PICK h : From(h, word, next, p, q) /\ Concatenated(word, next, p, q) = h[p]
  BY ConcatenatedFrom
<1>2. p \in p .. q + 3
  BY DEF Pieces
<1>3. h[p] = IF p > q THEN NoText ELSE word[p] \o h[next[p]]
  BY <1>1, <1>2 DEF From
<1>4. ASSUME p <= q
      PROVE  Concatenated(word, next, next[p], q) = h[next[p]]
  <2>1. next[p] \in p + 1 .. q + 3 /\ p \in Nat \ {0} /\ q \in Nat
    BY <1>4 DEF Pieces
  <2>2. Pieces(word, next, next[p], q) /\ next[p] \in p .. q + 3
    BY <2>1 DEF Pieces
  <2>3. PICK g : /\ From(g, word, next, next[p], q)
                 /\ Concatenated(word, next, next[p], q) = g[next[p]]
    BY <2>2, ConcatenatedFrom
  <2>4. h[next[p]] = g[next[p]]
    BY <1>1, <2>2, <2>3, FromAgree
  <2> QED BY <2>3, <2>4
<1>5. p > q \/ p <= q
  BY DEF Pieces
<1> QED BY <1>1, <1>3, <1>4, <1>5

(* What is put together from texts of some characters is one.              *)
LEMMA ConcatenatedType ==
  ASSUME NEW word, NEW next, NEW p, NEW q, Pieces(word, next, p, q),
         NEW C, \A k \in p .. q : word[k] \in Seq(C)
  PROVE  Concatenated(word, next, p, q) \in Seq(C)
<1> DEFINE of(k) == Concatenated(word, next, k, q)
           good == {k \in p .. q + 3 : of(k) \in Seq(C)}
<1>1. p \in Nat \ {0} /\ q \in Nat /\ q + 3 \in Nat /\ p \in p .. q + 3
  BY DEF Pieces
<1>2. ASSUME NEW k \in p .. q + 3, k + 1 .. q + 3 \subseteq good
      PROVE  k \in good
  <2>1. Pieces(word, next, k, q)
    BY <1>1 DEF Pieces
  <2>2. of(k) = IF k > q THEN NoText ELSE word[k] \o of(next[k])
    BY <2>1, FirstPiece
  <2>3. CASE k > q
    BY <2>2, <2>3 DEF NoText
  <2>4. CASE k <= q
    <3>1. next[k] \in k + 1 .. q + 3 /\ word[k] \in Seq(C)
      BY <1>1, <2>4 DEF Pieces
    <3>2. of(next[k]) \in Seq(C)
      BY <1>2, <3>1
    <3>3. word[k] \o of(next[k]) \in Seq(C)
      <4> HIDE DEF of
      <4> QED BY <3>1, <3>2, ConcatProperties
    <3>4. ~(k > q)
      BY <1>1, <2>4
    <3> HIDE DEF of
    <3> QED BY <2>2, <3>3, <3>4
  <2> QED BY <1>1, <2>3, <2>4
<1>3. p .. q + 3 \subseteq good
  <2> HIDE DEF good
  <2> QED BY <1>1, <1>2, FromTheEnd
<1> QED BY <1>1, <1>3

(* What is read up to a place between two pieces begins the whole.         *)
LEMMA ConcatenatedSplit ==
  ASSUME NEW word, NEW next, NEW p, NEW q, Pieces(word, next, p, q),
         NEW b \in Nat, p - 1 <= b, b <= q, \A k \in p .. b : next[k] <= b + 1
  PROVE  Concatenated(word, next, p, q) =
           Concatenated(word, next, p, b) \o Concatenated(word, next, b + 1, q)
<1> DEFINE whole(k) == Concatenated(word, next, k, q)
           part(k) == Concatenated(word, next, k, b)
           good == {k \in p .. b + 1 : whole(k) = part(k) \o whole(b + 1)}
<1>1. p \in Nat \ {0} /\ q \in Nat /\ b + 1 \in Nat /\ p \in p .. b + 1 /\ b + 1 \in p .. b + 1
  BY DEF Pieces
<1>2. \A k \in p .. b + 1 : Pieces(word, next, k, q) /\ Pieces(word, next, k, b)
  BY <1>1 DEF Pieces
<1>3. \A k \in p .. b + 1 : whole(k) \in Text /\ part(k) \in Text
  <2> SUFFICES ASSUME NEW k \in p .. b + 1 PROVE whole(k) \in Text /\ part(k) \in Text
    OBVIOUS
  <2>1. \A j \in k .. q : word[j] \in Seq(0 .. 255)
    BY <1>2 DEF Pieces, Text
  <2>2. \A j \in k .. b : word[j] \in Seq(0 .. 255)
    BY <1>2 DEF Pieces, Text
  <2> QED BY <1>2, <2>1, <2>2, ConcatenatedType DEF Text
<1>4. \A k \in p .. b + 1 :
        /\ whole(k) = IF k > q THEN NoText ELSE word[k] \o whole(next[k])
        /\ part(k) = IF k > b THEN NoText ELSE word[k] \o part(next[k])
  BY <1>2, FirstPiece
<1> HIDE DEF whole, part
<1>5. ASSUME NEW k \in p .. b + 1, k + 1 .. b + 1 \subseteq good
      PROVE  k \in good
  <2>1. CASE k = b + 1
    <3>1. part(k) = NoText /\ whole(k) \in Text
      <4>1. b + 1 > b
        BY <1>1
      <4> QED BY <1>1, <1>3, <1>4, <2>1, <4>1
    <3>2. <<>> \o whole(k) = whole(k)
      BY <3>1, ConcatEmptySeq DEF Text
    <3> QED BY <2>1, <3>1, <3>2 DEF NoText
  <2>2. CASE k # b + 1
    <3>1. k \in p .. b /\ k \in p .. q
      BY <1>1, <2>2
    <3>2. next[k] \in k + 1 .. b + 1 /\ word[k] \in Text
      BY <1>1, <3>1 DEF Pieces
    <3>3. whole(next[k]) = part(next[k]) \o whole(b + 1) /\ next[k] \in p .. b + 1
      BY <1>5, <3>2
    <3>4. part(next[k]) \in Text /\ whole(b + 1) \in Text
      BY <1>1, <1>3, <3>3
    <3>5. word[k] \o (part(next[k]) \o whole(b + 1)) = (word[k] \o part(next[k])) \o whole(b + 1)
      <4> DEFINE x == word[k]
                 y == part(next[k])
                 z == whole(b + 1)
      <4>1. x \in Text /\ y \in Text /\ z \in Text
        BY <3>2, <3>4
      <4> HIDE DEF x, y, z
      <4>2. x \o (y \o z) = (x \o y) \o z
        BY <4>1, ConcatAssociative DEF Text
      <4> QED BY <4>2 DEF x, y, z
    <3>6. whole(k) = word[k] \o whole(next[k]) /\ part(k) = word[k] \o part(next[k])
      <4>1. ~(k > q) /\ ~(k > b) /\ k \in p .. b + 1
        BY <1>1, <3>1
      <4> QED BY <1>4, <4>1
    <3> QED BY <3>3, <3>5, <3>6
  <2> QED BY <2>1, <2>2
<1>6. p .. b + 1 \subseteq good
  <2> HIDE DEF good
  <2> QED BY <1>1, <1>5, FromTheEnd
<1> QED BY <1>1, <1>6 DEF whole, part

-----------------------------------------------------------------------------
(* Where the first of a character stands.                                  *)
LEMMA FindFirst ==
  ASSUME NEW s \in Text, NEW c
  PROVE  /\ Find(s, c) \in 1 .. Len(s) + 1
         /\ \A k \in 1 .. Find(s, c) - 1 : s[k] # c
         /\ Find(s, c) <= Len(s) => s[Find(s, c)] = c
<1> DEFINE places == {k \in 1 .. Len(s) : s[k] = c} \cup {Len(s) + 1}
<1>1. Len(s) \in Nat
  BY DEF Text
<1>2. places \in SUBSET Nat /\ places # {}
  BY <1>1
<1>3. Min(places) \in places /\ \A y \in places : Min(places) <= y
  <2> HIDE DEF places
  <2> QED BY <1>2, LeastElement
<1>4. Find(s, c) \in places /\ \A y \in places : Find(s, c) <= y
  BY <1>3 DEF Find
<1> QED BY <1>1, <1>4

(* The place before which the character is not, and where it is.           *)
LEMMA FindOnly ==
  ASSUME NEW s \in Text, NEW c, NEW n \in 1 .. Len(s) + 1,
         \A k \in 1 .. n - 1 : s[k] # c, n <= Len(s) => s[n] = c
  PROVE  Find(s, c) = n
<1>1. Len(s) \in Nat
  BY DEF Text
<1>2. Find(s, c) <= n
  <2> SUFFICES ASSUME Find(s, c) > n PROVE FALSE
    BY <1>1, FindFirst
  <2>1. n <= Len(s) /\ n \in 1 .. Find(s, c) - 1
    BY <1>1, FindFirst
  <2> QED BY <2>1, FindFirst
<1>3. ~(Find(s, c) < n)
  <2> SUFFICES ASSUME Find(s, c) < n PROVE FALSE
    OBVIOUS
  <2>1. Find(s, c) <= Len(s) /\ Find(s, c) \in 1 .. n - 1
    BY <1>1, FindFirst
  <2> QED BY <2>1, FindFirst
<1> QED BY <1>1, <1>2, <1>3, FindFirst

(* The characters of a part, and how many they are.                        *)
LEMMA PartOf ==
  ASSUME NEW s \in Text, NEW m \in Nat \ {0}, NEW n \in 0 .. Len(s)
  PROVE  /\ SubSeq(s, m, n) \in Text
         /\ Len(SubSeq(s, m, n)) = IF m <= n THEN n - m + 1 ELSE 0
         /\ \A k \in 1 .. Len(SubSeq(s, m, n)) : SubSeq(s, m, n)[k] = s[m + k - 1]
<1>1. \A k \in m .. n : s[k] \in 0 .. 255
  <2>1. Len(s) \in Nat /\ \A k \in 1 .. Len(s) : s[k] \in 0 .. 255
    BY ElementOfSeq, LenProperties DEF Text
  <2> QED BY <2>1
<1>2. \A k \in 1 .. n - m + 1 : SubSeq(s, m, n)[k] = s[m + k - 1]
  BY <1>1, SubSeqProperties
<1>3. SubSeq(s, m, n) \in Text /\ Len(SubSeq(s, m, n)) = IF m <= n THEN n - m + 1 ELSE 0
  BY SubText
<1> QED BY <1>1, <1>2, <1>3

(* A text without the character, and then nothing or the character.        *)
LEMMA FindBetween ==
  ASSUME NEW c, NEW a \in Seq(0 .. 255 \ {c}), NEW b \in Text, b # <<>> => b[1] = c
  PROVE  /\ Find(a \o b, c) = Len(a) + 1
         /\ SubSeq(a \o b, 1, Len(a)) = a
         /\ SubSeq(a \o b, Len(a) + 2, Len(a \o b)) = SubSeq(b, 2, Len(b))
         /\ Len(a) + 1 <= Len(a \o b) <=> b # <<>>
<1>1. /\ a \in Text /\ a \o b \in Text /\ Len(a) \in Nat /\ Len(b) \in Nat
      /\ Len(a \o b) = Len(a) + Len(b)
      /\ \A k \in 1 .. Len(a \o b) : (a \o b)[k] = IF k <= Len(a) THEN a[k] ELSE b[k - Len(a)]
      /\ \A k \in 1 .. Len(a) : a[k] # c
  <2>1. \A k \in 1 .. Len(a) : a[k] \in 0 .. 255 \ {c}
    BY ElementOfSeq
  <2>2. a \in Text
    <3>1. \A k \in 1 .. Len(a) : a[k] \in 0 .. 255
      BY <2>1
    <3> QED BY <3>1, SeqDef, LenProperties DEF Text
  <2> QED BY <2>1, <2>2, ConcatProperties, LenProperties DEF Text
<1>2. b # <<>> <=> Len(b) >= 1
  BY <1>1, EmptySeq DEF Text
<1>3. Find(a \o b, c) = Len(a) + 1
  <2>1. Len(a) + 1 \in 1 .. Len(a \o b) + 1 /\ \A k \in 1 .. (Len(a) + 1) - 1 : (a \o b)[k] # c
    BY <1>1
  <2>2. Len(a) + 1 <= Len(a \o b) => (a \o b)[Len(a) + 1] = c
    BY <1>1, <1>2
  <2> DEFINE ab == a \o b
  <2>3. ab \in Text /\ Len(a) + 1 \in 1 .. Len(ab) + 1
    BY <1>1, <2>1
  <2>4. Find(ab, c) = Len(a) + 1
    <3> HIDE DEF ab
    <3> QED BY <2>1, <2>2, <2>3, FindOnly DEF ab
  <2> QED BY <2>4
<1>4. SubSeq(a \o b, 1, Len(a)) = a
  BY <1>1, SubSeqOfConcat1 DEF Text
<1>5. SubSeq(a \o b, Len(a) + 2, Len(a \o b)) = SubSeq(b, 2, Len(b))
  <2> DEFINE x == SubSeq(a \o b, Len(a) + 2, Len(a \o b))
             y == SubSeq(b, 2, Len(b))
  <2>1. /\ Len(x) = IF Len(b) >= 2 THEN Len(b) - 1 ELSE 0
        /\ x \in Text /\ \A k \in 1 .. Len(x) : x[k] = (a \o b)[Len(a) + 1 + k]
    <3> DEFINE ab == a \o b
    <3>1. ab \in Text /\ Len(a) + 2 \in Nat \ {0} /\ Len(ab) \in 0 .. Len(ab)
      BY <1>1
    <3>2. /\ x \in Text
          /\ Len(x) = IF Len(a) + 2 <= Len(ab) THEN Len(ab) - (Len(a) + 2) + 1 ELSE 0
          /\ \A k \in 1 .. Len(x) : x[k] = ab[Len(a) + 2 + k - 1]
      <4> HIDE DEF ab
      <4> QED BY <3>1, PartOf DEF ab
    <3> QED BY <1>1, <3>2
  <2>2. /\ Len(y) = IF Len(b) >= 2 THEN Len(b) - 1 ELSE 0
        /\ y \in Text /\ \A k \in 1 .. Len(y) : y[k] = b[k + 1]
    BY <1>1, PartOf
  <2>3. \A k \in 1 .. Len(x) : x[k] = y[k]
    BY <1>1, <2>1, <2>2
  <2> HIDE DEF x, y
  <2>4. x = y
    BY <2>1, <2>2, <2>3, SeqEqual DEF Text
  <2> QED BY <2>4 DEF x, y
<1> QED BY <1>1, <1>2, <1>3, <1>4, <1>5

(* The characters of a part of a text.                                     *)
LEMMA RangeOfPart ==
  ASSUME NEW s \in Text, NEW p \in Nat \ {0}, NEW q \in 0 .. Len(s), NEW c
  PROVE  c \in Range(SubSeq(s, p, q)) <=> \E k \in p .. q : s[k] = c
<1> DEFINE t == SubSeq(s, p, q)
<1>1. /\ Len(s) \in Nat /\ t \in Text /\ Len(t) = IF p <= q THEN q - p + 1 ELSE 0
      /\ \A k \in 1 .. Len(t) : t[k] = s[p + k - 1]
  <2>1. Len(s) \in Nat
    BY DEF Text
  <2> QED BY <2>1, PartOf
<1>2. Range(t) = {t[k] : k \in 1 .. Len(t)}
  <2>1. DOMAIN t = 1 .. Len(t)
    <3> HIDE DEF t
    <3> QED BY <1>1, LenProperties DEF Text
  <2> QED BY <2>1 DEF Range
<1> HIDE DEF t
<1>3. ASSUME c \in Range(t) PROVE \E k \in p .. q : s[k] = c
  <2>1. PICK k \in 1 .. Len(t) : t[k] = c
    BY <1>2, <1>3
  <2>2. p + k - 1 \in p .. q
    BY <1>1, <2>1
  <2> QED BY <1>1, <2>1, <2>2
<1>4. ASSUME NEW k \in p .. q, s[k] = c PROVE c \in Range(t)
  <2>1. k - p + 1 \in 1 .. Len(t) /\ p + (k - p + 1) - 1 = k
    BY <1>1
  <2>2. t[k - p + 1] = c
    BY <1>1, <1>4, <2>1
  <2> QED BY <1>2, <2>1, <2>2
<1> QED BY <1>3, <1>4 DEF t

-----------------------------------------------------------------------------
(* What a well escaped text stands for.                                    *)
Stands(s) == [k \in DOMAIN s |-> <<IF s[k] = Percent THEN Byte(s, k) ELSE s[k]>>]
After(s) == [k \in DOMAIN s |-> IF s[k] = Percent THEN k + 3 ELSE k + 1]

(* The reference in terms of what each place stands for.                   *)
LEMMA PlainTextDef ==
  ASSUME NEW s, NEW p, NEW q
  PROVE  PlainText(s, p, q) = Concatenated(Stands(s), After(s), p, q)
BY DEF PlainText, Stands, After

(* Of two digits sscanf makes the byte they spell.                         *)
LEMMA HexReadTwo ==
  ASSUME NEW s \in Text, NEW k \in 1 .. Len(s), k + 2 <= Len(s),
         s[k + 1] \in DOMAIN Digit, s[k + 2] \in DOMAIN Digit, NEW old
  PROVE  HexRead(SubSeq(s, k + 1, k + 2), old) = Byte(s, k)
<1> DEFINE t == SubSeq(s, k + 1, k + 2)
<1>1. Len(s) \in Nat
  BY DEF Text
<1>2. t \in Text /\ Len(t) = 2 /\ t[1] = s[k + 1] /\ t[2] = s[k + 2]
  <2>1. k + 1 \in Nat \ {0} /\ k + 2 \in 0 .. Len(s)
    BY <1>1
  <2>2. /\ t \in Text /\ Len(t) = IF k + 1 <= k + 2 THEN k + 2 - (k + 1) + 1 ELSE 0
        /\ \A m \in 1 .. Len(t) : t[m] = s[k + 1 + m - 1]
    BY <2>1, PartOf
  <2>3. Len(t) = 2
    BY <2>2
  <2>4. t[1] = s[k + 1 + 1 - 1] /\ t[2] = s[k + 1 + 2 - 1]
    <3> HIDE DEF t
    <3> QED BY <2>2, <2>3
  <2> QED BY <2>2, <2>3, <2>4
<1>3. t # NoText
  BY <1>2 DEF NoText
<1> HIDE DEF t, Digit
<1>4. HexRead(t, old) = 16 * Digit[t[1]] + Digit[t[2]]
  BY <1>2, <1>3 DEF HexRead
<1> QED BY <1>2, <1>4 DEF t, Byte

(* What well escaped says of each place.                                   *)
LEMMA EscapeMeans ==
  ASSUME NEW s \in Text, WellEscaped(s), NEW k \in 1 .. Len(s)
  PROVE  /\ s[k] \in 0 .. 255 \ {0}
         /\ s[k] = Percent =>
              /\ k + 2 <= Len(s) /\ s[k + 1] \in DOMAIN Digit /\ s[k + 2] \in DOMAIN Digit
              /\ Byte(s, k) \in 0 .. 255 \ {0, Amp}
              /\ Byte(s, k) = Equals =>
                   \E j \in 1 .. k : s[j] = Equals /\ \A m \in j .. k : s[m] # Amp
<1>1. Len(s) \in Nat /\ s[k] \in 0 .. 255 /\ s[k] # 0
  BY ElementOfSeq, LenProperties DEF Text, WellEscaped
<1>2. ASSUME s[k] = Percent
      PROVE  /\ k + 2 <= Len(s) /\ s[k + 1] \in DOMAIN Digit /\ s[k + 2] \in DOMAIN Digit
             /\ Byte(s, k) \in 0 .. 255 \ {0, Amp}
             /\ Byte(s, k) = Equals =>
                  \E j \in 1 .. k : s[j] = Equals /\ \A m \in j .. k : s[m] # Amp
  <2>1. k + 2 <= Len(s) /\ s[k + 1] \in DOMAIN Digit /\ s[k + 2] \in DOMAIN Digit
    BY <1>2, Zenon DEF WellEscaped
  <2>2. HexRead(SubSeq(s, k + 1, k + 2), 0) = Byte(s, k)
    BY <2>1, HexReadTwo
  <2>3. Byte(s, k) \in 0 .. 255
    <3>1. SubSeq(s, k + 1, k + 2) \in Text
      <4>1. k + 1 \in Nat \ {0} /\ k + 2 \in 0 .. Len(s)
        BY <1>1, <2>1
      <4> QED BY <4>1, SubText
    <3>2. 0 \in 0 .. 255
      OBVIOUS
    <3> QED BY <2>2, <3>1, <3>2, HexReadByte, Zenon
  <2>4. /\ Byte(s, k) \notin {0, Amp}
        /\ Byte(s, k) = Equals => \E j \in 1 .. k : s[j] = Equals /\ Amp \notin Range(SubSeq(s, j, k))
    BY <1>2, <2>2, Zenon DEF WellEscaped
  <2>5. ASSUME NEW j \in 1 .. k, Amp \notin Range(SubSeq(s, j, k))
        PROVE  \A m \in j .. k : s[m] # Amp
    <3>1. j \in Nat \ {0} /\ k \in 0 .. Len(s)
      BY <1>1
    <3> QED BY <2>5, <3>1, RangeOfPart
  <2> QED BY <2>1, <2>3, <2>4, <2>5
<1> QED BY <1>1, <1>2

(* Each character stands for one, and a character for what is not the      *)
(* value of an escape.                                                     *)
LEMMA StandsFor ==
  ASSUME NEW s \in Text, WellEscaped(s), NEW k \in 1 .. Len(s)
  PROVE  \E c \in 0 .. 255 \ {0} :
           /\ Stands(s)[k] = <<c>>
           /\ s[k] # Amp => c # Amp
           /\ c = Equals => \E j \in 1 .. k : s[j] = Equals /\ \A m \in j .. k : s[m] # Amp
<1> DEFINE c == IF s[k] = Percent THEN Byte(s, k) ELSE s[k]
<1>1. Stands(s)[k] = <<c>>
  BY LenProperties DEF Stands, Text
<1>2. CASE s[k] = Percent
  BY <1>1, <1>2, EscapeMeans
<1>3. CASE s[k] # Percent
  <2>1. s[k] = Equals => \E j \in 1 .. k : s[j] = Equals /\ \A m \in j .. k : s[m] # Amp
    <3>1. \A m \in k .. k : m = k
      OBVIOUS
    <3>2. k \in 1 .. k
      BY DEF Text
    <3> QED BY <3>1, <3>2 DEF Equals, Amp
  <2> QED BY <1>1, <1>3, <2>1, EscapeMeans
<1> QED BY <1>2, <1>3

(* The pieces of a well escaped text.                                      *)
LEMMA PlainPieces ==
  ASSUME NEW s \in Text, WellEscaped(s),
         NEW p \in Nat \ {0}, NEW q \in 0 .. Len(s), p <= q + 3
  PROVE  /\ Pieces(Stands(s), After(s), p, q)
         /\ \A k \in p .. q : /\ After(s)[k] = IF s[k] = Percent THEN k + 3 ELSE k + 1
                              /\ k \in 1 .. Len(s)
<1>1. Len(s) \in Nat /\ DOMAIN s = 1 .. Len(s)
  BY LenProperties DEF Text
<1>2. ASSUME NEW k \in p .. q
      PROVE  /\ k \in 1 .. Len(s) /\ Stands(s)[k] \in Text
             /\ After(s)[k] = IF s[k] = Percent THEN k + 3 ELSE k + 1
             /\ After(s)[k] \in k + 1 .. q + 3
  <2>1. k \in 1 .. Len(s)
    BY <1>1
  <2>2. Stands(s)[k] \in Text
    <3>1. PICK c \in 0 .. 255 : Stands(s)[k] = <<c>>
      BY <2>1, StandsFor
    <3> QED BY <3>1 DEF Text
  <2>3. After(s)[k] = IF s[k] = Percent THEN k + 3 ELSE k + 1
    BY <1>1, <2>1 DEF After
  <2>4. After(s)[k] \in k + 1 .. q + 3
    BY <1>1, <2>1, <2>3
  <2> QED BY <2>1, <2>2, <2>3, <2>4
<1> QED BY <1>1, <1>2 DEF Pieces

(* Read from the front: an escape or a character, then the rest.           *)
LEMMA PlainFirst ==
  ASSUME NEW s \in Text, WellEscaped(s),
         NEW p \in Nat \ {0}, NEW q \in 0 .. Len(s), p <= q + 3
  PROVE  /\ p > q => PlainText(s, p, q) = NoText
         /\ p <= q /\ s[p] = Percent => PlainText(s, p, q) = <<Byte(s, p)>> \o PlainText(s, p + 3, q)
         /\ p <= q /\ s[p] # Percent => PlainText(s, p, q) = <<s[p]>> \o PlainText(s, p + 1, q)
<1>1. Pieces(Stands(s), After(s), p, q)
  BY PlainPieces
<1>2. PlainText(s, p, q) =
        IF p > q THEN NoText ELSE Stands(s)[p] \o PlainText(s, After(s)[p], q)
  BY <1>1, FirstPiece, PlainTextDef
<1>3. ASSUME p <= q
      PROVE  /\ After(s)[p] = IF s[p] = Percent THEN p + 3 ELSE p + 1
             /\ Stands(s)[p] = <<IF s[p] = Percent THEN Byte(s, p) ELSE s[p]>>
  <2>1. p \in p .. q
    BY <1>3
  <2>2. After(s)[p] = (IF s[p] = Percent THEN p + 3 ELSE p + 1) /\ p \in 1 .. Len(s)
    BY <2>1, PlainPieces
  <2> QED BY <2>2, LenProperties DEF Stands, Text
<1>4. ASSUME p <= q
      PROVE  /\ s[p] = Percent => PlainText(s, p, q) = <<Byte(s, p)>> \o PlainText(s, p + 3, q)
             /\ s[p] # Percent => PlainText(s, p, q) = <<s[p]>> \o PlainText(s, p + 1, q)
  <2>1. PlainText(s, p, q) = Stands(s)[p] \o PlainText(s, After(s)[p], q)
    <3>1. ~(p > q)
      BY <1>4 DEF Text
    <3> QED BY <1>2, <3>1, Zenon
  <2> QED BY <1>3, <1>4, <2>1, Zenon
<1> QED BY <1>2, <1>4

(* A text is read in parts, if none ends within an escape.                 *)
LEMMA PlainSplit ==
  ASSUME NEW s \in Text, WellEscaped(s),
         NEW p \in Nat \ {0}, NEW q \in 0 .. Len(s), NEW b \in p - 1 .. q,
         b < Len(s) => s[b + 1] \notin DOMAIN Digit
  PROVE  PlainText(s, p, q) = PlainText(s, p, b) \o PlainText(s, b + 1, q)
<1>1. Len(s) \in Nat
  BY DEF Text
<1>2. Pieces(Stands(s), After(s), p, q) /\ p <= q + 1 /\ b \in Nat /\ b \in 0 .. Len(s)
  BY <1>1, PlainPieces
<1>3. \A k \in p .. b : After(s)[k] <= b + 1
  <2> SUFFICES ASSUME NEW k \in p .. b, ~(After(s)[k] <= b + 1) PROVE FALSE
    OBVIOUS
  <2>1. k \in 1 .. Len(s) /\ k \in p .. q /\ After(s)[k] = IF s[k] = Percent THEN k + 3 ELSE k + 1
    BY <1>1, <1>2, PlainPieces
  <2>2. s[k] = Percent /\ b + 1 \in {k + 1, k + 2}
    BY <1>2, <2>1
  <2>3. k + 2 <= Len(s) /\ s[k + 1] \in DOMAIN Digit /\ s[k + 2] \in DOMAIN Digit
    BY <2>1, <2>2, EscapeMeans
  <2> QED BY <1>1, <1>2, <2>2, <2>3
<1>4. p - 1 <= b /\ b <= q
  BY <1>1
<1>5. Concatenated(Stands(s), After(s), p, q) =
        Concatenated(Stands(s), After(s), p, b) \o Concatenated(Stands(s), After(s), b + 1, q)
  <2> DEFINE word == Stands(s)
             next == After(s)
  <2>1. /\ Pieces(word, next, p, q) /\ b \in Nat /\ p - 1 <= b /\ b <= q
        /\ \A k \in p .. b : next[k] <= b + 1
    BY <1>2, <1>3, <1>4
  <2> HIDE DEF word, next
  <2>2. Concatenated(word, next, p, q) =
          Concatenated(word, next, p, b) \o Concatenated(word, next, b + 1, q)
    BY ONLY <2>1, ConcatenatedSplit, SMTT(30)
  <2> QED BY <2>2 DEF word, next
<1> QED BY <1>5, PlainTextDef

(* It has no zeros; no "&", unless it is written; and no "=" before the    *)
(* first one that is written.                                              *)
LEMMA PlainCharacters ==
  ASSUME NEW s \in Text, WellEscaped(s),
         NEW p \in Nat \ {0}, NEW q \in 0 .. Len(s), p <= q + 3
  PROVE  /\ PlainText(s, p, q) \in Seq(0 .. 255 \ {0})
         /\ (\A k \in p .. q : s[k] # Amp) => PlainText(s, p, q) \in Seq(0 .. 255 \ {Amp})
         /\ (p = 1 \/ s[p - 1] = Amp) /\ (\A k \in p .. q : s[k] # Equals) =>
              PlainText(s, p, q) \in Seq(0 .. 255 \ {Equals})
<1>1. Pieces(Stands(s), After(s), p, q) /\ Len(s) \in Nat
  BY PlainPieces DEF Text
<1>2. \A k \in p .. q : k \in 1 .. Len(s)
  BY PlainPieces
<1>3. ASSUME NEW C, \A k \in p .. q : \E c \in C : Stands(s)[k] = <<c>>
      PROVE  PlainText(s, p, q) \in Seq(C)
  <2>1. \A k \in p .. q : Stands(s)[k] \in Seq(C)
    <3>1. \A c \in C : <<c>> \in Seq(C)
      OBVIOUS
    <3> QED BY <1>3, <3>1
  <2> QED BY <1>1, <2>1, ConcatenatedType, PlainTextDef
<1>4. \A k \in p .. q : \E c \in 0 .. 255 \ {0} : Stands(s)[k] = <<c>>
  BY <1>2, StandsFor
<1>5. ASSUME \A k \in p .. q : s[k] # Amp
      PROVE  \A k \in p .. q : \E c \in 0 .. 255 \ {Amp} : Stands(s)[k] = <<c>>
  BY <1>2, <1>5, StandsFor
<1>6. ASSUME p = 1 \/ s[p - 1] = Amp, \A k \in p .. q : s[k] # Equals, NEW k \in p .. q
      PROVE  \E c \in 0 .. 255 \ {Equals} : Stands(s)[k] = <<c>>
  <2>1. PICK c \in 0 .. 255 \ {0} :
          /\ Stands(s)[k] = <<c>>
          /\ c = Equals => \E j \in 1 .. k : s[j] = Equals /\ \A m \in j .. k : s[m] # Amp
    BY <1>2, StandsFor
  <2>2. c # Equals
    <3> SUFFICES ASSUME NEW j \in 1 .. k, s[j] = Equals, \A m \in j .. k : s[m] # Amp
                 PROVE  FALSE
      BY <2>1
    <3>1. j < p
      BY <1>6
    <3>2. p - 1 \in j .. k /\ p # 1
      BY <3>1
    <3> QED BY <1>6, <3>2
  <2> QED BY <2>1, <2>2
<1> QED BY <1>3, <1>4, <1>5, <1>6

-----------------------------------------------------------------------------
(* The next place of a character, or the one after the end.                *)
NextIs(s, c, j, n, e) ==
  /\ e \in j .. n + 1
  /\ e = n + 1 \/ s[e] = c
  /\ \A k \in j .. e - 1 : s[k] # c

(* There is always such a place.                                           *)
LEMMA NextPlace ==
  ASSUME NEW s, NEW c, NEW j \in Nat, NEW n \in Nat, j <= n + 1
  PROVE  \E e : NextIs(s, c, j, n, e)
<1> DEFINE places == {k \in j .. n : s[k] = c} \cup {n + 1}
<1>1. PICK e \in places : \A y \in places : e <= y
  <2>1. places \in SUBSET Nat /\ places # {}
    OBVIOUS
  <2> HIDE DEF places
  <2> QED BY <2>1, LeastElement
<1>2. e \in j .. n + 1 /\ (e = n + 1 \/ s[e] = c)
  BY <1>1
<1>3. ASSUME NEW k \in j .. e - 1 PROVE s[k] # c
  BY <1>1, <1>2
<1> QED BY <1>2, <1>3 DEF NextIs

(* The pairs by their places.                                              *)
Starts(s, a) == a = 1 \/ s[a - 1] = Amp
Stops(s, b) == b = Len(s) \/ s[b + 1] = Amp

(* What the two places of a pair have in common.                           *)
LEMMA PairPlaces ==
  ASSUME NEW s \in Text, NEW p \in Pairs(s)
  PROVE  /\ p = <<p[1], p[2]>> /\ p[1] \in 1 .. Len(s) /\ p[2] \in p[1] .. Len(s)
         /\ Starts(s, p[1]) /\ Stops(s, p[2])
         /\ \A k \in p[1] .. p[2] : s[k] # Amp
         /\ \E k \in p[1] .. p[2] : s[k] = Equals
<1>1. /\ p \in (1 .. Len(s)) \X (1 .. Len(s)) /\ p[1] <= p[2] /\ Starts(s, p[1]) /\ Stops(s, p[2])
      /\ Amp \notin Range(SubSeq(s, p[1], p[2])) /\ Equals \in Range(SubSeq(s, p[1], p[2]))
  BY DEF Pairs, Starts, Stops
<1>2. p[1] \in Nat \ {0} /\ p[2] \in 0 .. Len(s) /\ Len(s) \in Nat
  BY <1>1 DEF Text
<1> QED BY <1>1, <1>2, RangeOfPart

(* And what is enough for two places to be a pair.                         *)
LEMMA IsPair ==
  ASSUME NEW s \in Text, NEW a \in 1 .. Len(s), NEW b \in a .. Len(s), Starts(s, a), Stops(s, b),
         \A k \in a .. b : s[k] # Amp, NEW f \in a .. b, s[f] = Equals
  PROVE  <<a, b>> \in Pairs(s)
<1>1. a \in Nat \ {0} /\ b \in 0 .. Len(s) /\ a <= b /\ <<a, b>> \in (1 .. Len(s)) \X (1 .. Len(s))
  BY DEF Text
<1>2. Amp \notin Range(SubSeq(s, a, b)) /\ Equals \in Range(SubSeq(s, a, b))
  BY <1>1, RangeOfPart
<1> QED BY <1>1, <1>2 DEF Pairs, Starts, Stops

(* A pair that begins in a piece is the piece.                             *)
LEMMA PairOfPiece ==
  ASSUME NEW s \in Text, NEW a \in 1 .. Len(s) + 1, NEW e \in a .. Len(s) + 1,
         e = Len(s) + 1 \/ s[e] = Amp, \A k \in a .. e - 1 : s[k] # Amp,
         NEW p \in Pairs(s), p[1] \in a .. e
  PROVE  p = <<a, e - 1>>
<1>1. Len(s) \in Nat
  BY DEF Text
<1>2. /\ p = <<p[1], p[2]>> /\ p[1] \in 1 .. Len(s) /\ p[2] \in p[1] .. Len(s)
      /\ \A k \in p[1] .. p[2] : s[k] # Amp
      /\ p[1] = 1 \/ s[p[1] - 1] = Amp
      /\ p[2] = Len(s) \/ s[p[2] + 1] = Amp
  BY PairPlaces DEF Starts, Stops
<1>3. p[1] = a
  <2> SUFFICES ASSUME p[1] # a PROVE FALSE
    OBVIOUS
  <2>1. p[1] - 1 \in a .. e - 1 /\ p[1] # 1
    BY <1>1
  <2> QED BY <1>2, <2>1
<1>4. ~(p[2] < e - 1)
  <2> SUFFICES ASSUME p[2] < e - 1 PROVE FALSE
    OBVIOUS
  <2>1. p[2] + 1 \in a .. e - 1 /\ p[2] # Len(s)
    BY <1>1, <1>2, <1>3
  <2> QED BY <1>2, <2>1
<1>5. ~(p[2] > e - 1)
  <2> SUFFICES ASSUME p[2] > e - 1 PROVE FALSE
    OBVIOUS
  <2>1. e \in p[1] .. p[2] /\ e <= Len(s)
    BY <1>1, <1>2, <1>3
  <2> QED BY <1>1, <1>2, <2>1
<1> QED BY <1>1, <1>2, <1>3, <1>4, <1>5

(* What Split makes of a piece: the pair that was sent, if it is one.      *)
LEMMA PairAsSent ==
  ASSUME NEW s \in Text, WellEscaped(s), NEW a \in 1 .. Len(s) + 1, NEW e \in a .. Len(s) + 1,
         Starts(s, a), e = Len(s) + 1 \/ s[e] = Amp, \A k \in a .. e - 1 : s[k] # Amp
  PROVE  \/ /\ <<a, e - 1>> \in Pairs(s)
            /\ Pair(PlainText(s, a, e - 1)) =
                 [x \in {NameIn(s, <<a, e - 1>>)} |-> ValueIn(s, <<a, e - 1>>)]
         \/ /\ Pair(PlainText(s, a, e - 1)) = NoTable
            /\ \A p \in Pairs(s) : p[1] \notin a .. e
<1> DEFINE b == e - 1
           piece == PlainText(s, a, b)
           P == <<a, b>>
<1>1. Len(s) \in Nat /\ a \in Nat \ {0} /\ b \in 0 .. Len(s) /\ a <= b + 1 /\ e = b + 1
  BY DEF Text
<1>2. PICK f \in a .. b + 1 : (f = b + 1 \/ s[f] = Equals) /\ \A k \in a .. f - 1 : s[k] # Equals
  <2>1. a \in Nat /\ b \in Nat /\ a <= b + 1
    BY <1>1
  <2>2. \E f : NextIs(s, Equals, a, b, f)
    BY <2>1, NextPlace, Zenon
  <2> QED BY <2>2 DEF NextIs
<1>3. f \in Nat \ {0} /\ f - 1 \in 0 .. Len(s) /\ f + 1 \in Nat \ {0} /\ f + 1 <= b + 3 /\ a <= (f - 1) + 3
  BY <1>1
<1>4. /\ PlainText(s, a, f - 1) \in Seq(0 .. 255 \ {Equals})
      /\ PlainText(s, f + 1, b) \in Seq(0 .. 255 \ {0})
      /\ PlainText(s, f + 1, b) \in Text
  <2>1. PlainText(s, a, f - 1) \in Seq(0 .. 255 \ {Equals})
    BY <1>1, <1>2, <1>3, PlainCharacters DEF Starts
  <2>2. PlainText(s, f + 1, b) \in Seq(0 .. 255 \ {0})
    BY <1>1, <1>3, PlainCharacters
  <2>3. 0 .. 255 \ {0} \subseteq 0 .. 255
    OBVIOUS
  <2> QED BY <2>1, <2>2, <2>3, SeqMonotonic DEF Text
<1>5. CASE f = b + 1
  <2>1. piece \in Seq(0 .. 255 \ {Equals})
    BY <1>1, <1>4, <1>5
  <2>2. /\ Find(piece \o <<>>, Equals) = Len(piece) + 1
        /\ Len(piece) + 1 <= Len(piece \o <<>>) <=> <<>> # <<>>
    <3>1. <<>> \in Text
      BY DEF Text
    <3> HIDE DEF piece
    <3> QED BY <2>1, <3>1, FindBetween
  <2>3. piece \o <<>> = piece
    <3> HIDE DEF piece
    <3> QED BY <2>1, ConcatEmptySeq
  <2>4. Find(piece, Equals) = Len(piece) + 1 /\ Len(piece) \in Nat
    <3> HIDE DEF piece
    <3> QED BY <2>1, <2>2, <2>3, LenProperties
  <2>5. Pair(piece) = NoTable
    <3> HIDE DEF piece
    <3> QED BY <2>4 DEF Pair
  <2>6. ASSUME NEW p \in Pairs(s), p[1] \in a .. e PROVE FALSE
    <3>1. p[1] = a /\ p[2] = b
      BY <1>1, <2>6, PairOfPiece
    <3>2. \E k \in a .. b : s[k] = Equals
      BY <3>1, PairPlaces
    <3> QED BY <1>1, <1>2, <1>5, <3>2
  <2> QED BY <2>5, <2>6
<1>6. CASE f # b + 1
  <2>1. f \in a .. b /\ s[f] = Equals /\ a \in 1 .. Len(s) /\ b \in a .. Len(s)
    BY <1>1, <1>2, <1>6
  <2>2. P \in Pairs(s)
    BY <1>1, <2>1, IsPair DEF Stops
  <2>3. PlainText(s, a, b) = PlainText(s, a, f - 1) \o PlainText(s, f, b)
    <3>1. f - 1 \in a - 1 .. b /\ (f - 1) + 1 = f /\ s[f] \notin DOMAIN Digit
      BY <1>1, <2>1 DEF Equals, Digit
    <3> DEFINE g == f - 1
    <3>2. g \in a - 1 .. b /\ (g < Len(s) => s[g + 1] \notin DOMAIN Digit)
      BY <3>1
    <3> HIDE DEF g
    <3>3. PlainText(s, a, b) = PlainText(s, a, g) \o PlainText(s, g + 1, b)
      BY <1>1, <3>2, PlainSplit
    <3> QED BY <3>1, <3>3 DEF g
  <2>4. PlainText(s, f, b) = <<Equals>> \o PlainText(s, f + 1, b)
    <3>1. s[f] # Percent /\ f <= b
      BY <1>1, <2>1 DEF Equals, Percent
    <3>2. f <= b + 3
      BY <1>1, <3>1
    <3> QED BY <1>1, <1>3, <2>1, <3>1, <3>2, PlainFirst
  <2> DEFINE name == PlainText(s, a, f - 1)
             value == PlainText(s, f + 1, b)
             tail == <<Equals>> \o value
  <2>5. piece = name \o tail
    BY <2>3, <2>4
  <2>6. tail \in Text /\ tail # <<>> /\ tail[1] = Equals /\ SubSeq(tail, 2, Len(tail)) = value
    <3>1. <<Equals>> \in Text /\ Len(<<Equals>>) = 1 /\ Equals \in 0 .. 255
      BY DEF Text, Equals
    <3> HIDE DEF value
    <3>2. value \in Text /\ Len(value) \in Nat
      BY <1>4, LenProperties DEF value, Text
    <3>4. /\ tail \in Text /\ Len(tail) = Len(value) + 1 /\ tail[1] = Equals
          /\ \A k \in 1 .. Len(value) : tail[k + 1] = value[k]
      <4>1. /\ tail \in Text /\ Len(tail) = Len(<<Equals>>) + Len(value)
            /\ \A k \in 1 .. Len(<<Equals>>) + Len(value) :
                 tail[k] = IF k <= Len(<<Equals>>) THEN <<Equals>>[k] ELSE value[k - Len(<<Equals>>)]
        BY <3>1, <3>2, ConcatProperties DEF Text
      <4>2. \A k \in 1 .. 1 + Len(value) : tail[k] = IF k <= 1 THEN <<Equals>>[k] ELSE value[k - 1]
        BY <3>1, <4>1
      <4>3. \A k \in 1 .. Len(value) : tail[k + 1] = value[k]
        <5> SUFFICES ASSUME NEW k \in 1 .. Len(value) PROVE tail[k + 1] = value[k]
          OBVIOUS
        <5>1. k + 1 \in 1 .. 1 + Len(value) /\ ~(k + 1 <= 1) /\ (k + 1) - 1 = k
          BY <3>2
        <5> HIDE DEF tail
        <5> QED BY <4>2, <5>1
      <4>4. tail[1] = Equals
        BY <3>2, <4>2
      <4> QED BY <3>1, <3>2, <4>1, <4>3, <4>4
    <3> DEFINE cut == SubSeq(tail, 2, Len(tail))
    <3> HIDE DEF tail
    <3>5. /\ cut \in Text /\ Len(cut) = IF 2 <= Len(tail) THEN Len(tail) - 2 + 1 ELSE 0
          /\ \A k \in 1 .. Len(cut) : cut[k] = tail[2 + k - 1]
      <4>1. 2 \in Nat \ {0} /\ Len(tail) \in 0 .. Len(tail)
        BY <3>2, <3>4
      <4> QED BY <3>4, <4>1, PartOf
    <3> HIDE DEF cut
    <3>6. Len(cut) = Len(value) /\ \A k \in 1 .. Len(cut) : cut[k] = value[k]
      <4>1. Len(cut) = Len(value)
        BY <3>2, <3>4, <3>5
      <4>2. \A k \in 1 .. Len(cut) : 2 + k - 1 = k + 1
        BY <3>2, <4>1
      <4> QED BY <3>4, <3>5, <4>1, <4>2
    <3>7. cut = value
      BY <3>2, <3>5, <3>6, SeqEqual DEF Text
    <3>8. tail # <<>>
      BY <3>2, <3>4
    <3> QED BY <3>4, <3>7, <3>8 DEF cut
  <2>7. /\ Find(piece, Equals) = Len(name) + 1 /\ SubSeq(piece, 1, Len(name)) = name
        /\ SubSeq(piece, Len(name) + 2, Len(piece)) = value
        /\ Len(name) + 1 <= Len(piece) /\ Len(name) \in Nat
    <3>1. name \in Seq(0 .. 255 \ {Equals})
      BY <1>4
    <3> HIDE DEF name, tail, value
    <3>2. /\ Find(name \o tail, Equals) = Len(name) + 1 /\ SubSeq(name \o tail, 1, Len(name)) = name
          /\ SubSeq(name \o tail, Len(name) + 2, Len(name \o tail)) = SubSeq(tail, 2, Len(tail))
          /\ Len(name) + 1 <= Len(name \o tail) <=> tail # <<>>
      <4>1. name \in Seq(0 .. 255 \ {Equals}) /\ tail \in Text /\ (tail # <<>> => tail[1] = Equals)
        BY <2>6, <3>1
      <4>2. Find(name \o tail, Equals) = Len(name) + 1
        BY <4>1, FindBetween, Zenon
      <4>3. SubSeq(name \o tail, 1, Len(name)) = name
        BY ONLY <4>1, FindBetween, SMTT(30)
      <4>4. SubSeq(name \o tail, Len(name) + 2, Len(name \o tail)) = SubSeq(tail, 2, Len(tail))
        BY ONLY <4>1, FindBetween, SMTT(30)
      <4>5. Len(name) + 1 <= Len(name \o tail) <=> tail # <<>>
        BY <4>1, FindBetween
      <4> QED BY <4>2, <4>3, <4>4, <4>5, Zenon
    <3> QED BY <2>5, <2>6, <3>1, <3>2, LenProperties
  <2>8. CString(value) = value
    <3> HIDE DEF value
    <3>1. value \in Seq(0 .. 255 \ {0}) /\ <<>> \in Text
      BY <1>4 DEF value, Text
    <3>2. /\ Find(value \o <<>>, 0) = Len(value) + 1
          /\ SubSeq(value \o <<>>, 1, Len(value)) = value
      BY <3>1, FindBetween
    <3>3. value \o <<>> = value /\ Len(value) \in Nat
      BY <3>1, ConcatEmptySeq, LenProperties
    <3>4. Find(value, 0) - 1 = Len(value) /\ SubSeq(value, 1, Len(value)) = value
      BY <3>2, <3>3
    <3> QED BY <3>4 DEF CString
  <2>9. Pair(piece) = [x \in {Local0(name)} |-> value]
    <3> HIDE DEF piece, name, value
    <3>1. /\ ~(Len(name) + 1 > Len(piece)) /\ (Len(name) + 1) - 1 = Len(name)
          /\ (Len(name) + 1) + 1 = Len(name) + 2
      <4>1. Len(piece) \in Nat
        <5>1. name \in Text /\ tail \in Text
          <6>1. 0 .. 255 \ {Equals} \subseteq 0 .. 255
            OBVIOUS
          <6> QED BY <1>4, <2>6, <6>1, SeqMonotonic DEF name, Text
        <5> HIDE DEF tail
        <5> QED BY <2>5, <5>1, ConcatProperties, LenProperties DEF Text
      <4> QED BY <2>7, <4>1
    <3> QED BY <2>7, <2>8, <3>1 DEF Pair
  <2>10. NameEnd(s, P) = f
    <3> DEFINE t == SubSeq(s, a, b)
    <3>1. /\ t \in Text /\ Len(t) = b - a + 1
          /\ \A k \in 1 .. Len(t) : t[k] = s[a + k - 1]
      <4>1. a \in Nat \ {0} /\ b \in 0 .. Len(s) /\ a <= b
        BY <1>1, <2>1
      <4> HIDE DEF b
      <4> QED BY <4>1, PartOf
    <3> HIDE DEF t
    <3>2. /\ f - a + 1 \in 1 .. Len(t) + 1 /\ f - a + 1 \in 1 .. Len(t) /\ a + (f - a + 1) - 1 = f
          /\ \A k \in 1 .. (f - a + 1) - 1 : k \in 1 .. Len(t) /\ a + k - 1 \in a .. f - 1
      BY <1>1, <2>1, <3>1
    <3>3. t[f - a + 1] = Equals /\ \A k \in 1 .. (f - a + 1) - 1 : t[k] # Equals
      BY <1>2, <2>1, <3>1, <3>2
    <3>4. Find(t, Equals) = f - a + 1
      BY <3>1, <3>2, <3>3, FindOnly
    <3>5. NameEnd(s, P) = a + Find(t, Equals) - 1
      BY DEF NameEnd, t
    <3> QED BY <1>1, <3>2, <3>4, <3>5
  <2>11. NameIn(s, P) = Local0(name) /\ ValueIn(s, P) = value
    BY <2>10 DEF NameIn, ValueIn
  <2> QED BY <2>2, <2>9, <2>11
<1> QED BY <1>5, <1>6

-----------------------------------------------------------------------------
(* The table after the pieces that begin before n: it has the names of     *)
(* their pairs, and of each name the last value.                           *)
LastOfName(s, n, p) ==
  /\ p \in Pairs(s) /\ p[1] < n
  /\ \A q \in Pairs(s) : q[1] < n /\ NameIn(s, q) = NameIn(s, p) => q[1] <= p[1]

SentBefore(table, s, n) ==
  /\ \A x : x \in DOMAIN table <=> \E p \in Pairs(s) : p[1] < n /\ NameIn(s, p) = x
  /\ \A p \in Pairs(s) : LastOfName(s, n, p) => table[NameIn(s, p)] = ValueIn(s, p)

(* Before the first piece nothing has been sent.                           *)
LEMMA NothingSent ==
  ASSUME NEW s \in Text
  PROVE  SentBefore(NoTable, s, 1)
<1>1. DOMAIN NoTable = {}
  BY DEF NoTable
<1>2. \A p \in Pairs(s) : ~(p[1] < 1)
  <2> SUFFICES ASSUME NEW p \in Pairs(s) PROVE ~(p[1] < 1)
    OBVIOUS
  <2>1. p[1] \in 1 .. Len(s)
    BY PairPlaces
  <2> QED BY <2>1 DEF Text
<1> QED BY <1>1, <1>2 DEF SentBefore, LastOfName

(* One more piece: its pair, if it is one, is added.                       *)
LEMMA PieceSent ==
  ASSUME NEW s \in Text, WellEscaped(s), NEW a \in 1 .. Len(s) + 1, NEW e \in a .. Len(s) + 1,
         Starts(s, a), e = Len(s) + 1 \/ s[e] = Amp, \A k \in a .. e - 1 : s[k] # Amp,
         NEW table, SentBefore(table, s, a)
  PROVE  SentBefore(Assigned(table, Pair(PlainText(s, a, e - 1))), s, e + 1)
<1> DEFINE new == Pair(PlainText(s, a, e - 1))
           both == Assigned(table, new)
           P == <<a, e - 1>>
<1>1. /\ DOMAIN both = DOMAIN table \cup DOMAIN new
      /\ \A x \in DOMAIN both : both[x] = IF x \in DOMAIN new THEN new[x] ELSE table[x]
  <2> HIDE DEF new
  <2> QED BY DEF Assigned
<1>2. \A p \in Pairs(s) : p[1] \in 1 .. Len(s)
  BY PairPlaces
<1>3. Len(s) \in Nat
  BY DEF Text
<1>4. CASE P \in Pairs(s) /\ new = [x \in {NameIn(s, P)} |-> ValueIn(s, P)]
  <2>1. DOMAIN new = {NameIn(s, P)} /\ new[NameIn(s, P)] = ValueIn(s, P)
    BY <1>4
  <2>2. P[1] = a
    OBVIOUS
  <2>3. \A p \in Pairs(s) : p[1] < e + 1 <=> p[1] < a \/ p = P
    <3> SUFFICES ASSUME NEW p \in Pairs(s) PROVE p[1] < e + 1 <=> p[1] < a \/ p = P
      OBVIOUS
    <3>1. p[1] \in a .. e => p = P
      BY PairOfPiece, Zenon
    <3>2. p[1] \in 1 .. Len(s)
      BY <1>2
    <3> HIDE DEF P
    <3> QED BY <1>3, <2>2, <3>1, <3>2
  <2> HIDE DEF new, both, P
  <2>4. ASSUME NEW x
        PROVE  x \in DOMAIN both <=> \E p \in Pairs(s) : p[1] < e + 1 /\ NameIn(s, p) = x
    <3>1. x \in DOMAIN table <=> \E p \in Pairs(s) : p[1] < a /\ NameIn(s, p) = x
      BY Zenon DEF SentBefore
    <3> QED BY <1>1, <1>4, <2>1, <2>3, <3>1, Zenon
  <2>5. ASSUME NEW p \in Pairs(s), LastOfName(s, e + 1, p)
        PROVE  both[NameIn(s, p)] = ValueIn(s, p)
    <3>1. NameIn(s, p) \in DOMAIN both
      BY <2>4, <2>5, Zenon DEF LastOfName
    <3>2. CASE NameIn(s, p) = NameIn(s, P)
      <4>1. P[1] < e + 1
        BY <1>4, <2>3
      <4>2. P[1] <= p[1] /\ p[1] < e + 1
        BY <1>4, <2>5, <3>2, <4>1, Zenon DEF LastOfName
      <4>3. p = P
        BY <1>2, <1>3, <2>2, <2>3, <4>2
      <4> QED BY <1>1, <2>1, <3>1, <4>3
    <3>3. CASE NameIn(s, p) # NameIn(s, P)
      <4>1. p[1] < a /\ p[1] < e + 1
        BY <2>3, <2>5, <3>3 DEF LastOfName
      <4>2. LastOfName(s, a, p)
        BY <2>3, <2>5, <4>1, Zenon DEF LastOfName
      <4>3. table[NameIn(s, p)] = ValueIn(s, p)
        BY <4>2, Zenon DEF SentBefore
      <4> QED BY <1>1, <2>1, <3>1, <3>3, <4>3, Zenon
    <3> QED BY <3>2, <3>3
  <2> QED BY <2>4, <2>5, Zenon DEF SentBefore, both, new
<1>5. CASE new = NoTable /\ \A p \in Pairs(s) : p[1] \notin a .. e
  <2>1. DOMAIN new = {}
    BY <1>5 DEF NoTable
  <2>2. \A p \in Pairs(s) : p[1] < e + 1 <=> p[1] < a
    BY <1>2, <1>3, <1>5
  <2> HIDE DEF new, both
  <2>3. ASSUME NEW x
        PROVE  x \in DOMAIN both <=> \E p \in Pairs(s) : p[1] < e + 1 /\ NameIn(s, p) = x
    <3>1. x \in DOMAIN table <=> \E p \in Pairs(s) : p[1] < a /\ NameIn(s, p) = x
      BY Zenon DEF SentBefore
    <3> QED BY <1>1, <2>1, <2>2, <3>1, Zenon
  <2>4. ASSUME NEW p \in Pairs(s), LastOfName(s, e + 1, p)
        PROVE  both[NameIn(s, p)] = ValueIn(s, p)
    <3>1. NameIn(s, p) \in DOMAIN both
      BY <2>3, <2>4, Zenon DEF LastOfName
    <3>2. LastOfName(s, a, p)
      BY <2>2, <2>4, Zenon DEF LastOfName
    <3> QED BY <1>1, <2>1, <3>1, <3>2, Zenon DEF SentBefore
  <2> QED BY <2>3, <2>4, Zenon DEF SentBefore, both, new
<1>6. \/ P \in Pairs(s) /\ new = [x \in {NameIn(s, P)} |-> ValueIn(s, P)]
      \/ new = NoTable /\ \A p \in Pairs(s) : p[1] \notin a .. e
  BY PairAsSent, Zenon
<1> QED BY <1>4, <1>5, <1>6

(* A name that is sent is sent a last time.                                *)
LEMMA LastExists ==
  ASSUME NEW s \in Text, NEW p \in Pairs(s)
  PROVE  \E q \in Pairs(s) : /\ NameIn(s, q) = NameIn(s, p)
                             /\ \A r \in Pairs(s) : NameIn(s, r) = NameIn(s, p) => r[1] <= q[1]
<1> DEFINE namesakes == {q \in Pairs(s) : NameIn(s, q) = NameIn(s, p)}
           places == {q[1] : q \in namesakes}
<1>1. Len(s) \in Nat /\ \A q \in Pairs(s) : q[1] \in 1 .. Len(s)
  BY PairPlaces DEF Text
<1>2. places \in SUBSET Nat /\ places # {} /\ \A y \in places : y <= Len(s)
  BY <1>1
<1>3. Max(places) \in places /\ \A y \in places : y <= Max(places)
  <2> HIDE DEF places
  <2> QED BY <1>1, <1>2, GreatestElement
<1>4. PICK q \in namesakes : q[1] = Max(places)
  BY <1>3
<1>5. \A r \in namesakes : r[1] <= q[1]
  BY <1>3, <1>4
<1> QED BY <1>4, <1>5

(* After the last piece the table is what was sent.                        *)
LEMMA AllSent ==
  ASSUME NEW s \in Text, NEW table, NEW n \in Nat, n > Len(s), SentBefore(table, s, n),
         table = [x \in DOMAIN table |-> table[x]]
  PROVE  table = Sent(s)
<1> DEFINE names == {NameIn(s, p) : p \in Pairs(s)}
           IsLast(x, p) == NameIn(s, p) = x /\ \A q \in Pairs(s) : NameIn(s, q) = x => q[1] <= p[1]
           last(x) == CHOOSE p \in Pairs(s) : IsLast(x, p)
<1>1. \A p \in Pairs(s) : p[1] < n
  <2>1. \A p \in Pairs(s) : p[1] \in 1 .. Len(s)
    BY PairPlaces
  <2> QED BY <2>1 DEF Text
<1>2. DOMAIN table = names
  BY <1>1, Zenon DEF SentBefore
<1>3. ASSUME NEW x \in names PROVE table[x] = ValueIn(s, last(x))
  <2>1. PICK p \in Pairs(s) : x = NameIn(s, p)
    OBVIOUS
  <2>2. \E q \in Pairs(s) : IsLast(x, q)
    BY <2>1, LastExists, Zenon
  <2> HIDE DEF IsLast
  <2>3. last(x) \in Pairs(s) /\ IsLast(x, last(x))
    BY <2>2, Zenon
  <2> HIDE DEF last
  <2>4. LastOfName(s, n, last(x)) /\ NameIn(s, last(x)) = x
    BY <1>1, <2>3, Zenon DEF LastOfName, IsLast
  <2> QED BY <2>3, <2>4, Zenon DEF SentBefore
<1>4. Sent(s) = [x \in names |-> ValueIn(s, last(x))]
  BY DEF Sent
<1> HIDE DEF names, last
<1>5. table = [x \in names |-> table[x]]
  BY <1>2
<1> QED BY <1>3, <1>4, <1>5, Zenon

-----------------------------------------------------------------------------
(* While the text is decoded: what is decoded, and what the rest stands    *)
(* for, is what the text stands for.  While it is split: what is left is   *)
(* what the rest of the pieces stand for, and the table has the others.    *)
Whole(s) == PlainText(s, 1, Len(s))
Left(s, p) == PlainText(s, p, Len(s))

DecodingOf(s) ==
  /\ symTable = NoTable /\ text = s /\ i \in 1 .. Len(s) + 1
  /\ decoded \o Left(s, i) = Whole(s)

SplittingAt(s, a) ==
  /\ Starts(s, a)
  /\ SubSeq(text, i, Len(text)) = Left(s, a)
  /\ SentBefore(symTable, s, a)

SplittingOf(s) == s \in Text /\ \E a \in 1 .. Len(s) + 1 : SplittingAt(s, a)

(* What is left stands for a text.                                         *)
LEMMA LeftText ==
  ASSUME NEW s \in Text, WellEscaped(s), NEW p \in 1 .. Len(s) + 3
  PROVE  Left(s, p) \in Text
<1>1. p \in Nat \ {0} /\ Len(s) \in 0 .. Len(s) /\ p <= Len(s) + 3
  BY DEF Text
<1>2. Left(s, p) \in Seq(0 .. 255 \ {0}) /\ 0 .. 255 \ {0} \subseteq 0 .. 255
  BY <1>1, PlainCharacters DEF Left
<1> QED BY <1>2, SeqMonotonic DEF Text

(* A character moves from what is left to what is decoded.                 *)
LEMMA AppendJoined ==
  ASSUME NEW s \in Text, NEW t \in Text, NEW c \in 0 .. 255
  PROVE  Append(s, c) \o t = s \o (<<c>> \o t)
<1>1. <<c>> \in Text
  BY DEF Text
<1>2. Append(s, c) = s \o <<c>>
  BY AppendIsConcat DEF Text
<1>3. (s \o <<c>>) \o t = s \o (<<c>> \o t)
  BY <1>1, ConcatAssociative DEF Text
<1> QED BY <1>2, <1>3

(* The rest of a text after a character, and after a part of a rest.       *)
LEMMA AfterFirst ==
  ASSUME NEW c \in 0 .. 255, NEW t \in Text, NEW u, u = <<c>> \o t
  PROVE  u \in Text /\ u # <<>> /\ u[1] = c /\ SubSeq(u, 2, Len(u)) = t
<1>1. <<c>> \in Text /\ Len(<<c>>) = 1 /\ Len(t) \in Nat
  BY LenProperties DEF Text
<1>2. /\ u \in Text /\ Len(u) = 1 + Len(t)
      /\ \A k \in 1 .. 1 + Len(t) : u[k] = IF k <= 1 THEN <<c>>[k] ELSE t[k - 1]
  <2>1. /\ u \in Text /\ Len(u) = Len(<<c>>) + Len(t)
        /\ \A k \in 1 .. Len(<<c>>) + Len(t) :
             u[k] = IF k <= Len(<<c>>) THEN <<c>>[k] ELSE t[k - Len(<<c>>)]
    BY <1>1, ConcatProperties DEF Text
  <2> QED BY <1>1, <2>1
<1>3. u[1] = c /\ u # <<>>
  BY <1>1, <1>2
<1> DEFINE cut == SubSeq(u, 2, Len(u))
<1>4. /\ cut \in Text /\ Len(cut) = IF 2 <= Len(u) THEN Len(u) - 2 + 1 ELSE 0
      /\ \A k \in 1 .. Len(cut) : cut[k] = u[2 + k - 1]
  <2>1. 2 \in Nat \ {0} /\ Len(u) \in 0 .. Len(u)
    BY <1>1, <1>2
  <2> QED BY <1>2, <2>1, PartOf
<1> HIDE DEF cut
<1>5. Len(cut) = Len(t)
  BY <1>1, <1>2, <1>4
<1>6. ASSUME NEW k \in 1 .. Len(cut) PROVE cut[k] = t[k]
  <2>1. 2 + k - 1 = k + 1 /\ k + 1 \in 1 .. 1 + Len(t) /\ ~(k + 1 <= 1) /\ (k + 1) - 1 = k
    BY <1>1, <1>5
  <2> QED BY <1>2, <1>4, <2>1
<1>7. cut = t
  BY <1>4, <1>5, <1>6, SeqEqual DEF Text
<1> QED BY <1>2, <1>3, <1>7 DEF cut

(* What remains of a text after two cuts.                                  *)
LEMMA RestOfRest ==
  ASSUME NEW s \in Text, NEW k \in Nat \ {0}, NEW n \in Nat
  PROVE  SubSeq(s, k + n, Len(s)) =
           SubSeq(SubSeq(s, k, Len(s)), n + 1, Len(SubSeq(s, k, Len(s))))
<1> DEFINE t == SubSeq(s, k, Len(s))
           x == SubSeq(s, k + n, Len(s))
           y == SubSeq(t, n + 1, Len(t))
<1>1. Len(s) \in Nat /\ k + n \in Nat \ {0} /\ n + 1 \in Nat \ {0} /\ Len(s) \in 0 .. Len(s)
  BY DEF Text
<1>2. /\ t \in Text /\ Len(t) = (IF k <= Len(s) THEN Len(s) - k + 1 ELSE 0)
      /\ \A m \in 1 .. Len(t) : t[m] = s[k + m - 1]
  BY <1>1, PartOf
<1>3. /\ x \in Text /\ Len(x) = (IF k + n <= Len(s) THEN Len(s) - (k + n) + 1 ELSE 0)
      /\ \A m \in 1 .. Len(x) : x[m] = s[k + n + m - 1]
  BY <1>1, PartOf
<1>4. /\ y \in Text /\ Len(y) = (IF n + 1 <= Len(t) THEN Len(t) - (n + 1) + 1 ELSE 0)
      /\ \A m \in 1 .. Len(y) : y[m] = t[n + 1 + m - 1]
  <2>1. Len(t) \in 0 .. Len(t)
    BY <1>1, <1>2
  <2> HIDE DEF t
  <2> QED BY <1>1, <1>2, <2>1, PartOf
<1> HIDE DEF t, x, y
<1>5. Len(x) = Len(y)
  BY <1>1, <1>2, <1>3, <1>4
<1>6. ASSUME NEW m \in 1 .. Len(x) PROVE x[m] = y[m]
  <2>1. /\ n + 1 + m - 1 \in 1 .. Len(t) /\ k + (n + 1 + m - 1) - 1 = k + n + m - 1
    BY <1>1, <1>2, <1>3
  <2> QED BY <1>2, <1>3, <1>4, <1>5, <2>1
<1>7. x = y
  BY <1>3, <1>4, <1>5, <1>6, SeqEqual DEF Text
<1> QED BY <1>7 DEF t, x, y

(* A step of urlDecode: what it decodes and what is left stay the whole.   *)
LEMMA DecodeSaid ==
  ASSUME TypeOK, NEW s \in Text, WellEscaped(s), DecodingOf(s), DecodeEscape \/ DecodePlain
  PROVE  DecodingOf(s)'
<1>1. /\ text = s /\ i \in 1 .. Len(s) /\ i <= Len(s) /\ Len(s) \in Nat /\ decoded \in Text
      /\ UNCHANGED <<symTable, text>>
  BY DEF DecodingOf, DecodeEscape, DecodePlain, TypeOK, Text
<1>2. i \in Nat \ {0} /\ Len(s) \in 0 .. Len(s) /\ i <= Len(s) + 3
  BY <1>1
<1>3. ASSUME NEW c \in 0 .. 255, NEW k \in i + 1 .. Len(s) + 1,
             Left(s, i) = <<c>> \o Left(s, k), decoded' = Append(decoded, c), i' = k
      PROVE  DecodingOf(s)'
  <2>1. Left(s, k) \in Text
    BY <1>1, LeftText
  <2>2. decoded' \o Left(s, k) = Whole(s)
    <3>1. Append(decoded, c) \o Left(s, k) = decoded \o (<<c>> \o Left(s, k))
      BY <1>1, <2>1, AppendJoined
    <3> QED BY <1>3, <3>1, Zenon DEF DecodingOf
  <2>3. i' \in 1 .. Len(s) + 1 /\ symTable' = NoTable /\ text' = s
    BY <1>1, <1>3 DEF DecodingOf
  <2> QED BY <1>3, <2>2, <2>3 DEF DecodingOf, Left, Whole
<1>4. CASE DecodePlain
  <2>1. s[i] # Percent /\ decoded' = Append(decoded, s[i]) /\ i' = i + 1
    BY <1>1, <1>4 DEF DecodePlain
  <2>2. Left(s, i) = <<s[i]>> \o Left(s, i + 1)
    BY <1>1, <1>2, <2>1, PlainFirst DEF Left
  <2>3. s[i] \in 0 .. 255
    BY <1>1, ElementOfSeq DEF Text
  <2>4. i + 1 \in i + 1 .. Len(s) + 1
    BY <1>1
  <2> QED BY <1>3, <2>1, <2>2, <2>3, <2>4
<1>5. CASE DecodeEscape
  <2>1. s[i] = Percent /\ i' = i + 3
    BY <1>1, <1>5 DEF DecodeEscape
  <2>2. i + 2 <= Len(s) /\ s[i + 1] \in DOMAIN Digit /\ s[i + 2] \in DOMAIN Digit
        /\ Byte(s, i) \in 0 .. 255
    BY <1>1, <2>1, EscapeMeans
  <2>3. Min({i + 2, Len(s)}) = i + 2
    <3>1. {i + 2, Len(s)} \in SUBSET Nat /\ {i + 2, Len(s)} # {}
      BY <1>1
    <3>2. Min({i + 2, Len(s)}) \in {i + 2, Len(s)} /\ \A y \in {i + 2, Len(s)} : Min({i + 2, Len(s)}) <= y
      BY <3>1, LeastElement
    <3> QED BY <1>1, <2>2, <3>2
  <2>4. decoded' = Append(decoded, HexRead(SubSeq(s, i + 1, Min({i + 2, Len(s)})), ii))
    BY <1>1, <1>5, Zenon DEF DecodeEscape
  <2>5. decoded' = Append(decoded, Byte(s, i))
    BY <1>1, <2>2, <2>3, <2>4, HexReadTwo
  <2>6. Left(s, i) = <<Byte(s, i)>> \o Left(s, i + 3)
    BY <1>1, <1>2, <2>1, PlainFirst DEF Left
  <2>7. i + 3 \in i + 1 .. Len(s) + 1
    BY <1>1, <2>2
  <2> QED BY <1>3, <2>1, <2>2, <2>5, <2>6, <2>7
<1> QED BY <1>4, <1>5

(* At the end nothing is left, and the pieces are not begun.               *)
LEMMA DecodedSaid ==
  ASSUME TypeOK, NEW s \in Text, WellEscaped(s), DecodingOf(s), Decoded
  PROVE  SplittingOf(s)'
<1>1. /\ i > Len(s) /\ Len(s) \in Nat /\ i = Len(s) + 1 /\ decoded \in Text
      /\ symTable' = NoTable /\ text' = decoded /\ i' = 1
  BY DEF DecodingOf, Decoded, TypeOK, Text
<1>2. decoded = Whole(s)
  <2>1. Left(s, i) = NoText
    <3>1. i \in Nat \ {0} /\ Len(s) \in 0 .. Len(s) /\ i <= Len(s) + 3
      BY <1>1
    <3> QED BY <1>1, <3>1, PlainFirst DEF Left
  <2>2. decoded \o <<>> = decoded
    BY <1>1, ConcatEmptySeq DEF Text
  <2> QED BY <2>1, <2>2 DEF DecodingOf, NoText
<1>3. SubSeq(text', i', Len(text')) = Left(s, 1)
  <2>1. SubSeq(decoded, 1, Len(decoded)) = decoded
    BY <1>1, SubSeqFull DEF Text
  <2> QED BY <1>1, <1>2, <2>1 DEF Left, Whole
<1>4. SentBefore(symTable', s, 1) /\ Starts(s, 1) /\ 1 \in 1 .. Len(s) + 1
  BY <1>1, NothingSent DEF Starts
<1> QED BY <1>3, <1>4 DEF SplittingOf, SplittingAt, SentBefore, LastOfName, Starts, Left

(* One piece: it is stored as the pair it was sent as, and what is left is *)
(* what the pieces after it stand for.                                     *)
LEMMA SplitSaid ==
  ASSUME TypeOK, NEW s \in Text, WellEscaped(s), NEW a \in 1 .. Len(s) + 1, SplittingAt(s, a), Split
  PROVE  \E e \in a .. Len(s) + 1 :
           /\ SentBefore(symTable', s, e + 1)
           /\ symTable' = [x \in DOMAIN symTable' |-> symTable'[x]]
           /\ \/ e <= Len(s) /\ stage' = "split" /\ Starts(s, e + 1)
                 /\ SubSeq(text', i', Len(text')) = Left(s, e + 1)
              \/ e = Len(s) + 1 /\ stage' = "environment" /\ i' = 1
<1> DEFINE rest == SubSeq(text, i, Len(text))
           n == Find(rest, Amp)
<1>1. /\ Len(s) \in Nat /\ a \in Nat \ {0} /\ a <= Len(s) + 1 /\ Len(s) \in 0 .. Len(s)
      /\ text \in Text /\ i \in Nat \ {0} /\ Len(text) \in Nat
      /\ rest = Left(s, a) /\ Starts(s, a) /\ SentBefore(symTable, s, a)
      /\ text' = text
  BY DEF SplittingAt, Split, TypeOK, Text
<1>2. /\ symTable' = Assigned(symTable, Pair(SubSeq(rest, 1, n - 1)))
      /\ IF n <= Len(rest) THEN i' = i + n /\ stage' = stage ELSE i' = 1 /\ stage' = "environment"
      /\ stage = "split"
  BY Zenon DEF Split, GoTo
<1>3. PICK e : NextIs(s, Amp, a, Len(s), e)
  BY <1>1, NextPlace, Zenon
<1>4. /\ e \in a .. Len(s) + 1 /\ (e = Len(s) + 1 \/ s[e] = Amp) /\ \A k \in a .. e - 1 : s[k] # Amp
      /\ e \in Nat \ {0} /\ e - 1 \in 0 .. Len(s) /\ e - 1 \in a - 1 .. Len(s)
  BY <1>1, <1>3 DEF NextIs
<1> DEFINE piece == PlainText(s, a, e - 1)
           tail == Left(s, e)
<1>5. rest = piece \o tail
  <2> DEFINE b == e - 1
  <2>1. b \in a - 1 .. Len(s) /\ b + 1 = e /\ (b < Len(s) => s[b + 1] \notin DOMAIN Digit)
    <3>1. b \in a - 1 .. Len(s) /\ b + 1 = e
      BY <1>1, <1>4
    <3>2. Amp \notin DOMAIN Digit
      BY DEF Amp, Digit
    <3>3. b < Len(s) => s[b + 1] = Amp
      BY <1>1, <1>4, <3>1
    <3> QED BY <3>1, <3>2, <3>3
  <2> HIDE DEF b
  <2>2. PlainText(s, a, Len(s)) = PlainText(s, a, b) \o PlainText(s, b + 1, Len(s))
    BY <1>1, <2>1, PlainSplit
  <2> QED BY <1>1, <2>1, <2>2 DEF Left, b
<1>6. piece \in Seq(0 .. 255 \ {Amp})
  <2>1. a <= (e - 1) + 3
    BY <1>1, <1>4
  <2> QED BY <1>1, <1>4, <2>1, PlainCharacters
<1>7. /\ tail \in Text /\ (tail # <<>> => tail[1] = Amp) /\ (tail # <<>> <=> e <= Len(s))
      /\ e <= Len(s) => SubSeq(tail, 2, Len(tail)) = Left(s, e + 1)
  <2>1. tail \in Text
    <3>1. e \in 1 .. Len(s) + 3
      BY <1>1, <1>4
    <3> QED BY <3>1, LeftText
  <2>2. CASE e = Len(s) + 1
    <3>1. e > Len(s) /\ e <= Len(s) + 3
      BY <1>1, <2>2
    <3>2. tail = NoText
      BY <1>1, <1>4, <3>1, PlainFirst DEF Left
    <3> QED BY <1>1, <2>1, <2>2, <3>1, <3>2 DEF NoText
  <2>3. CASE e # Len(s) + 1
    <3>1. e <= Len(s) /\ e <= Len(s) + 3 /\ s[e] = Amp /\ s[e] # Percent /\ e + 1 \in 1 .. Len(s) + 3
      BY <1>1, <1>4, <2>3 DEF Amp, Percent
    <3>2. tail = <<Amp>> \o Left(s, e + 1)
      BY <1>1, <1>4, <3>1, PlainFirst DEF Left
    <3>3. Left(s, e + 1) \in Text
      BY <3>1, LeftText
    <3>4. tail # <<>> /\ tail[1] = Amp /\ SubSeq(tail, 2, Len(tail)) = Left(s, e + 1)
      <4>1. Amp \in 0 .. 255
        BY DEF Amp
      <4> HIDE DEF tail
      <4> QED BY <3>2, <3>3, <4>1, AfterFirst, Zenon
    <3> QED BY <2>1, <3>1, <3>4
  <2> QED BY <2>2, <2>3
<1> HIDE DEF piece, tail
<1>8. n = Len(piece) + 1 /\ SubSeq(rest, 1, n - 1) = piece /\ Len(piece) \in Nat
  <2>1. Find(piece \o tail, Amp) = Len(piece) + 1
    BY <1>6, <1>7, FindBetween, Zenon
  <2>2. SubSeq(piece \o tail, 1, Len(piece)) = piece
    <3>1. piece \in Seq(0 .. 255 \ {Amp}) /\ tail \in Text /\ (tail # <<>> => tail[1] = Amp)
      BY <1>6, <1>7
    <3> QED BY ONLY <3>1, FindBetween, SMTT(30)
  <2>3. Len(piece) \in Nat
    BY <1>6, LenProperties
  <2>4. (Len(piece) + 1) - 1 = Len(piece)
    BY <2>3
  <2> QED BY <1>5, <2>1, <2>2, <2>3, <2>4
<1>9. n <= Len(rest) <=> e <= Len(s)
  <2>1. piece \in Seq(0 .. 255 \ {Amp}) /\ tail \in Text /\ (tail # <<>> => tail[1] = Amp)
    BY <1>6, <1>7
  <2>2. Len(piece) + 1 <= Len(piece \o tail) <=> tail # <<>>
    BY ONLY <2>1, FindBetween, SMTT(30)
  <2> QED BY <1>5, <1>7, <1>8, <2>2, Zenon
<1>10. SentBefore(symTable', s, e + 1)
  <2>1. symTable' = Assigned(symTable, Pair(PlainText(s, a, e - 1)))
    BY <1>2, <1>8 DEF piece
  <2>2. SentBefore(Assigned(symTable, Pair(PlainText(s, a, e - 1))), s, e + 1)
    BY <1>1, <1>4, PieceSent, Zenon
  <2> QED BY <2>1, <2>2
<1>11. symTable' = [x \in DOMAIN symTable' |-> symTable'[x]]
  BY <1>2 DEF Assigned
<1>12. CASE e <= Len(s)
  <2>1. i' = i + n /\ stage' = "split"
    BY <1>2, <1>9, <1>12
  <2>2. Starts(s, e + 1)
    <3>1. (e + 1) - 1 = e /\ s[e] = Amp
      BY <1>1, <1>4, <1>12
    <3> QED BY <3>1 DEF Starts
  <2>3. SubSeq(text', i', Len(text')) = SubSeq(rest, n + 1, Len(rest))
    <3>1. n \in Nat
      BY <1>8
    <3>2. \A m \in Nat : SubSeq(text, i + m, Len(text)) = SubSeq(rest, m + 1, Len(rest))
      BY <1>1, RestOfRest
    <3> HIDE DEF n, rest
    <3> QED BY <1>1, <2>1, <3>1, <3>2
  <2>4. SubSeq(rest, n + 1, Len(rest)) = SubSeq(tail, 2, Len(tail))
    <3>1. piece \in Seq(0 .. 255 \ {Amp}) /\ tail \in Text /\ (tail # <<>> => tail[1] = Amp)
      BY <1>6, <1>7
    <3>2. SubSeq(piece \o tail, Len(piece) + 2, Len(piece \o tail)) = SubSeq(tail, 2, Len(tail))
      BY ONLY <3>1, FindBetween, SMTT(30)
    <3>3. n + 1 = Len(piece) + 2
      BY <1>8
    <3> QED BY <1>5, <3>2, <3>3
  <2> QED BY <1>4, <1>7, <1>10, <1>11, <1>12, <2>1, <2>2, <2>3, <2>4
<1>13. CASE e = Len(s) + 1
  <2>1. ~(n <= Len(rest))
    BY <1>1, <1>9, <1>13
  <2> QED BY <1>2, <1>4, <1>10, <1>11, <1>13, <2>1
<1> QED BY <1>1, <1>4, <1>12, <1>13

-----------------------------------------------------------------------------
SentInv ==
  /\ stage = "read" => decoded = NoText /\ symTable = NoTable
  /\ \A s : s = Received /\ WellEscaped(s) =>
       /\ stage = "decode" => DecodingOf(s)
       /\ stage = "split" => SplittingOf(s)
       /\ stage = "environment" /\ i = 1 => symTable = Sent(s)

(* At the start nothing is decoded and nothing stored.                     *)
LEMMA SentInit == Init => SentInv
BY DEF Init, BeginWith, Begin, SentInv

(* A text without a zero is all that its char* shows.                      *)
LEMMA CStringWhole ==
  ASSUME NEW s \in Text, WellEscaped(s)
  PROVE  CString(s) = s
<1>1. Len(s) \in Nat /\ \A k \in 1 .. Len(s) : s[k] # 0
  BY EscapeMeans DEF Text
<1>2. Find(s, 0) = Len(s) + 1
  <2>1. /\ Len(s) + 1 \in 1 .. Len(s) + 1 /\ ~(Len(s) + 1 <= Len(s))
        /\ \A k \in 1 .. (Len(s) + 1) - 1 : s[k] # 0
    BY <1>1
  <2> QED BY <2>1, FindOnly
<1>3. Find(s, 0) - 1 = Len(s)
  BY <1>1, <1>2
<1>4. SubSeq(s, 1, Len(s)) = s
  BY SubSeqFull DEF Text
<1> QED BY <1>3, <1>4 DEF CString

(* Every step keeps the account of what was sent.                          *)
LEMMA SentStep ==
  ASSUME SentInv, TypeInv, [Next]_vars
  PROVE  SentInv'
<1>1. request' = request
  BY DEF Next, Reading, vars, readVars, ReadFails, NoParameters, Read, DecodeEscape, DecodePlain,
         Decoded, Split, StoreEnvironment, NoSelector, Selected, BeginScript, Evaluating,
         Substitute, SubstituteThrows, Escaped, Copy, Evaluated
<1>2. Received' = Received
  BY <1>1 DEF Received
<1>3. request \in Request /\ TypeOK
  BY DEF TypeInv, EnvironmentInv
<1>4. stage' = "read" => decoded' = NoText /\ symTable' = NoTable
  BY DEF SentInv, GoTo, Next, Reading, vars, readVars, ReadFails, NoParameters, Read, DecodeEscape,
         DecodePlain, Decoded, Split, StoreEnvironment, NoSelector, Selected, BeginScript,
         Evaluating, Substitute, SubstituteThrows, Escaped, Copy, Evaluated, AtSign
<1>5. ASSUME NEW s, s = Received, WellEscaped(s)
      PROVE  /\ stage' = "decode" => DecodingOf(s)'
             /\ stage' = "split" => SplittingOf(s)'
             /\ stage' = "environment" /\ i' = 1 => symTable' = Sent(s)
  <2>1. /\ stage = "decode" => DecodingOf(s)
        /\ stage = "split" => SplittingOf(s)
        /\ stage = "environment" /\ i = 1 => symTable = Sent(s)
        /\ stage = "read" => decoded = NoText /\ symTable = NoTable
    BY <1>5, Zenon DEF SentInv
  <2>2. CASE UNCHANGED vars
    BY <2>1, <2>2 DEF vars, readVars, DecodingOf, SplittingOf, SplittingAt, SentBefore
  <2>3. CASE Read
    <3>1. stage = "read" /\ s \in Text /\ i = 1
      BY <1>3, <1>5, <2>3, ReceivedText DEF Read, TypeInv, EnvironmentInv
    <3>2. /\ stage' = "decode" /\ text' = s /\ i' = 1
          /\ decoded' = NoText /\ symTable' = NoTable
      BY <1>5, <2>1, <2>3, <3>1, CStringWhole DEF Read, GoTo
    <3>3. decoded' \o Left(s, i') = Whole(s)
      <4>1. 1 \in 1 .. Len(s) + 3
        BY <3>1 DEF Text
      <4>2. Left(s, 1) \in Text
        BY <3>1, <1>5, <4>1, LeftText
      <4>3. <<>> \o Left(s, 1) = Left(s, 1)
        BY <4>2, ConcatEmptySeq DEF Text
      <4> QED BY <3>2, <4>3 DEF NoText, Left, Whole
    <3>4. i' \in 1 .. Len(s) + 1
      BY <3>1, <3>2 DEF Text
    <3> QED BY <3>2, <3>3, <3>4 DEF DecodingOf, Left, Whole
  <2>4. CASE DecodeEscape \/ DecodePlain
    <3>1. stage = "decode" /\ stage' = "decode" /\ s \in Text
      BY <1>3, <2>1, <2>4 DEF DecodeEscape, DecodePlain, DecodingOf, TypeOK
    <3> QED BY <1>3, <1>5, <2>1, <2>4, <3>1, DecodeSaid
  <2>5. CASE Decoded
    <3>1. stage = "decode" /\ stage' = "split" /\ s \in Text
      BY <1>3, <2>1, <2>5 DEF Decoded, DecodingOf, TypeOK, GoTo
    <3> QED BY <1>3, <1>5, <2>1, <2>5, <3>1, DecodedSaid
  <2>6. CASE Split
    <3>1. stage = "split" /\ s \in Text /\ Len(s) \in Nat
      BY <2>1, <2>6 DEF Split, SplittingOf, Text
    <3>2. PICK a \in 1 .. Len(s) + 1 : SplittingAt(s, a)
      BY <2>1, <3>1 DEF SplittingOf
    <3>3. PICK e \in a .. Len(s) + 1 :
           /\ SentBefore(symTable', s, e + 1)
           /\ symTable' = [x \in DOMAIN symTable' |-> symTable'[x]]
           /\ \/ e <= Len(s) /\ stage' = "split" /\ Starts(s, e + 1)
                 /\ SubSeq(text', i', Len(text')) = Left(s, e + 1)
              \/ e = Len(s) + 1 /\ stage' = "environment" /\ i' = 1
      BY <1>3, <1>5, <2>6, <3>1, <3>2, SplitSaid
    <3>4. CASE e <= Len(s) /\ stage' = "split"
      <4>1. e + 1 \in 1 .. Len(s) + 1
        BY <3>1, <3>4
      <4>2. SplittingAt(s, e + 1)'
        BY <3>1, <3>3, <3>4 DEF SplittingAt, SentBefore, Starts, Left, LastOfName
      <4> QED BY <3>1, <3>4, <4>1, <4>2 DEF SplittingOf
    <3>5. CASE e = Len(s) + 1 /\ stage' = "environment"
      <4>1. e + 1 \in Nat /\ e + 1 > Len(s)
        BY <3>1, <3>5
      <4>2. symTable' = Sent(s)
        BY <3>1, <3>3, <4>1, AllSent
      <4> QED BY <3>5, <4>2
    <3> QED BY <3>1, <3>3, <3>4, <3>5
  <2>7. CASE StoreEnvironment
    <3>1. stage' = "environment" /\ i' = i + 1 /\ i \in Nat \ {0}
      BY <1>3, <2>7, IndexBounds DEF StoreEnvironment, TypeInv, TypeOK
    <3> QED BY <3>1
  <2>8. CASE ReadFails \/ NoParameters \/ NoSelector \/ Selected \/ BeginScript \/ Evaluating
    BY <2>8 DEF GoTo, ReadFails, NoParameters, NoSelector, Selected, BeginScript,
         Evaluating, Substitute, SubstituteThrows, Escaped, Copy, Evaluated, AtSign
  <2> QED BY <2>2, <2>3, <2>4, <2>5, <2>6, <2>7, <2>8 DEF Next, Reading
<1>6. ASSUME NEW s, s = Received', WellEscaped(s)
      PROVE  /\ stage' = "decode" => DecodingOf(s)'
             /\ stage' = "split" => SplittingOf(s)'
             /\ stage' = "environment" /\ i' = 1 => symTable' = Sent(s)
  BY <1>2, <1>5, <1>6
<1> QED BY <1>4, <1>6 DEF SentInv

(* Every parameter of a well escaped request of any length arrives with    *)
(* the value it was sent with, and nothing else does.                      *)
THEOREM ParametersArrive == Spec => []ParametersAsSent
<1>1. SentInv => ParametersAsSent
  BY Zenon DEF SentInv, ParametersAsSent
<1>2. Init => TypeInv /\ SentInv
  BY TypeInit, SentInit
<1>3. (TypeInv /\ SentInv) /\ [Next]_vars => (TypeInv /\ SentInv)'
  BY StepTypes, SentStep
<1> QED BY <1>1, <1>2, <1>3, PTL DEF Spec

-----------------------------------------------------------------------------
(* Which places are escaped: the recursive function exists.                *)
EscapesTo(h, s, n) ==
  h = [k \in 0 .. n |-> k > 1 /\ s[k - 1] = Backslash /\ ~h[k - 1]]

(* By the least length for which it would not.                             *)
LEMMA EscapesExist ==
  ASSUME NEW s, NEW n \in Nat
  PROVE  \E h : EscapesTo(h, s, n)
<1> DEFINE without == {m \in Nat : ~ \E h : EscapesTo(h, s, m)}
<1> SUFFICES ASSUME without # {} PROVE FALSE
  OBVIOUS
<1>1. PICK m \in without : \A y \in without : m <= y
  <2>1. without \in SUBSET Nat
    OBVIOUS
  <2> HIDE DEF without
  <2> QED BY <2>1, LeastElement
<1>2. CASE m = 0
  <2> DEFINE h == [k \in 0 .. 0 |-> FALSE]
  <2>1. \A k \in 0 .. 0 : h[k] = (k > 1 /\ s[k - 1] = Backslash /\ ~h[k - 1])
    <3> SUFFICES ASSUME NEW k \in 0 .. 0
                 PROVE  h[k] = (k > 1 /\ s[k - 1] = Backslash /\ ~h[k - 1])
      OBVIOUS
    <3>1. h[k] = FALSE
      OBVIOUS
    <3>2. ~(k > 1)
      OBVIOUS
    <3> HIDE DEF h
    <3> QED BY <3>1, <3>2, Zenon
  <2>2. h = [k \in 0 .. 0 |-> h[k]]
    OBVIOUS
  <2> HIDE DEF h
  <2>3. EscapesTo(h, s, 0)
    BY <2>1, <2>2, Zenon DEF EscapesTo
  <2> QED BY <1>1, <1>2, <2>3
<1>3. CASE m # 0
  <2>1. m - 1 \in Nat /\ m - 1 \notin without
    BY <1>1, <1>3
  <2>2. PICK g : EscapesTo(g, s, m - 1)
    BY <2>1
  <2> DEFINE last == m > 1 /\ s[m - 1] = Backslash /\ ~g[m - 1]
             h == [k \in 0 .. m |-> IF k = m THEN last ELSE g[k]]
  <2>3. h[m] = last /\ \A k \in 0 .. m - 1 : h[k] = g[k]
    <3>1. m \in 0 .. m /\ \A k \in 0 .. m - 1 : k \in 0 .. m /\ k # m
      BY <1>1, <1>3
    <3> HIDE DEF last
    <3> QED BY <3>1, Zenon
  <2>4. ASSUME NEW k \in 0 .. m
        PROVE  h[k] = (k > 1 /\ s[k - 1] = Backslash /\ ~h[k - 1])
    <3>1. CASE k = m
      <4>1. k > 1 => k - 1 \in 0 .. m - 1
        BY <1>1, <3>1
      <4>2. k > 1 => h[k - 1] = g[k - 1]
        BY <2>3, <4>1, Zenon
      <4> HIDE DEF h
      <4> QED BY <2>3, <3>1, <4>2, Zenon
    <3>2. CASE k # m
      <4>1. k \in 0 .. m - 1 /\ (k > 1 => k - 1 \in 0 .. m - 1)
        BY <1>1, <3>2
      <4>2. g[k] = (k > 1 /\ s[k - 1] = Backslash /\ ~g[k - 1])
        BY <2>2, <4>1, Zenon DEF EscapesTo
      <4> HIDE DEF h
      <4> QED BY <2>3, <4>1, <4>2, Zenon
    <3> QED BY <3>1, <3>2
  <2>5. h = [k \in 0 .. m |-> h[k]]
    OBVIOUS
  <2> HIDE DEF h
  <2>6. EscapesTo(h, s, m)
    BY <2>4, <2>5, Zenon DEF EscapesTo
  <2> QED BY <1>1, <2>6
<1> QED BY <1>2, <1>3

(* A place is escaped by a backslash that is not.                          *)
LEMMA EscapedAfter ==
  ASSUME NEW s \in Text, NEW k \in 1 .. Len(s)
  PROVE  IsEscaped(s)[k] = (k > 1 /\ s[k - 1] = Backslash /\ ~IsEscaped(s)[k - 1])
<1> DEFINE f == CHOOSE h : EscapesTo(h, s, Len(s))
<1>1. Len(s) \in Nat /\ k \in 0 .. Len(s)
  BY DEF Text
<1>2. EscapesTo(f, s, Len(s))
  <2>1. \E h : EscapesTo(h, s, Len(s))
    BY <1>1, EscapesExist
  <2> QED BY <2>1
<1>3. IsEscaped(s) = f
  BY DEF IsEscaped, EscapesTo
<1> HIDE DEF f
<1> QED BY <1>1, <1>2, <1>3, Zenon DEF EscapesTo

-----------------------------------------------------------------------------
(* What the four expressions match: a sign, then a digit or a letter,      *)
(* which tell them apart, and no backslash at the end.                     *)
Begins(n, c, d) ==
  /\ n \in {1, 2} => c = At
  /\ n = 1 => d \in Digits
  /\ n = 2 => d \in Letters
  /\ n = 3 => c = Amp
  /\ n = 4 => c = Dollar

(* Each of the four, by what its expression says.                          *)
LEMMA MatchShape ==
  ASSUME NEW n \in 1 .. 4, NEW w \in Text, Matches(Tries[n], w)
  PROVE  /\ Len(w) >= 2 /\ Begins(n, w[1], w[2]) /\ w[Len(w)] # Backslash
         /\ n = 4 => IsNumber(Tail(w))
<1>1. Len(w) \in Nat
  BY DEF Text
<1>2. ASSUME NEW c, Named(w, c)
      PROVE  Len(w) >= 2 /\ w[1] = c /\ w[2] \in Letters /\ w[Len(w)] \in WordChars
  <2>1. Len(w) >= 2 /\ w[1] = c /\ w[2] \in Letters /\ \A k \in 3 .. Len(w) : w[k] \in WordChars
    BY <1>2 DEF Named
  <2>2. Len(w) >= 2
    BY <2>1
  <2>3. \A m \in Nat : m >= 2 => m = 2 \/ m \in 3 .. m
    BY SMT
  <2>4. Len(w) = 2 \/ Len(w) \in 3 .. Len(w)
    BY <1>1, <2>2, <2>3
  <2> QED BY <2>1, <2>4 DEF WordChars
<1>3. Backslash \notin WordChars
  BY DEF Backslash, WordChars, Letters, Digits, Underscore
<1>4. CASE n = 1
  <2>1. LongName(w)
    BY <1>4 DEF Matches, Tries
  <2>2. PICK d \in 3 .. Len(w) - 1 :
          /\ w[1] = At
          /\ \A k \in 2 .. d - 1 : w[k] \in Digits
          /\ Named(<<At>> \o SubSeq(w, d + 1, Len(w)), At)
    BY <2>1 DEF LongName
  <2>3. Len(w) >= 2 /\ w[2] \in Digits
    <3>1. 2 \in 2 .. d - 1 /\ Len(w) >= 2
      BY <1>1, <2>2
    <3> QED BY <2>2, <3>1
  <2>4. w[Len(w)] \in WordChars
    <3> DEFINE t == SubSeq(w, d + 1, Len(w))
               u == <<At>> \o t
    <3>1. /\ t \in Text /\ Len(t) = Len(w) - d /\ Len(t) \in Nat /\ Len(t) >= 1
          /\ t[Len(t)] = w[Len(w)]
      <4>1. d + 1 \in Nat \ {0} /\ Len(w) \in 0 .. Len(w) /\ d + 1 <= Len(w) /\ d \in Nat
        BY <1>1, <2>2
      <4>2. /\ t \in Text /\ Len(t) = Len(w) - (d + 1) + 1
            /\ \A k \in 1 .. Len(t) : t[k] = w[d + 1 + k - 1]
        BY <4>1, PartOf
      <4> HIDE DEF t
      <4>3. Len(t) \in 1 .. Len(t) /\ d + 1 + Len(t) - 1 = Len(w) /\ Len(t) = Len(w) - d
        BY <1>1, <4>1, <4>2
      <4>4. Len(t) \in Nat /\ Len(t) >= 1
        BY <4>2, <4>3, LenProperties DEF Text
      <4>5. t[Len(t)] = w[d + 1 + Len(t) - 1]
        BY <4>2, <4>3
      <4>6. t[Len(t)] = w[Len(w)]
        BY <4>3, <4>5
      <4> QED BY <4>2, <4>3, <4>4, <4>6
    <3> HIDE DEF t
    <3>2. /\ u \in Text /\ Len(u) = 1 + Len(t)
          /\ \A k \in 1 .. 1 + Len(t) : u[k] = IF k <= 1 THEN <<At>>[k] ELSE t[k - 1]
      <4>1. <<At>> \in Text /\ Len(<<At>>) = 1
        BY DEF Text, At
      <4>2. /\ u \in Text /\ Len(u) = Len(<<At>>) + Len(t)
            /\ \A k \in 1 .. Len(<<At>>) + Len(t) :
                 u[k] = IF k <= Len(<<At>>) THEN <<At>>[k] ELSE t[k - Len(<<At>>)]
        BY <3>1, <4>1, ConcatProperties DEF Text
      <4> QED BY <4>1, <4>2
    <3>3. u[Len(u)] = w[Len(w)]
      <4>1. Len(u) \in 1 .. 1 + Len(t) /\ ~(Len(u) <= 1) /\ Len(u) - 1 = Len(t)
        BY <3>1, <3>2
      <4> HIDE DEF u
      <4> QED BY <3>1, <3>2, <4>1
    <3>4. Named(u, At)
      BY <2>2 DEF t
    <3> HIDE DEF u
    <3>5. u[Len(u)] \in WordChars
      <4>1. Len(u) >= 2 /\ u[2] \in Letters /\ \A k \in 3 .. Len(u) : u[k] \in WordChars
        BY <3>4 DEF Named
      <4>2. Len(u) >= 2 /\ Len(u) \in Nat
        BY <4>1, LenProperties, <3>2 DEF Text
      <4>3. \A m \in Nat : m >= 2 => m = 2 \/ m \in 3 .. m
        BY SMT
      <4>4. Len(u) = 2 \/ Len(u) \in 3 .. Len(u)
        BY <4>2, <4>3
      <4> QED BY <4>1, <4>4 DEF WordChars
    <3> QED BY <3>3, <3>5
  <2> QED BY <1>3, <1>4, <2>2, <2>3, <2>4 DEF Begins
<1>5. CASE n = 2
  <2>1. Named(w, At)
    BY <1>5 DEF Matches, Tries
  <2> QED BY <1>2, <1>3, <1>5, <2>1 DEF Begins
<1>6. CASE n = 3
  <2>1. Named(w, Amp)
    BY <1>6 DEF Matches, Tries
  <2> QED BY <1>2, <1>3, <1>6, <2>1 DEF Begins
<1>7. CASE n = 4
  <2>1. Len(w) >= 2 /\ w[1] = Dollar /\ \A k \in 2 .. Len(w) : w[k] \in Digits
    BY <1>7 DEF Matches, Tries
  <2>2. Len(w) \in 2 .. Len(w) /\ Backslash \notin Digits
    BY <1>1, <2>1 DEF Backslash, Digits
  <2>3. IsNumber(Tail(w))
    <3>1. w # <<>>
      BY <2>1
    <3>2. Tail(w) \in Text /\ Len(Tail(w)) = Len(w) - 1 /\ \A k \in 1 .. Len(Tail(w)) : Tail(w)[k] = w[k + 1]
      BY <3>1, HeadTailProperties DEF Text
    <3> DEFINE t == Tail(w)
    <3> HIDE DEF t
    <3>3. t \in Text /\ Len(t) = Len(w) - 1 /\ \A k \in 1 .. Len(t) : t[k] = w[k + 1]
      BY <3>2 DEF t
    <3>4. DOMAIN t = 1 .. Len(t) /\ t # <<>>
      BY <1>1, <2>1, <3>3, LenProperties DEF Text
    <3>5. \A k \in DOMAIN t : t[k] \in Digits
      <4>1. \A k \in 1 .. Len(t) : k + 1 \in 2 .. Len(w)
        BY <1>1, <3>3
      <4> QED BY <2>1, <3>3, <3>4, <4>1
    <3>6. IsNumber(t)
      BY <3>4, <3>5 DEF IsNumber, NoText
    <3> QED BY <3>6 DEF t
  <2> QED BY <1>7, <2>1, <2>2, <2>3 DEF Begins
<1> QED BY <1>4, <1>5, <1>6, <1>7

-----------------------------------------------------------------------------
(* Where a reference of a kind begins and ends in a text.                  *)
Occurs(n, s, p, q) ==
  /\ p \in 1 .. Len(s) /\ q \in 1 .. Len(s) /\ p < q
  /\ s[p] \in Signs /\ Matches(Tries[n], SubSeq(s, p, q))

(* The pairs of places of Occurrences, one by one.                         *)
LEMMA OccurrencesAre ==
  ASSUME NEW n, NEW s
  PROVE  /\ \A p, q : <<p, q>> \in Occurrences(Tries[n], s) <=> Occurs(n, s, p, q)
         /\ \A o \in Occurrences(Tries[n], s) : o = <<o[1], o[2]>>
BY DEF Occurrences, Occurs

(* The four kinds, in the order in which evaluate tries them.              *)
LEMMA KindsAre == /\ Range(Tries) = {Tries[n] : n \in 1 .. 4}
                  /\ Tries[1] = "lvar" /\ Tries[2] = "slvar" /\ Tries[3] = "gvar" /\ Tries[4] = "pvar"
BY DEF Range, Tries

(* How a reference begins and ends.                                        *)
LEMMA OccurrenceShape ==
  ASSUME NEW s \in Text, NEW n \in 1 .. 4, NEW p, NEW q, Occurs(n, s, p, q)
  PROVE  /\ p \in Nat /\ q \in Nat /\ p < q /\ q <= Len(s) /\ p >= 1
         /\ Begins(n, s[p], s[p + 1]) /\ s[q] # Backslash
         /\ n = 4 => IsNumber(Tail(SubSeq(s, p, q)))
<1> DEFINE w == SubSeq(s, p, q)
<1>1. p \in Nat \ {0} /\ q \in 0 .. Len(s) /\ q \in Nat /\ p < q /\ q <= Len(s)
  BY DEF Occurs, Text
<1>2. w \in Text /\ Len(w) = q - p + 1 /\ \A k \in 1 .. Len(w) : w[k] = s[p + k - 1]
  BY <1>1, PartOf
<1>3. Matches(Tries[n], w)
  BY DEF Occurs
<1> HIDE DEF w
<1>4. /\ Begins(n, w[1], w[2]) /\ w[Len(w)] # Backslash
      /\ n = 4 => IsNumber(Tail(w))
  BY <1>2, <1>3, MatchShape
<1>5. w[1] = s[p + 1 - 1] /\ w[2] = s[p + 2 - 1] /\ w[Len(w)] = s[p + Len(w) - 1]
  <2>1. 1 \in 1 .. Len(w) /\ 2 \in 1 .. Len(w) /\ Len(w) \in 1 .. Len(w)
    BY <1>1, <1>2
  <2> QED BY <1>2, <2>1
<1>6. p + 1 - 1 = p /\ p + 2 - 1 = p + 1 /\ p + Len(w) - 1 = q /\ p >= 1
  BY <1>1, <1>2
<1>7. w[1] = s[p] /\ w[2] = s[p + 1] /\ w[Len(w)] = s[q]
  BY <1>5, <1>6
<1> QED BY <1>1, <1>4, <1>6, <1>7 DEF w

(* What begins at a place is of one kind.                                  *)
LEMMA OneKind ==
  ASSUME NEW s \in Text, NEW n \in 1 .. 4, NEW m \in 1 .. 4, NEW p, NEW q, NEW r,
         Occurs(n, s, p, q), Occurs(m, s, p, r)
  PROVE  n = m
<1>1. Begins(n, s[p], s[p + 1]) /\ Begins(m, s[p], s[p + 1])
  BY OccurrenceShape
<1>2. Digits \cap Letters = {} /\ At # Amp /\ At # Dollar /\ Amp # Dollar
  BY DEF Digits, Letters, At, Amp, Dollar
<1> HIDE DEF Digits, Letters, At, Amp, Dollar
<1> QED BY <1>1, <1>2 DEF Begins

(* So the rank of a place is the kind of what begins there.                *)
LEMMA RankIs ==
  ASSUME NEW s \in Text, NEW p
  PROVE  /\ Rank(s, p) \in 1 .. 5
         /\ Rank(s, p) < 5 => \E q : Occurs(Rank(s, p), s, p, q)
         /\ \A n \in 1 .. 4 : \A q : Occurs(n, s, p, q) => Rank(s, p) = n
<1> DEFINE kinds == {n \in 1 .. 4 : \E o \in Occurrences(Tries[n], s) : o[1] = p}
<1>1. \A n \in 1 .. 4 : n \in kinds <=> \E q : Occurs(n, s, p, q)
  <2> SUFFICES ASSUME NEW n \in 1 .. 4
               PROVE  (\E o \in Occurrences(Tries[n], s) : o[1] = p) <=> \E q : Occurs(n, s, p, q)
    OBVIOUS
  <2>1. /\ \A a, q : <<a, q>> \in Occurrences(Tries[n], s) <=> Occurs(n, s, a, q)
        /\ \A o \in Occurrences(Tries[n], s) : o = <<o[1], o[2]>>
    BY OccurrencesAre
  <2>2. ASSUME NEW o \in Occurrences(Tries[n], s), o[1] = p PROVE \E q : Occurs(n, s, p, q)
    <3>1. <<p, o[2]>> \in Occurrences(Tries[n], s)
      BY <2>1, <2>2
    <3> QED BY <2>1, <3>1
  <2>3. ASSUME NEW q, Occurs(n, s, p, q) PROVE \E o \in Occurrences(Tries[n], s) : o[1] = p
    <3>1. <<p, q>> \in Occurrences(Tries[n], s) /\ <<p, q>>[1] = p
      BY <2>1, <2>3
    <3> QED BY <3>1
  <2> QED BY <2>2, <2>3
<1>2. kinds \cup {5} \in SUBSET Nat /\ kinds \cup {5} # {} /\ kinds \subseteq 1 .. 4
  OBVIOUS
<1> HIDE DEF kinds
<1>3. Min(kinds \cup {5}) \in kinds \cup {5} /\ \A y \in kinds \cup {5} : Min(kinds \cup {5}) <= y
  BY <1>2, LeastElement
<1>4. Rank(s, p) = Min(kinds \cup {5})
  BY DEF Rank, kinds
<1>5. Rank(s, p) \in kinds \cup {5} /\ \A y \in kinds \cup {5} : Rank(s, p) <= y
  BY <1>3, <1>4
<1>6. Rank(s, p) \in 1 .. 5 /\ (Rank(s, p) < 5 => Rank(s, p) \in kinds)
  <2>1. \A x \in kinds : x \in 1 .. 4
    BY <1>2
  <2>2. \A x \in 1 .. 4 : x \in 1 .. 5 /\ x < 5
    OBVIOUS
  <2>3. 5 \in 1 .. 5 /\ ~(5 < 5)
    OBVIOUS
  <2> QED BY <1>5, <2>1, <2>2, <2>3, Zenon
<1>7. Rank(s, p) < 5 => \E q : Occurs(Rank(s, p), s, p, q)
  BY <1>1, <1>2, <1>6
<1>8. ASSUME NEW n \in 1 .. 4, NEW q, Occurs(n, s, p, q) PROVE Rank(s, p) = n
  <2>1. n \in kinds
    BY <1>1, <1>8
  <2>2. Rank(s, p) < 5 /\ Rank(s, p) \in 1 .. 4
    BY <1>5, <1>6, <2>1
  <2> DEFINE m == Rank(s, p)
  <2>3. m \in 1 .. 4 /\ \E r : Occurs(m, s, p, r)
    BY <1>7, <2>2
  <2> HIDE DEF m
  <2>4. m = n
    <3>1. PICK r : Occurs(m, s, p, r)
      BY <2>3
    <3> QED BY <1>8, <2>3, <3>1, OneKind, Zenon
  <2> QED BY <2>4 DEF m
<1> QED BY <1>6, <1>7, <1>8

(* The longest reference that begins at a place.                           *)
LEMMA LongestEnd ==
  ASSUME NEW s \in Text, NEW p, Rank(s, p) < 5
  PROVE  /\ Occurs(Rank(s, p), s, p, Max(EndsAt(s, p)))
         /\ \A q : Occurs(Rank(s, p), s, p, q) => q <= Max(EndsAt(s, p))
<1> DEFINE n == Rank(s, p)
           ends == EndsAt(s, p)
<1>1. n \in 1 .. 4 /\ \E q : Occurs(n, s, p, q)
  BY RankIs
<1>2. \A q : Occurs(n, s, p, q) => q \in ends
  <2> SUFFICES ASSUME NEW q, Occurs(n, s, p, q) PROVE q \in ends
    OBVIOUS
  <2>1. <<p, q>> \in Occurrences(Tries[n], s) /\ <<p, q>>[1] = p /\ <<p, q>>[2] = q
    BY OccurrencesAre
  <2>2. Tries[n] \in Range(Tries)
    BY <1>1, KindsAre
  <2> QED BY <2>1, <2>2 DEF EndsAt
<1>3. ASSUME NEW q \in ends PROVE Occurs(n, s, p, q)
  <2>1. PICK t \in Range(Tries) : \E o \in Occurrences(t, s) : o[1] = p /\ o[2] = q
    BY <1>3 DEF EndsAt
  <2>2. PICK m \in 1 .. 4 : t = Tries[m]
    BY <2>1, KindsAre
  <2>3. PICK o \in Occurrences(Tries[m], s) : o[1] = p /\ o[2] = q
    BY <2>1, <2>2
  <2>4. Occurs(m, s, p, q)
    BY <2>3, OccurrencesAre
  <2> QED BY <2>4, RankIs
<1>4. Len(s) \in Nat /\ ends \in SUBSET Nat /\ ends # {} /\ \A y \in ends : y <= Len(s)
  <2>1. Len(s) \in Nat
    BY DEF Text
  <2>2. \A y \in ends : y \in 1 .. Len(s)
    BY <1>3 DEF Occurs
  <2>3. ends # {}
    BY <1>1, <1>2
  <2> HIDE DEF ends
  <2> QED BY <2>1, <2>2, <2>3
<1> HIDE DEF ends
<1>5. Max(ends) \in ends /\ \A y \in ends : y <= Max(ends)
  BY <1>4, GreatestElement
<1> QED BY <1>2, <1>3, <1>5 DEF ends

-----------------------------------------------------------------------------
(* What occurs in the rest of a text occurs in the text.                   *)
LEMMA OccursInRest ==
  ASSUME NEW s \in Text, NEW a \in 1 .. Len(s), NEW n, NEW p, NEW q
  PROVE  Occurs(n, SubSeq(s, a, Len(s)), p, q) <=>
           /\ p \in 1 .. Len(s) - a + 1 /\ q \in 1 .. Len(s) - a + 1
           /\ Occurs(n, s, a + p - 1, a + q - 1)
<1> DEFINE r == SubSeq(s, a, Len(s))
<1>1. a \in Nat \ {0} /\ Len(s) \in Nat /\ Len(s) \in 0 .. Len(s) /\ Len(s) \in 1 .. Len(s)
  BY DEF Text
<1>2. r \in Text /\ Len(r) = Len(s) - a + 1 /\ \A k \in 1 .. Len(r) : r[k] = s[a + k - 1]
  BY <1>1, PartOf
<1>3. ASSUME p \in 1 .. Len(s) - a + 1, q \in 1 .. Len(s) - a + 1
      PROVE  SubSeq(r, p, q) = SubSeq(s, a + p - 1, a + q - 1)
  BY <1>1, <1>3, SubSeqOfSubSeq DEF Text
<1> HIDE DEF r
<1>4. ASSUME p \in 1 .. Len(s) - a + 1, q \in 1 .. Len(s) - a + 1
      PROVE  /\ a + p - 1 \in 1 .. Len(s) /\ a + q - 1 \in 1 .. Len(s)
             /\ p < q <=> a + p - 1 < a + q - 1
             /\ p \in 1 .. Len(r) /\ r[p] = s[a + p - 1]
  BY <1>1, <1>2, <1>4
<1>5. Occurs(n, r, p, q) => p \in 1 .. Len(s) - a + 1 /\ q \in 1 .. Len(s) - a + 1
  BY <1>2 DEF Occurs
<1>6. ASSUME p \in 1 .. Len(s) - a + 1, q \in 1 .. Len(s) - a + 1
      PROVE  Occurs(n, r, p, q) <=> Occurs(n, s, a + p - 1, a + q - 1)
  BY <1>2, <1>3, <1>4, <1>6, Zenon DEF Occurs
<1> QED BY <1>5, <1>6 DEF r

(* In an orderly text nothing in what is left is of a kind tried before    *)
(* that of the reference that stands there, if one does.                   *)
LEMMA NoneEarlier ==
  ASSUME NEW s \in Text, NEW a \in 1 .. Len(s), InOrder(s), s[a] \in Signs, ~IsEscaped(s)[a],
         NEW n \in 1 .. 4, n < Rank(s, a)
  PROVE  Occurrences(Tries[n], SubSeq(s, a, Len(s))) = {}
<1> SUFFICES ASSUME NEW o \in Occurrences(Tries[n], SubSeq(s, a, Len(s))) PROVE FALSE
  OBVIOUS
<1>1. Occurs(n, SubSeq(s, a, Len(s)), o[1], o[2])
  BY OccurrencesAre
<1> DEFINE p == a + o[1] - 1
           q == a + o[2] - 1
<1>2. o[1] \in 1 .. Len(s) - a + 1 /\ Occurs(n, s, p, q)
  BY <1>1, OccursInRest
<1>3. p \in 1 .. Len(s) /\ p >= a /\ a \in 1 .. Len(s) /\ Len(s) \in Nat
  BY <1>2 DEF Text
<1>4. s[p] \in Signs
  BY <1>2 DEF Occurs
<1> HIDE DEF p, q
<1>5. Rank(s, p) = n
  BY <1>2, RankIs
<1>6. p # a
  BY <1>5
<1>7. a < p /\ a \in DOMAIN s /\ p \in DOMAIN s
  BY <1>3, <1>6, LenProperties DEF Text
<1>8. Rank(s, a) <= Rank(s, p)
  BY <1>4, <1>7, Zenon DEF InOrder
<1>9. Rank(s, a) \in 1 .. 5
  BY RankIs
<1> QED BY <1>5, <1>8, <1>9

(* The first match in the rest is the reference that stands there.         *)
LEMMA FirstMatch ==
  ASSUME NEW s \in Text, NEW a \in 1 .. Len(s), Rank(s, a) < 5
  PROVE  /\ Occurrences(Tries[Rank(s, a)], SubSeq(s, a, Len(s))) # {}
         /\ is_variable(Tries[Rank(s, a)], SubSeq(s, a, Len(s))) = Max(EndsAt(s, a)) - a + 1
<1> DEFINE n == Rank(s, a)
           r == SubSeq(s, a, Len(s))
           all == Occurrences(Tries[n], r)
           begins == {o[1] : o \in all}
           end == Max(EndsAt(s, a))
           ends == {o[2] : o \in {p \in all : p[1] = 1}}
<1>1. n \in 1 .. 4 /\ Len(s) \in Nat
  BY RankIs DEF Text
<1>2. Occurs(n, s, a, end) /\ \A q : Occurs(n, s, a, q) => q <= end
  BY LongestEnd
<1>3. end \in Nat /\ a \in Nat /\ a < end /\ end <= Len(s) /\ a >= 1
  BY <1>1, <1>2, OccurrenceShape
<1> HIDE DEF end
<1>4. /\ \A p, q : <<p, q>> \in all <=> Occurs(n, r, p, q)
      /\ \A o \in all : o = <<o[1], o[2]>>
  BY OccurrencesAre
<1>5. \A p, q : Occurs(n, r, p, q) <=>
                  /\ p \in 1 .. Len(s) - a + 1 /\ q \in 1 .. Len(s) - a + 1
                  /\ Occurs(n, s, a + p - 1, a + q - 1)
  BY OccursInRest
<1> HIDE DEF r, all, n
<1>6. <<1, end - a + 1>> \in all
  <2>1. /\ 1 \in 1 .. Len(s) - a + 1 /\ end - a + 1 \in 1 .. Len(s) - a + 1
        /\ a + 1 - 1 = a /\ a + (end - a + 1) - 1 = end
    BY <1>1, <1>3
  <2>2. Occurs(n, r, 1, end - a + 1)
    BY <1>2, <1>5, <2>1
  <2> QED BY <1>4, <2>2
<1>7. ASSUME NEW o \in all
      PROVE  /\ o[1] \in Nat \ {0} /\ o[2] \in Nat
             /\ o[1] = 1 => o[2] <= end - a + 1
  <2>1. Occurs(n, r, o[1], o[2])
    BY <1>4
  <2>2. /\ o[1] \in 1 .. Len(s) - a + 1 /\ o[2] \in 1 .. Len(s) - a + 1
        /\ Occurs(n, s, a + o[1] - 1, a + o[2] - 1)
    BY <1>5, <2>1
  <2>3. ASSUME o[1] = 1 PROVE o[2] <= end - a + 1
    <3>1. a + o[1] - 1 = a
      BY <1>3, <2>3
    <3>2. a + o[2] - 1 <= end
      BY <1>2, <2>2, <3>1
    <3> QED BY <1>3, <2>2, <3>2
  <2> QED BY <1>1, <1>3, <2>2, <2>3
<1>8. Min(begins) = 1
  <2>1. begins \in SUBSET Nat /\ 1 \in begins /\ \A b \in begins : b >= 1
    BY <1>6, <1>7
  <2> HIDE DEF begins
  <2>2. Min(begins) \in begins /\ \A y \in begins : Min(begins) <= y
    BY <2>1, LeastElement
  <2>3. Min(begins) \in Nat /\ Min(begins) >= 1 /\ Min(begins) <= 1
    BY <2>1, <2>2
  <2> QED BY <2>3
<1>9. Max(ends) = end - a + 1
  <2>1. end - a + 1 \in ends
    BY <1>6
  <2>2. ends \in SUBSET Nat /\ \A y \in ends : y <= end - a + 1
    BY <1>7
  <2> HIDE DEF ends
  <2>3. end - a + 1 \in Nat /\ ends # {}
    BY <1>3, <2>1
  <2>4. Max(ends) \in ends /\ \A y \in ends : y <= Max(ends)
    BY <2>2, <2>3, GreatestElement
  <2>5. Max(ends) \in Nat /\ Max(ends) <= end - a + 1 /\ end - a + 1 <= Max(ends)
    BY <2>1, <2>2, <2>4
  <2> QED BY <2>3, <2>5
<1>10. is_variable(Tries[n], r) = end - a + 1
  <2>1. is_variable(Tries[n], r) =
          Max({o[2] : o \in {p \in all : p[1] = Min(begins)}}) - Min(begins) + 1
    BY DEF is_variable, all
  <2>2. is_variable(Tries[n], r) = Max(ends) - 1 + 1
    BY <1>8, <2>1
  <2> QED BY <1>3, <1>9, <2>2
<1> QED BY <1>6, <1>10 DEF n, r, end, all

-----------------------------------------------------------------------------
(* The pieces of a text, and what stands in their places, are texts.       *)
LEMMA SignsAreNot == Backslash \notin Signs
BY DEF Signs, At, Amp, Dollar, Backslash

(* A piece ends in the text, or one place past a last backslash.           *)
LEMMA PieceEnds ==
  ASSUME NEW s \in Text, NEW k \in 1 .. Len(s)
  PROVE  /\ PieceEnd(s, k) \in k .. Len(s) + 1
         /\ s[k] \in Signs /\ Rank(s, k) < 5 =>
              PieceEnd(s, k) = Max(EndsAt(s, k)) /\ PieceEnd(s, k) \in k + 1 .. Len(s)
<1>1. Len(s) \in Nat
  BY DEF Text
<1>2. CASE s[k] = Backslash
  <2>1. PieceEnd(s, k) = k + 1 /\ s[k] \notin Signs
    BY <1>2, SignsAreNot DEF PieceEnd
  <2> QED BY <1>1, <2>1
<1>3. CASE s[k] # Backslash /\ s[k] \in Signs /\ Rank(s, k) < 5
  <2> DEFINE e == Max(EndsAt(s, k))
             n == Rank(s, k)
  <2>1. n \in 1 .. 4 /\ Occurs(n, s, k, e)
    BY <1>3, LongestEnd, RankIs
  <2> HIDE DEF e, n
  <2>2. e \in Nat /\ k < e /\ e <= Len(s)
    BY <2>1, OccurrenceShape
  <2>3. PieceEnd(s, k) = e
    BY <1>3 DEF PieceEnd, e
  <2> QED BY <1>1, <2>2, <2>3 DEF e
<1>4. CASE s[k] # Backslash /\ ~(s[k] \in Signs /\ Rank(s, k) < 5)
  <2>1. PieceEnd(s, k) = k
    BY <1>4 DEF PieceEnd
  <2> QED BY <1>1, <1>4, <2>1
<1> QED BY <1>2, <1>3, <1>4

(* What a reference means is a text.                                       *)
LEMMA MeantTexts ==
  ASSUME TypeInv, NEW n, NEW w, NEW v \in Meant(n, w)
  PROVE  v \in Text
<1>1. \A table, x : Range(table) \subseteq Text => LookUp(table, x) \subseteq Text
  BY DEF LookUp, Range
<1>2. Range(script.prop) \subseteq Text /\ Range(Global) \subseteq Text /\ Range(symTable) \subseteq Text
  BY ScriptAssumption, GlobalAssumption DEF TypeInv, TypeOK
<1> QED BY <1>1, <1>2 DEF Meant, getPropositional

(* So is what stands in the place of any piece.                            *)
LEMMA ReplacementText ==
  ASSUME TypeInv, NEW s \in Text, NEW k \in 1 .. Len(s)
  PROVE  Replacement(s, k) \in Text
<1>1. Len(s) \in Nat /\ \A j \in 1 .. Len(s) : s[j] \in 0 .. 255
  BY ElementOfSeq DEF Text
<1>2. \A c \in 0 .. 255 : <<c>> \in Text
  BY DEF Text
<1>3. CASE s[k] = Backslash
  <2>1. (IF k = Len(s) THEN 0 ELSE s[k + 1]) \in 0 .. 255
    <3>1. k # Len(s) => k + 1 \in 1 .. Len(s)
      BY <1>1
    <3> QED BY <1>1, <3>1
  <2> QED BY <1>2, <1>3, <2>1 DEF Replacement
<1>4. CASE s[k] # Backslash /\ s[k] \in Signs /\ Rank(s, k) < 5
  <2> DEFINE v == Meant(Rank(s, k), SubSeq(s, k, PieceEnd(s, k)))
  <2>1. v # {} => (CHOOSE x \in v : TRUE) \in Text
    <3>1. \A x \in v : x \in Text
      BY MeantTexts
    <3> HIDE DEF v
    <3> QED BY <3>1
  <2>2. Replacement(s, k) = IF v = {} THEN NoText ELSE CHOOSE x \in v : TRUE
    BY <1>4 DEF Replacement
  <2>3. NoText \in Text
    BY DEF NoText, Text
  <2> HIDE DEF v
  <2> QED BY <2>1, <2>2, <2>3
<1>5. CASE s[k] # Backslash /\ ~(s[k] \in Signs /\ Rank(s, k) < 5)
  <2>1. Replacement(s, k) = <<s[k]>>
    BY <1>5 DEF Replacement
  <2> QED BY <1>1, <1>2, <2>1
<1> QED BY <1>3, <1>4, <1>5

PieceWords(s) == [p \in DOMAIN s |-> Replacement(s, p)]
PieceNext(s) == [p \in DOMAIN s |-> PieceEnd(s, p) + 1]
WrittenFrom(s, p) == Concatenated(PieceWords(s), PieceNext(s), p, Len(s))

(* The reference in terms of what is written from a place on.              *)
LEMMA WrittenIs ==
  ASSUME NEW s
  PROVE  Written(s) = WrittenFrom(s, 1)
BY DEF Written, WrittenFrom, PieceWords, PieceNext

(* The piece at a place, and then what is written from the next.           *)
LEMMA WrittenPieces ==
  ASSUME TypeInv, NEW s \in Text, NEW p \in 1 .. Len(s) + 3
  PROVE  /\ Pieces(PieceWords(s), PieceNext(s), p, Len(s))
         /\ WrittenFrom(s, p) \in Text
         /\ p > Len(s) => WrittenFrom(s, p) = NoText
         /\ p <= Len(s) => WrittenFrom(s, p) = Replacement(s, p) \o WrittenFrom(s, PieceEnd(s, p) + 1)
<1>1. Len(s) \in Nat /\ DOMAIN s = 1 .. Len(s)
  BY LenProperties DEF Text
<1>2. ASSUME NEW k \in 1 .. Len(s)
      PROVE  /\ PieceWords(s)[k] = Replacement(s, k) /\ PieceNext(s)[k] = PieceEnd(s, k) + 1
             /\ PieceWords(s)[k] \in Text
             /\ PieceNext(s)[k] \in k + 1 .. Len(s) + 3
  <2>1. PieceWords(s)[k] = Replacement(s, k) /\ PieceNext(s)[k] = PieceEnd(s, k) + 1
    BY <1>1 DEF PieceWords, PieceNext
  <2>2. PieceEnd(s, k) \in k .. Len(s) + 1 /\ Replacement(s, k) \in Text
    BY PieceEnds, ReplacementText
  <2> QED BY <1>1, <2>1, <2>2
<1> DEFINE word == PieceWords(s)
           next == PieceNext(s)
<1> HIDE DEF word, next
<1>3. Pieces(word, next, p, Len(s))
  <2>1. \A k \in p .. Len(s) : k \in 1 .. Len(s)
    BY <1>1
  <2>2. \A k \in p .. Len(s) : word[k] \in Text /\ next[k] \in k + 1 .. Len(s) + 3
    BY <1>2, <2>1 DEF word, next
  <2>3. p \in Nat \ {0} /\ Len(s) \in Nat /\ p <= Len(s) + 3
    BY <1>1
  <2> QED BY <2>2, <2>3 DEF Pieces
<1>4. Concatenated(word, next, p, Len(s)) =
        IF p > Len(s) THEN NoText ELSE word[p] \o Concatenated(word, next, next[p], Len(s))
  BY <1>3, FirstPiece
<1>5. Concatenated(word, next, p, Len(s)) \in Text
  <2>1. \A k \in p .. Len(s) : word[k] \in Seq(0 .. 255)
    BY <1>3 DEF Pieces, Text
  <2> QED BY <1>3, <2>1, ConcatenatedType DEF Text
<1>6. p <= Len(s) => word[p] = Replacement(s, p) /\ next[p] = PieceEnd(s, p) + 1 /\ ~(p > Len(s))
  <2>1. p <= Len(s) => p \in 1 .. Len(s) /\ ~(p > Len(s))
    BY <1>1
  <2> QED BY <1>2, <2>1 DEF word, next
<1> QED BY <1>3, <1>4, <1>5, <1>6 DEF WrittenFrom, word, next

-----------------------------------------------------------------------------
(* What is looked up for a reference is what it means.                     *)
LEMMA ValueMeant ==
  ASSUME NEW s \in Text, NEW n \in 1 .. 4, NEW p, NEW q, Occurs(n, s, p, q),
         n = 3 => SubSeq(s, p, q) \in DOMAIN Global
  PROVE  /\ Value(Tries[n], SubSeq(s, p, q)) = Meant(n, SubSeq(s, p, q))
         /\ ~Throws(Tries[n], SubSeq(s, p, q))
<1> DEFINE w == SubSeq(s, p, q)
<1>1. /\ p \in Nat /\ q \in Nat /\ p < q /\ q <= Len(s) /\ p >= 1 /\ s[p] = w[1]
      /\ Begins(n, s[p], s[p + 1]) /\ (n = 4 => IsNumber(Tail(w)))
  <2>1. /\ p \in Nat /\ q \in Nat /\ p < q /\ q <= Len(s) /\ p >= 1
        /\ Begins(n, s[p], s[p + 1]) /\ (n = 4 => IsNumber(Tail(w)))
    BY OccurrenceShape
  <2>2. p \in Nat \ {0} /\ q \in 0 .. Len(s)
    BY <2>1 DEF Text
  <2>3. Len(w) = q - p + 1 /\ \A k \in 1 .. Len(w) : w[k] = s[p + k - 1]
    BY <2>1, <2>2, PartOf
  <2> HIDE DEF w
  <2>4. 1 \in 1 .. Len(w) /\ p + 1 - 1 = p
    BY <2>1, <2>3
  <2>5. w[1] = s[p + 1 - 1]
    BY <2>3, <2>4
  <2> QED BY <2>1, <2>4, <2>5
<1> DEFINE long == <<At, 48 + script.number, Dot>> \o Tail(w)
<1>2. long[1] = At
  <2> DEFINE head == <<At, 48 + script.number, Dot>>
             C == 0 .. 255 \cup {At, 48 + script.number, Dot}
             t == Tail(w)
  <2>1. head \in Seq(C) /\ Len(head) = 3 /\ head[1] = At
    OBVIOUS
  <2>2. t \in Seq(C)
    <3>1. w \in Text /\ w # <<>>
      <4>1. p \in Nat \ {0} /\ q \in 0 .. Len(s)
        BY <1>1 DEF Text
      <4>2. w \in Text /\ Len(w) = q - p + 1
        BY <1>1, <4>1, PartOf
      <4> HIDE DEF w
      <4> QED BY <1>1, <4>2
    <3> HIDE DEF w, C
    <3>2. t \in Text
      BY <3>1, HeadTailProperties DEF Text
    <3> HIDE DEF t
    <3>3. 0 .. 255 \subseteq C
      BY DEF C
    <3>4. \A k \in 1 .. Len(t) : t[k] \in C
      BY <3>2, <3>3, ElementOfSeq DEF Text
    <3> QED BY <3>2, <3>4, LenProperties, SeqDef DEF Text
  <2> HIDE DEF head, t, C
  <2>3. \A k \in 1 .. Len(head) + Len(t) :
          (head \o t)[k] = IF k <= Len(head) THEN head[k] ELSE t[k - Len(head)]
    BY <2>1, <2>2, ConcatProperties
  <2>4. Len(t) \in Nat
    BY <2>2, LenProperties
  <2>5. (head \o t)[1] = At
    BY <2>1, <2>3, <2>4
  <2> QED BY <2>5 DEF head, t
<1>3. At # Amp
  BY DEF At, Amp
<1>4. Tries[1] = "lvar" /\ Tries[2] = "slvar" /\ Tries[3] = "gvar" /\ Tries[4] = "pvar"
  BY KindsAre
<1>5. n = 3 => w \in DOMAIN Global
  OBVIOUS
<1> HIDE DEF w, long
<1>6. CASE n = 1
  <2>1. w[1] = At /\ Asked("lvar", w) = w
    BY <1>1, <1>6 DEF Begins, Asked
  <2> QED BY <1>3, <1>4, <1>6, <2>1 DEF Value, Throws, Meant, w
<1>7. CASE n = 2
  <2>1. Asked("slvar", w) = long
    BY DEF Asked, long
  <2>2. Value("slvar", w) = LookUp(symTable, long) /\ ~Throws("slvar", w)
    BY <1>2, <1>3, <1>7, <2>1 DEF Value, Throws
  <2>3. Meant(2, w) = LookUp(symTable, long)
    BY DEF Meant, long
  <2> QED BY <1>4, <1>7, <2>2, <2>3 DEF w
<1>8. CASE n = 3
  <2>1. w[1] = Amp /\ Asked("gvar", w) = w
    BY <1>1, <1>8 DEF Begins, Asked
  <2> QED BY <1>4, <1>5, <1>8, <2>1 DEF Value, Throws, Meant, w
<1>9. CASE n = 4
  <2>1. Value("pvar", w) = Meant(4, w) /\ ~Throws("pvar", w)
    BY <1>1, <1>9 DEF Value, Throws, Meant
  <2> QED BY <1>4, <1>9, <2>1 DEF w
<1> QED BY <1>6, <1>7, <1>8, <1>9

-----------------------------------------------------------------------------
(* While a string is evaluated: what is written so far and what is left.   *)
Orderly(s) == s = script.source /\ InOrder(s) /\ AllKnown(s)
Unescaped(s) == at \in 1 .. Len(s) => ~IsEscaped(s)[at]
Joined(s) == result \o WrittenFrom(s, at) = WrittenFrom(s, 1)

(* A step that puts the right thing in the place of the piece at hand.     *)
TakesPiece(s) ==
  /\ result' = result \o Replacement(s, at)
  /\ at' = PieceEnd(s, at) + 1
  /\ at' \in 1 .. Len(s) => ~IsEscaped(s)[at']
  /\ UNCHANGED <<script, symTable>>

(* The meaning stays as long as the table and the script do.               *)
LEMMA WordsStay ==
  ASSUME NEW s, UNCHANGED <<script, symTable>>
  PROVE  PieceWords(s)' = PieceWords(s)
BY DEF PieceWords, Replacement, Meant, getPropositional

(* The rest of the text begins with the character at hand.                 *)
LEMMA AtRest ==
  ASSUME TypeInv, NEW s, s = script.source, at <= Len(s)
  PROVE  /\ s \in Text /\ Len(s) \in Nat /\ at \in 1 .. Len(s)
         /\ Rest = SubSeq(s, at, Len(s)) /\ Rest \in Text /\ Len(Rest) = Len(s) - at + 1
         /\ Rest[1] = s[at] /\ (at # Len(s) => Rest[2] = s[at + 1])
         /\ s[at] \in 0 .. 255
<1>1. s \in Text /\ Len(s) \in Nat /\ at \in 1 .. Len(s) /\ Rest = SubSeq(s, at, Len(s))
  BY RestText, ScriptAssumption DEF TypeInv, TypeOK, Rest
<1>2. at \in Nat \ {0} /\ Len(s) \in 0 .. Len(s)
  BY <1>1
<1> DEFINE r == SubSeq(s, at, Len(s))
<1>3. r \in Text /\ Len(r) = Len(s) - at + 1 /\ \A k \in 1 .. Len(r) : r[k] = s[at + k - 1]
  BY <1>1, <1>2, PartOf
<1> HIDE DEF r
<1>4. /\ 1 \in 1 .. Len(r) /\ at + 1 - 1 = at
      /\ at # Len(s) => 2 \in 1 .. Len(r) /\ at + 2 - 1 = at + 1
  BY <1>1, <1>3
<1>5. r[1] = s[at + 1 - 1] /\ (at # Len(s) => r[2] = s[at + 2 - 1])
  BY <1>3, <1>4
<1>6. r[1] = s[at] /\ (at # Len(s) => r[2] = s[at + 1])
  BY <1>4, <1>5
<1>7. s[at] \in 0 .. 255
  BY <1>1, ElementOfSeq DEF Text
<1> QED BY <1>1, <1>3, <1>6, <1>7 DEF r

(* A character is appended as a text of one.                               *)
LEMMA AppendIs ==
  ASSUME NEW s \in Text, NEW c \in 0 .. 255
  PROVE  Append(s, c) = s \o <<c>>
BY AppendIsConcat DEF Text

(* After such a step what is written so far and what is left still join.   *)
LEMMA PieceTaken ==
  ASSUME TypeInv, NEW s, s = script.source, at <= Len(s),
         Joined(s) \/ (at = 1 /\ result = NoText), TakesPiece(s)
  PROVE  Joined(s)' /\ Unescaped(s)'
<1>1. s \in Text /\ Len(s) \in Nat /\ at \in 1 .. Len(s) /\ result \in Text
  BY AtRest DEF TypeInv, TypeOK
<1>2. PieceEnd(s, at) + 1 \in 1 .. Len(s) + 3 /\ Replacement(s, at) \in Text
  BY <1>1, PieceEnds, ReplacementText
<1>3. /\ WrittenFrom(s, at) = Replacement(s, at) \o WrittenFrom(s, PieceEnd(s, at) + 1)
      /\ WrittenFrom(s, at) \in Text
  <2>1. at \in 1 .. Len(s) + 3
    BY <1>1
  <2> QED BY <1>1, <2>1, WrittenPieces
<1>4. WrittenFrom(s, PieceEnd(s, at) + 1) \in Text
  BY <1>1, <1>2, WrittenPieces
<1>5. result \o WrittenFrom(s, at) = WrittenFrom(s, 1)
  <2>1. CASE at = 1 /\ result = NoText
    <3>1. <<>> \o WrittenFrom(s, at) = WrittenFrom(s, at)
      BY <1>3, ConcatEmptySeq DEF Text
    <3> QED BY <2>1, <3>1 DEF NoText
  <2> QED BY <2>1 DEF Joined
<1>6. (result \o Replacement(s, at)) \o WrittenFrom(s, PieceEnd(s, at) + 1) = WrittenFrom(s, 1)
  <2> DEFINE x == result
             y == Replacement(s, at)
             z == WrittenFrom(s, PieceEnd(s, at) + 1)
  <2>1. x \in Text /\ y \in Text /\ z \in Text
    BY <1>1, <1>2, <1>4
  <2>2. x \o (y \o z) = WrittenFrom(s, 1)
    BY <1>3, <1>5
  <2> HIDE DEF x, y, z
  <2>3. x \o (y \o z) = (x \o y) \o z
    BY <2>1, ConcatAssociative DEF Text
  <2> QED BY <2>2, <2>3 DEF x, y, z
<1>7. PieceWords(s)' = PieceWords(s)
  BY WordsStay DEF TakesPiece
<1>8. Joined(s)'
  BY <1>6, <1>7 DEF Joined, WrittenFrom, TakesPiece
<1> QED BY <1>8 DEF Unescaped, TakesPiece

(* What follows a backslash that is not itself escaped is not a sign.      *)
LEMMA EscapedTakes ==
  ASSUME TypeInv, NEW s, Orderly(s), Unescaped(s), Escaped
  PROVE  TakesPiece(s)
<1>1. /\ s \in Text /\ Len(s) \in Nat /\ at \in 1 .. Len(s)
      /\ Rest \in Text /\ Len(Rest) = Len(s) - at + 1
      /\ Rest[1] = s[at] /\ (at # Len(s) => Rest[2] = s[at + 1])
  BY AtRest DEF Escaped, Orderly
<1>2. /\ s[at] = Backslash /\ at' = at + 2
      /\ result' = Append(result, IF Len(Rest) = 1 THEN 0 ELSE Rest[2])
      /\ UNCHANGED <<script, symTable>>
  BY <1>1 DEF Escaped
<1>3. PieceEnd(s, at) = at + 1 /\ Replacement(s, at) = <<IF at = Len(s) THEN 0 ELSE s[at + 1]>>
  BY <1>2 DEF PieceEnd, Replacement
<1> DEFINE c == IF at = Len(s) THEN 0 ELSE s[at + 1]
<1>4. c \in 0 .. 255
  <2>1. at # Len(s) => at + 1 \in 1 .. Len(s)
    BY <1>1
  <2>2. at # Len(s) => s[at + 1] \in 0 .. 255
    BY <1>1, <2>1, ElementOfSeq DEF Text
  <2>3. 0 \in 0 .. 255
    OBVIOUS
  <2> QED BY <2>2, <2>3, Zenon
<1>5. (IF Len(Rest) = 1 THEN 0 ELSE Rest[2]) = c
  BY <1>1
<1>6. result \in Text
  BY DEF TypeInv, TypeOK
<1> HIDE DEF c
<1>7. result' = result \o <<c>>
  BY <1>2, <1>4, <1>5, <1>6, AppendIs
<1>8. ASSUME at + 2 \in 1 .. Len(s) PROVE ~IsEscaped(s)[at + 2]
  <2>1. at + 1 \in 1 .. Len(s) /\ (at + 1) - 1 = at /\ (at + 2) - 1 = at + 1 /\ at + 1 > 1
    BY <1>1, <1>8
  <2>2. IsEscaped(s)[at + 1] = (at + 1 > 1 /\ s[(at + 1) - 1] = Backslash /\ ~IsEscaped(s)[(at + 1) - 1])
    BY <1>1, <2>1, EscapedAfter
  <2>3. IsEscaped(s)[at + 2] = (at + 2 > 1 /\ s[(at + 2) - 1] = Backslash /\ ~IsEscaped(s)[(at + 2) - 1])
    BY <1>1, <1>8, EscapedAfter
  <2>4. ~IsEscaped(s)[at]
    BY <1>1 DEF Unescaped
  <2>5. IsEscaped(s)[at + 1]
    BY <1>2, <2>1, <2>2, <2>4, Zenon
  <2> QED BY <2>1, <2>3, <2>5, Zenon
<1>9. at + 1 + 1 = at + 2
  BY <1>1
<1> QED BY <1>2, <1>3, <1>7, <1>8, <1>9 DEF TakesPiece, c

(* A step past a character that is no backslash.                           *)
LEMMA NextUnescaped ==
  ASSUME NEW s \in Text, NEW k \in 1 .. Len(s), s[k] # Backslash, k + 1 \in 1 .. Len(s)
  PROVE  ~IsEscaped(s)[k + 1]
<1>1. IsEscaped(s)[k + 1] = (k + 1 > 1 /\ s[(k + 1) - 1] = Backslash /\ ~IsEscaped(s)[(k + 1) - 1])
  BY EscapedAfter
<1>2. (k + 1) - 1 = k
  BY DEF Text
<1> QED BY <1>1, <1>2, Zenon

(* The reference that stands there is the one that is found.               *)
LEMMA FoundIsRank ==
  ASSUME TypeInv, NEW s, Orderly(s), Unescaped(s), AtSign
  PROVE  /\ Rank(s, at) \in 1 .. 5
         /\ Found = IF Rank(s, at) < 5 THEN {Rank(s, at)} ELSE {}
<1> DEFINE n == Rank(s, at)
<1>1. /\ s \in Text /\ at \in 1 .. Len(s) /\ Rest = SubSeq(s, at, Len(s)) /\ s[at] \in Signs
      /\ InOrder(s) /\ ~IsEscaped(s)[at]
  BY AtRest DEF AtSign, Orderly, Unescaped
<1>2. n \in 1 .. 5
  BY <1>1, RankIs
<1>3. \A m \in 1 .. 4 : m < n => Occurrences(Tries[m], Rest) = {}
  BY <1>1, NoneEarlier
<1>4. n < 5 => Occurrences(Tries[n], Rest) # {}
  BY <1>1, FirstMatch
<1> HIDE DEF n
<1>5. CASE n < 5
  <2>1. n \in Found
    <3>1. n \in 1 .. 4 /\ \A m \in 1 .. n - 1 : m \in 1 .. 4 /\ m < n
      BY <1>2, <1>5
    <3> QED BY <1>3, <1>4, <1>5, <3>1 DEF Found
  <2>2. ASSUME NEW m \in Found PROVE m = n
    <3>1. /\ m \in 1 .. 4 /\ Occurrences(Tries[m], Rest) # {}
          /\ \A j \in 1 .. m - 1 : Occurrences(Tries[j], Rest) = {}
      BY DEF Found
    <3>2. ~(m < n)
      BY <1>3, <3>1
    <3>3. n \notin 1 .. m - 1
      BY <1>4, <1>5, <3>1
    <3> QED BY <1>2, <1>5, <3>1, <3>2, <3>3
  <2> QED BY <1>2, <1>5, <2>1, <2>2 DEF n
<1>6. CASE n = 5
  <2>1. ASSUME NEW m \in Found PROVE FALSE
    <3>1. m \in 1 .. 4 /\ Occurrences(Tries[m], Rest) # {}
      BY DEF Found
    <3> QED BY <1>3, <1>6, <3>1
  <2> QED BY <1>2, <1>6, <2>1 DEF n
<1> QED BY <1>2, <1>5, <1>6

(* What it is, and what is looked up for it.                               *)
LEMMA ReferenceIs ==
  ASSUME TypeInv, NEW s, Orderly(s), Unescaped(s), AtSign, NEW n \in Found
  PROVE  /\ n = Rank(s, at) /\ n \in 1 .. 4
         /\ Reference(n) = SubSeq(s, at, PieceEnd(s, at))
         /\ Len(Reference(n)) = PieceEnd(s, at) - at + 1
         /\ Value(Tries[n], Reference(n)) = Meant(n, Reference(n)) /\ ~Throws(Tries[n], Reference(n))
         /\ s[PieceEnd(s, at)] # Backslash
<1> DEFINE e == PieceEnd(s, at)
<1>1. /\ s \in Text /\ Len(s) \in Nat /\ at \in 1 .. Len(s) /\ Rest = SubSeq(s, at, Len(s))
      /\ s[at] \in Signs
  BY AtRest DEF AtSign, Orderly
<1>2. n = Rank(s, at) /\ n \in 1 .. 4 /\ Rank(s, at) < 5
  <2>1. Rank(s, at) \in 1 .. 5 /\ Found = IF Rank(s, at) < 5 THEN {Rank(s, at)} ELSE {}
    BY FoundIsRank
  <2> QED BY <2>1
<1>3. e = Max(EndsAt(s, at)) /\ e \in at + 1 .. Len(s)
  BY <1>1, <1>2, PieceEnds
<1>4. is_variable(Tries[n], Rest) = e - at + 1
  BY <1>1, <1>2, <1>3, FirstMatch
<1>5. Occurs(n, s, at, e)
  BY <1>1, <1>2, <1>3, LongestEnd
<1> HIDE DEF e
<1>6. SubSeq(Rest, 1, e - at + 1) = SubSeq(s, at, e)
  <2>1. /\ at \in 1 .. Len(s) /\ Len(s) \in 1 .. Len(s) /\ 1 \in 1 .. Len(s) - at + 1
        /\ e - at + 1 \in 1 .. Len(s) - at + 1
        /\ at + 1 - 1 = at /\ at + (e - at + 1) - 1 = e
    BY <1>1, <1>3
  <2>2. SubSeq(SubSeq(s, at, Len(s)), 1, e - at + 1) = SubSeq(s, at + 1 - 1, at + (e - at + 1) - 1)
    BY <1>1, <2>1, SubSeqOfSubSeq DEF Text
  <2> QED BY <1>1, <2>1, <2>2
<1>7. Reference(n) = SubSeq(s, at, e)
  BY <1>4, <1>6 DEF Reference
<1>8. Len(SubSeq(s, at, e)) = e - at + 1
  <2>1. at \in Nat \ {0} /\ e \in 0 .. Len(s) /\ at <= e
    BY <1>1, <1>3
  <2> QED BY <1>1, <2>1, PartOf
<1>9. n = 3 => SubSeq(s, at, e) \in DOMAIN Global
  <2>1. at \in DOMAIN s
    BY <1>1, LenProperties DEF Text
  <2> QED BY <1>2, <1>3, <2>1 DEF Orderly, AllKnown
<1>10. /\ Value(Tries[n], SubSeq(s, at, e)) = Meant(n, SubSeq(s, at, e))
       /\ ~Throws(Tries[n], SubSeq(s, at, e))
  BY <1>1, <1>2, <1>5, <1>9, ValueMeant
<1>11. s[e] # Backslash
  BY <1>1, <1>2, <1>5, OccurrenceShape
<1> QED BY <1>2, <1>7, <1>8, <1>10, <1>11 DEF e

(* A reference is replaced by its value.                                   *)
LEMMA SubstituteTakes ==
  ASSUME TypeInv, NEW s, Orderly(s), Unescaped(s), Substitute
  PROVE  TakesPiece(s)
<1>1. AtSign /\ UNCHANGED <<script, symTable>>
  BY DEF Substitute
<1>2. /\ s \in Text /\ Len(s) \in Nat /\ at \in 1 .. Len(s) /\ s[at] \in Signs
  BY <1>1, AtRest DEF AtSign, Orderly
<1> DEFINE e == PieceEnd(s, at)
<1>3. PICK n \in Found :
        /\ result' = result \o (IF Value(Tries[n], Reference(n)) = {} THEN NoText
                                ELSE CHOOSE v \in Value(Tries[n], Reference(n)) : TRUE)
        /\ at' = at + Len(Reference(n))
  BY Zenon DEF Substitute
<1>4. /\ n = Rank(s, at) /\ n \in 1 .. 4
      /\ Reference(n) = SubSeq(s, at, e)
      /\ Len(Reference(n)) = e - at + 1
      /\ Value(Tries[n], Reference(n)) = Meant(n, Reference(n))
      /\ s[e] # Backslash
  BY <1>1, ReferenceIs
<1>5. s[at] # Backslash /\ Rank(s, at) < 5
  BY <1>2, <1>4, SignsAreNot
<1>6. e \in at + 1 .. Len(s)
  BY <1>2, <1>5, PieceEnds
<1>7. Replacement(s, at) =
        IF Meant(n, SubSeq(s, at, e)) = {} THEN NoText ELSE CHOOSE x \in Meant(n, SubSeq(s, at, e)) : TRUE
  BY <1>2, <1>4, <1>5 DEF Replacement
<1> HIDE DEF e
<1>8. result' = result \o Replacement(s, at)
  BY <1>3, <1>4, <1>7
<1>9. at' = e + 1
  BY <1>2, <1>3, <1>4, <1>6
<1>10. at' \in 1 .. Len(s) => ~IsEscaped(s)[at']
  <2>1. e \in 1 .. Len(s)
    BY <1>2, <1>6
  <2> QED BY <1>2, <1>4, <1>9, <2>1, NextUnescaped
<1> QED BY <1>1, <1>8, <1>9, <1>10 DEF TakesPiece, e

(* A sign that is copied begins no reference.                              *)
LEMMA CopyTakes ==
  ASSUME TypeInv, NEW s, Orderly(s), Unescaped(s), Copy
  PROVE  TakesPiece(s)
<1>1. /\ s \in Text /\ Len(s) \in Nat /\ at \in 1 .. Len(s) /\ Rest[1] = s[at] /\ s[at] \in 0 .. 255
      /\ result \in Text
  BY AtRest DEF Copy, Orderly, TypeInv, TypeOK
<1>2. /\ s[at] # Backslash /\ at' = at + 1 /\ result' = Append(result, s[at])
      /\ UNCHANGED <<script, symTable>>
  BY <1>1 DEF Copy
<1>3. ~(s[at] \in Signs /\ Rank(s, at) < 5)
  <2> SUFFICES ASSUME s[at] \in Signs, Rank(s, at) < 5 PROVE FALSE
    OBVIOUS
  <2>1. AtSign /\ Found = {}
    BY <1>1 DEF AtSign, Copy, Orderly
  <2>2. Found = {Rank(s, at)}
    BY <2>1, FoundIsRank
  <2> QED BY <2>1, <2>2
<1>4. PieceEnd(s, at) = at /\ Replacement(s, at) = <<s[at]>>
  BY <1>2, <1>3 DEF PieceEnd, Replacement
<1>5. result' = result \o <<s[at]>>
  BY <1>1, <1>2, AppendIs
<1>6. at' \in 1 .. Len(s) => ~IsEscaped(s)[at']
  BY <1>1, <1>2, NextUnescaped
<1> QED BY <1>2, <1>4, <1>5, <1>6 DEF TakesPiece

WrittenInv ==
  /\ stage \in {"read", "decode", "split", "environment", "selected"} => at = 1 /\ result = NoText
  /\ \A s : Orderly(s) =>
       /\ stage # "thrown"
       /\ stage = "evaluate" => Unescaped(s) /\ (Joined(s) \/ (at = 1 /\ result = NoText))
       /\ stage = "evaluated" => result = WrittenFrom(s, 1)

(* At the start nothing is written.                                        *)
LEMMA WrittenInit == Init => WrittenInv
BY DEF Init, BeginWith, Begin, WrittenInv

(* Every step keeps the account of what is written.                        *)
LEMMA WrittenStep ==
  ASSUME WrittenInv, TypeInv, [Next]_vars
  PROVE  WrittenInv'
<1>1. script' = script
  BY DEF Next, vars, BeginScript, Evaluating, Substitute, SubstituteThrows, Escaped, Copy, Evaluated
<1>2. stage' \in {"read", "decode", "split", "environment", "selected"} => at' = 1 /\ result' = NoText
  BY DEF WrittenInv, GoTo, Next, Reading, vars, readVars, ReadFails, NoParameters, Read,
         DecodeEscape, DecodePlain, Decoded, Split, StoreEnvironment, NoSelector, Selected,
         BeginScript, Evaluating, Substitute, SubstituteThrows, Escaped, Copy, Evaluated, AtSign
<1>3. ASSUME NEW s, Orderly(s)
      PROVE  /\ stage' # "thrown"
             /\ stage' = "evaluate" =>
                  Unescaped(s)' /\ (Joined(s)' \/ (at' = 1 /\ result' = NoText))
             /\ stage' = "evaluated" => result' = WrittenFrom(s, 1)'
  <2>1. /\ stage # "thrown"
        /\ stage = "evaluate" => Unescaped(s) /\ (Joined(s) \/ (at = 1 /\ result = NoText))
        /\ stage = "evaluated" => result = WrittenFrom(s, 1)
    BY <1>3, Zenon DEF WrittenInv
  <2>2. s \in Text /\ Len(s) \in Nat /\ s = script.source /\ at \in 1 .. Len(s) + 2 /\ result \in Text
    BY <1>3, ScriptAssumption DEF Orderly, TypeInv, TypeOK, Text
  <2>3. ASSUME UNCHANGED <<script, symTable>> PROVE WrittenFrom(s, 1)' = WrittenFrom(s, 1)
    <3>1. PieceWords(s)' = PieceWords(s)
      BY <2>3, WordsStay
    <3> QED BY <3>1 DEF WrittenFrom
  <2>4. CASE UNCHANGED vars
    <3>1. UNCHANGED <<stage, at, result, script, symTable>> /\ PieceWords(s)' = PieceWords(s)
      BY <2>4, WordsStay DEF vars, readVars
    <3> QED BY <2>1, <2>3, <3>1 DEF Unescaped, Joined, WrittenFrom
  <2>5. CASE Reading /\ UNCHANGED <<script, at, result>>
    <3>1. stage' \notin {"thrown", "evaluate", "evaluated"}
      BY <2>5 DEF GoTo, Reading, ReadFails, NoParameters, Read, DecodeEscape, DecodePlain,
         Decoded, Split, StoreEnvironment, NoSelector, Selected
    <3> QED BY <3>1
  <2>6. CASE BeginScript
    <3>1. stage' = "evaluate" /\ at' = 1 /\ result' = NoText
      BY <2>6 DEF BeginScript, GoTo, WrittenInv
    <3>2. 1 \in 1 .. Len(s) => ~IsEscaped(s)[1]
      <4>1. 1 \in 1 .. Len(s) => IsEscaped(s)[1] = (1 > 1 /\ s[1 - 1] = Backslash /\ ~IsEscaped(s)[1 - 1])
        BY <2>2, EscapedAfter
      <4>2. ~(1 > 1)
        OBVIOUS
      <4> QED BY <4>1, <4>2, Zenon
    <3> QED BY <3>1, <3>2 DEF Unescaped
  <2>7. CASE Substitute \/ Escaped \/ Copy
    <3>1. stage = "evaluate" /\ stage' = "evaluate" /\ at <= Len(s)
      BY <2>2, <2>7 DEF Substitute, AtSign, Escaped, Copy
    <3>2. TakesPiece(s)
      BY <1>3, <2>1, <2>7, <3>1, SubstituteTakes, EscapedTakes, CopyTakes
    <3>3. Joined(s)' /\ Unescaped(s)'
      BY <2>1, <2>2, <3>1, <3>2, PieceTaken
    <3> QED BY <3>1, <3>3
  <2>8. CASE SubstituteThrows
    <3>1. AtSign /\ \E n \in Found : Throws(Tries[n], Reference(n))
      BY <2>8 DEF SubstituteThrows
    <3>2. Unescaped(s)
      BY <2>1, <3>1 DEF AtSign
    <3> QED BY <1>3, <3>1, <3>2, ReferenceIs
  <2>9. CASE Evaluated
    <3>1. stage = "evaluate" /\ stage' = "evaluated" /\ at > Len(s) /\ UNCHANGED <<result, script, symTable>>
      BY <2>2, <2>9 DEF Evaluated, GoTo
    <3>2. at \in 1 .. Len(s) + 3 /\ 1 \in 1 .. Len(s) + 3
      BY <2>2
    <3>3. WrittenFrom(s, at) = NoText
      BY <2>2, <3>1, <3>2, WrittenPieces
    <3>4. result = WrittenFrom(s, 1)
      <4>1. CASE at = 1 /\ result = NoText
        BY <3>3, <4>1
      <4>2. CASE Joined(s)
        <5>1. result \o <<>> = result
          BY <2>2, ConcatEmptySeq DEF Text
        <5> QED BY <3>3, <4>2, <5>1 DEF Joined, NoText
      <4> QED BY <2>1, <3>1, <4>1, <4>2
    <3> QED BY <2>3, <3>1, <3>4
  <2> QED BY <2>4, <2>5, <2>6, <2>7, <2>8, <2>9 DEF Next, Evaluating
<1>4. ASSUME NEW s, Orderly(s)'
      PROVE  Orderly(s)
  BY <1>1, <1>4 DEF Orderly
<1> QED BY <1>2, <1>3, <1>4 DEF WrittenInv

(* A text of any length whose references come in the order in which their  *)
(* kinds are tried is substituted as it is written.                        *)
THEOREM SubstitutionIsWritten == Spec => []SubstitutedAsWritten
<1>1. WrittenInv => SubstitutedAsWritten
  <2> SUFFICES ASSUME WrittenInv, stage \in {"evaluated", "thrown"}, InOrder(script.source),
                      AllKnown(script.source)
               PROVE  stage = "evaluated" /\ result = Written(script.source)
    BY DEF SubstitutedAsWritten
  <2>1. Orderly(script.source)
    BY DEF Orderly
  <2>2. stage # "thrown" /\ (stage = "evaluated" => result = WrittenFrom(script.source, 1))
    BY <2>1, Zenon DEF WrittenInv
  <2> QED BY <2>2, WrittenIs
<1>2. Init => TypeInv /\ WrittenInv
  BY TypeInit, WrittenInit
<1>3. (TypeInv /\ WrittenInv) /\ [Next]_vars => (TypeInv /\ WrittenInv)'
  BY StepTypes, WrittenStep
<1> QED BY <1>1, <1>2, <1>3, PTL DEF Spec
=============================================================================
