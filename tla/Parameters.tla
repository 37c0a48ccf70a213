----------------------------- MODULE Parameters -----------------------------
(***************************************************************************)
(* How a request's text becomes variables of state 0: the query string or  *)
(* the body is read, decoded, split and stored, and the CGI environment is *)
(* stored over it (preforked.cpp processRequest, http.cpp urlDecode).      *)
(*                                                                         *)
(* A character is its code, a text a sequence of codes.  After a percent   *)
(* sign there are no blanks, signs or "0x", which %x also reads.           *)
(***************************************************************************)
EXTENDS Integers, Sequences, SequencesExt

CONSTANTS
  Request,          \* [method, query, length, body, environ]
  PARAMBUF_LENGTH,  \* size of the buffer a body is read into
  Garbage,          \* what an unsigned that nobody set may hold, in its low byte
  NoNumber,         \* a CONTENT_LENGTH that is not a number
  scriptSelector    \* the variable that names the script

Text == Seq(0 .. 255)

Percent == 37
Amp == 38
Dot == 46
Equals == 61
At == 64

ASSUME BufferAssumption == PARAMBUF_LENGTH \in Nat \ {0}
ASSUME GarbageAssumption == Garbage # {} /\ Garbage \subseteq 0 .. 255
ASSUME RequestAssumption ==
  \A r \in Request :
    /\ r.method \in {"GET", "POST", "other"}
    /\ r.query \in Text /\ r.body \in Text
    /\ r.length \in Nat \cup {NoNumber}
    /\ r.environ \in Seq(Text) /\ \A e \in Range(r.environ) : Len(e) < PARAMBUF_LENGTH

VARIABLES
  stage,     \* how far the child is
  request,   \* what it serves
  text,      \* query_string, then paramstr
  i,         \* the next character, piece or entry
  ii,        \* what the last escape said
  decoded,   \* ret of urlDecode
  symTable   \* m_symTable: names of variables -> values

readVars == <<stage, request, text, i, ii, decoded, symTable>>

NoText == <<>>
NoTable == << >>

Begin ==
  /\ stage = "read"
  /\ text = NoText /\ i = 1 /\ ii \in Garbage /\ decoded = NoText
  /\ symTable = NoTable

GoTo(s) == stage' = s

(* Where c first stands in s, or the place after its end. *)
Find(s, c) == Min({k \in 1 .. Len(s) : s[k] = c} \cup {Len(s) + 1})

(* A string as a char* shows it. *)
CString(s) == SubSeq(s, 1, Find(s, 0) - 1)

(* What the method brings; the body is cut to the buffer. *)
Received ==
  IF request.method = "GET" THEN request.query
  ELSE IF request.method = "POST"
  THEN SubSeq(request.body, 1, Min({request.length, Len(request.body), PARAMBUF_LENGTH - 1}))
  ELSE NoText

(* paramlen is what CONTENT_LENGTH says, however short the body is. *)
Announced == IF request.method = "POST" THEN request.length ELSE Len(Received)

BadLength == request.method = "POST" /\ request.length = NoNumber

(* lexical_cast throws, and nothing catches it. *)
ReadFails ==
  /\ stage = "read" /\ BadLength
  /\ GoTo("died")
  /\ UNCHANGED <<request, text, i, ii, decoded, symTable>>

(* "nothing to do" *)
NoParameters ==
  /\ stage = "read" /\ ~BadLength /\ Announced = 0
  /\ GoTo("refused")
  /\ UNCHANGED <<request, text, i, ii, decoded, symTable>>

Read ==
  /\ stage = "read" /\ ~BadLength /\ Announced # 0
  /\ text' = CString(Received)
  /\ GoTo("decode")
  /\ UNCHANGED <<request, i, ii, decoded, symTable>>

-----------------------------------------------------------------------------
(* urlDecode *)
Digit == [c \in (48 .. 57) \cup (65 .. 70) \cup (97 .. 102) |->
           IF c < 58 THEN c - 48 ELSE IF c < 71 THEN c - 55 ELSE c - 87]

(* The number %x reads at the start of s; none leaves the variable alone. *)
HexRead(s, old) ==
  IF s = NoText \/ s[1] \notin DOMAIN Digit THEN old
  ELSE IF Len(s) = 1 \/ s[2] \notin DOMAIN Digit THEN Digit[s[1]]
  ELSE 16 * Digit[s[1]] + Digit[s[2]]

(* Seeded fault: the loop skips one character too many. *)
DecodeEscapeLong ==
  /\ stage = "decode" /\ i <= Len(text) /\ text[i] = Percent
  /\ LET n == HexRead(SubSeq(text, i + 1, Min({i + 2, Len(text)})), ii)
     IN  ii' = n /\ decoded' = Append(decoded, n)
  /\ i' = i + 4
  /\ UNCHANGED <<stage, request, text, symTable>>

DecodeEscape ==
  /\ stage = "decode" /\ i <= Len(text) /\ text[i] = Percent
  /\ LET n == HexRead(SubSeq(text, i + 1, Min({i + 2, Len(text)})), ii)
     IN  ii' = n /\ decoded' = Append(decoded, n)
  /\ i' = i + 3
  /\ UNCHANGED <<stage, request, text, symTable>>

DecodePlain ==
  /\ stage = "decode" /\ i <= Len(text) /\ text[i] # Percent
  /\ decoded' = Append(decoded, text[i])
  /\ i' = i + 1
  /\ UNCHANGED <<stage, request, text, ii, symTable>>

Decoded ==
  /\ stage = "decode" /\ i > Len(text)
  /\ text' = decoded /\ decoded' = NoText /\ i' = 1
  /\ GoTo("split")
  /\ UNCHANGED <<request, ii, symTable>>

-----------------------------------------------------------------------------
(* The variable of state 0 of that name. *)
Local0(name) == <<At, 48, Dot>> \o name

(* Seeded fault: the name ends at the last "=". *)
PairAtLast(s) ==
  LET n == IF Equals \in Range(s) THEN Max({k \in 1 .. Len(s) : s[k] = Equals}) ELSE Len(s) + 1
  IN  IF n > Len(s) THEN NoTable
      ELSE [x \in {Local0(SubSeq(s, 1, n - 1))} |-> CString(SubSeq(s, n + 1, Len(s)))]

(* A "name=value" as a table of at most one variable. *)
Pair(s) ==
  LET n == Find(s, Equals)
  IN  IF n > Len(s) THEN NoTable
      ELSE [x \in {Local0(SubSeq(s, 1, n - 1))} |-> CString(SubSeq(s, n + 1, Len(s)))]

(* assignLocal: the last value is the one that stays. *)
Assigned(table, new) ==
  [x \in DOMAIN table \cup DOMAIN new |-> IF x \in DOMAIN new THEN new[x] ELSE table[x]]

(* The piece that starts at i; after the last one the text is used up. *)
Split ==
  /\ stage = "split"
  /\ LET rest == SubSeq(text, i, Len(text))
         n == Find(rest, Amp)
     IN  /\ symTable' = Assigned(symTable, Pair(SubSeq(rest, 1, n - 1)))
         /\ IF n <= Len(rest) THEN i' = i + n /\ UNCHANGED stage
            ELSE i' = 1 /\ GoTo("environment")
  /\ UNCHANGED <<request, text, ii, decoded>>

(* Seeded fault: what the table already has stays. *)
StoreIfAbsent ==
  /\ stage = "environment" /\ i <= Len(request.environ)
  /\ symTable' = Assigned(Pair(request.environ[i]), symTable)
  /\ i' = i + 1
  /\ UNCHANGED <<stage, request, text, ii, decoded>>

StoreEnvironment ==
  /\ stage = "environment" /\ i <= Len(request.environ)
  /\ symTable' = Assigned(symTable, Pair(request.environ[i]))
  /\ i' = i + 1
  /\ UNCHANGED <<stage, request, text, ii, decoded>>

(* No selector: answered with status 404. *)
NoSelector ==
  /\ stage = "environment" /\ i > Len(request.environ)
  /\ scriptSelector \notin DOMAIN symTable
  /\ GoTo("refused")
  /\ UNCHANGED <<request, text, i, ii, decoded, symTable>>

Selected ==
  /\ stage = "environment" /\ i > Len(request.environ)
  /\ scriptSelector \in DOMAIN symTable
  /\ GoTo("selected")
  /\ UNCHANGED <<request, text, i, ii, decoded, symTable>>

Reading ==
  \/ ReadFails \/ NoParameters \/ Read \/ DecodeEscape \/ DecodePlain \/ Decoded
  \/ Split \/ StoreEnvironment \/ NoSelector \/ Selected

-----------------------------------------------------------------------------
(* What the characters p to q stand for, if the piece that begins at k     *)
(* stands for word[k] and the next piece begins at next[k].                *)
Concatenated(word, next, p, q) ==
  LET from[k \in p .. q + 3] == IF k > q THEN NoText ELSE word[k] \o from[next[k]]
  IN  from[p]

(* What was sent, read the way a form is written: split first, then        *)
(* decoded.                                                                *)
Byte(s, k) == 16 * Digit[s[k + 1]] + Digit[s[k + 2]]
PlainText(s, p, q) ==
  Concatenated([k \in DOMAIN s |-> <<IF s[k] = Percent THEN Byte(s, k) ELSE s[k]>>],
               [k \in DOMAIN s |-> IF s[k] = Percent THEN k + 3 ELSE k + 1], p, q)

(* Every percent sign begins an escape of two digits, and no escape stands *)
(* for what separates the pairs or, in a name, for what ends it.           *)
WellEscaped(s) ==
  \A k \in 1 .. Len(s) :
    /\ s[k] # 0
    /\ s[k] = Percent =>
         /\ k + 2 <= Len(s) /\ {s[k + 1], s[k + 2]} \subseteq DOMAIN Digit
         /\ LET n == HexRead(SubSeq(s, k + 1, k + 2), 0)
            IN  /\ n \notin {0, Amp}
                /\ n = Equals => \E j \in 1 .. k : s[j] = Equals /\ Amp \notin Range(SubSeq(s, j, k))

(* The pairs of s, as the places of their first and last characters. *)
Pairs(s) ==
  {p \in (1 .. Len(s)) \X (1 .. Len(s)) :
     /\ p[1] <= p[2] /\ Amp \notin Range(SubSeq(s, p[1], p[2]))
     /\ p[1] = 1 \/ s[p[1] - 1] = Amp
     /\ p[2] = Len(s) \/ s[p[2] + 1] = Amp
     /\ Equals \in Range(SubSeq(s, p[1], p[2]))}

(* The place of the first "=" of a pair. *)
NameEnd(s, p) == p[1] + Find(SubSeq(s, p[1], p[2]), Equals) - 1
NameIn(s, p) == Local0(PlainText(s, p[1], NameEnd(s, p) - 1))
ValueIn(s, p) == PlainText(s, NameEnd(s, p) + 1, p[2])

Sent(s) ==
  [x \in {NameIn(s, p) : p \in Pairs(s)} |->
     LET last == CHOOSE p \in Pairs(s) :
                   NameIn(s, p) = x /\ \A q \in Pairs(s) : NameIn(s, q) = x => q[1] <= p[1]
     IN  ValueIn(s, last)]

(* Every parameter of a well escaped request arrives with the value it was *)
(* sent with, and nothing else does: decoding the whole text before it is  *)
(* split is no different from decoding each part, and what an unset        *)
(* variable of urlDecode holds never shows.                                *)
ParametersAsSent ==
  stage = "environment" /\ i = 1 /\ WellEscaped(Received) => symTable = Sent(Received)

(* No parameter, however it is written, replaces what the web server says  *)
(* of the request: a CGI variable has its own value when a script starts.  *)
EnvironmentWins ==
  stage \in {"selected", "refused"} /\ i > 1 =>
    \A k \in DOMAIN request.environ :
      LET own == Pair(request.environ[k])
          later == {m \in DOMAIN request.environ : m > k}
      IN  \A x \in DOMAIN own :
            \/ symTable[x] = own[x]
            \/ \E m \in later : x \in DOMAIN Pair(request.environ[m])
=============================================================================
