------------------------------ MODULE MCTexts ------------------------------
(* Requests and scripts for TLC: texts of a few words each. *)
EXTENDS Texts

MinusSign == 45
A == 97
F == 102
One == <<49>>
Selector == <<At, 48, Dot, F>>

(* Texts of at most two, of at most three words. *)
Longer(words, phrases) == phrases \cup {p \o w : p \in phrases, w \in words}
Two(words) == Longer(words, Longer(words, {NoText}))
Three(words) == Longer(words, Two(words))

(* "a=", "f=", "a", "=", "&", "%26", "%3D", "%61" and a percent sign alone. *)
QueryWords ==
  {<<A, Equals>>, <<F, Equals>>, <<A>>, <<Equals>>, <<Amp>>, <<Percent, 50, 54>>, <<Percent, 51, 68>>,
   <<Percent, 54, 49>>, <<Percent>>}

Get(query, environ) ==
  [method |-> "GET", query |-> query, length |-> 0, body |-> NoText, environ |-> environ]

Post(length, body) ==
  [method |-> "POST", query |-> NoText, length |-> length, body |-> body, environ |-> NoText]

(* The web server sets "a", and "f" twice. *)
Environ == << <<A, Equals, MinusSign>>, <<F, Equals>>, <<F>>, <<F, Equals, A, Equals>> >>

Plain == Get(<<F, Equals, A, Amp, A, Equals, At, A>>, NoText)

Requests ==
  {Get(q, NoText) : q \in Longer(QueryWords, Three(QueryWords))}
  \cup {Get(q, Environ) : q \in Three(QueryWords)}
  \cup {Post(n, b) : n \in {0, 2, 12, NoNumber}, b \in {NoText, <<F, Equals, A, Amp, F, Equals, A, A, A, A>>}}
  \cup {[Plain EXCEPT !.method = "other"], Plain}

(* "@a", "@0.a", "@5.a", "&a", "&f", "$1", "$01", "$a", signs alone, "\", "a". *)
ScriptWords ==
  {<<At, A>>, <<At, 48, Dot, A>>, <<At, 53, Dot, A>>, <<Amp, A>>, <<Amp, F>>,
   <<Dollar>> \o One, <<Dollar, 48>> \o One, <<Dollar, A>>, <<At>>, <<Amp>>, <<Backslash>>, <<A>>, <<MinusSign>>}

States(kind, number, words) ==
  {[kind |-> kind, number |-> number, source |-> w,
    assigned |-> [x \in {<<At, 53, Dot, A>>} |-> <<Amp, A, Dollar>>],
    prop |-> [x \in {<<Dollar>> \o One} |-> <<Backslash, At>>]] : w \in words}

Simple == States("none", 0, {<<At, A>>})
Scripts ==
  States("none", 0, Two(ScriptWords)) \cup States("query", 5, Three(ScriptWords))
  \cup States("regex", 5, Two(ScriptWords))

Globals == [x \in {<<Amp, A>>} |-> <<A, At, A>>]

(* All requests with a simple script, and all scripts with a plain request. *)
MCInit ==
  \/ \E r \in Requests, s \in Simple : BeginWith(r, s)
  \/ \E s \in Scripts : BeginWith(Plain, s)

MCSpec == MCInit /\ [][Next]_vars /\ WF_vars(Next)
=============================================================================
