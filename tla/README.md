# Smarty AppServer: TLA+ verification project

Smarty AppServer is a FastCGI application server.  A master process forks a
pool of children; each child accepts FastCGI requests and answers them by
interpreting a *script*, a numbered set of states (`regex`, `match`, `query`,
`http`, `goto`, `end`, ...) read from files at start-up.  This directory models
the program in TLA+, checks small instances with TLC, and proves the main
safety properties for every value of the constants with TLAPS.

## 1. Inventory

| Component | Source | State it keeps | Operations | Talks to |
|---|---|---|---|---|
| Process pool | `src/src/preforked.cpp`, `src/include/preforked.hpp` | `children_count`, `children_running`, `doRestart`, the table `pslots` in shared memory, two lock files | `forkChildren`, `forkChild`, `needFork`, `runPreforked`, the signal handlers, a child's registration and its accept loop | children by `fork`, signals and `pslots`; locks by `flock` |
| Request dispatcher | `preforked.cpp:183-287`, `http.cpp` | the request, its parameters as variables of state 0 | parse parameters, select script and entry point, run the state loop, finish | symbol table, scripts, web server |
| Script states | `src/include/cstate.hpp`, `*state.cpp` | result of the last run (`m_substring`, `m_pt`, `m_qResult`) | `execute`, `verify`, `parse`, `getPropositional` per state kind | symbol table, database, HTTP, SMTP, shell, files |
| Symbol table, globals | `src/src/cassigner.cpp` | `m_symTable` (locals of one request), a memcached connection | `assign`, `assignLocal`, `assignGlobal`, `getValue`, `resetTable` | memcached, which all children share |
| Expression evaluation | `cassigner.cpp:116-168` | none | `evaluate` | symbol table, `getPropositional` |
| Loader and parser | `src/src/appserver.cpp`, `src/src/parser.cpp` | `allScripts`, `scriptEntries`, the parser's current state | `parseScript`, `parseAssignment`, `freeAllScripts` | states (`parse`, `verify`) |
| Regex cache | `src/src/cregex.cpp` | compiled expressions | lookup, `freeRegexCollection` | parser, `evaluate` |
| Databases | `src/src/cdbmanager.cpp`, `src/src/cpgdatabase.cpp` | one connection per section and child | `connectDBs`, `query`, `disconnectDBs` | PostgreSQL |
| Daemon utilities | `src/src/utils.cpp` | pid file | `daemonize`, `write_pid`, `log_*` (`log_error` ends the process) | all |

### What is hard here

* *Pool.* Three kinds of code run over the same counters and table: the
  master's main code, its signal handlers (which interrupt it, and each other,
  at any instruction, because `sa_mask` is empty), and the children. `SIGCHLD`'s
  handler **blocks** in `waitpid`. Locks are taken one inside the other by
  children and by the master. Children can die anywhere, also with a lock held.
* *Dispatcher and states.* A run takes many steps, each may fail; errors are
  exceptions in some states and return codes in others; values have owners;
  globals are shared between children without any ordering.
* *Texts.* Decoding before splitting; variables found by expressions that are
  not anchored; indices that skip characters which may not exist.
* *Loader.* A hand-written parser with an open-state variable, several script
  names per file, and clean-up code that runs in `atexit`.
* *Program.* Two forks before the pid file is written, and several instances
  that share the pid file's name and the socket.

### What makes each component correct

* Pool: one child in accept at a time; a pool that is bounded, counted, kept
  alive and stopped; slots that say what their child does; no lock kept by the
  dead.
* Dispatcher: every request is answered once, and nothing of one request is
  seen by the next.
* States: each failure leads to the error state; no value is freed twice or
  used after it is freed.
* Loader: a script that passes `verify` has the shape `execute` relies on; what
  is parsed once is freed once.
* Evaluation: `evaluate` substitutes the variable it sees, nothing else.
* Program: the pid file names the daemon while it runs, and nothing that a
  crash leaves keeps it from being started again.

`PROJECT.json` lists the hazards at their lines, and which property covers each.

## 2. Plan

| Order | Module | Content | Status |
|---|---|---|---|
| 1 | `Preforked`, `MCPreforked`, `PreforkedProofs` | the process pool | done |
| 2 | `Interpreter`, `MCInterpreter`, `InterpreterProofs` | a child's requests: parameters, the state loop, every `execute`, the symbol table with the ownership of its values, memcached shared by the children | done |
| 3 | `Loader`, `MCLoader` | the `[script]` section, `parseScript`, `parseAssignment`, `parse` and `verify` of every class as a state machine over abstract lines; ownership of the parsed scripts | done |
| 4 | `WorkerPool`, `PoolRefinement` | abstract pool: workers that come and go, one of whom accepts, and a stop; `Preforked` implements it, checked and proved | done |
| 5 | `Walk` | abstract run of a script: a walk along its numbers; `Interpreter` implements it, checked and proved | done |
| 6 | `Parameters`, `Texts`, `MCTexts` | `urlDecode`, the splitting of parameters, the environment, `evaluate`, against reference definitions | done |
| 7 | `Server`, `MCServer` | the life of the program: early ends, `daemonize`, `write_pid`, lock files, socket; several instances | done |
| 8 | `WalkRefinement` | `WalksTheScript` proved for every script and any number of children | done |
| 9 | `LoaderProofs`, `ReadingProofs` | types and `StopIsClean` for every configuration; `LoadsWhatIsWritten`, `AlternativesKept` and `ScriptsReady` for every configuration and files of any length | done |
| 10 | `TextsProofs` | types, `EnvironmentWins`, `ParametersAsSent` and `SubstitutedAsWritten` for texts of any length | done |
| 11 | `ServerProofs` | `DaemonIsNamed` and `NoFalseAlarm` for every number of instances | done |
| 12 | a lemma of `LoaderProofs` | what `verify` admits is what `Interpreter` assumes (`WellFormed`) | next |
| 13 | comments in a line, the start of a child | how the parser cuts comments off; `connectDBs` and the other calls before registration | later |

What composes what: `Preforked` and `Interpreter` each contain an instance of
the abstract module they implement, under a mapping of their state; `Texts`
extends `Parameters`, whose result it reads. `Preforked` takes a request as one
step, `Interpreter` takes a text as the list of its variables, `Loader` a line
as what is found in it, `Server` the pool as one place: each time the next
module has the detail.

## 3. Module `Preforked`

### State and actions

| TLA+ | Code |
|---|---|
| `children_count`, `children_running`, `doRestart`, `pslots` | the variables of the same names |
| `shr_lock`, `tmp_lock` | holder of the `flock` on `shr_lockfile` / `tmp_lockfile`; `Nobody` if free |
| `ppc` | place of the master's main code: `forkChildren`, `scan`, `clear`, `cleared` (the hole scan), `fork`, `inc_load`, `inc_store` (`forkChild`), `assert`, `grow`, `loop`, `sleep` (`runPreforked`), `need`, `needed` (`needFork`), and three ends: `exited`, `failed` (`log_error`), `aborted` (`assert`) |
| `pctx` | signal handlers on top of it: `main`, `chld`, `term`, `chld_term`, `term_chld` (the inner one runs) |
| `quantum`, `num`, `repairing`, `reg`, `ki` | locals: quantum left, `i` or the argument of `forkChild`, which call of `forkChild` is active, the loaded value of `children_running++`, the loop index of the SIGTERM handler |
| `chld_pending`, `sigterm` | pending signals |
| `cpc`, `cslot` | place and `child_number` of every child: `forked`, `setup`, `reg`, `ready`, `idle`, `accept`, `accepted`, `serving`, `zombie` |
| `repaired` | history variable: the hole scan has found a hole. Guards no action |

`children_running++` is a load and a store (it is `volatile`, not atomic);
slots are written under the lock in the steps in which the unlocked reader,
`sigterm_handler_parent`, can tell them apart (busy mark first, pid second).
`setSlotState` takes and gives back its lock in one step: nothing but a death
can happen to its holder in between, and a death releases the lock.
A signal that arrives while the master waits for a lock or sleeps runs its
handler and the call is resumed (`SA_RESTART`); a sleep that ends early is the
same step, `Wake`, as one that ends in time.
`exit`, `_exit`, a crash and `SIGKILL` are one step, `Exit`: they release both
locks and raise `SIGCHLD`. Memory, descriptors and logging are left out.

Assumptions about the system: `/proc/<pid>` exists until the process is reaped;
a pid that was reaped can be given to a new child of the pool, but not to an
unrelated process; SIGINT behaves as SIGTERM (the code gives both the same
handlers; a SIGINT nested in a SIGTERM is not modelled); the body of a request
is one step here and is the subject of `Interpreter`; what the
master does after its loop (`runPreforked` 381-393) is one step with the end
of the loop.

### Properties and runs

| Run | Instance | Shows |
|---|---|---|
| `pool_safety` | 3 pids, 3 slots, quantum 2, threshold 1/4; symmetric pids; no SIGTERM from the administrator | `Implements`: the pool is a `WorkerPool`; `TypeOK`; `AcceptExclusive`: one child in accept; `NeverUndercounted`: the racing counter is never too small; `ShutdownAfterChildren`: the master leaves its loop last; `PoolBounded`: outside the hole scan no more children than were started; `SlotStateAccurate`: slots say what children do, until a hole is refilled; `IInv`: the strengthening used in the proofs |
| `pool_signals` | 2 pids, 2 slots, quantum 1, threshold 1/4; SIGTERM and SIGHUP at any time | `NeverUndercounted` and `ShutdownAfterChildren` when the handlers nest in and around the blocking SIGCHLD handler; `SignalledPoolStops`: if no more SIGTERM comes, then from a state in which all children have one on its way the master ends, even from inside `needFork`'s critical section, unless a slot is left busy for pid 0; `KeepsAccepting`: again and again some child waits for a client, unless the master keeps the table's lock for ever |
| `pool_term` (violated) | 2 pids, 2 slots | `TermStops`: SIGCHLD interrupts the loop that signals the children |
| `pool_group` (violated) | the instance of `pool_signals` | `DoomedPoolStops`, which is `SignalledPoolStops` without its exception: the master signals itself for ever |
| `pool_deadlock` (violated) | 2 pids, 3 slots, quantum 2 | `PoolNeverBlocks`, which is `KeepsAccepting` without its premise: master and children wait for each other |
| `pool_slot` (violated) | 3 pids, 3 slots, quantum 2 | `SlotOccupied`: a live child's slot is wiped |

The violated runs are the findings of `PROJECT.json`; each property quotes the
comment or document it takes its claim from. `pool_term` and `pool_deadlock`
have the same cause: `waitpid(-1, &rv, 0)` returns an error only when no child
is left, so the first `SIGCHLD` keeps the master in its handler until the last
child is gone, and nothing is refilled meanwhile. `pool_group` begins with a
child that dies between its busy mark and its pid. The master, on a SIGTERM,
then signals process group 0, which includes itself; the signal is blocked only
while the handler runs and is delivered when it returns, before the code it
interrupted goes on, and signals the group again.

*The abstract pool.* `WorkerPool` has a staff, a door, clients and a phase. The
mapping (`Pool` in `Preforked`): the staff are the children that are not zombies,
the one at the door is in `FCGX_Accept_r` or between it and the busy mark, and
the phase is `hiring` while `doRestart` holds or a round of `forkChildren` is
under way, for the flag is read once per round. `Implements` then says in one
formula that nobody comes to a door that is taken, whoever died there; that no
child is forked after the last round has ended; and that the master leaves an
empty pool only, or gives up (`log_error`, `assert`) and leaves its children to
themselves. It does not say that the pool grows when it should, nor that slots
tell the truth.

`KeepsAccepting` is `[]<>(shr_lock # Parent) => []<>Served`. Its premise fails
in behaviours like that of `pool_deadlock`, and the two runs together say that
a master that keeps this lock is the only way in which the pool stops
accepting: a child that dies with one or both locks, or between them, is none.

*Bounds.* The code has 1024 slots, a quantum of 16 and the threshold 0.79. What
matters is their order: `quantum < limit`, so that the pool grows in steps and
`needFork` is reached with room left, and two children at least per quantum, so
that one can live while the other is replaced. With 16 children the threshold
0.79 is met with up to three holes; with two or three children only a smaller
fraction lets a pool with a hole grow, hence 1/4 (one busy child of two or
three). Three pids for three slots suffice: reaped pids are used again, and
with four pids the run reaches the same number of states up to symmetry. The
signals are not bounded: pending signals do not queue. `AdminSignals` splits the
safety question in two, to keep each run short: `pool_safety` has the third
child and the hole scan among three slots, with SIGHUP only; `pool_signals` has
the SIGTERM handler with two children, one per quantum. Both at once (5 695 614
states up to symmetry) hold as well, and the theorems of this section leave `AdminSignals`
open. Deadlock is not checked,
for the system stops after `exited`, `failed` or `aborted`.

*Fairness* (`Fairness`). The kernel schedules every process and delivers every
signal (`SigchldEnter`, `SigtermEnter` weakly fair). A signal that is pending
and not blocked (`Deliverable`) is delivered before the code it interrupts runs
on: this code is owed a step only when no signal is about to interrupt it,
under strong fairness for main code (it advances between signals that come
again and again) and weak fairness for a handler. So a signal that a handler
raises again, which is deliverable whenever the handler has returned, starves
the main code. The liveness properties that begin with a SIGTERM suppose that
the administrator stops sending it at some time (`TermsCease`), for signals
without end would do the same. Strong
fairness of a child's steps that need the table's lock: a waiter on a `flock`
that is free again and again gets it. Weak fairness of "some child takes the
accept lock" only: a child may starve there. `FinishRequest` is fair because
scripts are taken to end, which is a property of the script. Nothing is assumed
of clients (`Accept`), administrators (`SendTerm`, `Sighup`) and crashes
(`ChildExit`, `ForkFail`).

*Seeded faults.* Every property of a passing run is broken by a variant of an
action, defined just before it (`GrowPastLimit`, `LockInherited`, ...), which
states a bug that code could have had.

### Proofs (`PreforkedProofs`)

Assumptions: a finite set of pids, positive limits, distinct `Parent` and
`Nobody`. No theorem uses fairness.

* `TypeCorrect`: `TypeOK` is not inductive alone, for `forkChild(num)` stores `num`
  as a slot number and takes one from `quantum`: `ForkHasSlot` says that between
  the loop test and the fork both are still good.
* `AcceptLockExclusive`: from `LocksOwned`, which ties each lock to the places
  where it is held; it must survive `Exit`, which can happen at each of them.
* `CounterNeverTooSmall`, `ShutdownComesLast`, `PoolIsBounded`:
  `Cardinality(Unreaped) <= children_running + InFlight`. A fork adds a child and
  makes `InFlight` 1; `Reap` takes one from both sides; the store writes
  `reg + 1`, and `reg` is at least `children_running`, which only the handler
  changes meanwhile (`CounterBounded`). So the lost update of `children_running++` errs
  to one side only, and that is the safe side for the end of the loop.
  `PoolIsBounded` needs in addition that the assertion after the scan stops a
  master whose counters differ: compiled with `NDEBUG` the bound is lost
  (`AssertIgnored`).
* `SlotsTellTheTruth`: children of a pool without refilled holes have slots of
  their own (`SlotsPrivate`), since `Grow` gives each fork the next number.
* `StrengtheningHolds`: `IInv`, the conjunction of these parts, as checked by
  `pool_safety`.
* `PoolImplements` (module `PoolRefinement`): `Safety => Implements`. The mapping
  needs `TypeOK`, `LocksOwned` (a child that takes the accept lock finds the door
  free) and `ShutdownAfterChildren` (`Close` needs an empty staff). Steps are
  sorted into those that nobody outside notices, or that stop the hiring
  (`QuietStep`, `HiddenChildStep`), the last step of the master (`LastStep`), and
  one lemma for each act of a worker.

Only model-checked: the liveness properties, and everything violated.

Two disagreements with comments are in the model but not among the runs:
`children_running` stays too large when its decrement is lost
(`preforked.cpp:38` says it equals `children_count` without crashes), and a
child that dies during the hole scan makes the assertion of
`preforked.cpp:319` abort the master (`AssertFails`).

## 4. Module `Interpreter`

What `Preforked` takes as one step, `FinishRequest`, in detail: one request
after another in each child, from `FCGX_Accept_r` to `r_finish`.

### State and actions

| TLA+ | Code |
|---|---|
| `Script`, `EntryPoint` | the parsed script (`stateMap_t`): per state its kind, `done`, `error`, variables, texts and assignments as the parser leaves them; the entry points configured for it |
| `at` | place of a child: `idle`, `params`, `enter` (about to execute a state), `text` (evaluating one), `assign`, `template`, `store` (in `CAssigner::assign`), `finish` (`r_finish`), `dead`; with `nextState` and the iterators `ai` (assignment), `ri` (alternative), `ti` (variable in a text) |
| `val` | the string the child is building |
| `table`, `foreign` | `m_symTable`, and the variables in it whose `char*` is not the table's own |
| `prop` | `m_substring`, `m_pt`, `m_qResult` of the states: the propositional variables of their last run |
| `cache` | the global variables memcached would return now |

A value is the set of sources it was made from: `own` (this request), `old` (an
earlier one), `shared` (memcached, a database, a server, a command), `garbage`
(freed memory). A `char*` is a set of at most one value, so that `nullptr` is
the empty set. `Accept` turns what is `own` into `old`: nothing in the code
corresponds to it, it is what the property needs to see.

Every access to memcached is a step, for there the children meet; a child's
steps between two of them could be one, but are kept apart where the code can
fail between them. A state is executed as `enter`, then `text` and its effect
(`Query`, `WriteFile`, `End`, `Fetch` for http and shell, `SendMail`), then the
assignments, in the order of its `execute`; each can return the error state
where the code does. Exceptions: `Throws` says where `memcache_error` arises,
or the name of a regex state's substring is not a number (`NoNumber`), and
`Caught` which states have a handler there. Without one the process is
terminated (`ThrowUncaught`), and the master forks another (`Respawn`).
`OtherClients` changes what memcached has between any two steps: it forgets
values, and gets values from the children that the instance leaves out.

`assignLocal` stores a pointer. The one that http and shell states pass is not
from `malloc` and ends with `execute`: the variable becomes `foreign`. Reading
it yields its value or `garbage`; freeing it is undefined, so each `free` of it
has two outcomes, going on and an aborted process (`FinishAborted`,
`StoreLocalAborted`, `FetchAborted`).

Assumptions: memcached may lose a value or fail at any time, a failed `set`
stores nothing; a request's text is read (`Texts` has the ways in which
it is not); `scriptEntries` and `allScripts` are filled together, so a
script with an entry point exists; texts read the variables that are listed for
them, in order, and how `evaluate` finds them is left to `Texts`;
whether the selector is among the parameters is a choice (`NoScript`,
`StartScript`). Left out: the text of answers and mails, the dump file of an
http state, memory leaks, logging.

### Properties and runs

| Run | Instance | Shows |
|---|---|---|
| `interp_requests` | one child, `AllKinds`: 13 states of all 12 kinds without a cycle, entry points 1, 3 and one that has no state; 3 local variables, 1 global, 2 propositional variables | `TypeOK` (substrings fit); `RequestIsolation`: nothing a request stores, queries, sends or prints is of an earlier one; `IInv`, its strengthening; `RequestEnds`: every request is over at some time, or its process is; `WalksTheScript`: every run is a `Walk` |
| `interp_global` (violated) | `OnGlobal`: a match state on a global variable | `ErrorStateTaken`: the process ends instead |
| `interp_output` (violated) | `HttpExample`, after `script/http.sl` | `OutputStored`: the table holds what is not its own |

*The abstract walk.* `Walk` knows of a script its numbers only: where a walk may
begin, from which state it may go to which, after which it may end, which
states can cost the process, and which store memory that the table does not
own. `WalksTheScript` maps the interpreter to it (`Walked`), with the edges
that `done`, `error` and the cases of a match state give (`Targets`). What it
shows: no failure of a service and no missing value sends a request anywhere
but along these edges; an exception ends the process only in states that read a
global without a handler, and in http and mail states, whose own calls can
(`FragileStates`); nothing else does, except a `free` of borrowed memory, in the
states and at the end of the request that borrowed it. So a script that reads
globals only where there is a handler, and has no http, mail or shell state,
keeps its process, whatever the other clients of memcached do: `WalkRefinement`
proves this as `GuardedScriptsSurvive`.

*Bounds.* One child suffices, since children share nothing but
`cache`, which `OtherClients` changes at any time, and a global counts as
`shared` whoever wrote it. Requests are not
bounded: `old` stands for all earlier ones. The script is fixed per run and has
every kind of state with each of its exits; the theorems are about every
script. Two propositional variables distinguish a group that took part in a
match from one that did not. With a loop in a script `RequestEnds` is false by
the script's own doing, hence none in `AllKinds`.

*Fairness.* `WF_vars(Serve(c))`: a child that has a request is scheduled, and
the calls it makes (database, server, command, client's data) return, with
success or failure. Nothing is assumed of clients, of memcached's losses or of
the master's forks.

A goto state without an error line is in the model as the code has it
(`ErrorState`): a failed assignment ends the script, where `cstate.hpp:139`
says that the done state follows; see section 5.

### Proofs (`InterpreterProofs`)

Assumptions: parameters are local variables, `REGMATCH_COUNT` is positive,
state numbers are integers, the script is well formed (`WellFormed`: what the
parser's regular expressions let through). Nothing on the number of children,
the length of a script or its shape. No theorem uses fairness.

* `TypesHold`: `TypeOK` with `IndicesInScript`: a child that evaluates a string
  or stores is at an assignment that exists, without which the type of what it
  stores does not follow.
* `RequestsIsolated`: from `IInv` (`StrengtheningHolds`). `RequestIsolation` is
  not inductive: a child could find an old value in its table (`TableReset`:
  the table is empty whenever no request is served, the aborted ones included)
  or in the propositional variables of a state (`PropFresh`: from the time a
  state evaluates, its variables are those of this run, since each of the three
  kinds that have any clears them first). The proof treats the children
  separately (`Isolated(c)`), shows that a step leaves the others alone
  (`Others`), and sorts the steps of a child by where it goes: to rest, to the
  next state, into a state, within it.

*The walk* (`WalkRefinement`): `WalksAlongScript` is `Spec => WalksTheScript`,
under the same assumptions. Only states that have a text evaluate one, only
those that have assignments assign, and no child waits for a request with
borrowed memory (`Placed`); with `TypeOK` and `IndicesInScript` this is
inductive (`MapInv`). Seen from outside a child's step is one of nine, which
`Outside` lists: `EachStep` sorts the actions into them, and one lemma for each
gives the step of `Walk`, or a stutter. No fairness is used, for `Walk` has none.
`GuardedScriptsSurvive` then reads off the nine what they are for scripts
without fragile and lending states (`Guarded`): no child dies, and no table
holds a value that is not its own.

Only model-checked: `RequestEnds`, which is liveness, and what is violated.

## 5. Module `Loader`

What happens before and after the pool runs: `main` reads the `[script]`
section, parses each file once, starts the pool, and frees the scripts at the
end. What it leaves is the `Script` and `EntryPoint` of `Interpreter`.

### State and actions

| TLA+ | Code |
|---|---|
| `phase` | place of `main`: `config` (the loop over the section), `parse` (`parseScript`), `running` (`runPreforked`), `free` (`freeAllScripts`), and its ends `stopped`, `failed` (an error message and a return, or `log_error`), `crashed` |
| `config`, `left` | the section, and the names the loop over it, or the loop of `freeAllScripts`, has left; any order |
| `allScripts`, `allScriptsByFile`, `scriptEntries` | the maps of the same names; a pointer is an index of `heap`, 0 is `nullptr` |
| `heap`, `freed` | the state maps allocated so far, and those that were deleted |
| `name`, `st`, `text` | the name whose file is read; the open state, `NoState` when `in_stateblock` is false; the lines read from the file |
| `written` | history variable: the numbers of the states that each file which was read to its end was written to have. Guards no action |

A line is a record: the expression of `conf/regexlib.dat` that matches it and
what the code takes from it. `text` is what the file contains, chosen while it
is read; no action reads it but to bound it. A state is a record of its kind, targets and
assignments and of the members that are set; whether a value is usable (a
regular expression that compiles, a url, a database section that exists) is the
field `ok` of its line. `BadEntry`, `RejectLine` and `EndOfFile` in an open
state are the error paths; each ends the program, so `failed` does not say what
was allocated. `verify` and `parse` are one definition each for all classes.

`Alternatives` is the loop of `parseAssignment`. The expressions `def_*` are not
anchored: each is looked for in the whole rest of the line, in the order
`Tried`, so that the first *kind* that occurs anywhere wins and what stands
before it is dropped. A rest with none of them is a syntax error, which
includes a blank after the last variable.

`FreeAgain` deletes the states of a map that is already deleted, which is
undefined: the process goes on or ends. `FreeNothing` iterates over the null
pointer of a file without states.

Assumptions: names in the section are unique (`read_ini` rejects duplicates
before the check of `appserver.cpp:134`); state numbers fit an `int`; a file
does not change while it is read; the pool returns or ends the process. Left
out: how a line is recognised, where a comment begins, option lines that no
condition reads, logging.

### Properties and runs

| Run | Instance | Shows |
|---|---|---|
| `loader_states` | one of three files (`long`, `short`, `expressions`), or up to three names for two files | `TypeOK`; `LoadsWhatIsWritten`: the map has exactly the blocks of the file, each with its own last targets and its own mandatory definitions, nothing left over from another block; `AlternativesKept`: assignments and alternatives as written, while their kinds come in the order the parser tries them; `ScriptsReady`: when the pool starts each name has an entry point and a map of exactly the states its file was written to have, all verified; names share a map if and only if they share a file, and no map is lost; only a name whose file has no state may have a null pointer instead; `StopIsClean`: each map is deleted once |

`LoadsWhatIsWritten` and `AlternativesKept` compare the state the handlers
built line by line with a meaning of the whole text that is defined
independently (`Opens`, `Block`, `Target`, `Given`, `Written`). Where the code
departs from its comments they hold for it as it is and for a corrected one:
`NoErrorTarget` leaves it open whether a goto without an error line goes to its
done state, and `Supplied` whether an attachment stands for the subject.
`ScriptsReady` leaves open whether a file without states gives an empty map or a
null pointer.

*Bounds* (`MCLoader`). `Lengths`: seven lines hold a state of the kinds with
most mandatory definitions and one line in excess or missing; six lines hold
three states, or two and a duplicate; two lines suffice for an expression, since the
state that is open does not matter. `Repetitions`: a line may come twice, except in `long`.
`Expressions` has every pair of variables of all kinds and two triples. Three
names for two files: one is shared, one is not. Deadlock is not checked, for
the program ends.

`StopIsClean` supposes `OneNameEach`: each file has one name and some state.
What happens otherwise is the first two of the following.

Divergences in the model that no violated run is spent on (of the first five,
TLC finds each within the bounds of `loader_states`):

* The comment above `allScripts` (`appserver.cpp:35-40`) allows several names
  for a file. They share one map, which `freeAllScripts` deletes once for each
  name, before the pid file is removed.
* A file without states gives a null pointer, with which the pool starts. The
  dispatcher expects a "parsed script state map" (`preforked.cpp:256`) and
  dereferences it at the first request, `freeAllScripts` at the end.
* A goto state without an error line has no error target, for `verify`
  (`gotostate.cpp:39`) looks for 0 where the constructor has set -1;
  `cstate.hpp:139` says that its error state is its done state.
* An attachment replaces the subject of a mail (`mailstate.cpp:126`), and makes
  `verify` accept a mail without one, which is mandatory by `cstate.hpp:252`.
* Alternatives are lost when their kinds come in another order than `Tried`: of
  `@x = $1 ? @2.y` only `@2.y` is kept. The grammar knows no such order
  (`slgrammar.txt:157`).
* A header inside an open state is never reported as a nested state, for it is
  looked for only where none is open. It is a syntax error, or ignored by an sms
  or script state, which ignore every line.

### Proofs (`LoaderProofs`, `ReadingProofs`)

Assumptions: a section gives each of its names a file and an entry point
(`ConfigAssumption`), lines are of the forms that the expressions distinguish
(`LineAssumption`), files have bounds (`BoundAssumption`, which any bounds
meet), and `SmtpAssumption`. Nothing on the number of names, files, lines or
states. The empty section is among those that are checked and proved about.

* `LoaderProofs!TypesHold` and `CleanStop` (`StopIsClean`), from one invariant,
  `IInv`. What is verified stays verified (`EachVerified`); the names read so
  far, and only they, have the map of their file (`Named`); a file is read once
  (`Reading`), no two files share a map, and each that is not freed belongs to a
  file or is in the making (`OneEach`). `StopIsClean` needs that what is still
  to be freed belongs to a name that is left (`Freeing`), and that nothing left
  is freed if there is one name for each map.
* `WrittenIsLoaded` (`LoadsWhatIsWritten`) and `AssignmentsKept`
  (`AlternativesKept`), from `Understood`: while a file is read, the open state
  has the header, the targets and the definitions that the text gives since the
  line that opened it (`Said`), and its assignments (`Kept`). The first part of
  `ReadingProofs` shows how the meaning of a text changes with the line appended
  to it; the operators of that meaning take the text as an argument for this.
* `ReadingProofs!DispatcherReady` (`ScriptsReady`) looks at a state that the
  whole loop over the section has prepared. To `IInv` it adds `Recorded`: each
  file that was read has a map of the states that it was written to have, or a
  null pointer if it was written to have none. A map is complete when its
  file ends, by `LoadsWhatIsWritten`; afterwards no step changes it.

`Alternatives` is a recursive function on lists of any length. That it exists
is a lemma, by way of a shortest list for which it would not; what one round of
the loop does then follows from its equation. No property of `Loader` that a
passing run checks is without a theorem.

## 6. Modules `Parameters` and `Texts`

The texts that the other modules abstract from, character by character: what
becomes of a request's text until a script is selected (`Parameters`), and how a
state then evaluates a string in double quotes (`Texts`, which extends it).

### State and actions

| TLA+ | Code |
|---|---|
| `stage` | place of the child: `read`, `decode` (`urlDecode`), `split`, `environment`, `selected`, `evaluate`, and its ends `refused` (answered without a script), `died` (an exception outside any handler), `evaluated`, `thrown` (an exception that `evaluate` passes on) |
| `request` | method, query string, `CONTENT_LENGTH`, body and environment, as the web server gives them |
| `text`, `i`, `ii`, `decoded` | `query_string` and then `paramstr`; the loop index; the unsigned that `sscanf` sets; `ret` |
| `symTable` | `m_symTable` |
| `script` | the state that evaluates: its kind (which `getPropositional`), its number, its propositional variables, the string `source`, and what earlier states assigned |
| `at`, `result` | `i` and `result` of `evaluate` |

A character is its code, and a text a sequence of codes. `HexRead` is
`sscanf("%x")` on at most two characters: one digit suffices, and with none the
variable keeps what it held, at the first escape the value of an uninitialised
`unsigned`, a choice from `Garbage`. `is_variable` returns what `regexec` says:
the leftmost match in the *rest* of the text and its longest extent; `evaluate`
uses the length of that match, but takes it from the sign it is at. `Throws`
covers memcached without a value and the conversion of a regex state's number;
`Canonical` is what a conversion makes of a name, so that `$01` is `$1`.
`BeginScript` stands for the states before: a selected request with any script
reaches the evaluation.

Assumptions: one request (what a request leaves behind is `Interpreter`'s
subject); an environment entry is shorter than the buffer, beyond which the code
leaves it unterminated; `CONTENT_LENGTH` is not negative; after a percent sign
there are no blanks, signs or `0x`, which `%x` reads too; the number of a
substring or column fits an integer; memcached answers with
what it has or with an error.

### Properties and run

`texts` checks the five of them:

* `ParametersAsSent`: if every escape is well formed and stands for no separator
  (`WellEscaped`), each parameter arrives with the value it was sent with and
  nothing else does. The reference (`Sent`) reads the text the other way round,
  splitting first and decoding each part.
* `EnvironmentWins`: no parameter, however it is written, replaces a variable of
  the CGI environment.
* `SubstitutedAsWritten`: a text whose references come in the order in which
  their kinds are tried (`InOrder`) evaluates to its meaning (`Written`), which
  looks at each sign by itself. Nothing is substituted twice, for values contain
  signs too.
* `TypeOK`: an index runs past the end of its text by what an escape skips, and
  no further.
* `TextsEnd`: every request is refused or its text evaluated, or an exception
  ends it: all ways through the three loops advance.

*Bounds* (`MCTexts`). Texts are concatenations of words chosen so that each pair
of neighbours is a case: queries of up to four words (up to three with an
environment) from names, values, separators, escapes of `&`, `=` and a letter,
and a percent sign alone, which before `a` or `f` is an escape of one digit;
sources of up to three words from variables of all kinds, known and unknown,
signs that begin none, a backslash and plain characters. All requests are run
with one script, and all scripts with one request, since the two meet only in
`symTable`. A buffer of 8 characters cuts a body that is longer and one that is
shorter than announced. *Fairness*: `WF(Next)`, for all of it is sequential code
that calls nothing which can block but the read of the body.

Divergences in the model that no violated run is spent on:

* An escaped `&` separates parameters, and an escaped `=` in a name ends it,
  since the text is decoded first; hence `WellEscaped`.
* An escape that is cut short takes the value of an earlier one, or of an
  uninitialised variable.
* Without `InOrder` the meaning is lost: in `@user; @1.mail` the first sign is
  taken for the longer name after it, because local variables in long form are
  tried first, anywhere in the rest. A sign alone before a reference swallows
  its beginning (`&&a`), and an escaped one counts as a reference to the expressions
  (`$1 a\@a.com`).

### Proofs (`TextsProofs`)

Assumptions: a buffer of at least one character, requests and scripts made of
texts (`RequestAssumption`, `ScriptAssumption`, `GlobalAssumption`), and for an
unset variable any byte (`GarbageAssumption`). Nothing on the length or the
content of a text. No theorem uses fairness.

* `TypesHold`: the bounds of the indices, and that what is decoded is a byte.
* `EnvironmentStays` (`EnvironmentWins`): after `n` entries of the environment
  the table holds what each of them says or a later one does (`Held`).
* `ParametersArrive` (`ParametersAsSent`). While the text is decoded, what is
  decoded and what the rest stands for join to the whole (`DecodingOf`), so the
  unset variable never shows. While it is split, the rest of the decoded text is
  what the rest of the sent one stands for, from the start of a piece, and the
  table is what the pairs before it say (`SplittingOf`, `SentBefore`). The heart
  is `PairAsSent`: since no escape stands for `&`, nor for `=` in a name, the
  first separators of a decoded piece are those of the piece that was sent.
* `SubstitutionIsWritten` (`SubstitutedAsWritten`). What is written so far and
  what the rest means join to the meaning of the whole (`Joined`), and the place
  at hand is never an escaped one (`Unescaped`). The regular expressions are not
  anchored, so what is matched in the rest could begin anywhere: in an orderly
  text nothing of a kind tried earlier is left (`NoneEarlier`), and of the kind
  that stands there the leftmost and longest match is the reference itself
  (`FirstMatch`, `FoundIsRank`). What begins at a place is of one kind, for its
  first two characters tell (`MatchShape`, `OneKind`), and no reference ends in a
  backslash, so that the next place is not escaped either.

Both references, `Sent` and `Written`, are put together by `Concatenated`, a
recursive function over places that need not follow each other. The first
lemmas are about it: it exists, it begins with its first piece, and it can be
cut between two pieces. They, like all that is said of a text piece by piece,
go from its end to its beginning (`FromTheEnd`), by the last place for which
they would fail. Only model-checked: `TextsEnd`, which is liveness.

## 7. Module `Server`

The program around the pool, from its command line to its exit, for several
instances that share the name of the pid file and the socket.

### State and actions

| TLA+ | Code |
|---|---|
| `pc` | place of `main`: `load`, `loaded`; `lstat`, `open`, `check`, `truncate`, `write` (`write_pid`); `prepare`, `bind`, `serving`, `closed` (`runPreforked`); `unlink`; and its ends `left` (an early return), `alarmed` (`log_error` about the pid file), `failed`, `aborted`, `killed`, `ended` |
| `daemon`, `Sharing` | `daemon_mode`; the instances (a constant) in whose configuration two names share a script file |
| `generation` | number of forks of `daemonize` so far; `pid[i, generation]` is what `getpid` gives |
| `seen`, `fd` | `lstatInfo` and `file` of `write_pid`; a file is named by the instance that created it |
| `path`, `content` | what the file system has under the pid file's name, and in each file |
| `locks`, `listening` | lock files that exist; who has the socket |
| `disturbed` | history variable: instances that had begun with the pid file when another one changed it. Guards no action |

Each system call on the pid file is a step, so that instances interleave
between any two. `Create` is `O_CREAT | O_EXCL`; `Check` compares what `lstat`
and `fstat` saw; `Overlay` is a write at the beginning of a file that may be
longer. `Kill` is SIGKILL or a crash: the pid file, the lock files and, in the children,
the socket stay (`ChildrenEnd`). `FreeScripts` may abort with shared files, see
`StopIsClean` in section 5. A failed `ftruncate`, `mkstemp`, `mmap` or
`FCGX_Init`, which ends the program by `log_error`, does the same and has no step of
its own. Left out: other users' files and links, and what
becomes of the lock files of a killed server, which have random names.

### Properties and run

`server`: three instances, one with shared files, and what an earlier run has left: no pid file, an
empty one or one with a longer pid than any of theirs. A third instance can
find what two others did between its `lstat` and its `open`; instances that have
ended are not started again, but each has the others before, beside and after
it. Deadlock is not checked, for all instances end. No fairness: both properties
are about what happens.

* `DaemonIsNamed`: from the time it has written it until it removes it, the pid
  file contains the pid of the daemon, of the last of the three processes, and
  nothing else, unless another instance meddled.
* `NoFalseAlarm`: a start ends with an alarm about the pid file only if another
  instance did something to it meanwhile; what is left by a crash never is the
  reason.

`disturbed` is there because of what the code does to a daemon that runs:

* A second instance overwrites the pid file before it finds that it cannot have
  the socket, and leaves its own pid in it.
* Every instance unlinks whatever has the name at its end, and an instance in
  the foreground does, though it never wrote it.
* The process of the command line returns 0 before anything that can fail is
  tried, so that the init script reports a start (`appserver.Linux.in:45`).
* With shared script files the server may abort before it unlinks the file, and
  `log_error` leaves lock files behind.

### Proofs (`ServerProofs`)

Assumptions: the pids of all processes differ and are not empty
(`PidAssumption`), `NoFile` is no file, and `Sharing` are instances. Any number
of instances, pids of any length, any content left behind.

`TypesHold`, `DaemonNamed` (`DaemonIsNamed`) and `NoAlarmWithoutCause`
(`NoFalseAlarm`) rest on `IInv`: only the grandchild of a daemon writes the file
(`Grandchild`), and as long as nobody has disturbed an instance it may rely, at
each system call, on what the previous ones found (`Trusted`): what `lstat` saw
is still there, it is what was opened, after the truncation it is empty, and
from the write on it is the pid. A step of one instance leaves this alone for
the others, or disturbs them.

## 8. Not modelled

* *Cutting comments off* and recognising a line: `Loader` starts from what is
  found in a line.
* *Regular expression cache*: read once and constant; the four expressions of
  `evaluate` are in `Texts`, the others are the kinds of lines of `Loader`.
* *Databases*: the connection is set up once per child and its renewal is done
  by libpqxx; what remains of the code is a query that succeeds or fails
  (`Query`). `disconnect`, on the way to exit, is part of a child's `Exit`.
* *A child's exit handler*: one step, although `exit` in a signal handler frees
  memory while the interrupted code may be doing the same; and a handler of the
  master that runs after `munmap`.
* *Numbers*: the load of the pool as a `float`.
* *Text of answers and mails*, `HTTPstatus`, the dump file, logging, command
  line options and the generated texts are pure input and output.
