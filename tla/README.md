# A verification development for the CUB OS homework programs

The repository holds six small C programs written for an operating-systems
course. This directory holds TLA+ modules that model them, the TLC
configurations that model-check the modules on small instances, and proofs
checked by TLAPS. `PROJECT.json` is the index: components, runs, mutants, the
map from definitions to lines of code, findings, hazards and theorems.

## The programs

| component | state | operations | concurrency and failure |
|---|---|---|---|
| energy drinks (`energy-drinks/energy-drinks/`) | `dispensing_machine` (drinks, coins, two statuses, mutex `m`), mutex `use_machine`, three condition variables, `student_args` | `run`, `student`, `supplier`, `machine` | n + 3 threads, timed waits, early aborts, thread creation that fails |
| prisoners (`prisoners/`) | `drawers`, `thread_results`, `args_lists`, a global lock and a lock per drawer | `main`, `simulate`, `init_drawers`, `run_prisoner`, `next_drawer` | a thread per prisoner, one game after the other, abandoned games |
| dpnum (`math-multithreading/`) | power table, range, a result buffer per worker | `precompute_powers`, `check`, `check_range`, `run_thread`, `main` | workers that share nothing they write; the difficulty is arithmetic |
| gwgd, the guess-the-word server (`gwgd/`) | connections, a challenge and two counters per game | `run_game`; `server` (basic) or `cb_func` (libevent); option parsing, error table | blocking, thread or process per client; disconnects, failing fork, thread, pipe |
| xargs (`xargs/`) | argument storage, flags | tokenizer, batches, fork / exec / wait | children run one after the other |
| env (`env/`) | the environment | one pass over the arguments | none |

What makes each correct:

- **energy drinks** - one transaction at a time; the student who pays gets the
  drink; no notification is lost; a drink is there when it is dispensed; every
  coin is accounted for; everybody is served and `run` returns.
- **prisoners** - shuffles are permutations; prisoners exclude each other; a
  game counts as won only if every prisoner found her number in that game, and
  smart games are won by exactly the shuffles without a long cycle; all games
  end.
- **dpnum** - the table holds the powers that fit; a number is printed if and
  only if it is a digit-power sum; the workers' parts cover the range once.
- **gwgd** - the counters match the exchanged messages; a challenge is kept
  after an invalid line and replaced after a guess; connections are released and
  one client cannot stop another's game, as far as that holds (see Findings).
- **xargs** - tokens are those of the input; every argument is passed to one
  child, in order.
- **options** - a program starts exactly with a command line that has nothing wrong
  in it, with the last value given for every option; otherwise it reports the first
  fault, once and by its name.

The programs do not interact with each other. They share conventions: error
codes passed up through `SAFE_CALL`, `process_error`, `safe_parse_ulong_option`.

## Modules

| module | models | needs |
|---|---|---|
| `EnergyDrinks` | `energy-drinks.c`: the threads, mutexes and waits | |
| `DrinkService` | what the machine promises, without threads | |
| `EnergyDrinksProofs` | inductive invariants, proofs, refinement | `EnergyDrinks`, `DrinkService` |
| `Prisoners` | `prisoners.c`: main, the shuffle, the prisoners' threads | |
| `MCPrisoners` | the threads that TLC lets fail | `Prisoners` |
| `PrisonersProofs` | types, the shuffle, exclusion, honest wins, cycles, drawers left locked | `Prisoners` |
| `Dpnum` | `dpnum.c`: the power table, the split of the range, the workers | |
| `MCDpnum` | the ranges and thread counts that TLC tries | `Dpnum` |
| `DpnumProofs` | types, the parts of the range, the test, the printed output | `Dpnum`, `RecursionLemmas` |
| `Xargs` | `xargs.c`: the tokenizer, its storage, the batches and their children | |
| `MCXargs` | the inputs that TLC tries | `Xargs` |
| `XargsProofs` | overruns, batches, the arguments of any input | `Xargs`, `RecursionLemmas` |
| `RecursionLemmas` | induction over a set of naturals; what it gives about recursions and folds | |
| `Options` | `parse_flags` and `process_error` of four programs, with gwgd's library | |
| `OptionsProofs` | what starts and what is reported, for any command line | `Options` |
| `Challenge` | `chlng.c`: fetching a text, hiding a word, as operators | |
| `GameEnds` | how a game of gwgd may end, and what it leaves allocated | |
| `GuessingGame` | what a game promises to its player | |
| `GwgdGame` | `run_game` with one client | `Challenge`, `GameEnds`, `GuessingGame` |
| `MCGwgdGame` | the texts and lines that TLC tries | `GwgdGame` |
| `GwgdGameProofs` | hidden words, inductive invariant, scores, challenges, refinement | `GwgdGame` |
| `GwgdServer` | `server` in its three modes, and the start of the libevent program | `GameEnds` |
| `GwgdServerProofs` | who holds connections, whose games survive, for any limits | `GwgdServer` |

### EnergyDrinks

A step is one critical section, from taking `m` to releasing it or going to
sleep on a condition variable; taking `m` (`Lock`) is a step of its own, and so
is every access that no mutex guards (`ReadIndex`) and the two operations on
`use_machine`. `pc` names the section a thread is in or heads for:
`check_stock` is lines 80-85, `request_refill` 87-92, `await_refill` 94-99,
`buy_drink` 101-112, `await_drink` 114-121, `supply` and `vend` the loop bodies of
`supplier()` and `machine()`.

A condition variable is the set of threads asleep on it. `Signal` wakes one or is
lost; a woken thread must `Lock` m again before it looks at its condition. A wait
may also return by `SpuriousWakeup`, and the waits of the two services by
`Timeout`, which only marks the thread in `timed_out`: it sees ETIMEDOUT once it
owns `m`, and then ends (`Abort`) whatever the status has become. The model has no
clock. With `EarlyTimeouts` a timed wait may expire at any moment (a slow machine,
a pause of ten seconds); without, only when the students are gone.

`MayFail` names the threads whose creation may fail with EAGAIN. `SAFE_RUN_THREAD`
looks for EINVAL only, so `run` goes on; joining such a thread reads an uninitialised
`pthread_t`, so the call either fails at once or brings the process down
(`JoinMissing`).

`unsigned long` is scaled down: arithmetic is modulo `ULONG_MAX + 1`. Coins are
inserted one at a time in the code but all within one critical section, so one
addition stands for the loop. Log lines are left out. The data race on
`student_args.index` is modelled by reading whatever is there when the thread
starts.

`DrinkService` has a customer, the set of students served, the stock and the till.
`EnterMachine`, `Refill`, `Dispense` and `LeaveMachine` map to its Arrive, Restock,
Sell and Leave, and every other step stutters; a student counts as served from the
moment the machine has dispensed her drink.

### Prisoners

`phase` is the place of the main thread in `init_drawers`, `simulate` and `main`, `pc`
that of every prisoner's thread. A thread is named by its round (the index of the
strategy) and its prisoner: the games of a round are joined, so two threads of one
name never live together, but threads of an abandoned game run on into the next
rounds. Main and those threads share the drawers, the results and the flags, so a step
of either reads or writes one of them: `SetGlobalFlag`, `SetSmartFlag` and
`CreatePrisoner` are three steps of main, and a prisoner reads `use_smart_strategy`
(`Start`, `Move`), `use_global_lock` (`ChooseLock`, `KeepLock` or `ChangeLock`, `Leave`) and
the drawer (`Look`, `Move`) when the code does, and sets the result before it unlocks.
The random numbers are any of `Random`. A mutex that is released by a thread that does
not hold it is free afterwards, which is what the default mutexes of the C library do.
`CreateMayFail` names the threads whose creation may fail. The names of joined
threads are used again in the next game; `JoinedThread` owns the locks they left behind.

Four steps stand for several accesses. `Move` reads the flag of the smart strategy and the
drawer at once: the flag is never cleared, so both are as if read when the last of them is.
`ResetResults` clears all the results at once: a result that a thread of an abandoned game
sets in the meantime is lost or kept, as before or after the step. `JoinPrisoners`
waits for all at once, since a thread that is done stays done. `Judge` reads all the results at
once: until the next reset they are only ever set, so if all were found set they all are
when the last is read, and if one was not, the step may stand where it was read.

### Dpnum

An `unsigned long` has `W` bits and all its arithmetic is modulo 2^W. `power`,
`max_power`, `compute_power_sum` and `check` are the table and the test as the code
computes them, with products that wrap; `IsPdi` is the mathematical definition, with
powers that saturate. The rows of some digits go on with products that have wrapped.
No power that fits is missing (`TestMissesNothing`), but a sum with a wrapped one could
equal a number by accident. `dpnum_search` compares the two for every number of eleven bits and finds
no such number. This depends on the width: it says nothing about 64 bits, and words
of other widths do go wrong (in eight bits 45 passes the test).

`run_thread` creates a worker with a part of the range, `CheckNext` tests one number,
`FinishRange` ends the worker's loop, and `JoinAndPrint` waits for the workers in the
order of their creation. The buffers are sequences without the terminator. Digits
are written by `Digits`, in place of `snprintf`. When a thread cannot be created,
`main` returns and the workers end with it. The time measurement is left out;
`Inputs` are the values that the options have, which `MCDpnum` lists, and how they come
about is in `Options`.

### Xargs

An action reads one character, or runs one step of the loop in `run`. `storage` is the sequence
of the bytes written, so `cur` is its length; `args` holds the places where the arguments begin,
and an argument is what lies between its start and the next zero byte (`StringAt`), as a child
sees it. The characters are a letter, a space, the two quotation marks, the zero byte (which
equals `current_quotation_symbol` outside quotes and so ends an argument) and 0xff, which a
`char` cannot tell from EOF. What the code reads for nothing when the storage is full, and the
zero it then writes behind the storage, are there: from that write on, as from a copy of a
negative length, `phase` is "undefined" and nothing more is said. So it is where `run` copies to
the list for a child a command whose own arguments are more than that holds (`CommandFits`).
`Reference` is the tokenizer on paper, a fold of `RefStep` over the input that is between
arguments, in a word or in a quotation. The two are compared for inputs that the storage and the
list hold (`FittingText`). An error must find room in the list as well: what follows the last
argument that the list can hold is not looked at, so that an unmatched quotation mark there is
not reported. With `-n 0` the loop never advances. What `-t` prints is left out, as is `-j`,
which nothing reads.

### Options

A command line is a sequence of tokens: an option with what stands for its argument, an
unknown option, an operand. `program` is one of the four programs that parse options
this way, with its options, their defaults and its errors in the order of their codes.
One token is one action; the first fault ends the loop. `safe_parse_ulong_option` of
gwgd returns numbers of its own library (`LibCode`), which its `main` takes for those of
its own enumeration. `-e` of dpnum is incremented in the word's width. Numbers are what
`strtoul` makes of a text; numbers with signs or blanks are not told apart.

### GwgdGame, Challenge, GuessingGame, GameEnds

`run_game` is a loop that offers a challenge and reads one line. `NewChallenge` and
`SameChallenge` are the two ways to its first half; `TooShort`, `NoCommand`, `Quit`,
`RightGuess`, `WrongGuess` are what becomes of a line, and each contains the messages it writes.
The client is another actor: it sends lines whenever it likes, so several may be on their way,
and may close the connection at any moment. Then `recv` ends the game, at once or after the
lines that had arrived (`Disconnect`), or a write kills the process (`Killed`).

The part of `read_buf` that matters is the string at its fourth byte, `tail`. A line of two
characters or fewer does not reach that far, so `tail` stays what an earlier line, or the
stack, left there: `R:` repeats the guess of an earlier line. What `malloc` returns is
arbitrary (`OldTexts`, `OldWords`) and seen if `fortune` prints nothing, for then
`chlng_fetch_text` succeeds with the text it had. `Challenges` says what
`chlng_hide_word` may make of a text, one result per word that `rand` may choose; a text
without words leaves the old word to be guessed. `sent` and `source` are history
variables that only properties look at. The texts are short sequences of characters, so
the loops of `chlng.c` become sets of positions.

In `GuessingGame` a question stays until it is answered, an answer counts once, and the
score is announced on leaving. A challenge is its question from the moment it is
offered until it is judged; an invalid line and the second offer that follows are
no steps of it. `GameEnds` is the contract with the server: `Kept` is what a game that
ends in one way or another leaves allocated. That `run_game` keeps to it is a lemma
(`GamesLeaveWhatIsKept`), `GwgdServer` builds on it. It records what the code does, which
is not what its comments say of `args`: see Findings.

### GwgdServer

`pc` is the place of `server`, `game` the state of each client's game, `fds` who holds which
connection open, `listening` who holds the listening socket. A child gets all that its parent has
open; the parent's `close` and the child's are separate steps, so either may come first.
`Tasks` counts the threads that run, or the child processes that exist: nobody
waits for the children, so a finished one counts until the server ends. When threads run
out (EAGAIN) or `fork` fails, `server` returns and the process ends: with it the games of
the thread mode, but not those of the children. When descriptors run out `accept`
fails and is called again. `Killed` is SIGPIPE: it ends the process that plays, in
blocking and thread mode the server with everybody's games.

A game takes any time, and a client need neither play nor leave. The games are three
outcomes; the lines are in `GwgdGame`. LIBEVENT stands for the program
`gwgd/app/libevent`: it opens its two sockets, or ends, and then waits for `errno` to
change. Its events are created and never added, and the event base never runs, so
`cb_func` is not called and not modelled.

## Runs

| run | question | instance |
|---|---|---|
| `energy_faults` | the handshake, the refinement, and who is blocked when threads are missing or give up | 2 students, capacity 1, price 2; early timeouts; both services and one student may be missing |
| `energy_liveness` | the stock and its limits, the coins; everyone is served, `run` returns, no deadlock | 3 students, capacity 2, price 2; no early timeouts |
| `energy_abort_race` | finding: a service ends with a request pending | 1 student |
| `prisoners_games` | shuffle, exclusion, wins, termination | 3 prisoners, 2 attempts, 2 games per strategy |
| `prisoners_abandoned` | what abandoned games can do | 3 prisoners, 1 attempt, 1 game; 4 threads may be missing |
| `prisoners_drawer_locks` | finding: drawer strategies use the global lock | 2 prisoners, 1 attempt |
| `dpnum_search` | the test, the parts, the buffers, the printed output, termination | W = 11; ranges of up to ten numbers, 1 to 3 threads; all numbers, 1 thread |
| `xargs` | the arguments, the batches, overruns, termination | storage of 10 bytes, list of 4 arguments; 0, 1 or 4 arguments of the command; -n -1, 0, 1, 2 and 100 |
| `options` | what starts, with which values; what is reported | command lines of up to 3 tokens, 3 numbers, four programs |
| `gwgd_game` | scores, challenges, refinement, termination | 3 lines of 6 kinds, 5 fortunes, a buffer of 6 |
| `gwgd_args` | finding: the arguments of a game are not always freed | 1 line |
| `gwgd_server` | who holds connections, whose games survive, who is answered | 4 clients, 3 descriptors, 2 tasks; three modes and the libevent program |

Why the bounds are enough. Three students are one at the machine, one waiting for it and one
still to come, and with capacity 2 the third finds the machine empty again, so both the first
refill and a later one happen with the till full; 7 as the largest `unsigned long` lets the
capacity's coins fit and makes a wrap visible. Three prisoners with two attempts have shuffles
with cycles of one, two and three, so games are won and lost; two games per strategy make a
stale result visible. An abandoned game needs three prisoners: the first always has her flag and
the last is always joined, so the one between is the first who can take a drawer lock in an
abandoned round and have her flag set in a later one. `SomeFail` lets the first round set only
the first flag, the second start two threads, of which the second uses drawer locks, and the
third set her flag; the last round may be abandoned with both at large. The one attempt has her
read the flag before her search, after it and when she leaves. One random number is enough: all
prisoners choose the same drawer, which has the number of one of them. In words of eleven bits
the digit-power sums are 1 to 9, 153, 370, 371, 407 and 1634, so a buffer of fifteen is full
exactly when all are found, and ranges that start at 0, 1 or 4 and end at 2, 3 or 9 make parts
that are equal, unequal, empty (more threads than numbers) or refused. The inputs of xargs are
all texts of four bytes, texts of five over a smaller alphabet, and some behind five or seven
bytes, which fill the storage of ten with one argument or several that end before, at or behind
its last byte; two bytes more behind four arguments are those that the list has no room for.
With three lines a client can fail to be understood, guess and leave, or guess twice with one
word. Of four clients two can play, one finds no task left, or three leave no descriptor to the
fourth; a parent that kept a connection would pass it on to the next child. Deadlock is checked
except where the program really can stop for good (services gone, a service missing, an
abandoned game) and in the finding runs that allow those.

### Fairness

`EnergyDrinks` assumes that every thread that can act eventually does (weak
fairness), and strong fairness for taking `m` and for the expiry of a timed wait
once the students are gone: spurious wakeups can disable both again and again, but
neither a mutex that is free again and again nor ten seconds can be dodged for ever.
While a student is about a timed wait may expire (`EarlyTimeouts`) and need not:
otherwise `ServedUnlessAbandoned` would hold merely because the services give up in
the end. `use_machine` needs no more
than weak fairness: every student takes it once. `Prisoners` needs only that
somebody who can run does: main and the prisoners take finitely many steps each, so nobody is
passed over for ever. So does `Dpnum`, for `main` and each
worker, which share nothing they could be kept from. `Xargs` assumes that `main` runs on and
that every child ends. `GwgdGame` assumes that the thread of the game runs on, and nothing
of the client. `GwgdServer` assumes that the server, every child and the kernel go on, and
that the game of a client who is gone ends, which `ClosedGameEnds` shows of `run_game`
(unless `fortune` keeps it); clients need neither play nor leave. `EveryoneAnswered` has
the rest as its hypothesis: that the server is again and again not held up by a blocking game
or by games that have left no descriptors.

`RunReturns` and `ImplementsFairService` are checked with timeouts that come only
after the students. With early timeouts they do not hold: a service that ended is
not there for the next student. `ServedUnlessAbandoned` says that nothing else goes
wrong then.

## What is proved

### EnergyDrinks

`EnergyDrinksProofs` proves, from `ConfigAssumption` alone (any finite set of
students, any capacity and price, early timeouts, missing threads, spurious
wakeups):

1. `TypeCorrect`: `TypeOK`, which is inductive.
2. `LockOrder`: `LockInv`, who owns `m` and who sleeps. It is needed because
   sections are guarded by ownership alone.
3. `TransactionsAlternate`: `OneTransaction`, inductive with `TypeOK`.
4. `WakeupsArrive`: `NoLostWakeup`. The step that matters: by `LockInv` and
   `OneTransaction` the only possible sleeper on `notify_student` is the student
   at the machine (`SleeperIsCustomer`), so one signal empties the set
   (`SignalWakesTheOne`).
5. `RefillsOrderly` and `RefillsAnEmptyMachine`: `RefillInv` ties the refill status
   to the stock; `RefillOnlyWhenEmpty` follows.

and, with `SoundConfig` (a capacity above zero, and a full till that fits an
`unsigned long`; `-c 0` shows the first to be necessary, see below):

6. `DrinksAreThere` and `CoinsAccounted`: the stock and the coins, by `StockInv`;
   `TillStep` is the arithmetic of one sale.
7. `NeverOverfull`: with `StockInv`, the stock never exceeds the capacity; with a
   capacity of zero it does.
8. `DrinksServed`: the refinement of `DrinkService!Spec`, one step per action.

### Prisoners

`PrisonersProofs` takes any number of drawers, attempts and games
(`PrisonersAssumption`).

1. `TypeCorrect` and `ShuffleLosesNothing`: `TypeOK` and `Shuffled`, also when games are
   abandoned and their threads run on. An attempt is counted only while some are left
   (`BoundsInv`); between the two writes of a swap the drawers with `temp` put back are a
   permutation (`ShuffleInv`).
2. `DrawersForgottenInTwoWays`: `ForgottenByFindOrFlag`, wherever creations fail. A thread whose
   prisoner has no flag and that owns the lock of a drawer is about to look into that
   drawer or to release it, or found her number (`OwnerInv`); no thread has the name of one that
   is still to be created (`FreshInv`), and no flag is ever cleared (`FlagsStaySet`).
3. `GlobalLockForAll`, `WinsAreHonest`: `OneAtATime` and `HonestWins`, assuming
   `CreateMayFail = {}`. The assumption is needed: an abandoned round leaves a flag
   unset and threads that write results of later games, and then neither holds (see
   Findings). The invariant is that no thread outlives its game (`CreatedInv`), that
   `use_global_lock` stays set once the first round has set it (`FlagsInv`), that the one who
   looks owns the lock (`LockInv`), and what a result says (`ResultInv`).
4. `SmartGamesAreDecidedByCycles`: `SmartWinsByCycles`, under the same assumption. A prisoner's
   way is a trail (`Trail`): the set of the drawers she has opened and of the one at `cur`, one
   more than the attempts she has made, all of them reached from her own. If she finds her number
   the trail is closed and short enough (`TrailCloses`); if she does not, any closed set with her
   drawer contains the trail, which has more than `N_ATTEMPTS` drawers (`TrailTooLong`).

### Dpnum

`DpnumProofs` takes any word size, buffer and inputs (`DpnumAssumption`).

1. `TypeCorrect`: `TypeOK`; no worker writes behind its buffer.
2. `PartsCoverTheRange`: `PartsCover`, assuming `SplittableInputs`: there is a thread, the
   product of the split does not overflow, and a range that starts at 0 has a number for
   every thread. Without the second numbers are left out, without the third a worker searches
   everything (see Findings). Under them the arithmetic of the code is that of the integers
   (`PartStartIsBound`), the bounds ascend (`BoundsInOrder`) and every number of the range lies
   between two successive ones, only once (`QuotientsCover`).
3. `TestMissesNothing`: every digit-power sum passes the test, for words of more than two bits. A
   power that fits stands in its row, for all before it are below the half that ends the row
   (`PowerInRow`, `NoPowerMissing`; the half is odd, which matters for the digit 2). A sum that fits
   is made of powers that fit, so the table and the word compute it as on paper, digit by
   digit (`SumsAgree`). The exponent `UL_SIZE`, which the definition has and `check` does not
   try, adds nothing: where it fits the digits are 0 and 1 (`HighestPowerIsFirst`). Exponent 0
   counts the digits, which gives only 1 (`OnlyOneCountsItsDigits`), so that it does not matter
   that the table holds 0 for 0 to the 0.
4. `OutputIsExact`: `OutputExact`, assuming `SplittableInputs`, more than two bits, the converse
   of 3, that no number passes the test that is no digit-power sum (`TestIsSound`), and that
   the numbers that pass the test fit a buffer (`EnoughRoom`). A buffer
   holds the numbers of its part that the worker has passed
   (`SearchInv`), and the output is that of the parts joined (`PrintInv`).

`TestIsSound` is a matter of the width, as said above: it is false of eight bits, and
`dpnum_search` shows it, with `EnoughRoom`, of eleven. It is not proved of any, and so
`CheckIsExact`, which needs both halves, is not a theorem. To the provers `^` is an unknown
operator: `PowersOfTwoAssumption` says what the powers up to `2^W` are, and TLC finds it true.

### GwgdGame, Challenge, GwgdServer

`HiddenWordFills`: for a text of any length and any of its words, the word put into the gap gives
the text back. `GwgdGameProofs` takes any fortunes, lines and contents of
`malloc`'s memory (`GameAssumption`, `ChallengeAssumption`) and proves `GameInv`, which ties the
counters to the messages (`ScoreInv`), a kept challenge to its source (`SolvableInv`, which needs
that a challenge is kept only between an invalid line and its second offer, `KeptInv`) and what
is allocated to the place of the game (`HeldInv`). From it follow `TypeCorrect`,
`ScoresAreWhatWasTold`, `ChallengesAreSolvable`, the lemma `GamesLeaveWhatIsKept` (what a game
that has ended holds is `Kept` of its outcome), and `GamesAreGuessingGames`: the refinement of
`GuessingGame`, one step per action (`NextGame`).
The score that is announced is read off the history of messages, in which nothing follows a
goodbye.

`GwgdServerProofs` takes any clients and limits (`ServerAssumption`): `TypeCorrect`,
`ConnectionsHaveOneOwner` and the action property `ChildrenAreIndependent`, by an invariant of
which the heart is `OwnerInv`: in forking mode the server holds at most `current`'s connection,
and only between `accept` and the parent's `close`, so a child inherits no other.
`PlayersCloseTheirConnections` is the safety half of `ConnectionReleased`.

### Xargs

`XargsProofs` takes any input, any `-n` and any sizes of storage and list (`XargsAssumption`).

1. `OverrunsNeedLongInput`: `OverrunNeedsLongInput`. Every byte stored stands for one that was read,
   except one zero at the end of the input (`CursorInv`).
2. `ChildrenGetTheArguments`: `BatchesCoverArguments`. The k-th child has got the k-th batch
   (`ChildrenInv`); put together they are a beginning of the arguments (`BatchesTogether`).
3. `ArgumentsAreFound`: `ArgumentsAreThoseOfTheText`. The tokenizer on paper is run along:
   `After(stdin, pos)` is its state after the bytes that were read. Between arguments it has
   found those of the list (`BetweenInv`), within one it has besides the bytes stored from
   `start` on and is in the same kind of quotation (`WithinInv`); for the list to keep its texts while
   more is stored, every argument in it must have ended (`EndedInv`). A text that fits is either
   read to its end or found wrong, and where the parser stops for want of room in the list
   `AfterGrows` says that the rest would have added to it.

`FlattenSeq` and `FoldLeft` are recursive functions of the community modules. What they compute
is proved from their recursion by `Induction` of `RecursionLemmas`: a set of naturals that
contains 0 and with each its successor contains them all. The library states induction over a
predicate, which the provers cannot instantiate; over a set it follows from the pigeonhole
principle: if `m` were missing, adding one would map the members below `m` into themselves,
injectively and without reaching 0.

### Options

`OptionsProofs` takes command lines of any length over the tokens of `Options`
(`OptionsAssumption`). `ProgramsStartWithWhatWasGiven` and `FirstFaultsAreReported` follow from two
invariants: before a fault the values are those of the last token of every option and none of the
tokens read was wrong (`ReadInv`); after it what is recorded is of the first wrong token, or of
a line without any (`FaultInv`).

### What only TLC checks

Liveness (`RunReturns`, `ImplementsFairService`, `ServedUnlessAbandoned`, `GamesEnd`,
`EndsUnlessForgotten`, `PrintsAll`, `EndsUnlessZero`, `ClosedGameEnds`, `ConnectionReleased`,
`EveryoneAnswered`) rests on fairness, which is beyond this prover. `CheckIsExact` depends on the
width: TLC checks it for eleven bits, and the half that does not is the theorem `TestMissesNothing`.
Every other property of the passing runs is a theorem, of every instance that meets the
hypotheses named above.

## Findings

Three have a run that TLC refutes: a service of the energy machine that aborts with a
request pending; the drawer strategies of prisoners, which use the global lock; and the
arguments of a game of gwgd, "Freed in run_game()" by two comments, which it frees only when
the client quits. `PROJECT.json` quotes the lines.

Other slips are in the models without a run of their own.

- energy drinks: `SAFE_RUN_THREAD` takes EAGAIN for success; `student_args.index` is
  overwritten while a student may still read it; with `-c 0` the machine dispenses a drink
  it does not have and the stock wraps.
- prisoners: `main` ignores the result of `simulate` and reports games it did not play;
  threads of an abandoned game can set results of a later one, which then counts as won.
- dpnum: the product in the split of a wide range overflows, and numbers are left out
  (`PartsCover` holds where it does not); an empty part that starts at zero ends at
  `ULONG_MAX`, so that its worker searches everything (`-s 0` with more threads than
  numbers); `-e ULONG_MAX` is refused as an invalid range.
- xargs: the terminating zero is written behind a full storage; a byte 0xff ends the
  input and a zero byte an argument; `-n 0` runs the bare command for ever; a byte is read
  and lost when the storage is full; what follows the last argument that the list can hold is
  ignored, an unmatched quotation mark included.
- gwgd, options: the library's INVALID_ARGUMENT_VALUE is the program's INVALID_OPTION, so
  that `-p junk` ends the program without a word (`Silent`).
- gwgd, games: `R:` without a guess repeats the guess of an earlier line; a text without
  words asks for the word of the challenge before; an output of `fortune` of
  `BUFFER_SIZE - 1` characters keeps the game for ever; a game whose text cannot be
  fetched leaves its connection open.
- gwgd, server: children are never waited for, so as many games as there may be
  processes end the server; a client that leaves at the wrong moment ends it by SIGPIPE
  in the blocking and thread modes. The libevent program accepts nobody.

One slip is latent. No drawer lock is ever taken while every thread can be created
(`OneAtATime`), as the first strategy leaves `use_global_lock` set for good. After an
abandoned first round the remaining prisoners do use drawer locks, and a drawer may stay locked
in two ways (`ForgottenByFindOrFlag`). Who finds the number releases `global_lock`, even if it
holds a drawer lock. And a later round may set the flag of a thread that is still at large with a
drawer lock: it then keeps that lock where it should change it, or releases `global_lock` at
the end. `prisoners_abandoned` shows of its instance that the program ends unless a drawer was
left locked.

Of the hazards in `PROJECT.json` those with a note are in the models, or left out as the note
says, but no property covers them: a capacity of zero, the ranges that dpnum splits wrongly and
its failing threads, a text without words, the guess of an earlier line, a silent client of the
blocking server, the libevent program and the errors with two numbers. Properties about what
the program should do there could only repeat what it does.

## Plan

The components are modelled and their safety properties proved. What is left:

1. Safety halves of liveness properties: what is true when a program has stopped, for every
   instance (which threads wait when `run` of the energy machine cannot return; that
   a game of gwgd that ends has an end of `GameEnds`).
2. What else holds of the prisoners when games are abandoned: `EndsUnlessForgotten` with more
   games and attempts, and which of them can be won.

## Not modelled

- Lines of a client that are longer than `read_buf`: what lies behind the buffer is not
  part of the model.
- Failing `malloc`; failures of `pthread_create` other than EAGAIN in gwgd.
- `cb_func` of the libevent program, which nothing calls, and its copies of `run_game` and
  `parse_flags`.
- `player_reset`, `player_fetch_chlng` and `chlng_reset`, which nothing calls.
- An unknown option of xargs; what `-t` of xargs and the logs of all programs print;
  formatting and timing.
- `env`: short and sequential, one pass over its arguments. Build files, plotting.

## Running

    tlc -config energy_faults.cfg EnergyDrinks
    tlc -config prisoners_games.cfg MCPrisoners
    tlc -config prisoners_abandoned.cfg MCPrisoners
    tlc -config dpnum_search.cfg MCDpnum
    tlc -config xargs.cfg MCXargs
    tlc -config options.cfg Options
    tlc -config gwgd_game.cfg MCGwgdGame
    tlc -config gwgd_server.cfg GwgdServer
    tlc -config energy_liveness.cfg EnergyDrinks
    for m in EnergyDrinks Prisoners Dpnum GwgdGame GwgdServer Xargs Options
    do tlapm ${m}Proofs.tla; done
    tlapm RecursionLemmas.tla
