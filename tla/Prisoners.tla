------------------------------- MODULE Prisoners -------------------------------
(***************************************************************************)
(* The hundred-prisoners simulation of prisoners/: for each of the four    *)
(* strategies simulate() plays config.n games; a game shuffles the drawers *)
(* and starts one thread per prisoner, who opens up to N_ATTEMPTS drawers  *)
(* under the global lock or under the lock of one drawer at a time.        *)
(*                                                                         *)
(* A game whose pthread_create fails is abandoned: the threads it started  *)
(* are not joined and run on into the games of the next strategy.  main()  *)
(* and the threads share drawers, results and flags without a common lock, *)
(* so each of their steps here reads or writes one of them.                *)
(***************************************************************************)
EXTENDS Integers, FiniteSets, Functions

CONSTANTS
  N_DRAWERS,        \* drawers, and prisoners
  N_ATTEMPTS,       \* drawers a prisoner may open
  Games,            \* config.n
  Random,           \* what rand() may return
  CreateMayFail     \* the rounds and prisoners whose pthread_create may return EAGAIN

ASSUME PrisonersAssumption ==
  /\ N_DRAWERS \in Nat \ {0}
  /\ N_ATTEMPTS \in Nat \ {0}
  /\ Games \in Nat
  /\ Random \subseteq Nat
  /\ CreateMayFail \subseteq (1..4) \X (0..(N_DRAWERS - 1))

Drawers == 0..(N_DRAWERS - 1)
strategies == <<"RANDOM_GLOBAL", "RANDOM_DRAWER", "SMART_GLOBAL", "SMART_DRAWER">>
Rounds == 1..4                     \* one call of simulate() for each strategy
Threads == Rounds \X Drawers       \* the thread of a round for a prisoner
NoThread == <<0, 0>>
JoinedThread == <<0, 1>>           \* names the owner of a lock that outlived it

VARIABLES
  phase,              \* where main() is
  round,              \* the strategy being simulated
  simulation_number,
  success_count,
  loop,               \* the loop variable of init_drawers() and simulate()
  swapped, temp,      \* j and temp of init_drawers()
  drawers,
  thread_results,
  use_global_lock,    \* the flags of args_lists, which threads read as they go
  use_smart_strategy,
  global_lock,
  drawer_locks,
  pc,                 \* where each prisoner's thread is
  cur,                \* its cur
  old_cur,            \* its old_cur, 0 once its lock is released or kept
  attempt             \* its i

shuffle_vars == <<loop, swapped, temp, drawers>>
args_lists == <<use_global_lock, use_smart_strategy>>
score == <<round, simulation_number, success_count>>
locks == <<global_lock, drawer_locks>>
thread_vars == <<pc, cur, old_cur, attempt>>
vars == <<phase, score, shuffle_vars, thread_results, args_lists, locks, thread_vars>>

strategy == strategies[round]
PrisonerOf(t) == t[2]

Init ==
  /\ phase = IF Games = 0 THEN "report" ELSE "fill"
  /\ round = 1 /\ simulation_number = 0 /\ success_count = 0
  /\ loop = 0 /\ swapped = 0 /\ temp = 0
  /\ drawers = [d \in Drawers |-> 0]
  /\ thread_results = [p \in Drawers |-> FALSE]
  /\ use_global_lock = [p \in Drawers |-> FALSE]
  /\ use_smart_strategy = [p \in Drawers |-> FALSE]
  /\ global_lock = NoThread
  /\ drawer_locks = [d \in Drawers |-> NoThread]
  /\ pc = [t \in Threads |-> "none"]
  /\ cur = [t \in Threads |-> 0]
  /\ old_cur = [t \in Threads |-> 0]
  /\ attempt = [t \in Threads |-> 0]

-----------------------------------------------------------------------------
(* Slips a maintainer could make: substituted for the definition it is     *)
(* named after, each makes a property fail.                                *)

\* SwapBack: copies the drawer just written instead of temp.
SwapBackLost ==
  /\ phase = "swap_back"
  /\ drawers' = [drawers EXCEPT ![swapped] = drawers[loop]]
  /\ IF loop > 0
       THEN loop' = loop - 1 /\ phase' = "swap"
       ELSE loop' = 0 /\ phase' = "reset"
  /\ swapped' = 0 /\ temp' = 0
  /\ UNCHANGED <<score, thread_results, args_lists, locks, thread_vars>>

\* ResetResults: left out.
ResetNothing ==
  /\ phase = "reset"
  /\ phase' = "set_global"
  /\ UNCHANGED <<score, shuffle_vars, thread_results, args_lists, locks, thread_vars>>

\* SetResult: returns with the global lock held.
SetResultOnly(t) ==
  /\ pc[t] = "found"
  /\ thread_results' = [thread_results EXCEPT ![PrisonerOf(t)] = TRUE]
  /\ pc' = [pc EXCEPT ![t] = "done"]
  /\ UNCHANGED <<phase, score, shuffle_vars, args_lists, locks, cur, old_cur, attempt>>

\* AttemptsLeft: <= for <.
AttemptsLeftLoosely(i) == i =< N_ATTEMPTS

\* UnlockGlobal, UnlockOld, UnlockDrawer: left out.
UnlockNothing(t) ==
  /\ pc[t] = "unlock_global"
  /\ pc' = [pc EXCEPT ![t] = "done"]
  /\ UNCHANGED <<phase, score, shuffle_vars, thread_results, args_lists, locks,
                 cur, old_cur, attempt>>

KeepOldLocked(t) ==
  /\ pc[t] = "unlock_old"
  /\ old_cur' = [old_cur EXCEPT ![t] = 0]
  /\ pc' = [pc EXCEPT ![t] = "lock_drawer"]
  /\ UNCHANGED <<phase, score, shuffle_vars, thread_results, args_lists, locks,
                 cur, attempt>>

KeepLastLocked(t) ==
  /\ pc[t] = "unlock_drawer"
  /\ pc' = [pc EXCEPT ![t] = "done"]
  /\ UNCHANGED <<phase, score, shuffle_vars, thread_results, args_lists, locks,
                 cur, old_cur, attempt>>

-----------------------------------------------------------------------------
(* init_drawers().                                                         *)

FillDrawer ==
  /\ phase = "fill"
  /\ drawers' = [drawers EXCEPT ![loop] = loop]
  /\ IF loop + 1 < N_DRAWERS
       THEN loop' = loop + 1 /\ UNCHANGED phase
       ELSE loop' = N_DRAWERS - 1 /\ phase' = "swap"
  /\ UNCHANGED <<score, swapped, temp, thread_results, args_lists, locks, thread_vars>>

\* The first write of a swap with a random drawer j, the second is SwapBack,
\* after which j and temp are forgotten.
Swap ==
  /\ phase = "swap"
  /\ \E j \in {r % (loop + 1) : r \in Random} :
       /\ swapped' = j
       /\ temp' = drawers[loop]
       /\ drawers' = [drawers EXCEPT ![loop] = drawers[j]]
  /\ phase' = "swap_back"
  /\ UNCHANGED <<score, loop, thread_results, args_lists, locks, thread_vars>>

SwapBack ==
  /\ phase = "swap_back"
  /\ drawers' = [drawers EXCEPT ![swapped] = temp]
  /\ IF loop > 0
       THEN loop' = loop - 1 /\ phase' = "swap"
       ELSE loop' = 0 /\ phase' = "reset"
  /\ swapped' = 0 /\ temp' = 0
  /\ UNCHANGED <<score, thread_results, args_lists, locks, thread_vars>>

-----------------------------------------------------------------------------
(* simulate() and main().                                                  *)

ResetResults ==
  /\ phase = "reset"
  /\ thread_results' = [p \in Drawers |-> FALSE]
  /\ phase' = "set_global"
  /\ UNCHANGED <<score, shuffle_vars, args_lists, locks, thread_vars>>

\* The flags are only ever set: what an earlier round set stays set.
SetGlobalFlag ==
  /\ phase = "set_global"
  /\ use_global_lock' = [use_global_lock EXCEPT
       ![loop] = @ \/ strategy \in {"RANDOM_GLOBAL", "SMART_GLOBAL"}]
  /\ phase' = "set_smart"
  /\ UNCHANGED <<score, shuffle_vars, thread_results, use_smart_strategy, locks, thread_vars>>

SetSmartFlag ==
  /\ phase = "set_smart"
  /\ use_smart_strategy' = [use_smart_strategy EXCEPT
       ![loop] = @ \/ strategy \in {"SMART_DRAWER", "SMART_GLOBAL"}]
  /\ phase' = "create"
  /\ UNCHANGED <<score, shuffle_vars, thread_results, use_global_lock, locks, thread_vars>>

CreatePrisoner ==
  /\ phase = "create"
  /\ pc' = [pc EXCEPT ![<<round, loop>>] = "start"]
  /\ IF loop + 1 < N_DRAWERS
       THEN loop' = loop + 1 /\ phase' = "set_global"
       ELSE loop' = 0 /\ phase' = "join"
  /\ UNCHANGED <<score, swapped, temp, drawers, thread_results, args_lists, locks,
                 cur, old_cur, attempt>>

\* simulate() returns INSUFFICIENT_RESOURCES, which main() ignores.
CreationFails ==
  /\ phase = "create"
  /\ <<round, loop>> \in CreateMayFail
  /\ loop' = 0
  /\ phase' = "report"
  /\ UNCHANGED <<score, swapped, temp, drawers, thread_results, args_lists, locks, thread_vars>>

JoinPrisoners ==
  /\ phase = "join"
  /\ \A p \in Drawers : pc[<<round, p>>] = "done"
  /\ phase' = "judge"
  /\ UNCHANGED <<score, shuffle_vars, thread_results, args_lists, locks, thread_vars>>

Success == \A p \in Drawers : thread_results[p]

\* The joined threads and their locals are gone, not the locks they left behind.
Judge ==
  /\ phase = "judge"
  /\ success_count' = IF Success THEN success_count + 1 ELSE success_count
  /\ simulation_number' = simulation_number + 1
  /\ phase' = IF simulation_number + 1 < Games THEN "fill" ELSE "report"
  /\ pc' = [t \in Threads |-> IF t[1] = round THEN "none" ELSE pc[t]]
  /\ cur' = [t \in Threads |-> IF t[1] = round THEN 0 ELSE cur[t]]
  /\ attempt' = [t \in Threads |-> IF t[1] = round THEN 0 ELSE attempt[t]]
  /\ drawer_locks' = [d \in Drawers |->
       IF drawer_locks[d] \in {<<round, p>> : p \in Drawers} THEN JoinedThread
       ELSE drawer_locks[d]]
  /\ UNCHANGED <<round, shuffle_vars, thread_results, args_lists, global_lock, old_cur>>

\* main() prints the wins and goes on to the next strategy, or returns.
Report ==
  /\ phase = "report"
  /\ IF round < 4
       THEN /\ round' = round + 1
            /\ simulation_number' = 0 /\ success_count' = 0
            /\ phase' = IF Games = 0 THEN "report" ELSE "fill"
       ELSE phase' = "exit" /\ UNCHANGED score
  /\ UNCHANGED <<shuffle_vars, thread_results, args_lists, locks, thread_vars>>

-----------------------------------------------------------------------------
(* run_prisoner().                                                         *)

AnyDrawer == {r % N_DRAWERS : r \in Random}

\* next_drawer() with a seed that is not -1.  Its flag is never cleared, so it is
\* as if it were read together with the drawer.
next_drawer(seed, smart) == IF smart THEN {drawers[seed]} ELSE AnyDrawer

\* The condition of the loop.
AttemptsLeft(i) == i < N_ATTEMPTS

\* The first drawer.
Start(t) ==
  /\ pc[t] = "start"
  /\ \E d \in IF use_smart_strategy[PrisonerOf(t)] THEN {PrisonerOf(t)} ELSE AnyDrawer :
       cur' = [cur EXCEPT ![t] = d]
  /\ attempt' = [attempt EXCEPT ![t] = 0]
  /\ pc' = [pc EXCEPT ![t] = "which_lock"]
  /\ UNCHANGED <<phase, score, shuffle_vars, thread_results, args_lists, locks, old_cur>>

\* The mutex to take first.
ChooseLock(t) ==
  /\ pc[t] = "which_lock"
  /\ pc' = [pc EXCEPT ![t] =
       IF use_global_lock[PrisonerOf(t)] THEN "lock_global" ELSE "lock_drawer"]
  /\ UNCHANGED <<phase, score, shuffle_vars, thread_results, args_lists, locks,
                 cur, old_cur, attempt>>

LockGlobal(t) ==
  /\ pc[t] = "lock_global"
  /\ global_lock = NoThread
  /\ global_lock' = t
  /\ pc' = [pc EXCEPT ![t] = "look"]
  /\ UNCHANGED <<phase, score, shuffle_vars, thread_results, args_lists,
                 drawer_locks, cur, old_cur, attempt>>

\* Where the next attempt starts, if there is one.
NextAttempt(t) == IF AttemptsLeft(attempt[t]) THEN "look" ELSE "leave"

\* Before the first attempt and, with drawer locks, after each.
LockDrawer(t) ==
  /\ pc[t] = "lock_drawer"
  /\ drawer_locks[cur[t]] = NoThread
  /\ drawer_locks' = [drawer_locks EXCEPT ![cur[t]] = t]
  /\ pc' = [pc EXCEPT ![t] = NextAttempt(t)]
  /\ UNCHANGED <<phase, score, shuffle_vars, thread_results, args_lists,
                 global_lock, cur, old_cur, attempt>>

\* The comparison with the number in the drawer.
Look(t) ==
  /\ pc[t] = "look"
  /\ pc' = [pc EXCEPT ![t] = IF drawers[cur[t]] = PrisonerOf(t) THEN "found" ELSE "move"]
  /\ UNCHANGED <<phase, score, shuffle_vars, thread_results, args_lists, locks,
                 cur, old_cur, attempt>>

\* Who found her number releases the global lock, whichever lock she took.
SetResult(t) ==
  /\ pc[t] = "found"
  /\ thread_results' = [thread_results EXCEPT ![PrisonerOf(t)] = TRUE]
  /\ pc' = [pc EXCEPT ![t] = "unlock_global"]
  /\ UNCHANGED <<phase, score, shuffle_vars, args_lists, locks, cur, old_cur, attempt>>

Move(t) ==
  /\ pc[t] = "move"
  /\ \E d \in next_drawer(cur[t], use_smart_strategy[PrisonerOf(t)]) :
       cur' = [cur EXCEPT ![t] = d]
  /\ old_cur' = [old_cur EXCEPT ![t] = cur[t]]
  /\ attempt' = [attempt EXCEPT ![t] = @ + 1]
  /\ pc' = [pc EXCEPT ![t] = "same_lock"]
  /\ UNCHANGED <<phase, score, shuffle_vars, thread_results, args_lists, locks>>

\* The global lock is kept, and so is the lock of the old drawer if it was taken
\* before use_global_lock was set.
KeepLock(t) ==
  /\ pc[t] = "same_lock"
  /\ use_global_lock[PrisonerOf(t)]
  /\ old_cur' = [old_cur EXCEPT ![t] = 0]
  /\ pc' = [pc EXCEPT ![t] = NextAttempt(t)]
  /\ UNCHANGED <<phase, score, shuffle_vars, thread_results, args_lists, locks, cur, attempt>>

ChangeLock(t) ==
  /\ pc[t] = "same_lock"
  /\ ~use_global_lock[PrisonerOf(t)]
  /\ pc' = [pc EXCEPT ![t] = "unlock_old"]
  /\ UNCHANGED <<phase, score, shuffle_vars, thread_results, args_lists, locks,
                 cur, old_cur, attempt>>

UnlockOld(t) ==
  /\ pc[t] = "unlock_old"
  /\ drawer_locks' = [drawer_locks EXCEPT ![old_cur[t]] = NoThread]
  /\ old_cur' = [old_cur EXCEPT ![t] = 0]
  /\ pc' = [pc EXCEPT ![t] = "lock_drawer"]
  /\ UNCHANGED <<phase, score, shuffle_vars, thread_results, args_lists, global_lock,
                 cur, attempt>>

\* No attempts are left.
Leave(t) ==
  /\ pc[t] = "leave"
  /\ pc' = [pc EXCEPT ![t] =
       IF use_global_lock[PrisonerOf(t)] THEN "unlock_global" ELSE "unlock_drawer"]
  /\ UNCHANGED <<phase, score, shuffle_vars, thread_results, args_lists, locks,
                 cur, old_cur, attempt>>

UnlockGlobal(t) ==
  /\ pc[t] = "unlock_global"
  /\ global_lock' = NoThread
  /\ pc' = [pc EXCEPT ![t] = "done"]
  /\ UNCHANGED <<phase, score, shuffle_vars, thread_results, args_lists, drawer_locks,
                 cur, old_cur, attempt>>

UnlockDrawer(t) ==
  /\ pc[t] = "unlock_drawer"
  /\ drawer_locks' = [drawer_locks EXCEPT ![cur[t]] = NoThread]
  /\ pc' = [pc EXCEPT ![t] = "done"]
  /\ UNCHANGED <<phase, score, shuffle_vars, thread_results, args_lists, global_lock,
                 cur, old_cur, attempt>>

-----------------------------------------------------------------------------
init_drawers == FillDrawer \/ Swap \/ SwapBack
simulate == \/ init_drawers \/ ResetResults \/ SetGlobalFlag \/ SetSmartFlag
            \/ CreatePrisoner \/ CreationFails \/ JoinPrisoners \/ Judge
MainStep == simulate \/ Report

run_prisoner(t) ==
  \/ Start(t) \/ ChooseLock(t) \/ LockGlobal(t) \/ LockDrawer(t)
  \/ Look(t) \/ SetResult(t) \/ Move(t) \/ KeepLock(t) \/ ChangeLock(t) \/ UnlockOld(t)
  \/ Leave(t) \/ UnlockGlobal(t) \/ UnlockDrawer(t)

Terminated == phase = "exit" /\ UNCHANGED vars

\* The process ends with main(), whatever its threads are doing.
ThreadStep == phase # "exit" /\ \E t \in Threads : run_prisoner(t)

Next == MainStep \/ ThreadStep \/ Terminated

Spec == Init /\ [][Next]_vars

(* Somebody who can run does.  No more is needed: main() and the prisoners *)
(* take finitely many steps each, so nobody is passed over for ever.       *)
FairSpec == Spec /\ WF_vars(MainStep \/ ThreadStep)

-----------------------------------------------------------------------------
(* Properties.                                                             *)

\* The values every variable may take.
TypeOK ==
  /\ phase \in {"fill", "swap", "swap_back", "reset", "set_global", "set_smart",
                "create", "join", "judge", "report", "exit"}
  /\ round \in Rounds
  /\ simulation_number \in 0..Games
  /\ success_count \in 0..simulation_number
  /\ loop \in Drawers /\ swapped \in Drawers /\ temp \in Drawers
  /\ drawers \in [Drawers -> Drawers]
  /\ thread_results \in [Drawers -> BOOLEAN]
  /\ use_global_lock \in [Drawers -> BOOLEAN]
  /\ use_smart_strategy \in [Drawers -> BOOLEAN]
  /\ global_lock \in Threads \union {NoThread}
  /\ drawer_locks \in [Drawers -> Threads \union {NoThread, JoinedThread}]
  /\ pc \in [Threads -> {"none", "start", "which_lock", "lock_global", "lock_drawer",
                         "look", "found", "move", "same_lock", "unlock_old", "leave",
                         "unlock_global", "unlock_drawer", "done"}]
  /\ cur \in [Threads -> Drawers]
  /\ old_cur \in [Threads -> Drawers]
  /\ attempt \in [Threads -> 0..N_ATTEMPTS]

\* The shuffle loses no number: between its swaps, and in every game that is
\* then played, each prisoner's number is in exactly one drawer.
Shuffled ==
  /\ phase = "swap_back" => IsInjective([drawers EXCEPT ![swapped] = temp])
  /\ phase \in {"swap", "reset", "set_global", "set_smart", "create", "join", "judge"} =>
       IsInjective(drawers)

\* One prisoner among the drawers at a time, whatever the strategy says: the
\* first round makes every later one use the global lock, so the release of
\* global_lock by who found her number is the right one and no drawer lock is
\* ever taken.
OneAtATime ==
  /\ \A t \in Threads :
       pc[t] \in {"look", "found", "move", "same_lock", "leave", "unlock_global"}
         <=> global_lock = t
  /\ \A d \in Drawers : drawer_locks[d] = NoThread
  /\ phase \in {"fill", "swap", "swap_back", "reset", "judge"} => global_lock = NoThread

\* p's number is on a cycle of at most N_ATTEMPTS drawers.
ShortCycle(p) ==
  \E S \in SUBSET Drawers :
    /\ p \in S /\ Cardinality(S) =< N_ATTEMPTS
    /\ \A d \in S : drawers[d] \in S

\* Smart games are won by exactly the shuffles without a long cycle (the
\* 1 - H_100 + H_50 of the README), and prisoners follow the cycles in the
\* smart rounds only, although the flag that says so is never cleared.
SmartWinsByCycles ==
  phase = "judge" =>
    /\ strategy \in {"SMART_GLOBAL", "SMART_DRAWER"} =>
         (Success <=> \A p \in Drawers : ShortCycle(p))
    /\ \A p \in Drawers :
         use_smart_strategy[p] <=> strategy \in {"SMART_GLOBAL", "SMART_DRAWER"}

\* A game counts as won only if every prisoner, in this game, opened the
\* drawer with her number.
HonestWins ==
  phase = "judge" =>
    \A p \in Drawers : thread_results[p] => drawers[cur[<<round, p>>]] = p

\* All games of all strategies are played and main() returns.
GamesEnd == <>(phase = "exit")

\* A thread that is done still owns the lock of a drawer.
LeftLockedBy(t, d) == drawer_locks[d] = t /\ pc[t] = "done"

ForgottenDrawer ==
  \E d \in Drawers :
    drawer_locks[d] = JoinedThread \/ \E t \in Threads : LeftLockedBy(t, d)

\* Even with abandoned games main() returns, unless a thread that is done left a
\* drawer locked: no two threads wait for each other, and none for itself.
EndsUnlessForgotten == <>(phase = "exit" \/ ForgottenDrawer)

\* A thread leaves a drawer locked in two ways only: its prisoner found her number
\* before her attempts were over, and released global_lock instead; or a later
\* round set her use_global_lock after the thread had chosen drawer locks, and it
\* released global_lock at the end, or never the lock of its old drawer.
ForgottenByFindOrFlag ==
  \A t \in Threads, d \in Drawers :
    LeftLockedBy(t, d) => AttemptsLeft(attempt[t]) \/ use_global_lock[PrisonerOf(t)]

(* What the program and its README say and what does not hold.             *)

\* "random_drawer", "smart_drawer": these strategies do without the lock that
\* lets "only one thread ... access drawers at a time".
DrawerStrategyIsConcurrent ==
  strategy \in {"RANDOM_DRAWER", "SMART_DRAWER"} => global_lock = NoThread

=============================================================================
