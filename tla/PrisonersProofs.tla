--------------------------- MODULE PrisonersProofs -----------------------------
(* Proofs about Prisoners for every number of drawers, of attempts and of  *)
(* games.  Types, the shuffle and what is left locked are as they should   *)
(* be even when games are abandoned; the rest holds as long as             *)
(* pthread_create does not fail.                                           *)
EXTENDS Prisoners, FiniteSetTheorems, TLAPS

USE DEF args_lists, score, locks, thread_vars, shuffle_vars

-----------------------------------------------------------------------------
(* Drawers and threads.                                                    *)

\* The arithmetic on the numbers of drawers.
LEMMA DrawerFacts ==
  /\ 0 \in Drawers /\ N_DRAWERS - 1 \in Drawers
  /\ \A d \in Drawers :
       /\ d \in Nat /\ d < N_DRAWERS
       /\ d + 1 < N_DRAWERS => d + 1 \in Drawers
       /\ d > 0 => d - 1 \in Drawers
       /\ 0..d \subseteq Drawers
BY PrisonersAssumption DEF Drawers

\* rand() % N_DRAWERS is a drawer, and the partner of a swap is one not above it.
LEMMA RandomFacts ==
  /\ AnyDrawer \subseteq Drawers
  /\ \A d \in Drawers, r \in Random : r % (d + 1) \in Drawers
<1>1. ASSUME NEW a \in Nat, NEW b \in Nat \ {0}
      PROVE  a % b \in 0..(b - 1)
  OBVIOUS
<1>2. AnyDrawer \subseteq Drawers
  BY <1>1, PrisonersAssumption DEF AnyDrawer, Drawers
<1>3. ASSUME NEW d \in Drawers, NEW r \in Random
      PROVE  r % (d + 1) \in Drawers
  <2>1. d + 1 \in Nat \ {0} /\ r \in Nat /\ 0..((d + 1) - 1) \subseteq Drawers
    BY PrisonersAssumption DEF Drawers
  <2> QED
    BY <1>1, <2>1
<1> QED
  BY <1>2, <1>3

\* Where main() and the threads may be.
Phases == {"fill", "swap", "swap_back", "reset", "set_global", "set_smart", "create",
           "join", "judge", "report", "exit"}
Labels == {"none", "start", "which_lock", "lock_global", "lock_drawer", "look", "found",
           "move", "same_lock", "unlock_old", "leave", "unlock_global", "unlock_drawer",
           "done"}

\* A thread is a round and a prisoner.
LEMMA ThreadFacts ==
  /\ \A t \in Threads : t[1] \in Rounds /\ PrisonerOf(t) \in Drawers /\ t = <<t[1], PrisonerOf(t)>>
  /\ \A r \in Rounds, p \in Drawers :
       <<r, p>> \in Threads /\ <<r, p>>[1] = r /\ PrisonerOf(<<r, p>>) = p
  /\ NoThread \notin Threads
BY DEF Threads, PrisonerOf, NoThread, Rounds

-----------------------------------------------------------------------------
(* The inductive invariant.                                                *)

\* A game is played only while games are left, and a prisoner looks into a
\* drawer only while she has attempts left.
BoundsInv ==
  /\ phase \notin {"report", "exit"} => simulation_number < Games
  /\ \A t \in Threads :
       /\ pc[t] \in {"look", "found", "move"} => attempt[t] < N_ATTEMPTS
       /\ pc[t] \in {"which_lock", "lock_global"} => attempt[t] = 0

\* The drawers below loop are filled; then only swaps change them.
ShuffleInv ==
  /\ phase \in {"join", "judge", "report"} => loop = 0
  /\ phase = "fill" => \A d \in Drawers : d < loop => drawers[d] = d
  /\ Shuffled

\* Unless games are abandoned there are no threads but those of this game, and
\* they are created one after the other.
CreatedInv ==
  /\ phase \in {"fill", "swap", "swap_back", "reset", "report", "exit"} =>
       \A t \in Threads : pc[t] = "none"
  /\ \A t \in Threads : t[1] # round => pc[t] = "none"
  /\ phase = "reset" => loop = 0
  /\ phase \in {"set_global", "set_smart", "create"} =>
       \A p \in Drawers : pc[<<round, p>>] = "none" <=> p >= loop
  /\ phase = "join" => \A p \in Drawers : pc[<<round, p>>] # "none"
  /\ phase = "judge" => \A p \in Drawers : pc[<<round, p>>] = "done"

\* Every thread runs with the flags of its strategy, except that the first
\* round sets use_global_lock for good.
FlagsInv ==
  /\ phase = "report" => simulation_number = Games
  /\ Games > 0 /\ (round > 1 \/ simulation_number > 0) => \A p \in Drawers : use_global_lock[p]
  /\ phase \in {"set_smart", "create"} => use_global_lock[loop]
  /\ \A p \in Drawers : pc[<<round, p>>] # "none" => use_global_lock[p]
  /\ phase = "create" /\ round >= 3 => use_smart_strategy[loop]
  /\ \A p \in Drawers : use_smart_strategy[p] => round >= 3
  /\ round >= 3 => \A p \in Drawers : pc[<<round, p>>] # "none" => use_smart_strategy[p]

\* Who looks into drawers owns the global lock; nobody owns another.
LockInv ==
  /\ \A t \in Threads :
       pc[t] \in {"look", "found", "move", "same_lock", "leave", "unlock_global"}
         <=> global_lock = t
  /\ \A d \in Drawers : drawer_locks[d] = NoThread
  /\ \A t \in Threads : pc[t] \notin {"lock_drawer", "unlock_old", "unlock_drawer"}

\* A result of this game is that of a thread that found its number.
Found(p, t) ==
  /\ pc[t] = "found" => drawers[cur[t]] = p
  /\ thread_results[p] => pc[t] \in {"unlock_global", "done"} /\ drawers[cur[t]] = p
ResultInv ==
  phase \in {"set_global", "set_smart", "create", "join", "judge"} =>
    \A p \in Drawers : Found(p, <<round, p>>)

\* Even if games are abandoned, a prisoner has no thread before hers is created.
FreshInv ==
  /\ phase = "reset" => loop = 0
  /\ \A t \in Threads : t[1] > round => pc[t] = "none"
  /\ phase \in {"fill", "swap", "swap_back", "reset"} => \A p \in Drawers : pc[<<round, p>>] = "none"
  /\ phase \in {"set_global", "set_smart", "create"} =>
       \A p \in Drawers : p >= loop => pc[<<round, p>>] = "none"

\* Who owns the lock of a drawer is about to release it, or found her number, or
\* has had her flag set.
OwnerInv ==
  \A t \in Threads, d \in Drawers : drawer_locks[d] = t =>
    \/ use_global_lock[PrisonerOf(t)]
    \/ pc[t] \in {"look", "found", "move", "leave", "unlock_drawer"} /\ cur[t] = d
    \/ pc[t] \in {"same_lock", "unlock_old"} /\ old_cur[t] = d
    \/ pc[t] \in {"unlock_global", "done"} /\ AttemptsLeft(attempt[t])

-----------------------------------------------------------------------------
(* The way of a prisoner who follows her cycle.                            *)

\* A set of drawers that nobody leaves who follows the numbers.
Closed(f, S) == \A d \in S : f[d] \in S

\* V is what prisoner p has opened in n attempts and c, the drawer she opens next:
\* all of them but her own were reached from another one, and whoever starts at
\* her drawer gets to all of them.
Trail(f, p, c, n, V) ==
  /\ p \in V /\ c \in V /\ Cardinality(V) = n + 1
  /\ \A d \in V : d # c => f[d] \in V \ {p}
  /\ \A d \in V : d # p => \E e \in V : e # c /\ f[e] = d
  /\ \A S \in SUBSET Drawers : p \in S /\ Closed(f, S) => V \subseteq S

\* A prisoner of a smart game follows her cycle, and gives up only when it is too
\* long.
FollowsCycle(p, t) ==
  /\ pc[t] \in {"which_lock", "lock_global", "look", "found", "move", "same_lock", "leave"} =>
       \E V \in SUBSET Drawers : Trail(drawers, p, cur[t], attempt[t], V)
  /\ pc[t] = "found" => drawers[cur[t]] = p
  /\ pc[t] = "move" => drawers[cur[t]] # p
  /\ pc[t] = "leave" => attempt[t] = N_ATTEMPTS
  /\ pc[t] \in {"unlock_global", "done"} => (thread_results[p] <=> ShortCycle(p))
CycleInv ==
  round >= 3 /\ phase \in {"set_global", "set_smart", "create", "join", "judge"} =>
    \A p \in Drawers : FollowsCycle(p, <<round, p>>)

TypeInv == TypeOK /\ BoundsInv
GameInv == CreatedInv /\ FlagsInv /\ LockInv /\ ResultInv

-----------------------------------------------------------------------------
(* Type correctness.                                                       *)

\* The invariant of the types holds initially.
LEMMA InitTypeInv == Init => TypeInv
BY PrisonersAssumption, DrawerFacts DEF Init, TypeInv, TypeOK, BoundsInv, Rounds

\* The flags of a prisoner stay flags.
LEMMA SetFlagsType ==
  ASSUME TypeOK, SetGlobalFlag \/ SetSmartFlag
  PROVE  use_global_lock' \in [Drawers -> BOOLEAN] /\ use_smart_strategy' \in [Drawers -> BOOLEAN]
<1> DEFINE g == use_global_lock[loop] \/ strategy \in {"RANDOM_GLOBAL", "SMART_GLOBAL"}
           s == use_smart_strategy[loop] \/ strategy \in {"SMART_DRAWER", "SMART_GLOBAL"}
<1>1. g \in BOOLEAN /\ s \in BOOLEAN
  OBVIOUS
<1>2. /\ use_global_lock' \in {use_global_lock, [use_global_lock EXCEPT ![loop] = g]}
      /\ use_smart_strategy' \in {use_smart_strategy, [use_smart_strategy EXCEPT ![loop] = s]}
  BY Zenon DEF SetGlobalFlag, SetSmartFlag
<1> HIDE DEF g, s
<1> QED
  BY <1>1, <1>2 DEF TypeOK

\* The first drawer is any, or her own number.
LEMMA StartEffect ==
  ASSUME NEW t \in Threads, Start(t)
  PROVE  \E d \in Drawers : cur' = [cur EXCEPT ![t] = d]
<1>1. PrisonerOf(t) \in Drawers
  BY ThreadFacts
<1> QED
  BY <1>1, RandomFacts, Zenon DEF Start

\* Whatever the strategy, the next drawer is one.
LEMMA MoveEffect ==
  ASSUME TypeOK, NEW t \in Threads, Move(t)
  PROVE  \E d \in Drawers : cur' = [cur EXCEPT ![t] = d]
<1>1. drawers[cur[t]] \in Drawers
  BY DEF TypeOK
<1> QED
  BY <1>1, RandomFacts, Zenon DEF Move, next_drawer

\* Where a thread gets from where it is: it looks again only if it has attempts left.
LEMMA ThreadLabels ==
  ASSUME NEW t \in Threads, run_prisoner(t)
  PROVE  \E l \in Labels \ {"none", "start"} :
           /\ pc' = [pc EXCEPT ![t] = l]
           /\ \/ pc[t] = "start" /\ l = "which_lock"
              \/ pc[t] = "which_lock" /\ l \in {"lock_global", "lock_drawer"}
              \/ pc[t] = "lock_global" /\ l = "look"
              \/ /\ pc[t] \in {"lock_drawer", "same_lock"}
                 /\ \/ l = "look" /\ attempt[t] < N_ATTEMPTS
                    \/ l = "leave" /\ ~(attempt[t] < N_ATTEMPTS)
              \/ pc[t] = "look" /\ l \in {"found", "move"}
              \/ pc[t] = "found" /\ l = "unlock_global"
              \/ pc[t] = "move" /\ l = "same_lock"
              \/ pc[t] = "same_lock" /\ l = "unlock_old"
              \/ pc[t] = "unlock_old" /\ l = "lock_drawer"
              \/ pc[t] = "leave" /\ l \in {"unlock_global", "unlock_drawer"}
              \/ pc[t] \in {"unlock_global", "unlock_drawer"} /\ l = "done"
<1>1. CASE Start(t)
  BY <1>1 DEF Start, Labels
<1>2. CASE ChooseLock(t)
  <2>1. pc[t] = "which_lock" /\ \E l \in {"lock_global", "lock_drawer"} : pc' = [pc EXCEPT ![t] = l]
    BY <1>2, Zenon DEF ChooseLock
  <2> QED
    BY <2>1 DEF Labels
<1>3. CASE LockGlobal(t)
  BY <1>3 DEF LockGlobal, Labels
<1>4. CASE LockDrawer(t)
  BY <1>4 DEF LockDrawer, NextAttempt, AttemptsLeft, Labels
<1>5. CASE Look(t)
  BY <1>5 DEF Look, Labels
<1>6. CASE SetResult(t)
  BY <1>6 DEF SetResult, Labels
<1>7. CASE Move(t)
  BY <1>7 DEF Move, Labels
<1>8. CASE KeepLock(t)
  BY <1>8 DEF KeepLock, NextAttempt, AttemptsLeft, Labels
<1>9. CASE ChangeLock(t)
  BY <1>9 DEF ChangeLock, Labels
<1>10. CASE UnlockOld(t)
  BY <1>10 DEF UnlockOld, Labels
<1>11. CASE Leave(t)
  <2>1. pc[t] = "leave" /\ \E l \in {"unlock_global", "unlock_drawer"} : pc' = [pc EXCEPT ![t] = l]
    BY <1>11, Zenon DEF Leave
  <2> QED
    BY <2>1 DEF Labels
<1>12. CASE UnlockGlobal(t)
  BY <1>12 DEF UnlockGlobal, Labels
<1>13. CASE UnlockDrawer(t)
  BY <1>13 DEF UnlockDrawer, Labels
<1> QED
  BY <1>1, <1>2, <1>3, <1>4, <1>5, <1>6, <1>7, <1>8, <1>9, <1>10, <1>11, <1>12, <1>13
  DEF run_prisoner

\* A thread writes neither drawers nor flags, and leaves main() where it is.
LEMMA ThreadsOnlySearch ==
  ASSUME NEW t \in Threads, run_prisoner(t)
  PROVE  UNCHANGED <<phase, score, shuffle_vars, args_lists>>
BY Zenon DEF run_prisoner, Start, ChooseLock, LockGlobal, LockDrawer, Look, SetResult, Move,
   KeepLock, ChangeLock, UnlockOld, Leave, UnlockGlobal, UnlockDrawer

\* What a thread writes of its locals.
LEMMA ThreadLocals ==
  ASSUME TypeOK, NEW t \in Threads, run_prisoner(t)
  PROVE  /\ UNCHANGED cur \/ \E d \in Drawers : cur' = [cur EXCEPT ![t] = d]
         /\ UNCHANGED old_cur \/ \E d \in Drawers : old_cur' = [old_cur EXCEPT ![t] = d]
         /\ \/ pc[t] = "start" /\ attempt' = [attempt EXCEPT ![t] = 0]
            \/ pc[t] = "move" /\ attempt' = [attempt EXCEPT ![t] = @ + 1]
            \/ pc[t] \notin {"start", "move"} /\ UNCHANGED attempt
<1>1. UNCHANGED cur \/ \E d \in Drawers : cur' = [cur EXCEPT ![t] = d]
  BY StartEffect, MoveEffect, Zenon
  DEF run_prisoner, ChooseLock, LockGlobal, LockDrawer, Look, SetResult, KeepLock,
      ChangeLock, UnlockOld, Leave, UnlockGlobal, UnlockDrawer
<1>2. cur[t] \in Drawers /\ 0 \in Drawers
  BY DrawerFacts DEF TypeOK
<1>3. UNCHANGED old_cur \/ \E d \in Drawers : old_cur' = [old_cur EXCEPT ![t] = d]
  BY <1>2, Zenon DEF run_prisoner, Start, ChooseLock, LockGlobal, LockDrawer, Look, SetResult,
     Move, KeepLock, ChangeLock, UnlockOld, Leave, UnlockGlobal, UnlockDrawer
<1>4. \/ pc[t] = "start" /\ attempt' = [attempt EXCEPT ![t] = 0]
      \/ pc[t] = "move" /\ attempt' = [attempt EXCEPT ![t] = @ + 1]
      \/ pc[t] \notin {"start", "move"} /\ UNCHANGED attempt
  BY DEF run_prisoner, Start, ChooseLock, LockGlobal, LockDrawer, Look, SetResult, Move,
     KeepLock, ChangeLock, UnlockOld, Leave, UnlockGlobal, UnlockDrawer
<1> QED
  BY <1>1, <1>3, <1>4

\* What a thread writes that others read.
LEMMA ThreadShared ==
  ASSUME NEW t \in Threads, run_prisoner(t)
  PROVE  /\ \/ UNCHANGED thread_results
            \/ pc[t] = "found" /\ thread_results' = [thread_results EXCEPT ![PrisonerOf(t)] = TRUE]
         /\ UNCHANGED global_lock \/ global_lock' \in {t, NoThread}
         /\ \/ UNCHANGED drawer_locks
            \/ \E v \in {t, NoThread} : \E d : drawer_locks' = [drawer_locks EXCEPT ![d] = v]
BY Zenon DEF run_prisoner, Start, ChooseLock, LockGlobal, LockDrawer, Look, SetResult, Move,
   KeepLock, ChangeLock, UnlockOld, Leave, UnlockGlobal, UnlockDrawer

\* Every step keeps the types and their bounds.
LEMMA NextTypeInv == TypeInv /\ [Next]_vars => TypeInv'
<1> SUFFICES ASSUME TypeInv, [Next]_vars PROVE TypeInv'
  OBVIOUS
<1> USE DEF TypeInv, TypeOK, BoundsInv, Labels
<1>1. CASE FillDrawer
  BY <1>1, DrawerFacts DEF FillDrawer
<1>2. CASE Swap
  BY <1>2, DrawerFacts, RandomFacts DEF Swap
<1>3. CASE SwapBack
  BY <1>3, DrawerFacts DEF SwapBack
<1>4. CASE ResetResults
  BY <1>4 DEF ResetResults
<1>5. CASE SetGlobalFlag
  BY <1>5, SetFlagsType DEF SetGlobalFlag
<1>6. CASE SetSmartFlag
  BY <1>6, SetFlagsType DEF SetSmartFlag
<1>7. CASE CreatePrisoner
  <2>1. <<round, loop>> \in Threads
    BY ThreadFacts
  <2> QED
    BY <1>7, <2>1, DrawerFacts DEF CreatePrisoner
<1>8. CASE CreationFails
  BY <1>8, DrawerFacts DEF CreationFails
<1>9. CASE JoinPrisoners
  BY <1>9 DEF JoinPrisoners
<1>10. CASE Judge
  <2>1. /\ pc' \in [Threads -> Labels]
        /\ cur' \in [Threads -> Drawers] /\ attempt' \in [Threads -> 0..N_ATTEMPTS]
        /\ drawer_locks' \in [Drawers -> Threads \union {NoThread, JoinedThread}]
    BY <1>10, DrawerFacts, PrisonersAssumption DEF Judge
  <2>2. BoundsInv'
    BY <1>10, PrisonersAssumption DEF Judge
  <2>3. simulation_number' \in 0..Games /\ success_count' \in 0..simulation_number'
    BY <1>10, PrisonersAssumption DEF Judge, Success
  <2> QED
    BY <1>10, <2>1, <2>2, <2>3 DEF Judge
<1>11. CASE Report
  <2>1. CASE round < 4
    BY <1>11, <2>1, PrisonersAssumption DEF Report, Rounds
  <2>2. CASE ~(round < 4)
    BY <1>11, <2>2 DEF Report
  <2> QED
    BY <2>1, <2>2
<1>12. ASSUME NEW t \in Threads, run_prisoner(t) PROVE TypeInv'
  <2>1. UNCHANGED <<phase, score, shuffle_vars, args_lists>>
    BY <1>12, ThreadsOnlySearch
  <2>2. PICK l \in Labels :
          /\ pc' = [pc EXCEPT ![t] = l]
          /\ l \in {"look", "found", "move"} =>
               \/ pc[t] \in {"lock_drawer", "same_lock"} /\ attempt[t] < N_ATTEMPTS
               \/ pc[t] \in {"lock_global", "look"}
          /\ l \in {"which_lock", "lock_global"} => pc[t] \in {"start", "which_lock"}
    BY <1>12, ThreadLabels
  <2>3. cur' \in [Threads -> Drawers] /\ old_cur' \in [Threads -> Drawers]
    BY <1>12, ThreadLocals
  <2>4. \/ pc[t] = "start" /\ attempt' = [attempt EXCEPT ![t] = 0]
        \/ pc[t] = "move" /\ attempt' = [attempt EXCEPT ![t] = @ + 1]
        \/ pc[t] \notin {"start", "move"} /\ UNCHANGED attempt
    BY <1>12, ThreadLocals
  <2>5. thread_results' \in [Drawers -> BOOLEAN]
    BY <1>12, ThreadShared
  <2>6. /\ global_lock' \in Threads \union {NoThread}
        /\ drawer_locks' \in [Drawers -> Threads \union {NoThread, JoinedThread}]
    BY <1>12, ThreadShared
  <2>7. attempt' \in [Threads -> 0..N_ATTEMPTS]
    BY <2>4, PrisonersAssumption
  <2>8. TypeOK'
    BY <2>1, <2>2, <2>3, <2>5, <2>6, <2>7
  <2>9. ASSUME NEW u \in Threads
        PROVE  /\ pc'[u] \in {"look", "found", "move"} => attempt'[u] < N_ATTEMPTS
               /\ pc'[u] \in {"which_lock", "lock_global"} => attempt'[u] = 0
    <3>1. CASE u = t
      BY <2>2, <2>4, <3>1, PrisonersAssumption
    <3>2. CASE u # t
      BY <2>2, <2>4, <3>2
    <3> QED
      BY <3>1, <3>2
  <2> QED
    BY <2>1, <2>8, <2>9
<1>13. CASE UNCHANGED vars
  BY <1>13 DEF vars
<1> QED
  BY <1>1, <1>2, <1>3, <1>4, <1>5, <1>6, <1>7, <1>8, <1>9, <1>10, <1>11, <1>12, <1>13
  DEF Next, MainStep, ThreadStep, simulate, init_drawers, Terminated

\* The types and their bounds always hold.
LEMMA TypeInvAlways == Spec => []TypeInv
BY InitTypeInv, NextTypeInv, PTL DEF Spec

\* Every variable always holds a value of its type, even when games are abandoned
\* and their threads run on.
THEOREM TypeCorrect == Spec => []TypeOK
BY TypeInvAlways, PTL DEF TypeInv

-----------------------------------------------------------------------------
(* The shuffle.                                                            *)

\* Two writes that exchange the numbers of two drawers lose none.
LEMMA ExchangeIsInjective ==
  ASSUME NEW f \in [Drawers -> Drawers], IsInjective(f), NEW i \in Drawers, NEW j \in Drawers
  PROVE  IsInjective([[f EXCEPT ![i] = f[j]] EXCEPT ![j] = f[i]])
BY DEF IsInjective

\* Nothing is shuffled initially.
LEMMA InitShuffleInv == Init => ShuffleInv
<1>1. \A d \in Drawers : ~(d < 0)
  BY DrawerFacts
<1>2. Init => phase \in {"fill", "report"} /\ loop = 0
  BY DEF Init
<1> QED
  BY <1>1, <1>2 DEF ShuffleInv, Shuffled

\* Every step keeps the shuffle.
LEMMA NextShuffleInv == TypeInv /\ ShuffleInv /\ [Next]_vars => ShuffleInv'
<1> SUFFICES ASSUME TypeInv, ShuffleInv, [Next]_vars PROVE ShuffleInv'
  OBVIOUS
<1>type. /\ loop \in Drawers /\ swapped \in Drawers /\ temp \in Drawers
      /\ drawers \in [Drawers -> Drawers]
  BY DEF TypeInv, TypeOK
<1>nat. \A d \in Drawers : d \in Nat /\ d < N_DRAWERS /\ ~(d < 0)
  BY DrawerFacts
<1> USE <1>type DEF ShuffleInv, Shuffled
<1>1. CASE FillDrawer
  <2>1. CASE loop + 1 < N_DRAWERS
    <3>1. phase' = "fill" /\ loop' = loop + 1
      BY <1>1, <2>1 DEF FillDrawer
    <3>2. \A d \in Drawers : d < loop + 1 => drawers'[d] = d
      BY <1>1, <1>nat DEF FillDrawer
    <3> QED
      BY <3>1, <3>2
  <2>2. CASE ~(loop + 1 < N_DRAWERS)
    <3>1. phase' = "swap"
      BY <1>1, <2>2 DEF FillDrawer
    <3>2. \A d \in Drawers : drawers'[d] = d
      BY <1>1, <2>2, <1>nat, PrisonersAssumption DEF FillDrawer
    <3>3. DOMAIN drawers' = Drawers
      BY <1>1 DEF FillDrawer
    <3> QED
      BY <3>1, <3>2, <3>3 DEF IsInjective
  <2> QED
    BY <2>1, <2>2
<1>2. CASE Swap
  <2>1. PICK j \in Drawers : /\ swapped' = j /\ temp' = drawers[loop]
                             /\ drawers' = [drawers EXCEPT ![loop] = drawers[j]]
    <3>1. \A r \in Random : r % (loop + 1) \in Drawers
      BY RandomFacts
    <3>2. \E j \in {r % (loop + 1) : r \in Random} :
            /\ swapped' = j /\ temp' = drawers[loop]
            /\ drawers' = [drawers EXCEPT ![loop] = drawers[j]]
      BY <1>2, Zenon DEF Swap
    <3>3. {r % (loop + 1) : r \in Random} \subseteq Drawers
      BY <3>1
    <3> QED
      BY <3>2, <3>3, Zenon
  <2>2. IsInjective([drawers' EXCEPT ![swapped'] = temp'])
    BY <1>2, <2>1, ExchangeIsInjective DEF Swap
  <2> QED
    BY <1>2, <2>2 DEF Swap
<1>3. CASE SwapBack
  BY <1>3 DEF SwapBack
<1>4. CASE ResetResults
  BY <1>4 DEF ResetResults
<1>5. CASE SetGlobalFlag \/ SetSmartFlag \/ CreatePrisoner
  BY <1>5 DEF SetGlobalFlag, SetSmartFlag, CreatePrisoner
<1>6. CASE CreationFails
  BY <1>6 DEF CreationFails
<1>7. CASE JoinPrisoners
  BY <1>7 DEF JoinPrisoners
<1>8. CASE Judge
  <2>1. phase' \in {"fill", "report"} /\ loop' = 0
    BY <1>8 DEF Judge
  <2> QED
    BY <2>1, <1>nat
<1>9. CASE Report
  <2>1. phase' \in {"fill", "report", "exit"} /\ loop' = 0
    BY <1>9 DEF Report
  <2> QED
    BY <2>1, <1>nat
<1>10. ASSUME NEW t \in Threads, run_prisoner(t) PROVE ShuffleInv'
  BY <1>10, ThreadsOnlySearch
<1>11. CASE UNCHANGED vars
  BY <1>11 DEF vars
<1> QED
  BY <1>1, <1>2, <1>3, <1>4, <1>5, <1>6, <1>7, <1>8, <1>9, <1>10, <1>11
  DEF Next, MainStep, ThreadStep, simulate, init_drawers, Terminated

\* The shuffle loses no number and doubles none, and the drawers stay shuffled
\* while a game is played, whatever threads of abandoned games still do.
THEOREM ShuffleLosesNothing == Spec => []Shuffled
<1>1. Spec => []ShuffleInv
  BY InitShuffleInv, NextShuffleInv, TypeInvAlways, PTL DEF Spec
<1> QED
  BY <1>1, PTL DEF ShuffleInv

-----------------------------------------------------------------------------
(* Drawers left locked, when games may be abandoned.                       *)

\* No thread is there initially.
LEMMA InitFreshInv == Init => FreshInv
<1>1. Init => phase \in {"fill", "report"} /\ \A t \in Threads : pc[t] = "none"
  BY DEF Init
<1>2. Init => round \in Rounds
  BY DEF Init, Rounds
<1> QED
  BY <1>1, <1>2, ThreadFacts DEF FreshInv

\* Only a prisoner of the round is created, and a round ends before the next.
LEMMA NextFreshInv == TypeInv /\ FreshInv /\ [Next]_vars => FreshInv'
<1> SUFFICES ASSUME TypeInv, FreshInv, [Next]_vars PROVE FreshInv'
  OBVIOUS
<1>type. round \in 1..4 /\ loop \in Drawers /\ pc \in [Threads -> Labels]
  BY DEF TypeInv, TypeOK, Labels, Rounds
<1>nat. /\ \A d \in Drawers : d \in Nat /\ d < N_DRAWERS /\ d >= 0
        /\ \A t \in Threads : t[1] \in 1..4
  BY DrawerFacts, ThreadFacts DEF Rounds
<1> USE DEF FreshInv
<1>1. CASE \/ init_drawers \/ ResetResults \/ SetGlobalFlag \/ SetSmartFlag \/ CreationFails
            \/ JoinPrisoners \/ UNCHANGED vars
  <2>1. UNCHANGED <<round, pc>>
    BY <1>1 DEF init_drawers, FillDrawer, Swap, SwapBack, ResetResults, SetGlobalFlag,
       SetSmartFlag, CreationFails, JoinPrisoners, vars
  <2>2. /\ phase' = "reset" => loop' = 0
        /\ phase' \in {"fill", "swap", "swap_back", "reset"} =>
             phase \in {"fill", "swap", "swap_back", "reset"}
        /\ phase' \in {"set_global", "set_smart", "create"} =>
             \/ phase = "reset" /\ loop' = loop
             \/ phase \in {"set_global", "set_smart", "create"} /\ loop' = loop
    BY <1>1 DEF init_drawers, FillDrawer, Swap, SwapBack, ResetResults, SetGlobalFlag,
       SetSmartFlag, CreationFails, JoinPrisoners, vars
  <2> QED
    BY <2>1, <2>2
<1>2. CASE CreatePrisoner
  <2>1. /\ pc' = [pc EXCEPT ![<<round, loop>>] = "start"] /\ UNCHANGED round
        /\ \/ loop' = loop + 1 /\ phase' = "set_global"
           \/ phase' = "join"
        /\ phase = "create" /\ <<round, loop>> \in Threads /\ <<round, loop>>[1] = round
    BY <1>2, <1>type, ThreadFacts DEF CreatePrisoner, Rounds
  <2>2. \A t \in Threads : t[1] > round => pc'[t] = "none"
    BY <1>type, <1>nat, <2>1
  <2>3. \A p \in Drawers : p >= loop + 1 => pc'[<<round, p>>] = "none"
    <3> SUFFICES ASSUME NEW p \in Drawers, p >= loop + 1
                 PROVE  pc'[<<round, p>>] = "none"
      OBVIOUS
    <3>1. p # loop /\ p >= loop
      BY <1>type, <1>nat
    <3>2. <<round, p>> \in Threads /\ <<round, p>> # <<round, loop>>
      BY <1>type, <3>1, ThreadFacts DEF Rounds
    <3> QED
      BY <1>type, <2>1, <3>1, <3>2
  <2> QED
    BY <2>1, <2>2, <2>3
<1>3. CASE Judge
  <2>1. /\ phase' \in {"fill", "report"} /\ UNCHANGED round
        /\ \A t \in Threads : pc'[t] = IF t[1] = round THEN "none" ELSE pc[t]
    BY <1>3 DEF Judge
  <2> QED
    BY <1>type, <2>1, ThreadFacts DEF Rounds
<1>4. CASE Report
  <2>1. /\ phase' \in {"fill", "report", "exit"} /\ UNCHANGED pc
        /\ \/ round < 4 /\ round' = round + 1
           \/ phase' = "exit" /\ round' = round
    BY <1>4 DEF Report
  <2>2. CASE round < 4 /\ round' = round + 1
    <3>1. \A t \in Threads : t[1] >= round' => pc[t] = "none"
      BY <1>type, <1>nat, <2>2
    <3>2. \A p \in Drawers : <<round', p>> \in Threads /\ <<round', p>>[1] = round'
      BY <1>type, <2>2, ThreadFacts DEF Rounds
    <3>3. round' \in Nat
      BY <1>type, <2>2
    <3> QED
      BY <1>nat, <2>1, <3>1, <3>2, <3>3
  <2> QED
    BY <2>1, <2>2
<1>5. ASSUME NEW t \in Threads, run_prisoner(t) PROVE FreshInv'
  <2>1. UNCHANGED <<phase, round, loop>>
    BY <1>5, ThreadsOnlySearch
  <2>2. pc[t] # "none" /\ \E l \in Labels : pc' = [pc EXCEPT ![t] = l]
    BY <1>5, ThreadLabels
  <2>3. \A u \in Threads : pc[u] = "none" => pc'[u] = "none"
    BY <1>type, <2>2
  <2>4. \A p \in Drawers : <<round, p>> \in Threads
    BY <1>type, ThreadFacts DEF Rounds
  <2> QED
    BY <2>1, <2>3, <2>4
<1> QED
  BY <1>1, <1>2, <1>3, <1>4, <1>5 DEF Next, MainStep, ThreadStep, simulate, Terminated

\* Nobody owns a lock initially.
LEMMA InitOwnerInv == Init => OwnerInv
BY ThreadFacts DEF Init, OwnerInv

\* A flag that is set stays set.
LEMMA FlagsStaySet ==
  ASSUME TypeInv, [Next]_vars, NEW p \in Drawers, use_global_lock[p]
  PROVE  use_global_lock'[p]
<1>1. CASE SetGlobalFlag
  <2>1. use_global_lock' = [use_global_lock EXCEPT ![loop] =
          use_global_lock[loop] \/ strategy \in {"RANDOM_GLOBAL", "SMART_GLOBAL"}]
    BY <1>1, Zenon DEF SetGlobalFlag
  <2> QED
    BY <2>1 DEF TypeInv, TypeOK
<1>2. CASE \E t \in Threads : run_prisoner(t)
  BY <1>2, ThreadsOnlySearch
<1>3. CASE ~SetGlobalFlag /\ ~\E t \in Threads : run_prisoner(t)
  BY <1>3, Zenon DEF Next, MainStep, ThreadStep, simulate, init_drawers, Terminated, FillDrawer, Swap,
     SwapBack, ResetResults, SetSmartFlag, CreatePrisoner, CreationFails, JoinPrisoners,
     Judge, Report, vars
<1> QED
  BY <1>1, <1>2, <1>3

\* A step of a thread: what it owns it is about to release, or it found her number,
\* or it has seen the flag.
LEMMA OwnerStep ==
  ASSUME TypeInv, OwnerInv, NEW t \in Threads, run_prisoner(t),
         NEW d \in Drawers, drawer_locks'[d] = t, ~use_global_lock[PrisonerOf(t)]
  PROVE  \/ pc'[t] \in {"look", "found", "move", "leave", "unlock_drawer"} /\ cur'[t] = d
         \/ pc'[t] \in {"same_lock", "unlock_old"} /\ old_cur'[t] = d
         \/ pc'[t] \in {"unlock_global", "done"} /\ AttemptsLeft(attempt'[t])
<1>type. /\ pc \in [Threads -> Labels] /\ cur \in [Threads -> Drawers]
         /\ old_cur \in [Threads -> Drawers] /\ attempt \in [Threads -> 0..N_ATTEMPTS]
         /\ drawer_locks \in [Drawers -> Threads \union {NoThread, JoinedThread}]
  BY DEF TypeInv, TypeOK, Labels
<1>1. drawer_locks[d] = t =>
        \/ pc[t] \in {"look", "found", "move", "leave", "unlock_drawer"} /\ cur[t] = d
        \/ pc[t] \in {"same_lock", "unlock_old"} /\ old_cur[t] = d
        \/ pc[t] \in {"unlock_global", "done"} /\ AttemptsLeft(attempt[t])
  BY DEF OwnerInv
<1>2. CASE Start(t) \/ ChooseLock(t) \/ LockGlobal(t) \/ KeepLock(t)
  BY <1>1, <1>2, Zenon DEF Start, ChooseLock, LockGlobal, KeepLock
<1>3. CASE LockDrawer(t)
  BY <1>1, <1>3, <1>type DEF LockDrawer, NextAttempt
<1>4. CASE Look(t)
  BY <1>1, <1>4, <1>type DEF Look
<1>5. CASE SetResult(t)
  BY <1>1, <1>5, <1>type DEF SetResult, AttemptsLeft, TypeInv, BoundsInv
<1>6. CASE Move(t)
  BY <1>1, <1>6, <1>type DEF Move
<1>7. CASE ChangeLock(t)
  BY <1>1, <1>7, <1>type DEF ChangeLock
<1>8. CASE UnlockOld(t)
  BY <1>1, <1>8, <1>type, ThreadFacts DEF UnlockOld
<1>9. CASE Leave(t)
  <2>1. /\ pc[t] = "leave" /\ pc' = [pc EXCEPT ![t] = "unlock_drawer"]
        /\ UNCHANGED <<cur, drawer_locks>>
    BY <1>9, Zenon DEF Leave
  <2> QED
    BY <1>1, <1>type, <2>1
<1>10. CASE UnlockGlobal(t)
  BY <1>1, <1>10, <1>type DEF UnlockGlobal
<1>11. CASE UnlockDrawer(t)
  BY <1>1, <1>11, <1>type, ThreadFacts DEF UnlockDrawer
<1> QED
  BY <1>2, <1>3, <1>4, <1>5, <1>6, <1>7, <1>8, <1>9, <1>10, <1>11 DEF run_prisoner

\* Every step keeps it.
LEMMA NextOwnerInv == TypeInv /\ FreshInv /\ OwnerInv /\ [Next]_vars => OwnerInv'
<1> SUFFICES ASSUME TypeInv, FreshInv, OwnerInv, [Next]_vars,
                    NEW u \in Threads, NEW d \in Drawers, drawer_locks'[d] = u,
                    ~use_global_lock'[PrisonerOf(u)]
             PROVE  \/ pc'[u] \in {"look", "found", "move", "leave", "unlock_drawer"} /\ cur'[u] = d
                    \/ pc'[u] \in {"same_lock", "unlock_old"} /\ old_cur'[u] = d
                    \/ pc'[u] \in {"unlock_global", "done"} /\ AttemptsLeft(attempt'[u])
  BY DEF OwnerInv, AttemptsLeft
<1>type. /\ pc \in [Threads -> Labels] /\ cur \in [Threads -> Drawers] /\ round \in Rounds
         /\ old_cur \in [Threads -> Drawers] /\ attempt \in [Threads -> 0..N_ATTEMPTS]
         /\ drawer_locks \in [Drawers -> Threads \union {NoThread, JoinedThread}]
  BY DEF TypeInv, TypeOK, Labels
<1>flag. ~use_global_lock[PrisonerOf(u)]
  BY FlagsStaySet, ThreadFacts
<1>1. drawer_locks[d] = u =>
        \/ pc[u] \in {"look", "found", "move", "leave", "unlock_drawer"} /\ cur[u] = d
        \/ pc[u] \in {"same_lock", "unlock_old"} /\ old_cur[u] = d
        \/ pc[u] \in {"unlock_global", "done"} /\ AttemptsLeft(attempt[u])
  BY <1>flag DEF OwnerInv
<1>2. CASE CreatePrisoner
  <2>1. /\ pc' = [pc EXCEPT ![<<round, loop>>] = "start"] /\ phase = "create"
        /\ UNCHANGED <<cur, old_cur, attempt, drawer_locks>>
    BY <1>2 DEF CreatePrisoner
  <2>2. loop \in Drawers /\ loop >= loop
    <3>1. loop \in Drawers
      BY DEF TypeInv, TypeOK
    <3>2. loop \in Nat
      BY <3>1, DrawerFacts
    <3> QED
      BY <3>1, <3>2
  <2>3. pc[<<round, loop>>] = "none"
    BY <2>1, <2>2 DEF FreshInv
  <2>4. u # <<round, loop>>
    BY <1>1, <2>1, <2>3
  <2>5. pc'[u] = pc[u]
    BY <1>type, <2>1, <2>4
  <2> QED
    BY <1>1, <2>1, <2>5
<1>3. CASE Judge
  <2>1. u # JoinedThread
    BY ThreadFacts DEF JoinedThread, Rounds
  <2>2. drawer_locks[d] = u /\ u \notin {<<round, p>> : p \in Drawers}
    BY <1>3, <2>1 DEF Judge
  <2>3. u[1] # round
    BY <2>2, ThreadFacts
  <2>4. pc'[u] = pc[u] /\ cur'[u] = cur[u] /\ attempt'[u] = attempt[u] /\ old_cur'[u] = old_cur[u]
    BY <1>3, <2>3 DEF Judge
  <2> QED
    BY <1>1, <2>2, <2>4
<1>4. ASSUME NEW t \in Threads, run_prisoner(t)
      PROVE  \/ pc'[u] \in {"look", "found", "move", "leave", "unlock_drawer"} /\ cur'[u] = d
             \/ pc'[u] \in {"same_lock", "unlock_old"} /\ old_cur'[u] = d
             \/ pc'[u] \in {"unlock_global", "done"} /\ AttemptsLeft(attempt'[u])
  <2>1. CASE u = t
    BY <1>4, <1>flag, <2>1, OwnerStep
  <2>2. CASE u # t
    <3>1. \E l \in Labels : pc' = [pc EXCEPT ![t] = l]
      BY <1>4, ThreadLabels
    <3>2. /\ UNCHANGED cur \/ \E e \in Drawers : cur' = [cur EXCEPT ![t] = e]
          /\ UNCHANGED old_cur \/ \E e \in Drawers : old_cur' = [old_cur EXCEPT ![t] = e]
          /\ \/ UNCHANGED attempt \/ attempt' = [attempt EXCEPT ![t] = 0]
             \/ attempt' = [attempt EXCEPT ![t] = @ + 1]
      BY <1>4, ThreadLocals DEF TypeInv
    <3>3. drawer_locks[d] = u
      <4>1. \/ UNCHANGED drawer_locks
            \/ \E v \in {t, NoThread} : \E e : drawer_locks' = [drawer_locks EXCEPT ![e] = v]
        BY <1>4, ThreadShared
      <4> QED
        BY <1>type, <2>2, <4>1, ThreadFacts
    <3> QED
      BY <1>1, <1>type, <2>2, <3>1, <3>2, <3>3
  <2> QED
    BY <2>1, <2>2
<1>5. CASE \/ init_drawers \/ ResetResults \/ SetGlobalFlag \/ SetSmartFlag \/ CreationFails
            \/ JoinPrisoners \/ Report \/ UNCHANGED vars
  <2>1. UNCHANGED <<pc, cur, old_cur, attempt, drawer_locks>>
    BY <1>5 DEF init_drawers, FillDrawer, Swap, SwapBack, ResetResults, SetGlobalFlag,
       SetSmartFlag, CreationFails, JoinPrisoners, Report, vars
  <2> QED
    BY <1>1, <2>1
<1> QED
  BY <1>2, <1>3, <1>4, <1>5 DEF Next, MainStep, ThreadStep, simulate, Terminated

\* Even when games are abandoned, a thread that is done owns the lock of a drawer only
\* if its prisoner found her number, or if her flag was set under it.
THEOREM DrawersForgottenInTwoWays == Spec => []ForgottenByFindOrFlag
<1>1. OwnerInv => ForgottenByFindOrFlag
  BY DEF OwnerInv, ForgottenByFindOrFlag, LeftLockedBy
<1> QED
  BY <1>1, InitFreshInv, NextFreshInv, InitOwnerInv, NextOwnerInv, TypeInvAlways, PTL DEF Spec

-----------------------------------------------------------------------------
(* Games that are not abandoned.                                           *)

\* The flags that the strategy of a round sets.
LEMMA StrategyFacts ==
  ASSUME round \in Rounds
  PROVE  /\ strategy \in {"RANDOM_GLOBAL", "SMART_GLOBAL"} <=> round \in {1, 3}
         /\ strategy \in {"SMART_DRAWER", "SMART_GLOBAL"} <=> round >= 3
<1>1. CASE round = 1
  BY <1>1 DEF strategy, strategies
<1>2. CASE round = 2
  BY <1>2 DEF strategy, strategies
<1>3. CASE round = 3
  BY <1>3 DEF strategy, strategies
<1>4. CASE round = 4
  BY <1>4 DEF strategy, strategies
<1> QED
  BY <1>1, <1>2, <1>3, <1>4 DEF Rounds

\* A thread that runs is neither missing nor done, and does not start again.
LEMMA ThreadRuns ==
  ASSUME NEW t \in Threads, run_prisoner(t)
  PROVE  /\ pc[t] \notin {"none", "done"}
         /\ \E l \in Labels \ {"none", "start"} : pc' = [pc EXCEPT ![t] = l]
BY ThreadLabels

\* No thread outlives its game.
LEMMA NextCreatedInv ==
  ASSUME TypeInv, CreatedInv, [Next]_vars, CreateMayFail = {}
  PROVE  CreatedInv'
<1>type. /\ phase \in Phases
         /\ round \in Rounds /\ loop \in Drawers /\ pc \in [Threads -> Labels]
  BY DEF TypeInv, TypeOK, Phases, Labels
<1> USE <1>type DEF CreatedInv, Phases
<1>1. CASE FillDrawer
  BY <1>1 DEF FillDrawer
<1>2. CASE Swap
  BY <1>2 DEF Swap
<1>3. CASE SwapBack
  BY <1>3 DEF SwapBack
<1>4. CASE ResetResults
  BY <1>4, DrawerFacts, ThreadFacts DEF ResetResults
<1>12. CASE SetGlobalFlag \/ SetSmartFlag
  BY <1>12 DEF SetGlobalFlag, SetSmartFlag
<1>5. CASE CreatePrisoner
  <2>1. <<round, loop>> \in Threads /\ round' = round
    BY <1>5, ThreadFacts DEF CreatePrisoner
  <2>2. pc' = [pc EXCEPT ![<<round, loop>>] = "start"]
    BY <1>5 DEF CreatePrisoner
  <2>3. \A t \in Threads : t[1] # round => pc'[t] = "none"
    BY <2>1, <2>2, ThreadFacts
  <2>4. \A p \in Drawers : pc'[<<round, p>>] = "none" <=> p >= loop /\ p # loop
    BY <1>5, <2>1, <2>2, ThreadFacts DEF CreatePrisoner
  <2>5. \A p \in Drawers : p \in Nat /\ p < N_DRAWERS
    BY DrawerFacts
  <2>6. CASE loop + 1 < N_DRAWERS
    <3>1. phase' = "set_global" /\ loop' = loop + 1
      BY <1>5, <2>6 DEF CreatePrisoner
    <3> QED
      BY <2>1, <2>3, <2>4, <2>5, <3>1
  <2>7. CASE ~(loop + 1 < N_DRAWERS)
    <3>1. phase' = "join" /\ loop' = 0
      BY <1>5, <2>7 DEF CreatePrisoner
    <3>2. \A p \in Drawers : ~(p >= loop /\ p # loop)
      BY <2>5, <2>7, PrisonersAssumption
    <3> QED
      BY <2>1, <2>3, <2>4, <3>1, <3>2
  <2> QED
    BY <2>6, <2>7
<1>6. CASE CreationFails
  BY <1>6 DEF CreationFails
<1>7. CASE JoinPrisoners
  BY <1>7 DEF JoinPrisoners
<1>8. CASE Judge
  BY <1>8 DEF Judge
<1>9. CASE Report
  BY <1>9 DEF Report
<1>10. ASSUME NEW t \in Threads, run_prisoner(t) PROVE CreatedInv'
  <2>1. UNCHANGED <<phase, round, loop>>
    BY <1>10, ThreadsOnlySearch
  <2>2. pc[t] \notin {"none", "done"}
    BY <1>10, ThreadRuns DEF TypeInv
  <2>3. PICK l \in Labels \ {"none", "start"} : pc' = [pc EXCEPT ![t] = l]
    BY <1>10, ThreadRuns DEF TypeInv
  <2>4. t = <<round, PrisonerOf(t)>> /\ PrisonerOf(t) \in Drawers
        /\ phase \in {"set_global", "set_smart", "create", "join"}
    BY <2>2, ThreadFacts
  <2>5. \A p \in Drawers : pc'[<<round, p>>] = "none" <=> pc[<<round, p>>] = "none"
    BY <2>2, <2>3, ThreadFacts
  <2> QED
    BY <2>1, <2>2, <2>3, <2>4, <2>5
<1>11. CASE UNCHANGED vars
  BY <1>11 DEF vars
<1> QED
  BY <1>1, <1>2, <1>3, <1>4, <1>5, <1>6, <1>7, <1>8, <1>9, <1>10, <1>11, <1>12
  DEF Next, MainStep, ThreadStep, simulate, init_drawers, Terminated

\* What the two writes of a flag set, in terms of the round.
LEMMA SetFlagsEffect ==
  ASSUME TypeOK, NEW q \in Drawers
  PROVE  /\ SetGlobalFlag =>
              (use_global_lock'[q] <=> use_global_lock[q] \/ (q = loop /\ round \in {1, 3}))
         /\ SetSmartFlag =>
              (use_smart_strategy'[q] <=> use_smart_strategy[q] \/ (q = loop /\ round >= 3))
<1> DEFINE g == use_global_lock[loop] \/ strategy \in {"RANDOM_GLOBAL", "SMART_GLOBAL"}
           s == use_smart_strategy[loop] \/ strategy \in {"SMART_DRAWER", "SMART_GLOBAL"}
<1>1. g \in BOOLEAN /\ s \in BOOLEAN
  OBVIOUS
<1>2. /\ SetGlobalFlag => use_global_lock' = [use_global_lock EXCEPT ![loop] = g]
      /\ SetSmartFlag => use_smart_strategy' = [use_smart_strategy EXCEPT ![loop] = s]
  BY Zenon DEF SetGlobalFlag, SetSmartFlag
<1>3. /\ g <=> use_global_lock[loop] \/ round \in {1, 3}
      /\ s <=> use_smart_strategy[loop] \/ round >= 3
  BY StrategyFacts DEF TypeOK
<1>4. /\ use_global_lock \in [Drawers -> BOOLEAN] /\ use_smart_strategy \in [Drawers -> BOOLEAN]
      /\ loop \in Drawers
  BY DEF TypeOK
<1> HIDE DEF g, s
<1> QED
  BY <1>1, <1>2, <1>3, <1>4

\* Once a round has set use_global_lock it stays set.
LEMMA NextFlagsInv ==
  ASSUME TypeInv, CreatedInv, FlagsInv, [Next]_vars, CreateMayFail = {}
  PROVE  FlagsInv'
<1>type. /\ round \in Rounds /\ loop \in Drawers /\ pc \in [Threads -> Labels]
         /\ simulation_number \in 0..Games
  BY DEF TypeInv, TypeOK, Labels
<1> USE <1>type DEF FlagsInv
<1>1. CASE init_drawers
  BY <1>1 DEF init_drawers, FillDrawer, Swap, SwapBack
<1>2. CASE ResetResults \/ JoinPrisoners
  BY <1>2 DEF ResetResults, JoinPrisoners
<1>9. CASE SetGlobalFlag
  <2>1. /\ phase = "set_global" /\ phase' = "set_smart"
        /\ UNCHANGED <<score, loop, pc, use_smart_strategy>>
    BY <1>9 DEF SetGlobalFlag
  <2>2. \A q \in Drawers :
          use_global_lock'[q] <=> use_global_lock[q] \/ (q = loop /\ round \in {1, 3})
    BY <1>9, SetFlagsEffect DEF TypeInv
  <2>3. Games > 0
    BY <2>1, PrisonersAssumption DEF TypeInv, BoundsInv
  <2>4. round \in {1, 3} \/ round > 1
    BY DEF Rounds
  <2> QED
    BY <2>1, <2>2, <2>3, <2>4
<1>10. CASE SetSmartFlag
  <2>1. /\ phase = "set_smart" /\ phase' = "create"
        /\ UNCHANGED <<score, loop, pc, use_global_lock>>
    BY <1>10 DEF SetSmartFlag
  <2>2. \A q \in Drawers :
          use_smart_strategy'[q] <=> use_smart_strategy[q] \/ (q = loop /\ round >= 3)
    BY <1>10, SetFlagsEffect DEF TypeInv
  <2> QED
    BY <2>1, <2>2
<1>3. CASE CreatePrisoner
  <2>1. /\ <<round, loop>> \in Threads /\ UNCHANGED <<score, args_lists>>
        /\ phase = "create" /\ phase' \in {"set_global", "join"}
        /\ pc' = [pc EXCEPT ![<<round, loop>>] = "start"]
    BY <1>3, ThreadFacts DEF CreatePrisoner
  <2>2. \A p \in Drawers : pc'[<<round, p>>] # "none" => pc[<<round, p>>] # "none" \/ p = loop
    BY <2>1, ThreadFacts
  <2> QED
    BY <2>1, <2>2
<1>4. CASE CreationFails
  BY <1>4 DEF CreationFails
<1>5. CASE Judge
  <2>1. \A p \in Drawers : pc[<<round, p>>] = "done" /\ use_global_lock[p]
    BY <1>5 DEF Judge, CreatedInv
  <2>2. /\ phase' = "report" => simulation_number' = Games
        /\ UNCHANGED <<round, args_lists>> /\ phase' \in {"fill", "report"}
    BY <1>5, PrisonersAssumption DEF Judge, TypeInv, BoundsInv
  <2>3. \A t \in Threads : pc'[t] # "none" => pc[t] # "none"
    BY <1>5 DEF Judge
  <2> QED
    BY <2>1, <2>2, <2>3, ThreadFacts
<1>6. CASE Report
  <2>1. CASE round < 4
    <3>1. round' = round + 1 /\ phase' = (IF Games = 0 THEN "report" ELSE "fill")
          /\ simulation_number' = 0 /\ UNCHANGED <<args_lists, pc>>
      BY <1>6, <2>1 DEF Report
    <3>2. round' \in Rounds /\ round \in Nat
      BY <2>1, <3>1 DEF Rounds
    <3>3. \A t \in Threads : pc'[t] = "none"
      BY <1>6, <3>1 DEF Report, CreatedInv
    <3>4. Games > 0 => \A p \in Drawers : use_global_lock[p]
      BY <1>6 DEF Report
    <3> QED
      BY <3>1, <3>2, <3>3, <3>4, ThreadFacts
  <2>2. CASE ~(round < 4)
    BY <1>6, <2>2 DEF Report
  <2> QED
    BY <2>1, <2>2
<1>7. ASSUME NEW t \in Threads, run_prisoner(t) PROVE FlagsInv'
  <2>1. UNCHANGED <<phase, score, loop, args_lists>>
    BY <1>7, ThreadsOnlySearch
  <2>2. \A u \in Threads : pc'[u] # "none" => pc[u] # "none"
    BY <1>7, ThreadRuns DEF TypeInv
  <2> QED
    BY <2>1, <2>2, ThreadFacts
<1>8. CASE UNCHANGED vars
  BY <1>8 DEF vars
<1> QED
  BY <1>1, <1>2, <1>3, <1>4, <1>5, <1>6, <1>7, <1>8, <1>9, <1>10
  DEF Next, MainStep, ThreadStep, simulate, Terminated

\* A thread that runs is one of this game, and uses the global lock.
LEMMA RunningThread ==
  ASSUME TypeInv, CreatedInv, FlagsInv, NEW t \in Threads, run_prisoner(t)
  PROVE  /\ PrisonerOf(t) \in Drawers /\ t = <<round, PrisonerOf(t)>>
         /\ phase \in {"set_global", "set_smart", "create", "join"}
         /\ use_global_lock[PrisonerOf(t)]
         /\ use_smart_strategy[PrisonerOf(t)] <=> round >= 3
<1>1. pc[t] \notin {"none", "done"}
  BY ThreadRuns DEF TypeInv
<1>2. PrisonerOf(t) \in Drawers /\ t = <<round, PrisonerOf(t)>>
  BY <1>1, ThreadFacts DEF CreatedInv
<1>3. phase \in {"set_global", "set_smart", "create", "join"}
  BY <1>1, <1>2 DEF CreatedInv, TypeInv, TypeOK
<1> QED
  BY <1>1, <1>2, <1>3 DEF FlagsInv

\* The global lock is taken and released in turn, and no other.
LEMMA NextLockInv ==
  ASSUME TypeInv, CreatedInv, FlagsInv, LockInv, [Next]_vars, CreateMayFail = {}
  PROVE  LockInv'
<1>type. /\ round \in Rounds /\ loop \in Drawers /\ pc \in [Threads -> Labels]
         /\ global_lock \in Threads \union {NoThread}
  BY DEF TypeInv, TypeOK, Labels
<1> USE <1>type DEF LockInv
<1>1. CASE \/ init_drawers \/ ResetResults \/ SetGlobalFlag \/ SetSmartFlag
            \/ JoinPrisoners \/ Report
  BY <1>1 DEF init_drawers, FillDrawer, Swap, SwapBack, ResetResults, SetGlobalFlag,
     SetSmartFlag, JoinPrisoners, Report
<1>2. CASE CreatePrisoner
  <2>1. /\ <<round, loop>> \in Threads /\ UNCHANGED locks
        /\ pc' = [pc EXCEPT ![<<round, loop>>] = "start"]
    BY <1>2, ThreadFacts DEF CreatePrisoner
  <2>2. pc[<<round, loop>>] = "none"
    BY <1>2, DrawerFacts DEF CreatePrisoner, CreatedInv
  <2> QED
    BY <2>1, <2>2
<1>3. CASE CreationFails
  BY <1>3 DEF CreationFails
<1>4. CASE Judge
  <2>1. \A t \in Threads : pc[t] \in {"none", "done"}
    BY <1>4, ThreadFacts DEF Judge, CreatedInv
  <2>2. \A t \in Threads : pc'[t] \in {"none", "done"}
    BY <1>4, <2>1 DEF Judge
  <2>3. \A d \in Drawers : drawer_locks'[d] = NoThread
    BY <1>4, ThreadFacts DEF Judge
  <2> QED
    BY <1>4, <2>1, <2>2, <2>3 DEF Judge
<1>5. ASSUME NEW t \in Threads, run_prisoner(t) PROVE LockInv'
  <2>1. use_global_lock[PrisonerOf(t)]
    BY <1>5, RunningThread
  <2>2. CASE ChooseLock(t)
    <3>1. pc[t] = "which_lock" /\ pc' = [pc EXCEPT ![t] = "lock_global"] /\ UNCHANGED locks
      BY <2>1, <2>2, Zenon DEF ChooseLock
    <3> QED
      BY <3>1
  <2>3. CASE LockGlobal(t)
    BY <2>3, ThreadFacts DEF LockGlobal
  <2>4. CASE Start(t) \/ Look(t) \/ SetResult(t) \/ Move(t) \/ KeepLock(t)
    BY <2>4 DEF Start, Look, SetResult, Move, KeepLock, NextAttempt
  <2>5. CASE LockDrawer(t) \/ ChangeLock(t) \/ UnlockOld(t) \/ UnlockDrawer(t)
    BY <2>1, <2>5 DEF LockDrawer, ChangeLock, UnlockOld, UnlockDrawer
  <2>6. CASE Leave(t)
    <3>1. pc[t] = "leave" /\ pc' = [pc EXCEPT ![t] = "unlock_global"] /\ UNCHANGED locks
      BY <2>1, <2>6, Zenon DEF Leave
    <3> QED
      BY <3>1
  <2>7. CASE UnlockGlobal(t)
    BY <2>7, ThreadFacts DEF UnlockGlobal
  <2> QED
    BY <1>5, <2>2, <2>3, <2>4, <2>5, <2>6, <2>7 DEF run_prisoner
<1>6. CASE UNCHANGED vars
  BY <1>6 DEF vars
<1> QED
  BY <1>1, <1>2, <1>3, <1>4, <1>5, <1>6
  DEF Next, MainStep, ThreadStep, simulate, Terminated

\* A result is reset before the game, and set only in front of the right drawer.
LEMMA NextResultInv ==
  ASSUME TypeInv, CreatedInv, FlagsInv, ResultInv, [Next]_vars, CreateMayFail = {}
  PROVE  ResultInv'
<1>type. /\ round \in Rounds /\ loop \in Drawers /\ pc \in [Threads -> Labels]
         /\ thread_results \in [Drawers -> BOOLEAN] /\ cur \in [Threads -> Drawers]
  BY DEF TypeInv, TypeOK, Labels
<1> USE <1>type DEF ResultInv, Found
<1>1. CASE init_drawers
  BY <1>1 DEF init_drawers, FillDrawer, Swap, SwapBack
<1>2. CASE ResetResults
  BY <1>2, ThreadFacts DEF ResetResults, CreatedInv
<1>3. CASE CreatePrisoner
  <2>1. /\ <<round, loop>> \in Threads /\ UNCHANGED <<round, drawers, thread_results, cur>>
        /\ pc' = [pc EXCEPT ![<<round, loop>>] = "start"] /\ phase = "create"
    BY <1>3, ThreadFacts DEF CreatePrisoner
  <2>2. pc[<<round, loop>>] = "none"
    <3>1. loop >= loop
      BY DrawerFacts
    <3> QED
      BY <2>1, <3>1 DEF CreatedInv
  <2> QED
    BY <2>1, <2>2, ThreadFacts
<1>4. CASE CreationFails
  BY <1>4 DEF CreationFails
<1>5. CASE SetGlobalFlag \/ SetSmartFlag \/ JoinPrisoners
  BY <1>5 DEF SetGlobalFlag, SetSmartFlag, JoinPrisoners
<1>6. CASE Judge
  BY <1>6 DEF Judge
<1>7. CASE Report
  BY <1>7 DEF Report
<1>8. ASSUME NEW t \in Threads, run_prisoner(t) PROVE ResultInv'
  <2> DEFINE p == PrisonerOf(t)
  <2>1. UNCHANGED <<phase, round, drawers>>
    BY <1>8, ThreadsOnlySearch
  <2>2. /\ p \in Drawers /\ phase \in {"set_global", "set_smart", "create", "join"}
        /\ t = <<round, p>>
    BY <1>8, RunningThread
  <2>3. PICK l \in Labels : pc' = [pc EXCEPT ![t] = l]
    BY <1>8, ThreadRuns
  <2>4. \A q \in Drawers : q # p => Found(q, <<round, q>>)'
    <3>1. UNCHANGED thread_results
          \/ thread_results' = [thread_results EXCEPT ![p] = TRUE]
      BY <1>8, ThreadShared
    <3>2. UNCHANGED cur \/ \E d \in Drawers : cur' = [cur EXCEPT ![t] = d]
      BY <1>8, ThreadLocals DEF TypeInv
    <3>3. \A u \in Threads : u # t => cur'[u] = cur[u] /\ pc'[u] = pc[u]
      BY <2>3, <3>2
    <3>4. ASSUME NEW q \in Drawers, q # p PROVE Found(q, <<round, q>>)'
      <4>1. <<round, q>> \in Threads /\ <<round, q>> # t
        BY <2>2, <3>4, ThreadFacts
      <4>2. thread_results'[q] = thread_results[q]
        BY <3>1, <3>4
      <4> QED
        BY <2>1, <2>2, <3>3, <4>1, <4>2
    <3> QED
      BY <3>4
  <2>5. Found(p, t)'
    <3>1. Found(p, t)
      BY <2>2
    <3>2. pc[t] \notin {"none", "done"}
      BY <1>8, ThreadRuns
    <3>3. CASE Look(t)
      BY <2>1, <2>2, <3>1, <3>3 DEF Look
    <3>4. CASE SetResult(t)
      BY <2>1, <2>2, <3>1, <3>4 DEF SetResult
    <3>5. CASE UnlockGlobal(t)
      BY <2>1, <3>1, <3>5 DEF UnlockGlobal
    <3>6. CASE Start(t) \/ Move(t)
      BY <3>1, <3>6 DEF Start, Move
    <3>7. CASE \/ ChooseLock(t) \/ LockGlobal(t) \/ LockDrawer(t) \/ KeepLock(t)
               \/ ChangeLock(t) \/ UnlockOld(t) \/ Leave(t) \/ UnlockDrawer(t)
      BY <3>1, <3>7 DEF ChooseLock, LockGlobal, LockDrawer, KeepLock, ChangeLock, UnlockOld,
         Leave, UnlockDrawer, NextAttempt
    <3> QED
      BY <1>8, <3>3, <3>4, <3>5, <3>6, <3>7 DEF run_prisoner
  <2> QED
    BY <2>1, <2>2, <2>4, <2>5
<1>9. CASE UNCHANGED vars
  BY <1>9 DEF vars
<1> QED
  BY <1>1, <1>2, <1>3, <1>4, <1>5, <1>6, <1>7, <1>8, <1>9
  DEF Next, MainStep, ThreadStep, simulate, Terminated

\* Initially there is no thread, no flag and no result.
LEMMA InitGameInv == Init => GameInv
<1> SUFFICES ASSUME Init PROVE GameInv
  OBVIOUS
<1>1. /\ \A t \in Threads : pc[t] = "none"
      /\ \A p \in Drawers : pc[<<round, p>>] = "none"
  BY ThreadFacts DEF Init, Rounds
<1>2. CreatedInv
  BY <1>1 DEF Init, CreatedInv
<1>3. FlagsInv
  BY <1>1, PrisonersAssumption DEF Init, FlagsInv
<1>4. LockInv
  BY <1>1, ThreadFacts DEF Init, LockInv
<1>5. ResultInv
  BY DEF Init, ResultInv
<1> QED
  BY <1>2, <1>3, <1>4, <1>5 DEF GameInv

\* The invariant of games that are not abandoned always holds.
LEMMA GameInvAlways ==
  ASSUME CreateMayFail = {}
  PROVE  Spec => [](TypeInv /\ GameInv)
<1>1. TypeInv /\ GameInv /\ [Next]_vars => GameInv'
  BY NextCreatedInv, NextFlagsInv, NextLockInv, NextResultInv DEF GameInv
<1> QED
  BY <1>1, InitGameInv, TypeInvAlways, PTL DEF Spec

\* Unless a game is abandoned there is one prisoner among the drawers at a time,
\* and no lock but the global one is ever taken.
THEOREM GlobalLockForAll ==
  ASSUME CreateMayFail = {}
  PROVE  Spec => []OneAtATime
<1>1. TypeInv /\ GameInv => OneAtATime
  BY ThreadFacts DEF TypeInv, TypeOK, GameInv, CreatedInv, LockInv, OneAtATime
<1> QED
  BY <1>1, GameInvAlways, PTL

\* Unless a game is abandoned a prisoner is said to have won only in front of the
\* drawer with her number.
THEOREM WinsAreHonest ==
  ASSUME CreateMayFail = {}
  PROVE  Spec => []HonestWins
<1>1. TypeInv /\ GameInv => HonestWins
  BY DEF GameInv, ResultInv, Found, HonestWins
<1> QED
  BY <1>1, GameInvAlways, PTL

-----------------------------------------------------------------------------
(* Smart games.                                                            *)

\* There are finitely many drawers.
LEMMA DrawersAreFinite ==
  ASSUME NEW V \in SUBSET Drawers
  PROVE  IsFiniteSet(V) /\ Cardinality(V) \in Nat
<1>1. IsFiniteSet(Drawers)
  BY PrisonersAssumption, FS_Interval DEF Drawers
<1> QED
  BY <1>1, FS_Subset, FS_CardinalityType

\* Before the first attempt the trail is the drawer with the prisoner's number.
LEMMA TrailStarts ==
  ASSUME NEW f, NEW p \in Drawers
  PROVE  Trail(f, p, p, 0, {p})
BY FS_Singleton DEF Trail

\* A miss makes the trail longer: as no number is in two drawers, the next drawer
\* is new to her.
LEMMA TrailGrows ==
  ASSUME NEW f \in [Drawers -> Drawers], IsInjective(f), NEW p \in Drawers, NEW c \in Drawers,
         NEW n \in Nat, NEW V \in SUBSET Drawers, Trail(f, p, c, n, V), f[c] # p
  PROVE  Trail(f, p, f[c], n + 1, V \union {f[c]})
<1>1. f[c] \notin V
  BY DEF Trail, IsInjective
<1>2. Cardinality(V \union {f[c]}) = n + 2
  <2>1. IsFiniteSet(V) /\ Cardinality(V) = n + 1
    BY DrawersAreFinite DEF Trail
  <2> QED
    BY <1>1, <2>1, FS_AddElement
<1>3. \A d \in V \union {f[c]} : d # f[c] => f[d] \in (V \union {f[c]}) \ {p}
  BY DEF Trail
<1>4. \A d \in V \union {f[c]} : d # p => \E e \in V \union {f[c]} : e # f[c] /\ f[e] = d
  BY <1>1 DEF Trail
<1>5. ASSUME NEW S \in SUBSET Drawers, p \in S, Closed(f, S)
      PROVE  V \union {f[c]} \subseteq S
  BY <1>5 DEF Trail, Closed
<1> QED
  BY <1>2, <1>3, <1>4, <1>5 DEF Trail

\* Who finds her number has been all around her cycle.
LEMMA TrailCloses ==
  ASSUME TypeOK, NEW p \in Drawers, NEW c \in Drawers, NEW n \in Nat, n < N_ATTEMPTS,
         NEW V \in SUBSET Drawers, Trail(drawers, p, c, n, V), drawers[c] = p
  PROVE  ShortCycle(p)
<1>1. Cardinality(V) =< N_ATTEMPTS
  BY PrisonersAssumption DEF Trail
<1> QED
  BY <1>1 DEF Trail, ShortCycle

\* Who does not find it in N_ATTEMPTS attempts is on a longer one.
LEMMA TrailTooLong ==
  ASSUME NEW p \in Drawers, NEW c \in Drawers,
         NEW V \in SUBSET Drawers, Trail(drawers, p, c, N_ATTEMPTS, V)
  PROVE  ~ShortCycle(p)
<1> SUFFICES ASSUME NEW S \in SUBSET Drawers, p \in S, Cardinality(S) =< N_ATTEMPTS,
                    \A d \in S : drawers[d] \in S
             PROVE  FALSE
  BY DEF ShortCycle
<1>1. V \subseteq S
  BY DEF Trail, Closed
<1>2. Cardinality(V) =< Cardinality(S)
  BY <1>1, DrawersAreFinite, FS_Subset
<1> QED
  BY <1>2, DrawersAreFinite, PrisonersAssumption DEF Trail

\* A step of a thread in a smart game keeps it on its cycle.
LEMMA SmartStep ==
  ASSUME TypeInv, ShuffleInv, GameInv, CycleInv, round >= 3,
         NEW p \in Drawers, NEW t \in Threads, t = <<round, p>>, run_prisoner(t)
  PROVE  FollowsCycle(p, t)'
<1>1. t \in Threads /\ PrisonerOf(t) = p
  BY ThreadFacts DEF TypeInv, TypeOK
<1>2. /\ use_global_lock[p] /\ use_smart_strategy[p]
      /\ phase \in {"set_global", "set_smart", "create", "join"}
  BY <1>1, RunningThread DEF GameInv
<1>3. UNCHANGED <<drawers, round, phase>>
  BY <1>1, ThreadsOnlySearch
<1>4. FollowsCycle(p, t) /\ Found(p, t)
  BY <1>2 DEF CycleInv, GameInv, ResultInv
<1>5. IsInjective(drawers)
  BY <1>2 DEF ShuffleInv, Shuffled
<1>6. SUFFICES
        /\ pc'[t] \in {"which_lock", "lock_global", "look", "found", "move", "same_lock", "leave"} =>
             \E V \in SUBSET Drawers : Trail(drawers, p, cur'[t], attempt'[t], V)
        /\ pc'[t] = "found" => drawers[cur'[t]] = p
        /\ pc'[t] = "move" => drawers[cur'[t]] # p
        /\ pc'[t] = "leave" => attempt'[t] = N_ATTEMPTS
        /\ pc'[t] \in {"unlock_global", "done"} => (thread_results'[p] <=> ShortCycle(p))
  BY <1>3 DEF FollowsCycle, ShortCycle, Trail, Closed
<1>type. /\ pc \in [Threads -> Labels] /\ cur \in [Threads -> Drawers]
         /\ attempt \in [Threads -> 0..N_ATTEMPTS]
         /\ drawers \in [Drawers -> Drawers] /\ thread_results \in [Drawers -> BOOLEAN]
  BY DEF TypeInv, TypeOK, Labels
<1>7. CASE Start(t)
  <2>1. pc[t] = "start" /\ pc' = [pc EXCEPT ![t] = "which_lock"]
        /\ attempt' = [attempt EXCEPT ![t] = 0] /\ cur' = [cur EXCEPT ![t] = p]
    BY <1>1, <1>2, <1>7, Zenon DEF Start
  <2>2. Trail(drawers, p, p, 0, {p})
    BY TrailStarts
  <2> QED
    BY <1>1, <1>type, <2>1, <2>2
<1>8. CASE ChooseLock(t)
  <2>1. /\ pc[t] = "which_lock" /\ pc' = [pc EXCEPT ![t] = "lock_global"]
        /\ UNCHANGED <<cur, attempt>>
    BY <1>1, <1>2, <1>8, Zenon DEF ChooseLock
  <2> QED
    BY <1>4, <1>type, <2>1 DEF FollowsCycle
<1>9. CASE LockGlobal(t)
  BY <1>1, <1>4, <1>9, <1>type DEF LockGlobal, FollowsCycle
<1>10. CASE LockDrawer(t) \/ UnlockOld(t) \/ UnlockDrawer(t) \/ ChangeLock(t)
  BY <1>1, <1>2, <1>10 DEF LockDrawer, UnlockOld, UnlockDrawer, ChangeLock, GameInv, LockInv
<1>11. CASE Look(t)
  BY <1>1, <1>4, <1>11, <1>type DEF Look, FollowsCycle
<1>12. CASE SetResult(t)
  <2>1. ShortCycle(p)
    <3>1. /\ drawers[cur[t]] = p
          /\ \E V \in SUBSET Drawers : Trail(drawers, p, cur[t], attempt[t], V)
      BY <1>4, <1>12 DEF SetResult, FollowsCycle
    <3>2. attempt[t] \in Nat /\ attempt[t] < N_ATTEMPTS
      BY <1>1, <1>12, <1>type, PrisonersAssumption DEF SetResult, TypeInv, BoundsInv
    <3> QED
      BY <1>1, <1>type, <3>1, <3>2, TrailCloses DEF TypeInv
  <2>2. pc'[t] = "unlock_global" /\ thread_results'[p]
    BY <1>1, <1>12, <1>type DEF SetResult
  <2> QED
    BY <2>1, <2>2
<1>13. CASE Move(t)
  <2>1. /\ pc[t] = "move" /\ cur'[t] = drawers[cur[t]] /\ attempt'[t] = attempt[t] + 1
        /\ pc'[t] = "same_lock"
    <3>1. /\ pc[t] = "move" /\ attempt' = [attempt EXCEPT ![t] = @ + 1]
          /\ cur' = [cur EXCEPT ![t] = drawers[cur[t]]]
          /\ pc' = [pc EXCEPT ![t] = "same_lock"]
      BY <1>1, <1>2, <1>13, Zenon DEF Move, next_drawer
    <3> QED
      BY <1>1, <1>type, <3>1
  <2>2. attempt[t] \in Nat /\ attempt[t] < N_ATTEMPTS /\ cur[t] \in Drawers
    BY <1>1, <1>type, <2>1, PrisonersAssumption DEF TypeInv, BoundsInv
  <2>3. PICK V \in SUBSET Drawers : Trail(drawers, p, cur[t], attempt[t], V)
    BY <1>4, <2>1 DEF FollowsCycle
  <2>4. drawers[cur[t]] # p
    BY <1>4, <2>1 DEF FollowsCycle
  <2>5. Trail(drawers, p, cur'[t], attempt'[t], V \union {drawers[cur[t]]})
    <3>1. drawers \in [Drawers -> Drawers]
      BY <1>type
    <3>2. Trail(drawers, p, drawers[cur[t]], attempt[t] + 1, V \union {drawers[cur[t]]})
      BY <1>5, <2>2, <2>3, <2>4, <3>1, TrailGrows
    <3> QED
      BY <2>1, <3>2
  <2>6. V \union {drawers[cur[t]]} \in SUBSET Drawers
    BY <1>type, <2>2
  <2> QED
    BY <2>1, <2>5, <2>6
<1>14. CASE KeepLock(t)
  <2>1. /\ pc[t] = "same_lock" /\ UNCHANGED <<cur, attempt>>
        /\ pc'[t] = IF attempt[t] < N_ATTEMPTS THEN "look" ELSE "leave"
    BY <1>1, <1>14, <1>type DEF KeepLock, NextAttempt, AttemptsLeft
  <2>2. attempt[t] \in 0..N_ATTEMPTS
    BY <1>1, <1>type
  <2> QED
    BY <1>4, <2>1, <2>2, PrisonersAssumption DEF FollowsCycle
<1>15. CASE Leave(t)
  <2>1. pc[t] = "leave" /\ pc'[t] = "unlock_global" /\ UNCHANGED thread_results
    <3>1. /\ pc[t] = "leave" /\ pc' = [pc EXCEPT ![t] = "unlock_global"]
          /\ UNCHANGED thread_results
      BY <1>1, <1>2, <1>15, Zenon DEF Leave
    <3> QED
      BY <1>1, <1>type, <3>1
  <2>2. ~ShortCycle(p)
    <3>1. PICK V \in SUBSET Drawers : Trail(drawers, p, cur[t], N_ATTEMPTS, V)
      BY <1>4, <2>1 DEF FollowsCycle
    <3> QED
      BY <1>1, <1>type, <3>1, TrailTooLong
  <2>3. ~thread_results[p]
    BY <1>4, <2>1 DEF Found
  <2> QED
    BY <2>1, <2>2, <2>3
<1>16. CASE UnlockGlobal(t)
  BY <1>1, <1>4, <1>16, <1>type DEF UnlockGlobal, FollowsCycle
<1> QED
  BY <1>7, <1>8, <1>9, <1>10, <1>11, <1>12, <1>13, <1>14, <1>15, <1>16 DEF run_prisoner

\* Nobody is on a way initially.
LEMMA InitCycleInv == Init => CycleInv
BY DEF Init, CycleInv

\* Every step keeps everybody on her cycle.
LEMMA NextCycleInv ==
  ASSUME TypeInv, ShuffleInv, GameInv, CycleInv, [Next]_vars, CreateMayFail = {}
  PROVE  CycleInv'
<1>type. /\ round \in Rounds /\ loop \in Drawers /\ pc \in [Threads -> Labels]
         /\ cur \in [Threads -> Drawers] /\ attempt \in [Threads -> 0..N_ATTEMPTS]
         /\ drawers \in [Drawers -> Drawers] /\ thread_results \in [Drawers -> BOOLEAN]
  BY DEF TypeInv, TypeOK, Labels
<1>1. CASE init_drawers
  BY <1>1 DEF init_drawers, FillDrawer, Swap, SwapBack, CycleInv
<1>2. CASE ResetResults
  <2>1. \A p \in Drawers : pc'[<<round', p>>] = "none"
    BY <1>2, <1>type, ThreadFacts DEF ResetResults, GameInv, CreatedInv
  <2> QED
    BY <2>1 DEF CycleInv, FollowsCycle
<1>3. CASE CreatePrisoner
  <2>1. /\ <<round, loop>> \in Threads /\ UNCHANGED <<round, drawers, thread_results, cur, attempt>>
        /\ pc' = [pc EXCEPT ![<<round, loop>>] = "start"] /\ phase = "create"
    BY <1>3, <1>type, ThreadFacts DEF CreatePrisoner
  <2>2. ASSUME NEW p \in Drawers, round >= 3
        PROVE  FollowsCycle(p, <<round, p>>)'
    <3>1. FollowsCycle(p, <<round, p>>)
      BY <2>1, <2>2 DEF CycleInv
    <3>2. CASE p = loop
      BY <1>type, <2>1, <3>2 DEF FollowsCycle
    <3>3. CASE p # loop
      <4>1. <<round, p>> \in Threads /\ <<round, p>> # <<round, loop>>
        BY <1>type, <3>3, ThreadFacts
      <4>2. pc'[<<round, p>>] = pc[<<round, p>>]
        BY <1>type, <2>1, <4>1
      <4> QED
        BY <2>1, <3>1, <4>2 DEF FollowsCycle, ShortCycle
    <3> QED
      BY <3>2, <3>3
  <2> QED
    BY <2>1, <2>2 DEF CycleInv
<1>9. CASE SetGlobalFlag \/ SetSmartFlag
  <2>1. /\ UNCHANGED <<round, drawers, thread_results, pc, cur, attempt>>
        /\ phase \in {"set_global", "set_smart"}
    BY <1>9 DEF SetGlobalFlag, SetSmartFlag
  <2> QED
    BY <2>1 DEF CycleInv, FollowsCycle, ShortCycle
<1>4. CASE CreationFails
  BY <1>4 DEF CreationFails
<1>5. CASE JoinPrisoners
  <2>1. UNCHANGED <<round, drawers, thread_results, pc, cur, attempt>> /\ phase = "join"
    BY <1>5 DEF JoinPrisoners
  <2> QED
    BY <2>1 DEF CycleInv, FollowsCycle, ShortCycle
<1>6. CASE Judge \/ Report
  BY <1>6 DEF Judge, Report, CycleInv
<1>7. ASSUME NEW t \in Threads, run_prisoner(t) PROVE CycleInv'
  <2>1. /\ PrisonerOf(t) \in Drawers /\ t = <<round, PrisonerOf(t)>>
        /\ UNCHANGED <<phase, round, drawers>>
        /\ phase \in {"set_global", "set_smart", "create", "join"}
    BY <1>7, RunningThread, ThreadsOnlySearch DEF GameInv
  <2>2. ASSUME NEW p \in Drawers, round >= 3
        PROVE  FollowsCycle(p, <<round, p>>)'
    <3>1. CASE p = PrisonerOf(t)
      <4>1. t = <<round, p>>
        BY <2>1, <3>1
      <4>2. FollowsCycle(p, t)'
        BY <1>7, <2>2, <4>1, SmartStep
      <4> QED
        BY <2>1, <4>1, <4>2 DEF FollowsCycle
    <3>2. CASE p # PrisonerOf(t)
      <4> DEFINE u == <<round, p>>
      <4>1. FollowsCycle(p, u)
        BY <2>1, <2>2 DEF CycleInv
      <4>2. u \in Threads /\ u # t
        BY <1>type, <3>2, ThreadFacts
      <4>3. pc'[u] = pc[u] /\ cur'[u] = cur[u] /\ attempt'[u] = attempt[u]
        <5>1. \E l \in Labels : pc' = [pc EXCEPT ![t] = l]
          BY <1>7, ThreadRuns
        <5>2. /\ UNCHANGED cur \/ \E d \in Drawers : cur' = [cur EXCEPT ![t] = d]
              /\ \/ UNCHANGED attempt \/ attempt' = [attempt EXCEPT ![t] = 0]
                 \/ attempt' = [attempt EXCEPT ![t] = @ + 1]
          BY <1>7, ThreadLocals DEF TypeInv
        <5> QED
          BY <1>type, <4>2, <5>1, <5>2
      <4>4. thread_results'[p] = thread_results[p]
        <5>1. UNCHANGED thread_results
              \/ thread_results' = [thread_results EXCEPT ![PrisonerOf(t)] = TRUE]
          BY <1>7, ThreadShared
        <5> QED
          BY <1>type, <3>2, <5>1
      <4> QED
        BY <2>1, <4>1, <4>3, <4>4 DEF FollowsCycle, ShortCycle
    <3> QED
      BY <3>1, <3>2
  <2> QED
    BY <2>1, <2>2 DEF CycleInv
<1>8. CASE UNCHANGED vars
  BY <1>8 DEF vars, CycleInv, FollowsCycle, ShortCycle
<1> QED
  BY <1>1, <1>2, <1>3, <1>4, <1>5, <1>6, <1>7, <1>8, <1>9
  DEF Next, MainStep, ThreadStep, simulate, Terminated

\* Unless a game is abandoned, a smart game is won by exactly those shuffles in
\* which every number is on a cycle of at most N_ATTEMPTS drawers, and only the
\* smart rounds follow the cycles.
THEOREM SmartGamesAreDecidedByCycles ==
  ASSUME CreateMayFail = {}
  PROVE  Spec => []SmartWinsByCycles
<1>1. TypeInv /\ ShuffleInv /\ GameInv /\ CycleInv => SmartWinsByCycles
  <2> SUFFICES ASSUME TypeInv, GameInv, CycleInv, phase = "judge"
               PROVE  /\ strategy \in {"SMART_GLOBAL", "SMART_DRAWER"} =>
                           (Success <=> \A p \in Drawers : ShortCycle(p))
                      /\ \A p \in Drawers :
                           use_smart_strategy[p] <=> strategy \in {"SMART_GLOBAL", "SMART_DRAWER"}
    BY DEF SmartWinsByCycles
  <2>1. strategy \in {"SMART_GLOBAL", "SMART_DRAWER"} <=> round >= 3
    BY StrategyFacts DEF TypeInv, TypeOK
  <2>2. \A p \in Drawers : pc[<<round, p>>] = "done"
    BY DEF GameInv, CreatedInv
  <2>3. round >= 3 => \A p \in Drawers : thread_results[p] <=> ShortCycle(p)
    BY <2>2 DEF CycleInv, FollowsCycle
  <2>4. \A p \in Drawers : use_smart_strategy[p] <=> round >= 3
    BY <2>2 DEF GameInv, FlagsInv
  <2> QED
    BY <2>1, <2>3, <2>4 DEF Success
<1>2. Spec => []ShuffleInv
  BY InitShuffleInv, NextShuffleInv, TypeInvAlways, PTL DEF Spec
<1>3. TypeInv /\ ShuffleInv /\ GameInv /\ CycleInv /\ [Next]_vars => CycleInv'
  BY NextCycleInv
<1> QED
  BY <1>1, <1>2, <1>3, InitCycleInv, GameInvAlways, PTL DEF Spec

================================================================================
