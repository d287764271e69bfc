-------------------------- MODULE EnergyDrinksProofs --------------------------
(* Proofs about EnergyDrinks for every number of students, capacity and    *)
(* price, with early timeouts, spurious wakeups and missing threads.       *)
EXTENDS EnergyDrinks, FiniteSetTheorems, TLAPS

USE ConfigAssumption DEF Threads, Services, StudentSections, StudentLabels,
      ServiceLabels, MainLabels, machine_state, cond_vars, index_vars,
      MachineFree, InStock, RefillAsked, RefillDone, DrinkAsked, DrinkReady

-----------------------------------------------------------------------------
(* What the helpers return.                                                *)

\* Sums and decrements stay within an unsigned long.
LEMMA UlongClosed ==
  ASSUME NEW x \in 0..ULONG_MAX, NEW y \in 0..ULONG_MAX
  PROVE  Plus(x, y) \in 0..ULONG_MAX /\ Decrement(x) \in 0..ULONG_MAX
BY DEF Plus, Decrement

\* A signal only ever removes sleepers.
LEMMA SignalShrinks ==
  ASSUME NEW W, NEW V \in Signal(W)
  PROVE  V \subseteq W
BY DEF Signal

\* A signal to at most one sleeper leaves nobody asleep.
LEMMA SignalWakesTheOne ==
  ASSUME NEW t, NEW W \in SUBSET {t}, NEW V \in Signal(W)
  PROVE  V = {}
BY DEF Signal

-----------------------------------------------------------------------------
(* Type correctness.                                                       *)

\* The variables hold values of their types initially.
LEMMA InitTypeOK == Init => TypeOK
BY DEF Init, TypeOK

\* The position of a student in run()'s loop is a natural number.
LEMMA IndexIsNat == Cardinality({x \in Students : pc[x] # "none"}) \in Nat
BY FS_Subset, FS_CardinalityType

\* Every step keeps the types.
LEMMA NextTypeOK == TypeOK /\ [Next]_vars => TypeOK'
<1> SUFFICES ASSUME TypeOK, [Next]_vars PROVE TypeOK'
  OBVIOUS
<1> USE DEF TypeOK
<1>1. ASSUME NEW t \in Threads, Lock(t) PROVE TypeOK'
  BY <1>1 DEF Lock
<1>2. ASSUME NEW t \in Threads, SpuriousWakeup(t) PROVE TypeOK'
  BY <1>2 DEF SpuriousWakeup
<1>3. ASSUME NEW t \in Services, Timeout(t) PROVE TypeOK'
  BY <1>3 DEF Timeout
<1>4. ASSUME NEW s \in Students, CreateStudent(s) PROVE TypeOK'
  BY <1>4, IndexIsNat DEF CreateStudent, Outcomes, Goto
<1>5. CASE CreateSupplier
  BY <1>5 DEF CreateSupplier, Outcomes
<1>6. CASE CreateMachine
  BY <1>6 DEF CreateMachine, Outcomes
<1>7. CASE ReleaseThreads
  BY <1>7 DEF ReleaseThreads, Goto
<1>8. CASE JoinStudents \/ JoinServices \/ JoinMissing
  BY <1>8 DEF JoinStudents, JoinServices, Join, JoinMissing, Goto
<1>9. ASSUME NEW s \in Students, ReadIndex(s) PROVE TypeOK'
  BY <1>9 DEF ReadIndex, Goto
<1>10. ASSUME NEW s \in Students, EnterMachine(s) PROVE TypeOK'
  BY <1>10 DEF EnterMachine, Goto
<1>11. ASSUME NEW s \in Students, CheckStock(s) PROVE TypeOK'
  BY <1>11 DEF CheckStock, Goto
<1>12. ASSUME NEW s \in Students, RequestRefill(s) PROVE TypeOK'
  BY <1>12, SignalShrinks DEF RequestRefill, Goto
<1>13. ASSUME NEW s \in Students, StudentSleeps(s) PROVE TypeOK'
  BY <1>13 DEF StudentSleeps
<1>14. ASSUME NEW s \in Students, SeeRefilled(s) PROVE TypeOK'
  BY <1>14 DEF SeeRefilled, Goto
<1>15. ASSUME NEW s \in Students, InsertCoins(s) PROVE TypeOK'
  BY <1>15, SignalShrinks, UlongClosed DEF InsertCoins, Goto
<1>16. ASSUME NEW s \in Students, PickUpDrink(s) PROVE TypeOK'
  BY <1>16 DEF PickUpDrink, Goto
<1>17. ASSUME NEW s \in Students, LeaveMachine(s) PROVE TypeOK'
  BY <1>17 DEF LeaveMachine, Goto
<1>18. ASSUME NEW t \in Services, Abort(t) PROVE TypeOK'
  BY <1>18 DEF Abort, Goto
<1>19. CASE SupplierSleeps
  BY <1>19 DEF SupplierSleeps
<1>20. CASE Refill
  BY <1>20, SignalShrinks DEF Refill
<1>21. CASE MachineSleeps
  BY <1>21 DEF MachineSleeps
<1>22. CASE Dispense
  <2>1. coins_count' \in 0..ULONG_MAX /\ drink_count' \in 0..ULONG_MAX
    BY <1>22, UlongClosed DEF Dispense
  <2>2. inserted_coins_count' \in 0..ULONG_MAX
    BY <1>22 DEF Dispense
  <2>3. notify_student' \subseteq Students
    BY <1>22, SignalShrinks DEF Dispense
  <2> QED
    BY <1>22, <2>1, <2>2, <2>3 DEF Dispense
<1>23. CASE UNCHANGED vars
  BY <1>23 DEF vars
<1> QED
  BY <1>1, <1>2, <1>3, <1>4, <1>5, <1>6, <1>7, <1>8, <1>9, <1>10, <1>11, <1>12,
     <1>13, <1>14, <1>15, <1>16, <1>17, <1>18, <1>19, <1>20, <1>21, <1>22, <1>23
  DEF Next, Step, StudentStep, SupplierStep, MachineStep, MainStep, Terminated

\* Every variable always holds a value of its type.
THEOREM TypeCorrect == Spec => []TypeOK
BY InitTypeOK, NextTypeOK, PTL DEF Spec

-----------------------------------------------------------------------------
(* Who may own m and who may be asleep.                                    *)

\* A thread owns m only inside one of its sections, and awake; it sleeps only
\* in a section that waits; services do not exist until run() creates them.
LockInv ==
  /\ \A s \in Students : m = s => pc[s] \in StudentSections /\ s \notin notify_student
  /\ m = Supplier => pc[Supplier] = "supply" /\ notify_supplier = {}
  /\ m = Machine => pc[Machine] = "vend" /\ notify_machine = {}
  /\ m = Main => pc[Main] \in {"create_students", "create_machine", "unlock"}
  /\ \A s \in notify_student : pc[s] \in {"await_refill", "await_drink"}
  /\ notify_supplier # {} => pc[Supplier] = "supply"
  /\ notify_machine # {} => pc[Machine] = "vend"
  /\ pc[Main] = "create_students" => pc[Supplier] = "none"
  /\ pc[Main] \in {"create_students", "create_machine"} => pc[Machine] = "none"

\* Nobody owns m or sleeps before the threads exist.
LEMMA InitLockInv == Init => LockInv
BY DEF Init, LockInv

\* Every step keeps the ownership of m in order.
LEMMA NextLockInv == TypeOK /\ LockInv /\ [Next]_vars => LockInv'
<1> SUFFICES ASSUME TypeOK, LockInv, [Next]_vars PROVE LockInv'
  OBVIOUS
<1> USE DEF TypeOK, LockInv
<1>1. ASSUME NEW t \in Threads, Lock(t) PROVE LockInv'
  BY <1>1 DEF Lock, Sections, Sleepers
<1>2. ASSUME NEW t \in Threads, SpuriousWakeup(t) PROVE LockInv'
  BY <1>2 DEF SpuriousWakeup
<1>3. ASSUME NEW t \in Services, Timeout(t) PROVE LockInv'
  BY <1>3 DEF Timeout
<1>4. ASSUME NEW s \in Students, CreateStudent(s) PROVE LockInv'
  BY <1>4 DEF CreateStudent, Outcomes, Goto
<1>5. CASE CreateSupplier
  BY <1>5 DEF CreateSupplier, Outcomes
<1>6. CASE CreateMachine
  BY <1>6 DEF CreateMachine, Outcomes
<1>7. CASE ReleaseThreads
  BY <1>7 DEF ReleaseThreads, Goto
<1>8. CASE JoinStudents \/ JoinServices \/ JoinMissing
  BY <1>8 DEF JoinStudents, JoinServices, Join, JoinMissing, Goto
<1>9. ASSUME NEW s \in Students, ReadIndex(s) PROVE LockInv'
  BY <1>9 DEF ReadIndex, Goto
<1>10. ASSUME NEW s \in Students, EnterMachine(s) PROVE LockInv'
  BY <1>10 DEF EnterMachine, Goto
<1>11. ASSUME NEW s \in Students, CheckStock(s) PROVE LockInv'
  BY <1>11 DEF CheckStock, Goto
<1>12. ASSUME NEW s \in Students, RequestRefill(s) PROVE LockInv'
  BY <1>12, SignalShrinks DEF RequestRefill, Goto
<1>13. ASSUME NEW s \in Students, StudentSleeps(s) PROVE LockInv'
  BY <1>13 DEF StudentSleeps
<1>14. ASSUME NEW s \in Students, SeeRefilled(s) PROVE LockInv'
  BY <1>14 DEF SeeRefilled, Goto
<1>15. ASSUME NEW s \in Students, InsertCoins(s) PROVE LockInv'
  BY <1>15, SignalShrinks DEF InsertCoins, Goto
<1>16. ASSUME NEW s \in Students, PickUpDrink(s) PROVE LockInv'
  BY <1>16 DEF PickUpDrink, Goto
<1>17. ASSUME NEW s \in Students, LeaveMachine(s) PROVE LockInv'
  BY <1>17 DEF LeaveMachine, Goto
<1>18. ASSUME NEW t \in Services, Abort(t) PROVE LockInv'
  BY <1>18 DEF Abort, Goto
<1>19. CASE SupplierSleeps
  BY <1>19 DEF SupplierSleeps
<1>20. CASE Refill
  BY <1>20, SignalShrinks DEF Refill
<1>21. CASE MachineSleeps
  BY <1>21 DEF MachineSleeps
<1>22. CASE Dispense
  BY <1>22, SignalShrinks DEF Dispense
<1>23. CASE UNCHANGED vars
  BY <1>23 DEF vars
<1> QED
  BY <1>1, <1>2, <1>3, <1>4, <1>5, <1>6, <1>7, <1>8, <1>9, <1>10, <1>11, <1>12,
     <1>13, <1>14, <1>15, <1>16, <1>17, <1>18, <1>19, <1>20, <1>21, <1>22, <1>23
  DEF Next, Step, StudentStep, SupplierStep, MachineStep, MainStep, Terminated

\* The ownership of m is always in order.
THEOREM LockOrder == Spec => []LockInv
<1>1. TypeOK /\ LockInv /\ [Next]_vars => LockInv'
  BY NextLockInv
<1> QED
  BY <1>1, InitLockInv, TypeCorrect, PTL DEF Spec

-----------------------------------------------------------------------------
(* One transaction at a time.                                              *)

\* No student is at the machine initially and the statuses are idle.
LEMMA InitOneTransaction == Init => OneTransaction
BY DEF Init, OneTransaction, AtMachine

\* Every step keeps the statuses with the student at the machine.
LEMMA NextOneTransaction ==
  TypeOK /\ OneTransaction /\ [Next]_vars => OneTransaction'
<1> SUFFICES ASSUME TypeOK, OneTransaction, [Next]_vars PROVE OneTransaction'
  OBVIOUS
<1> USE DEF TypeOK, OneTransaction, AtMachine
<1>1. ASSUME NEW t \in Threads, Lock(t) PROVE OneTransaction'
  BY <1>1 DEF Lock
<1>2. ASSUME NEW t \in Threads, SpuriousWakeup(t) PROVE OneTransaction'
  BY <1>2 DEF SpuriousWakeup
<1>3. ASSUME NEW t \in Services, Timeout(t) PROVE OneTransaction'
  BY <1>3 DEF Timeout
<1>4. ASSUME NEW s \in Students, CreateStudent(s) PROVE OneTransaction'
  BY <1>4 DEF CreateStudent, Outcomes, Goto
<1>5. CASE CreateSupplier
  BY <1>5 DEF CreateSupplier, Outcomes
<1>6. CASE CreateMachine
  BY <1>6 DEF CreateMachine, Outcomes
<1>7. CASE ReleaseThreads
  BY <1>7 DEF ReleaseThreads, Goto
<1>8. CASE JoinStudents \/ JoinServices \/ JoinMissing
  BY <1>8 DEF JoinStudents, JoinServices, Join, JoinMissing, Goto
<1>9. ASSUME NEW s \in Students, ReadIndex(s) PROVE OneTransaction'
  BY <1>9 DEF ReadIndex, Goto
<1>10. ASSUME NEW s \in Students, EnterMachine(s) PROVE OneTransaction'
  BY <1>10 DEF EnterMachine, Goto
<1>11. ASSUME NEW s \in Students, CheckStock(s) PROVE OneTransaction'
  BY <1>11 DEF CheckStock, Goto
<1>12. ASSUME NEW s \in Students, RequestRefill(s) PROVE OneTransaction'
  BY <1>12 DEF RequestRefill, Goto
<1>13. ASSUME NEW s \in Students, StudentSleeps(s) PROVE OneTransaction'
  BY <1>13 DEF StudentSleeps
<1>14. ASSUME NEW s \in Students, SeeRefilled(s) PROVE OneTransaction'
  BY <1>14 DEF SeeRefilled, Goto
<1>15. ASSUME NEW s \in Students, InsertCoins(s) PROVE OneTransaction'
  BY <1>15 DEF InsertCoins, Goto
<1>16. ASSUME NEW s \in Students, PickUpDrink(s) PROVE OneTransaction'
  BY <1>16 DEF PickUpDrink, Goto
<1>17. ASSUME NEW s \in Students, LeaveMachine(s) PROVE OneTransaction'
  BY <1>17 DEF LeaveMachine, Goto
<1>18. ASSUME NEW t \in Services, Abort(t) PROVE OneTransaction'
  BY <1>18 DEF Abort, Goto
<1>19. CASE SupplierSleeps
  BY <1>19 DEF SupplierSleeps
<1>20. CASE Refill
  BY <1>20 DEF Refill
<1>21. CASE MachineSleeps
  BY <1>21 DEF MachineSleeps
<1>22. CASE Dispense
  BY <1>22 DEF Dispense
<1>23. CASE UNCHANGED vars
  BY <1>23 DEF vars
<1> QED
  BY <1>1, <1>2, <1>3, <1>4, <1>5, <1>6, <1>7, <1>8, <1>9, <1>10, <1>11, <1>12,
     <1>13, <1>14, <1>15, <1>16, <1>17, <1>18, <1>19, <1>20, <1>21, <1>22, <1>23
  DEF Next, Step, StudentStep, SupplierStep, MachineStep, MainStep, Terminated

\* The statuses are always those of the student at the machine.
THEOREM TransactionsAlternate == Spec => []OneTransaction
<1>1. TypeOK /\ OneTransaction /\ [Next]_vars => OneTransaction'
  BY NextOneTransaction
<1> QED
  BY <1>1, InitOneTransaction, TypeCorrect, PTL DEF Spec

-----------------------------------------------------------------------------
(* No lost wakeup.                                                         *)

\* The only student asleep is the one at the machine.
LEMMA SleeperIsCustomer ==
  ASSUME TypeOK, LockInv, OneTransaction
  PROVE  notify_student \subseteq {use_machine}
BY DEF TypeOK, LockInv, OneTransaction, AtMachine

\* Nobody is asleep initially.
LEMMA InitNoLostWakeup == Init => NoLostWakeup
BY DEF Init, NoLostWakeup

\* Every step that makes a condition true wakes the thread that waits for it.
LEMMA NextNoLostWakeup ==
  TypeOK /\ LockInv /\ OneTransaction /\ NoLostWakeup /\ [Next]_vars
    => NoLostWakeup'
<1> SUFFICES ASSUME TypeOK, LockInv, OneTransaction, NoLostWakeup, [Next]_vars
             PROVE  NoLostWakeup'
  OBVIOUS
<1> USE DEF TypeOK, NoLostWakeup
<1>1. ASSUME NEW t \in Threads, Lock(t) PROVE NoLostWakeup'
  BY <1>1 DEF Lock
<1>2. ASSUME NEW t \in Threads, SpuriousWakeup(t) PROVE NoLostWakeup'
  BY <1>2 DEF SpuriousWakeup
<1>3. ASSUME NEW t \in Services, Timeout(t) PROVE NoLostWakeup'
  BY <1>3 DEF Timeout
<1>4. ASSUME NEW s \in Students, CreateStudent(s) PROVE NoLostWakeup'
  BY <1>4 DEF CreateStudent, Outcomes, Goto
<1>5. CASE CreateSupplier
  BY <1>5 DEF CreateSupplier, Outcomes
<1>6. CASE CreateMachine
  BY <1>6 DEF CreateMachine, Outcomes
<1>7. CASE ReleaseThreads
  BY <1>7 DEF ReleaseThreads, Goto
<1>8. CASE JoinStudents \/ JoinServices \/ JoinMissing
  BY <1>8 DEF JoinStudents, JoinServices, Join, JoinMissing, Goto
<1>9. ASSUME NEW s \in Students, ReadIndex(s) PROVE NoLostWakeup'
  BY <1>9 DEF ReadIndex, Goto
<1>10. ASSUME NEW s \in Students, EnterMachine(s) PROVE NoLostWakeup'
  BY <1>10 DEF EnterMachine, Goto
<1>11. ASSUME NEW s \in Students, CheckStock(s) PROVE NoLostWakeup'
  BY <1>11 DEF CheckStock, Goto
<1>12. ASSUME NEW s \in Students, RequestRefill(s) PROVE NoLostWakeup'
  BY <1>12, SignalWakesTheOne DEF RequestRefill, Goto
<1>13. ASSUME NEW s \in Students, StudentSleeps(s) PROVE NoLostWakeup'
  BY <1>13 DEF StudentSleeps
<1>14. ASSUME NEW s \in Students, SeeRefilled(s) PROVE NoLostWakeup'
  BY <1>14 DEF SeeRefilled, Goto
<1>15. ASSUME NEW s \in Students, InsertCoins(s) PROVE NoLostWakeup'
  BY <1>15, SignalWakesTheOne DEF InsertCoins, Goto
<1>16. ASSUME NEW s \in Students, PickUpDrink(s) PROVE NoLostWakeup'
  BY <1>16 DEF PickUpDrink, Goto
<1>17. ASSUME NEW s \in Students, LeaveMachine(s) PROVE NoLostWakeup'
  BY <1>17 DEF LeaveMachine, Goto
<1>18. ASSUME NEW t \in Services, Abort(t) PROVE NoLostWakeup'
  BY <1>18 DEF Abort, Goto
<1>19. CASE SupplierSleeps
  BY <1>19 DEF SupplierSleeps
<1>20. CASE Refill
  BY <1>20, SignalWakesTheOne, SleeperIsCustomer DEF Refill
<1>21. CASE MachineSleeps
  BY <1>21 DEF MachineSleeps
<1>22. CASE Dispense
  BY <1>22, SignalWakesTheOne, SleeperIsCustomer DEF Dispense
<1>23. CASE UNCHANGED vars
  BY <1>23 DEF vars
<1> QED
  BY <1>1, <1>2, <1>3, <1>4, <1>5, <1>6, <1>7, <1>8, <1>9, <1>10, <1>11, <1>12,
     <1>13, <1>14, <1>15, <1>16, <1>17, <1>18, <1>19, <1>20, <1>21, <1>22, <1>23
  DEF Next, Step, StudentStep, SupplierStep, MachineStep, MainStep, Terminated

\* No notification is ever lost.
THEOREM WakeupsArrive == Spec => []NoLostWakeup
<1>1. TypeOK /\ LockInv /\ OneTransaction /\ NoLostWakeup /\ [Next]_vars
        => NoLostWakeup'
  BY NextNoLostWakeup
<1> QED
  BY <1>1, InitNoLostWakeup, TypeCorrect, LockOrder, TransactionsAlternate, PTL
  DEF Spec

-----------------------------------------------------------------------------
(* The stock and the refill.                                               *)

\* A refill is asked for only when the machine is empty, it stays empty until
\* the refill, and full until the student notices.
RefillInv ==
  /\ \A s \in Students : pc[s] = "request_refill" => drink_count = 0
  /\ refill_status = "WAITING_FOR_REFILL" => drink_count = 0
  /\ refill_status = "REFILLED" => drink_count = MachineCapacity

\* The machine can hold a drink and its coins fit an unsigned long.
SoundConfig ==
  /\ MachineCapacity > 0
  /\ DrinkPrice * MachineCapacity =< ULONG_MAX

\* The refill fields are in order initially.
LEMMA InitRefillInv == Init => RefillInv
BY DEF Init, RefillInv

\* Every step keeps the refill fields in order.
LEMMA NextRefillInv ==
  TypeOK /\ OneTransaction /\ RefillInv /\ [Next]_vars => RefillInv'
<1> SUFFICES ASSUME TypeOK, OneTransaction, RefillInv, [Next]_vars
             PROVE  RefillInv'
  OBVIOUS
<1> USE DEF TypeOK, OneTransaction, AtMachine, RefillInv
<1>1. ASSUME NEW t \in Threads, Lock(t) PROVE RefillInv'
  BY <1>1 DEF Lock
<1>2. ASSUME NEW t \in Threads, SpuriousWakeup(t) PROVE RefillInv'
  BY <1>2 DEF SpuriousWakeup
<1>3. ASSUME NEW t \in Services, Timeout(t) PROVE RefillInv'
  BY <1>3 DEF Timeout
<1>4. ASSUME NEW s \in Students, CreateStudent(s) PROVE RefillInv'
  BY <1>4 DEF CreateStudent, Outcomes, Goto
<1>5. CASE CreateSupplier
  BY <1>5 DEF CreateSupplier, Outcomes
<1>6. CASE CreateMachine
  BY <1>6 DEF CreateMachine, Outcomes
<1>7. CASE ReleaseThreads
  BY <1>7 DEF ReleaseThreads, Goto
<1>8. CASE JoinStudents \/ JoinServices \/ JoinMissing
  BY <1>8 DEF JoinStudents, JoinServices, Join, JoinMissing, Goto
<1>9. ASSUME NEW s \in Students, ReadIndex(s) PROVE RefillInv'
  BY <1>9 DEF ReadIndex, Goto
<1>10. ASSUME NEW s \in Students, EnterMachine(s) PROVE RefillInv'
  BY <1>10 DEF EnterMachine, Goto
<1>11. ASSUME NEW s \in Students, CheckStock(s) PROVE RefillInv'
  BY <1>11 DEF CheckStock, Goto
<1>12. ASSUME NEW s \in Students, RequestRefill(s) PROVE RefillInv'
  BY <1>12 DEF RequestRefill, Goto
<1>13. ASSUME NEW s \in Students, StudentSleeps(s) PROVE RefillInv'
  BY <1>13 DEF StudentSleeps
<1>14. ASSUME NEW s \in Students, SeeRefilled(s) PROVE RefillInv'
  BY <1>14 DEF SeeRefilled, Goto
<1>15. ASSUME NEW s \in Students, InsertCoins(s) PROVE RefillInv'
  BY <1>15 DEF InsertCoins, Goto
<1>16. ASSUME NEW s \in Students, PickUpDrink(s) PROVE RefillInv'
  BY <1>16 DEF PickUpDrink, Goto
<1>17. ASSUME NEW s \in Students, LeaveMachine(s) PROVE RefillInv'
  BY <1>17 DEF LeaveMachine, Goto
<1>18. ASSUME NEW t \in Services, Abort(t) PROVE RefillInv'
  BY <1>18 DEF Abort, Goto
<1>19. CASE SupplierSleeps
  BY <1>19 DEF SupplierSleeps
<1>20. CASE Refill
  BY <1>20 DEF Refill
<1>21. CASE MachineSleeps
  BY <1>21 DEF MachineSleeps
<1>22. CASE Dispense
  BY <1>22 DEF Dispense
<1>23. CASE UNCHANGED vars
  BY <1>23 DEF vars
<1> QED
  BY <1>1, <1>2, <1>3, <1>4, <1>5, <1>6, <1>7, <1>8, <1>9, <1>10, <1>11, <1>12,
     <1>13, <1>14, <1>15, <1>16, <1>17, <1>18, <1>19, <1>20, <1>21, <1>22, <1>23
  DEF Next, Step, StudentStep, SupplierStep, MachineStep, MainStep, Terminated

\* A refill is asked for, and served, only while the machine is empty.
THEOREM RefillsOrderly == Spec => []RefillInv
<1>1. TypeOK /\ OneTransaction /\ RefillInv /\ [Next]_vars => RefillInv'
  BY NextRefillInv
<1> QED
  BY <1>1, InitRefillInv, TypeCorrect, TransactionsAlternate, PTL DEF Spec

\* The supplier never adds drinks to a machine that still has some.
THEOREM RefillsAnEmptyMachine == Spec => RefillOnlyWhenEmpty
<1>1. ASSUME TypeOK, RefillInv, Next, drink_count' > drink_count
      PROVE  drink_count = 0
  <2> USE DEF TypeOK
  <2>1. CASE Refill
    BY <1>1, <2>1 DEF Refill, RefillInv
  <2>2. CASE Dispense
    BY <1>1, <2>2 DEF Dispense, Decrement
  <2>3. CASE ~Refill /\ ~Dispense
    <3>1. drink_count' = drink_count
      BY <1>1, <2>3
      DEF Next, Step, StudentStep, SupplierStep, MachineStep, MainStep,
          Terminated, vars, Lock, SpuriousWakeup, Timeout, CreateStudent,
          CreateSupplier, CreateMachine, ReleaseThreads, JoinStudents,
          JoinServices, Join, JoinMissing, ReadIndex, EnterMachine, CheckStock,
          RequestRefill, StudentSleeps, SeeRefilled, InsertCoins,
          PickUpDrink, LeaveMachine, Abort, SupplierSleeps, MachineSleeps
    <3> QED
      BY <1>1, <3>1
  <2> QED
    BY <2>1, <2>2, <2>3
<1>2. TypeOK /\ RefillInv /\ [Next]_vars
        => [drink_count' > drink_count => drink_count = 0]_drink_count
  BY <1>1 DEF vars, machine_state
<1> QED
  BY <1>2, TypeCorrect, RefillsOrderly, PTL DEF Spec, RefillOnlyWhenEmpty

-----------------------------------------------------------------------------
(* Coins and drinks, for a machine that can hold a drink.                  *)

StockInv == DrinkInStock /\ CoinsMatchDrinks

\* Selling a drink moves one price into the till, without wrapping.
LEMMA TillStep ==
  ASSUME SoundConfig, NEW d \in 1..MachineCapacity
  PROVE  /\ Plus(DrinkPrice * (MachineCapacity - d), DrinkPrice)
              = DrinkPrice * (MachineCapacity - Decrement(d))
         /\ Plus(DrinkPrice * (MachineCapacity - d), DrinkPrice)
              = DrinkPrice * (MachineCapacity - d) + DrinkPrice
         /\ Decrement(d) \in 0..MachineCapacity
<1> DEFINE k == MachineCapacity - d
<1>1. k \in Nat /\ Decrement(d) = d - 1 /\ d - 1 \in 0..MachineCapacity
  BY DEF Decrement
<1>2. DrinkPrice * (k + 1) = DrinkPrice * k + DrinkPrice
  BY <1>1
<1>3. DrinkPrice * (k + 1) =< DrinkPrice * MachineCapacity
  <2>1. MachineCapacity = (k + 1) + (d - 1)
    BY <1>1
  <2>2. DrinkPrice * ((k + 1) + (d - 1)) = DrinkPrice * (k + 1) + DrinkPrice * (d - 1)
    BY <1>1
  <2>3. DrinkPrice * (d - 1) >= 0 /\ DrinkPrice * (k + 1) \in Int /\ DrinkPrice * (d - 1) \in Int
    BY <1>1
  <2> QED
    BY <2>1, <2>2, <2>3
<1>4. MachineCapacity - (d - 1) = k + 1
  BY <1>1
<1>5. Plus(DrinkPrice * k, DrinkPrice) = DrinkPrice * (k + 1)
  <2>1. DrinkPrice * k + DrinkPrice =< ULONG_MAX
    BY <1>1, <1>2, <1>3 DEF SoundConfig
  <2> QED
    BY <2>1, <1>2 DEF Plus
<1> QED
  BY <1>1, <1>2, <1>4, <1>5

\* The machine is empty and no coins are about initially.
LEMMA InitStockInv == Init => StockInv
BY DEF Init, StockInv, DrinkInStock, CoinsMatchDrinks

\* Every step keeps the accounts.
LEMMA NextStockInv ==
  ASSUME SoundConfig
  PROVE  TypeOK /\ OneTransaction /\ RefillInv /\ StockInv /\ [Next]_vars
           => StockInv'
<1> SUFFICES ASSUME TypeOK, OneTransaction, RefillInv, StockInv, [Next]_vars
             PROVE  StockInv'
  OBVIOUS
<1> USE DEF TypeOK, OneTransaction, AtMachine, RefillInv, StockInv, DrinkInStock,
            CoinsMatchDrinks
<1>1. ASSUME NEW t \in Threads, Lock(t) PROVE StockInv'
  BY <1>1 DEF Lock
<1>2. ASSUME NEW t \in Threads, SpuriousWakeup(t) PROVE StockInv'
  BY <1>2 DEF SpuriousWakeup
<1>3. ASSUME NEW t \in Services, Timeout(t) PROVE StockInv'
  BY <1>3 DEF Timeout
<1>4. ASSUME NEW s \in Students, CreateStudent(s) PROVE StockInv'
  BY <1>4 DEF CreateStudent, Outcomes, Goto
<1>5. CASE CreateSupplier
  BY <1>5 DEF CreateSupplier, Outcomes
<1>6. CASE CreateMachine
  BY <1>6 DEF CreateMachine, Outcomes
<1>7. CASE ReleaseThreads
  BY <1>7 DEF ReleaseThreads, Goto
<1>8. CASE JoinStudents \/ JoinServices \/ JoinMissing
  BY <1>8 DEF JoinStudents, JoinServices, Join, JoinMissing, Goto
<1>9. ASSUME NEW s \in Students, ReadIndex(s) PROVE StockInv'
  BY <1>9 DEF ReadIndex, Goto
<1>10. ASSUME NEW s \in Students, EnterMachine(s) PROVE StockInv'
  BY <1>10 DEF EnterMachine, Goto
<1>11. ASSUME NEW s \in Students, CheckStock(s) PROVE StockInv'
  BY <1>11 DEF CheckStock, Goto
<1>12. ASSUME NEW s \in Students, RequestRefill(s) PROVE StockInv'
  BY <1>12 DEF RequestRefill, Goto
<1>13. ASSUME NEW s \in Students, StudentSleeps(s) PROVE StockInv'
  BY <1>13 DEF StudentSleeps
<1>14. ASSUME NEW s \in Students, SeeRefilled(s) PROVE StockInv'
  BY <1>14 DEF SeeRefilled, Goto, SoundConfig
<1>15. ASSUME NEW s \in Students, InsertCoins(s) PROVE StockInv'
  <2>1. use_machine = s /\ refill_status = "NOT_EMPTY" /\ drink_status = "RECEIVED"
    BY <1>15 DEF InsertCoins
  <2>2. inserted_coins_count' = DrinkPrice
    BY <1>15, <2>1 DEF InsertCoins, Plus
  <2>3. CoinsMatchDrinks'
    BY <1>15, <2>2 DEF InsertCoins
  <2>4. DrinkInStock'
    BY <1>15, <2>1 DEF InsertCoins, Goto
  <2> QED
    BY <2>3, <2>4
<1>16. ASSUME NEW s \in Students, PickUpDrink(s) PROVE StockInv'
  BY <1>16 DEF PickUpDrink, Goto
<1>17. ASSUME NEW s \in Students, LeaveMachine(s) PROVE StockInv'
  BY <1>17 DEF LeaveMachine, Goto
<1>18. ASSUME NEW t \in Services, Abort(t) PROVE StockInv'
  BY <1>18 DEF Abort, Goto
<1>19. CASE SupplierSleeps
  BY <1>19 DEF SupplierSleeps
<1>20. CASE Refill
  BY <1>20 DEF Refill
<1>21. CASE MachineSleeps
  BY <1>21 DEF MachineSleeps
<1>22. CASE Dispense
  <2>1. /\ use_machine \in Students
        /\ pc[use_machine] = "await_drink"
        /\ refill_status = "NOT_EMPTY"
    BY <1>22 DEF Dispense
  <2>2. drink_count \in 1..MachineCapacity
    BY <1>22, <2>1 DEF Dispense
  <2>3. coins_count = DrinkPrice * (MachineCapacity - drink_count)
    BY <2>2
  <2>4. /\ coins_count' = DrinkPrice * (MachineCapacity - drink_count')
        /\ drink_count' \in 0..MachineCapacity
    BY <1>22, <2>2, <2>3, TillStep DEF Dispense
  <2>5. CoinsMatchDrinks'
    BY <1>22, <2>4 DEF Dispense
  <2>6. DrinkInStock'
    BY <1>22, <2>1 DEF Dispense
  <2> QED
    BY <2>5, <2>6
<1>23. CASE UNCHANGED vars
  BY <1>23 DEF vars
<1> QED
  BY <1>1, <1>2, <1>3, <1>4, <1>5, <1>6, <1>7, <1>8, <1>9, <1>10, <1>11, <1>12,
     <1>13, <1>14, <1>15, <1>16, <1>17, <1>18, <1>19, <1>20, <1>21, <1>22, <1>23
  DEF Next, Step, StudentStep, SupplierStep, MachineStep, MainStep, Terminated

\* A drink is there when it is dispensed, whatever happened since the stock
\* was looked at.
THEOREM DrinksAreThere == ASSUME SoundConfig PROVE Spec => []DrinkInStock
<1>1. TypeOK /\ OneTransaction /\ RefillInv /\ StockInv /\ [Next]_vars => StockInv'
  BY NextStockInv
<1>2. StockInv => DrinkInStock
  BY DEF StockInv
<1> QED
  BY <1>1, <1>2, InitStockInv, TypeCorrect, TransactionsAlternate, RefillsOrderly,
     PTL DEF Spec

\* Every coin is accounted for.
THEOREM CoinsAccounted == ASSUME SoundConfig PROVE Spec => []CoinsMatchDrinks
<1>1. TypeOK /\ OneTransaction /\ RefillInv /\ StockInv /\ [Next]_vars => StockInv'
  BY NextStockInv
<1>2. StockInv => CoinsMatchDrinks
  BY DEF StockInv
<1> QED
  BY <1>1, <1>2, InitStockInv, TypeCorrect, TransactionsAlternate, RefillsOrderly,
     PTL DEF Spec

\* Nor does it hold more drinks than its capacity.
THEOREM NeverOverfull == ASSUME SoundConfig PROVE Spec => []WithinCapacity
<1>1. TypeOK /\ CoinsMatchDrinks => WithinCapacity
  BY DEF TypeOK, CoinsMatchDrinks, WithinCapacity
<1> QED
  BY <1>1, TypeCorrect, CoinsAccounted, PTL

-----------------------------------------------------------------------------
(* The threads implement the abstract service.                             *)

ServiceStep == [Service!Next]_(Service!vars)

\* Nobody has been served initially.
LEMMA InitService == Init => Service!Init
BY DEF Init, Service!Init, Served

\* EnterMachine, Refill, Dispense and LeaveMachine are the service's Arrive,
\* Restock, Sell and Leave; every other step leaves the service as it is.
LEMMA NextService ==
  ASSUME SoundConfig
  PROVE  TypeOK /\ OneTransaction /\ RefillInv /\ StockInv /\ [Next]_vars
           => ServiceStep
<1> SUFFICES ASSUME TypeOK, OneTransaction, RefillInv, StockInv, [Next]_vars
             PROVE  ServiceStep
  OBVIOUS
<1> USE DEF TypeOK, OneTransaction, AtMachine
<1>1. ASSUME NEW t \in Threads, Lock(t) PROVE ServiceStep
  BY <1>1 DEF Lock, ServiceStep, Served, Service!vars
<1>2. ASSUME NEW t \in Threads, SpuriousWakeup(t) PROVE ServiceStep
  BY <1>2 DEF SpuriousWakeup, ServiceStep, Served, Service!vars
<1>3. ASSUME NEW t \in Services, Timeout(t) PROVE ServiceStep
  BY <1>3 DEF Timeout, ServiceStep, Served, Service!vars
<1>4. ASSUME NEW s \in Students, CreateStudent(s) PROVE ServiceStep
  BY <1>4 DEF CreateStudent, Outcomes, Goto, ServiceStep, Served, Service!vars
<1>5. CASE CreateSupplier
  BY <1>5 DEF CreateSupplier, Outcomes, ServiceStep, Served, Service!vars
<1>6. CASE CreateMachine
  BY <1>6 DEF CreateMachine, Outcomes, ServiceStep, Served, Service!vars
<1>7. CASE ReleaseThreads
  BY <1>7 DEF ReleaseThreads, Goto, ServiceStep, Served, Service!vars
<1>8. CASE JoinStudents \/ JoinServices \/ JoinMissing
  BY <1>8 DEF JoinStudents, JoinServices, Join, JoinMissing, Goto, ServiceStep, Served, Service!vars
<1>9. ASSUME NEW s \in Students, ReadIndex(s) PROVE ServiceStep
  BY <1>9 DEF ReadIndex, Goto, ServiceStep, Served, Service!vars
<1>10. ASSUME NEW s \in Students, EnterMachine(s) PROVE ServiceStep
  <2>1. s \notin Served /\ Served' = Served
    BY <1>10 DEF EnterMachine, Goto, Served
  <2>2. Service!Arrive(s)
    BY <1>10, <2>1 DEF EnterMachine, Service!Arrive
  <2> QED
    BY <2>2 DEF Service!Next, ServiceStep
<1>11. ASSUME NEW s \in Students, CheckStock(s) PROVE ServiceStep
  BY <1>11 DEF CheckStock, Goto, ServiceStep, Served, Service!vars
<1>12. ASSUME NEW s \in Students, RequestRefill(s) PROVE ServiceStep
  BY <1>12 DEF RequestRefill, Goto, ServiceStep, Served, Service!vars
<1>13. ASSUME NEW s \in Students, StudentSleeps(s) PROVE ServiceStep
  BY <1>13 DEF StudentSleeps, ServiceStep, Served, Service!vars
<1>14. ASSUME NEW s \in Students, SeeRefilled(s) PROVE ServiceStep
  BY <1>14 DEF SeeRefilled, Goto, ServiceStep, Served, Service!vars
<1>15. ASSUME NEW s \in Students, InsertCoins(s) PROVE ServiceStep
  BY <1>15 DEF InsertCoins, Goto, ServiceStep, Served, Service!vars
<1>16. ASSUME NEW s \in Students, PickUpDrink(s) PROVE ServiceStep
  BY <1>16 DEF PickUpDrink, Goto, ServiceStep, Served, Service!vars
<1>17. ASSUME NEW s \in Students, LeaveMachine(s) PROVE ServiceStep
  <2>1. use_machine = s /\ s \in Served /\ Served' = Served
    BY <1>17 DEF LeaveMachine, Goto, Served
  <2>2. Service!Leave
    BY <1>17, <2>1 DEF LeaveMachine, Service!Leave
  <2> QED
    BY <2>2 DEF Service!Next, ServiceStep
<1>18. ASSUME NEW t \in Services, Abort(t) PROVE ServiceStep
  BY <1>18 DEF Abort, Goto, ServiceStep, Served, Service!vars
<1>19. CASE SupplierSleeps
  BY <1>19 DEF SupplierSleeps, ServiceStep, Served, Service!vars
<1>20. CASE Refill
  <2>1. use_machine \in Students /\ pc[use_machine] = "await_refill"
    BY <1>20 DEF Refill
  <2>2. use_machine \notin Served /\ Served' = Served /\ drink_count = 0
    BY <1>20, <2>1 DEF Refill, Served, RefillInv
  <2>3. Service!Restock
    BY <1>20, <2>1, <2>2 DEF Refill, Service!Restock
  <2> QED
    BY <2>3 DEF Service!Next, ServiceStep
<1>21. CASE MachineSleeps
  BY <1>21 DEF MachineSleeps, ServiceStep, Served, Service!vars
<1>22. CASE Dispense
  <2>1. use_machine \in Students /\ pc[use_machine] = "await_drink"
    BY <1>22 DEF Dispense
  <2>2. use_machine \notin Served /\ Served' = Served \union {use_machine}
    BY <1>22, <2>1 DEF Dispense, Served
  <2>3. drink_count \in 1..MachineCapacity
    BY <1>22, <2>1 DEF Dispense, StockInv, DrinkInStock
  <2>4. /\ coins_count = DrinkPrice * (MachineCapacity - drink_count)
        /\ inserted_coins_count = DrinkPrice
    BY <1>22, <2>3 DEF Dispense, StockInv, CoinsMatchDrinks
  <2>5. coins_count' = coins_count + DrinkPrice
    BY <1>22, <2>3, <2>4, TillStep DEF Dispense
  <2>6. drink_count > 0 /\ drink_count' = drink_count - 1
    BY <1>22, <2>3 DEF Dispense, Decrement
  <2>7. Service!Sell
    BY <1>22, <2>1, <2>2, <2>5, <2>6 DEF Dispense, Service!Sell
  <2> QED
    BY <2>7 DEF Service!Next, ServiceStep
<1>23. CASE UNCHANGED vars
  BY <1>23 DEF vars, ServiceStep, Served, Service!vars
<1> QED
  BY <1>1, <1>2, <1>3, <1>4, <1>5, <1>6, <1>7, <1>8, <1>9, <1>10, <1>11, <1>12,
     <1>13, <1>14, <1>15, <1>16, <1>17, <1>18, <1>19, <1>20, <1>21, <1>22, <1>23
  DEF Next, Step, StudentStep, SupplierStep, MachineStep, MainStep, Terminated

\* Every behaviour of the threads is a behaviour of the abstract service.
THEOREM DrinksServed == ASSUME SoundConfig PROVE Spec => ImplementsService
<1>1. TypeOK /\ OneTransaction /\ RefillInv /\ StockInv /\ [Next]_vars
        => [Service!Next]_(Service!vars)
  BY NextService DEF ServiceStep
<1>2. TypeOK /\ OneTransaction /\ RefillInv /\ StockInv /\ [Next]_vars => StockInv'
  BY NextStockInv
<1> QED
  BY <1>1, <1>2, InitService, InitStockInv, TypeCorrect, TransactionsAlternate,
     RefillsOrderly, PTL
  DEF Spec, ImplementsService, Service!Spec

=============================================================================
