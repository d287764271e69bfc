----------------------------- MODULE EnergyDrinks -----------------------------
(***************************************************************************)
(* The vending-machine simulation of energy-drinks/: a set of student      *)
(* threads, one supplier thread and one machine thread share a             *)
(* dispensing_machine struct guarded by its mutex m; students queue for    *)
(* the machine on the mutex use_machine; three condition variables carry   *)
(* the notifications.  run() starts and joins the threads.                 *)
(*                                                                         *)
(* A step of this specification is one critical section (lock to unlock    *)
(* or to pthread_cond_wait), or an access to state that no mutex guards.   *)
(* Acquiring a mutex is a step of its own.                                 *)
(***************************************************************************)
EXTENDS Integers, FiniteSets

CONSTANTS
  Students,           \* the student threads; config.student_count is their number
  Supplier, Machine,  \* the two service threads
  Main,               \* the thread that executes run()
  NoThread,           \* "nobody", the owner of a free mutex
  MachineCapacity,    \* config.machine_capacity
  DrinkPrice,         \* config.drink_price
  ULONG_MAX,          \* the largest unsigned long, scaled down for TLC
  EarlyTimeouts,      \* may a timed wait expire while students are still about?
  MayFail             \* threads whose pthread_create may return EAGAIN

Services == {Supplier, Machine}
Threads == Students \union Services \union {Main}

ASSUME ConfigAssumption ==
  /\ IsFiniteSet(Students)
  /\ Supplier # Machine /\ Supplier # Main /\ Machine # Main
  /\ Students \intersect {Supplier, Machine, Main} = {}
  /\ NoThread \notin Threads
  /\ ULONG_MAX \in Nat
  /\ MachineCapacity \in 0..ULONG_MAX
  /\ DrinkPrice \in 0..ULONG_MAX
  /\ EarlyTimeouts \in BOOLEAN
  /\ MayFail \subseteq Students \union Services

VARIABLES
  pc,                   \* where each thread is
  m,                    \* owner of dispensing_machine.m
  use_machine,          \* owner of the mutex use_machine
  notify_student,       \* threads asleep on each condition variable
  notify_supplier,
  notify_machine,
  timed_out,            \* services whose last pthread_cond_timedwait gave ETIMEDOUT
  drink_count,          \* the fields of dispensing_machine
  coins_count,
  inserted_coins_count,
  refill_status,
  drink_status,
  student_args_index,   \* student_args.index, written by run(), read by students
  student_index         \* each student thread's local copy of it

machine_state == <<drink_count, coins_count, inserted_coins_count,
                   refill_status, drink_status>>
cond_vars == <<notify_student, notify_supplier, notify_machine, timed_out>>
index_vars == <<student_args_index, student_index>>
vars == <<pc, m, use_machine, cond_vars, machine_state, index_vars>>

-----------------------------------------------------------------------------
(* Labels of the code.  A section is entered with m locked.                *)

StudentSections == {"check_stock", "request_refill", "await_refill",
                    "buy_drink", "await_drink"}
Sections == StudentSections \union {"create_students", "supply", "vend"}
StudentLabels == StudentSections \union
  {"none", "missing", "start", "enter_machine", "leave_machine", "done"}
ServiceLabels == {"none", "missing", "supply", "vend", "done"}
MainLabels == {"create_students", "create_machine", "unlock",
               "join_students", "join_services", "done", "crashed"}

\* A thread that will take no further step.
Gone(t) == pc[t] \in {"done", "missing"}

Sleepers == notify_student \union notify_supplier \union notify_machine

(* unsigned long arithmetic wraps modulo ULONG_MAX + 1.                    *)
Plus(x, y) == IF x + y > ULONG_MAX THEN x + y - (ULONG_MAX + 1) ELSE x + y
Unchanged(x) == x   \* a slip in Decrement
Decrement(x) == IF x = 0 THEN ULONG_MAX ELSE x - 1

\* A slip in Signal: pthread_cond_signal left out.
SignalNobody(sleepers) == {sleepers}

(* pthread_cond_signal: the possible wait sets after it.  It wakes one     *)
(* sleeper if there is one and is lost otherwise.                          *)
Signal(sleepers) ==
  IF sleepers = {} THEN {sleepers} ELSE {sleepers \ {t} : t \in sleepers}

Goto(t, label) == pc' = [pc EXCEPT ![t] = label]

Init ==
  /\ pc = [t \in Threads |-> IF t = Main THEN "create_students" ELSE "none"]
  /\ m = NoThread
  /\ use_machine = NoThread
  /\ notify_student = {} /\ notify_supplier = {} /\ notify_machine = {}
  /\ timed_out = {}
  /\ drink_count = 0 /\ coins_count = 0 /\ inserted_coins_count = 0
  /\ refill_status = "NOT_EMPTY"
  /\ drink_status = "RECEIVED"
  /\ student_args_index = 0
  /\ student_index = [s \in Students |-> -1]

-----------------------------------------------------------------------------
(* Slips a maintainer could make: substituted for the definition it is     *)
(* named after, each makes a property fail.                                *)

\* StudentSleeps: waits on the machine's condition variable.
StudentSleepsElsewhere(s) ==
  /\ m = s
  /\ \/ pc[s] = "await_refill" /\ refill_status # "REFILLED"
     \/ pc[s] = "await_drink" /\ drink_status # "DISPENSED"
  /\ notify_machine' = notify_machine \union {s}
  /\ m' = NoThread
  /\ UNCHANGED <<pc, use_machine, notify_student, notify_supplier, timed_out,
                 machine_state, index_vars>>

\* MachineFree, InStock, DrinkReady, RefillAsked: a guard that lets too much
\* through.
AlwaysFree == TRUE
InStockOrNot == drink_count >= 0
DrinkOnItsWay == drink_status # "RECEIVED"
NotRefilled == refill_status # "REFILLED"

\* LeaveMachine: use_machine stays locked.
LeaveLocked(s) ==
  /\ pc[s] = "leave_machine"
  /\ Goto(s, "done")
  /\ UNCHANGED <<m, use_machine, cond_vars, machine_state, index_vars>>

\* Timeout: ETIMEDOUT is not passed on, so the wait starts again.
TimeoutForgotten(t) ==
  /\ t \in Services \intersect Sleepers
  /\ EarlyTimeouts \/ \A s \in Students : Gone(s)
  /\ notify_supplier' = notify_supplier \ {t}
  /\ notify_machine' = notify_machine \ {t}
  /\ UNCHANGED <<pc, m, use_machine, notify_student, timed_out, machine_state,
                 index_vars>>

-----------------------------------------------------------------------------
(* The conditions the threads test.                                        *)

MachineFree == use_machine = NoThread
InStock == drink_count > 0
RefillAsked == refill_status = "WAITING_FOR_REFILL"
RefillDone == refill_status = "REFILLED"
DrinkAsked == drink_status = "WAITING_FOR_DRINK"
DrinkReady == drink_status = "DISPENSED"

-----------------------------------------------------------------------------
(* Mutex m and the condition variables.                                    *)

\* pthread_mutex_lock at the head of a section, and the lock that
\* pthread_cond_wait takes again before it returns.
Lock(t) ==
  /\ pc[t] \in Sections
  /\ t \notin Sleepers
  /\ m = NoThread
  /\ m' = t
  /\ UNCHANGED <<pc, use_machine, cond_vars, machine_state, index_vars>>

\* A wait may return though nobody signalled.
SpuriousWakeup(t) ==
  /\ t \in Sleepers
  /\ notify_student' = notify_student \ {t}
  /\ notify_supplier' = notify_supplier \ {t}
  /\ notify_machine' = notify_machine \ {t}
  /\ UNCHANGED <<pc, m, use_machine, timed_out, machine_state, index_vars>>

\* The ten seconds of a timed wait run out: the service is no longer asleep,
\* but still has to get the mutex back before it sees ETIMEDOUT.
Timeout(t) ==
  /\ t \in Services \intersect Sleepers
  /\ EarlyTimeouts \/ \A s \in Students : Gone(s)
  /\ notify_supplier' = notify_supplier \ {t}
  /\ notify_machine' = notify_machine \ {t}
  /\ timed_out' = timed_out \union {t}
  /\ UNCHANGED <<pc, m, use_machine, notify_student, machine_state, index_vars>>

-----------------------------------------------------------------------------
(* run(): create the threads with m held, release it, join.                *)

\* SAFE_RUN_THREAD looks for EINVAL only, so a creation that failed with
\* EAGAIN goes unnoticed and the thread is missing.
Outcomes(t, entry) == {entry} \union (IF t \in MayFail THEN {"missing"} ELSE {})

CreateStudent(s) ==
  /\ m = Main
  /\ pc[Main] = "create_students"
  /\ pc[s] = "none"
  /\ student_args_index' = Cardinality({x \in Students : pc[x] # "none"})
  /\ \E label \in Outcomes(s, "start") : Goto(s, label)
  /\ UNCHANGED <<m, use_machine, cond_vars, machine_state, student_index>>

CreateSupplier ==
  /\ m = Main
  /\ pc[Main] = "create_students"
  /\ \A s \in Students : pc[s] # "none"
  /\ \E label \in Outcomes(Supplier, "supply") :
       pc' = [pc EXCEPT ![Supplier] = label, ![Main] = "create_machine"]
  /\ UNCHANGED <<m, use_machine, cond_vars, machine_state, index_vars>>

CreateMachine ==
  /\ m = Main
  /\ pc[Main] = "create_machine"
  /\ \E label \in Outcomes(Machine, "vend") :
       pc' = [pc EXCEPT ![Machine] = label, ![Main] = "unlock"]
  /\ UNCHANGED <<m, use_machine, cond_vars, machine_state, index_vars>>

ReleaseThreads ==
  /\ m = Main
  /\ pc[Main] = "unlock"
  /\ m' = NoThread
  /\ Goto(Main, "join_students")
  /\ UNCHANGED <<use_machine, cond_vars, machine_state, index_vars>>

Join(joined, next) ==
  /\ \A t \in joined : Gone(t)
  /\ Goto(Main, next)
  /\ UNCHANGED <<m, use_machine, cond_vars, machine_state, index_vars>>

JoinStudents == pc[Main] = "join_students" /\ Join(Students, "join_services")
JoinServices == pc[Main] = "join_services" /\ Join(Services, "done")

\* Joining a thread that was never created reads an indeterminate pthread_t:
\* the call may fail at once, or bring the process down.  Which student is
\* next to be joined is left open; the supplier is joined before the machine.
JoinMissing ==
  /\ \/ pc[Main] = "join_students" /\ \E s \in Students : pc[s] = "missing"
     \/ pc[Main] = "join_services" /\ pc[Supplier] = "missing"
     \/ pc[Main] = "join_services" /\ Gone(Supplier) /\ pc[Machine] = "missing"
  /\ Goto(Main, "crashed")
  /\ UNCHANGED <<m, use_machine, cond_vars, machine_state, index_vars>>

-----------------------------------------------------------------------------
(* student().                                                              *)

\* student_args is read with no mutex held, whenever the thread gets going.
ReadIndex(s) ==
  /\ pc[s] = "start"
  /\ student_index' = [student_index EXCEPT ![s] = student_args_index]
  /\ Goto(s, "enter_machine")
  /\ UNCHANGED <<m, use_machine, cond_vars, machine_state, student_args_index>>

EnterMachine(s) ==
  /\ pc[s] = "enter_machine"
  /\ MachineFree
  /\ use_machine' = s
  /\ Goto(s, "check_stock")
  /\ UNCHANGED <<m, cond_vars, machine_state, index_vars>>

CheckStock(s) ==
  /\ m = s /\ pc[s] = "check_stock"
  /\ Goto(s, IF InStock THEN "buy_drink" ELSE "request_refill")
  /\ m' = NoThread
  /\ UNCHANGED <<use_machine, cond_vars, machine_state, index_vars>>

RequestRefill(s) ==
  /\ m = s /\ pc[s] = "request_refill"
  /\ refill_status' = "WAITING_FOR_REFILL"
  /\ notify_supplier' \in Signal(notify_supplier)
  /\ Goto(s, "await_refill")
  /\ m' = NoThread
  /\ UNCHANGED <<use_machine, notify_student, notify_machine, timed_out,
                 drink_count, coins_count, inserted_coins_count, drink_status,
                 index_vars>>

\* pthread_cond_wait(&notify_student, ...), in either of the two wait loops.
StudentSleeps(s) ==
  /\ m = s
  /\ \/ pc[s] = "await_refill" /\ ~RefillDone
     \/ pc[s] = "await_drink" /\ ~DrinkReady
  /\ notify_student' = notify_student \union {s}
  /\ m' = NoThread
  /\ UNCHANGED <<pc, use_machine, notify_supplier, notify_machine, timed_out,
                 machine_state, index_vars>>

SeeRefilled(s) ==
  /\ m = s /\ pc[s] = "await_refill"
  /\ RefillDone
  /\ refill_status' = "NOT_EMPTY"
  /\ Goto(s, "buy_drink")
  /\ m' = NoThread
  /\ UNCHANGED <<use_machine, cond_vars, drink_count, coins_count,
                 inserted_coins_count, drink_status, index_vars>>

\* The loop inserts the price one coin at a time, all of it under m.
InsertCoins(s) ==
  /\ m = s /\ pc[s] = "buy_drink"
  /\ inserted_coins_count' = Plus(inserted_coins_count, DrinkPrice)
  /\ drink_status' = "WAITING_FOR_DRINK"
  /\ notify_machine' \in Signal(notify_machine)
  /\ Goto(s, "await_drink")
  /\ m' = NoThread
  /\ UNCHANGED <<use_machine, notify_student, notify_supplier, timed_out,
                 drink_count, coins_count, refill_status, index_vars>>

PickUpDrink(s) ==
  /\ m = s /\ pc[s] = "await_drink"
  /\ DrinkReady
  /\ drink_status' = "RECEIVED"
  /\ Goto(s, "leave_machine")
  /\ m' = NoThread
  /\ UNCHANGED <<use_machine, cond_vars, drink_count, coins_count,
                 inserted_coins_count, refill_status, index_vars>>

LeaveMachine(s) ==
  /\ pc[s] = "leave_machine"
  /\ use_machine' = NoThread
  /\ Goto(s, "done")
  /\ UNCHANGED <<m, cond_vars, machine_state, index_vars>>

-----------------------------------------------------------------------------
(* supplier() and machine().                                               *)

\* A timed wait that expired ends the thread, whatever the status says now.
Abort(t) ==
  /\ m = t /\ t \in timed_out
  /\ Goto(t, "done")
  /\ m' = NoThread
  /\ UNCHANGED <<use_machine, cond_vars, machine_state, index_vars>>

SupplierSleeps ==
  /\ m = Supplier /\ Supplier \notin timed_out
  /\ ~RefillAsked
  /\ notify_supplier' = notify_supplier \union {Supplier}
  /\ m' = NoThread
  /\ UNCHANGED <<pc, use_machine, notify_student, notify_machine, timed_out,
                 machine_state, index_vars>>

Refill ==
  /\ m = Supplier /\ Supplier \notin timed_out
  /\ RefillAsked
  /\ drink_count' = MachineCapacity
  /\ coins_count' = 0
  /\ refill_status' = "REFILLED"
  /\ notify_student' \in Signal(notify_student)
  /\ m' = NoThread
  /\ UNCHANGED <<pc, use_machine, notify_supplier, notify_machine, timed_out,
                 inserted_coins_count, drink_status, index_vars>>

MachineSleeps ==
  /\ m = Machine /\ Machine \notin timed_out
  /\ ~DrinkAsked
  /\ notify_machine' = notify_machine \union {Machine}
  /\ m' = NoThread
  /\ UNCHANGED <<pc, use_machine, notify_student, notify_supplier, timed_out,
                 machine_state, index_vars>>

\* Too few coins are only logged: the drink is dispensed all the same.
Dispense ==
  /\ m = Machine /\ Machine \notin timed_out
  /\ DrinkAsked
  /\ coins_count' = Plus(coins_count, inserted_coins_count)
  /\ inserted_coins_count' = 0
  /\ drink_count' = Decrement(drink_count)
  /\ drink_status' = "DISPENSED"
  /\ notify_student' \in Signal(notify_student)
  /\ m' = NoThread
  /\ UNCHANGED <<pc, use_machine, notify_supplier, notify_machine, timed_out,
                 refill_status, index_vars>>

-----------------------------------------------------------------------------
StudentStep(s) ==
  \/ ReadIndex(s) \/ EnterMachine(s) \/ CheckStock(s) \/ RequestRefill(s)
  \/ StudentSleeps(s) \/ SeeRefilled(s) \/ InsertCoins(s) \/ PickUpDrink(s)
  \/ LeaveMachine(s)

SupplierStep == Abort(Supplier) \/ SupplierSleeps \/ Refill
MachineStep == Abort(Machine) \/ MachineSleeps \/ Dispense

MainStep ==
  \/ \E s \in Students : CreateStudent(s)
  \/ CreateSupplier \/ CreateMachine \/ ReleaseThreads
  \/ JoinStudents \/ JoinServices

Step ==
  \/ \E t \in Threads : Lock(t) \/ SpuriousWakeup(t)
  \/ \E t \in Services : Timeout(t)
  \/ \E s \in Students : StudentStep(s)
  \/ SupplierStep \/ MachineStep \/ MainStep \/ JoinMissing

\* run() has returned and the process is over.
Terminated == pc[Main] = "done" /\ UNCHANGED vars

Running == pc[Main] # "crashed"

Next == (Running /\ Step) \/ Terminated

Spec == Init /\ [][Next]_vars

(* Every thread keeps running.  m is fought over by threads that may wake  *)
(* spuriously again and again, so getting it needs strong fairness; so     *)
(* does a timed wait, which a spurious wakeup starts anew.  That a wait    *)
(* expires is assumed only once the students are gone: before, it may.     *)
(* Nothing obliges an indeterminate pthread_t to bring the process down.   *)
Fairness ==
  /\ WF_vars(Running /\ MainStep)
  /\ WF_vars(Running /\ SupplierStep)
  /\ WF_vars(Running /\ MachineStep)
  /\ \A s \in Students : WF_vars(Running /\ StudentStep(s))
  /\ \A t \in Threads : SF_vars(Running /\ Lock(t))
  /\ \A t \in Services :
       SF_vars(Running /\ Timeout(t) /\ \A s \in Students : Gone(s))

FairSpec == Spec /\ Fairness

-----------------------------------------------------------------------------
(* Properties.                                                             *)

\* The values every variable may take: labels per kind of thread, owners and
\* sleepers that fit the code's waits, counters within an unsigned long.
TypeOK ==
  /\ pc \in [Threads -> StudentLabels \union ServiceLabels \union MainLabels]
  /\ \A s \in Students : pc[s] \in StudentLabels
  /\ pc[Supplier] \in ServiceLabels \ {"vend"}
  /\ pc[Machine] \in ServiceLabels \ {"supply"}
  /\ pc[Main] \in MainLabels
  /\ m \in Threads \union {NoThread}
  /\ use_machine \in Students \union {NoThread}
  /\ notify_student \subseteq Students
  /\ notify_supplier \subseteq {Supplier}
  /\ notify_machine \subseteq {Machine}
  /\ timed_out \subseteq Services
  /\ drink_count \in 0..ULONG_MAX
  /\ coins_count \in 0..ULONG_MAX
  /\ inserted_coins_count \in 0..ULONG_MAX
  /\ refill_status \in {"NOT_EMPTY", "WAITING_FOR_REFILL", "REFILLED"}
  /\ drink_status \in {"RECEIVED", "WAITING_FOR_DRINK", "DISPENSED"}
  /\ student_args_index \in Nat
  /\ student_index \in [Students -> Nat \union {-1}]

AtMachine == StudentSections \union {"leave_machine"}

\* One transaction at a time: the two status fields are always those of the
\* phase the student holding use_machine is in, and idle when nobody holds it.
\* Nobody else's request, refill, coins or drink can get in between.
OneTransaction ==
  /\ \A s \in Students : pc[s] \in AtMachine <=> use_machine = s
  /\ \/ refill_status = "NOT_EMPTY" /\ drink_status = "RECEIVED"
     \/ /\ use_machine # NoThread
        /\ \/ /\ pc[use_machine] = "await_refill"
              /\ refill_status # "NOT_EMPTY" /\ drink_status = "RECEIVED"
           \/ /\ pc[use_machine] = "await_drink"
              /\ refill_status = "NOT_EMPTY" /\ drink_status # "RECEIVED"
  /\ use_machine # NoThread =>
       /\ pc[use_machine] = "await_refill" => refill_status # "NOT_EMPTY"
       /\ pc[use_machine] = "await_drink" => drink_status # "RECEIVED"

\* No lost wakeup: a thread asleep on a condition variable sleeps because the
\* condition it waits for is false; each assignment that makes it true
\* signals before m is released, and the one signal on notify_student reaches
\* the one student its two wait loops can hold.
NoLostWakeup ==
  /\ \A s \in notify_student :
       /\ pc[s] = "await_refill" => refill_status # "REFILLED"
       /\ pc[s] = "await_drink" => drink_status # "DISPENSED"
  /\ notify_supplier # {} => refill_status # "WAITING_FOR_REFILL"
  /\ notify_machine # {} => drink_status # "WAITING_FOR_DRINK"

\* The stock that CheckStock saw, or a refill brought, is still there when the
\* machine comes to dispense, though m was released in between: drink_count
\* never goes below zero.
DrinkInStock ==
  \A s \in Students :
    \/ pc[s] = "buy_drink"
    \/ pc[s] = "await_drink" /\ drink_status = "WAITING_FOR_DRINK"
    => drink_count \in 1..MachineCapacity

\* Every coin is accounted for: the slot holds one price exactly while a
\* student waits for her drink, and the till holds one price per drink sold
\* since the last refill.
CoinsMatchDrinks ==
  /\ inserted_coins_count =
       IF drink_status = "WAITING_FOR_DRINK" THEN DrinkPrice ELSE 0
  /\ \/ coins_count = 0 /\ drink_count = 0
     \/ /\ drink_count \in 0..MachineCapacity
        /\ coins_count = DrinkPrice * (MachineCapacity - drink_count)

\* The supplier fills the machine only when it is empty, however often it
\* wakes up and whatever it finds in refill_status.
RefillOnlyWhenEmpty ==
  [][drink_count' > drink_count => drink_count = 0]_drink_count

(* The abstract service these threads implement.  A student has been       *)
(* served once the machine dispensed her drink.                            *)
Served == {s \in Students :
             \/ pc[s] \in {"leave_machine", "done"}
             \/ pc[s] = "await_drink" /\ drink_status = "DISPENSED"}

Service == INSTANCE DrinkService
             WITH customer <- use_machine, served <- Served,
                  stock <- drink_count, till <- coins_count

\* Every run of the threads is a run of the abstract service: the student who
\* inserted the coins gets the drink, one drink each, one price per drink.
ImplementsService == Service!Spec

\* With services that do not give up early, the service also goes on until
\* every student has been served.
ImplementsFairService == Service!FairSpec

\* run() joins every thread and returns.
RunReturns == <>(pc[Main] = "done")

\* A student thread that was started gets its drink, unless a service thread
\* was never created or has given up, or joining a missing thread brought the
\* process down: the threads cannot block each other in any other way.
ServedUnlessAbandoned ==
  \A s \in Students :
    pc[s] = "start" ~> \/ pc[s] = "done"
                       \/ Gone(Supplier) \/ Gone(Machine)
                       \/ pc[Main] = "crashed"

\* "[drinks/capacity drinks": the machine holds at most its capacity, if that is
\* not zero.
WithinCapacity == drink_count <= MachineCapacity

(* What the program says of itself and does not keep.                      *)

\* "supplier hasn't received a request", "machine hasn't received a request":
\* a service that logs this and ends has no request pending.
AbortMeansNoRequest ==
  [][/\ pc[Supplier] = "supply" /\ pc'[Supplier] = "done"
          => refill_status # "WAITING_FOR_REFILL"
     /\ pc[Machine] = "vend" /\ pc'[Machine] = "done"
          => drink_status # "WAITING_FOR_DRINK"]_pc

=============================================================================
