----------------------------- MODULE DrinkService -----------------------------
(***************************************************************************)
(* What the vending machine promises its students, without threads, locks  *)
(* or notifications: customers use the machine one at a time, each gets    *)
(* exactly one drink for the price, an empty machine is filled to capacity *)
(* (and its till emptied) only while a customer waits for it.              *)
(***************************************************************************)
EXTENDS Integers

CONSTANTS Students, NoThread, MachineCapacity, DrinkPrice

VARIABLES
  customer,   \* the student using the machine, or NoThread
  served,     \* the students who have got their drink
  stock,      \* drinks in the machine
  till        \* coins in the machine's till

vars == <<customer, served, stock, till>>

Init ==
  /\ customer = NoThread
  /\ served = {}
  /\ stock = 0
  /\ till = 0

Arrive(s) ==
  /\ customer = NoThread
  /\ s \notin served
  /\ customer' = s
  /\ UNCHANGED <<served, stock, till>>

Restock ==
  /\ customer # NoThread
  /\ customer \notin served
  /\ stock = 0
  /\ stock' = MachineCapacity
  /\ till' = 0
  /\ UNCHANGED <<customer, served>>

Sell ==
  /\ customer # NoThread
  /\ customer \notin served
  /\ stock > 0
  /\ stock' = stock - 1
  /\ till' = till + DrinkPrice
  /\ served' = served \union {customer}
  /\ UNCHANGED customer

Leave ==
  /\ customer \in served
  /\ customer' = NoThread
  /\ UNCHANGED <<served, stock, till>>

Next == (\E s \in Students : Arrive(s)) \/ Restock \/ Sell \/ Leave

Spec == Init /\ [][Next]_vars

\* As long as a student can be served, service goes on.
FairSpec == Spec /\ WF_vars(Next)
=============================================================================
