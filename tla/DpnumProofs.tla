----------------------------- MODULE DpnumProofs ------------------------------
(* Proofs about dpnum for every word size, every length of the buffers and *)
(* every range and number of threads.                                      *)
EXTENDS Dpnum, RecursionLemmas

Ulongs == 0..ULONG_MAX

\* An unsigned long expression has a value that fits, and one that fits is kept.
LEMMA UlongFits ==
  /\ ULONG_MAX \in Nat
  /\ \A x \in Int : Ulong(x) \in Ulongs
  /\ \A x \in Ulongs : Ulong(x) = x
<1>1. PICK m : m = ULONG_MAX
  OBVIOUS
<1>2. m \in Nat
  BY <1>1, DpnumAssumption
<1>3. \A x \in Int : x % (m + 1) \in 0..m
  BY <1>2
<1>4. \A x \in 0..m : x % (m + 1) = x
  BY <1>2
<1> QED
  BY <1>1, <1>2, <1>3, <1>4 DEF Ulong, Ulongs

-----------------------------------------------------------------------------
(* Type correctness.                                                       *)

\* The lists of the threads are as long as each other.
TypeInv ==
  /\ config \in [s : Ulongs, e : Ulongs, t : Ulongs]
  /\ phase \in {"invalid_range", "create", "thread_error", "join", "exit"}
  /\ thread_index \in Nat /\ thread_index =< config.t
  /\ args \in Seq([start : Ulongs, end : Ulongs]) /\ n \in Seq(Ulongs)
  /\ dest \in Seq(Seq(Ulongs)) /\ pc \in Seq({"search", "done"})
  /\ Len(args) = Len(pc) /\ Len(n) = Len(pc) /\ Len(dest) = Len(pc)
  /\ phase \in {"create", "thread_error"} => Len(pc) = thread_index
  /\ phase \in {"join", "exit"} => Len(pc) = config.t
  /\ \A i \in 1..Len(pc) : Len(dest[i]) < MAX_PDI_NUMBER_COUNT

\* The options are unsigned longs, the end of the range incremented.
LEMMA InitTypeInv == Init => TypeInv
<1> SUFFICES ASSUME Init PROVE TypeInv
  OBVIOUS
<1>1. PICK input \in Inputs : config = [input EXCEPT !.e = Ulong(@ + 1)]
  BY DEF Init
<1>2. input \in [s : Ulongs, e : Ulongs, t : Ulongs]
  BY DpnumAssumption DEF Ulongs
<1>3. Ulong(input.e + 1) \in Ulongs
  <2>1. input.e + 1 \in Int
    BY <1>2 DEF Ulongs
  <2> QED
    BY <2>1, UlongFits
<1>4. config \in [s : Ulongs, e : Ulongs, t : Ulongs]
  BY <1>1, <1>2, <1>3
<1>5. args = <<>> /\ n = <<>> /\ dest = <<>> /\ pc = <<>> /\ thread_index = 0
  BY DEF Init
<1>6. /\ args \in Seq([start : Ulongs, end : Ulongs]) /\ n \in Seq(Ulongs)
      /\ dest \in Seq(Seq(Ulongs)) /\ pc \in Seq({"search", "done"})
      /\ Len(args) = 0 /\ Len(n) = 0 /\ Len(dest) = 0 /\ Len(pc) = 0
  BY <1>5, EmptySeq
<1>7. phase \in {"invalid_range", "create"}
  BY DEF Init
<1>8. thread_index \in Nat /\ thread_index =< config.t
  BY <1>4, <1>5 DEF Ulongs
<1> QED
  BY <1>4, <1>5, <1>6, <1>7, <1>8 DEF TypeInv

\* A thread more: every list is longer by one, and is in its other elements as before.
LEMMA RunThreadEffect ==
  ASSUME TypeInv, run_thread
  PROVE  LET k == Len(pc) + 1 IN
         /\ args' \in Seq([start : Ulongs, end : Ulongs]) /\ n' \in Seq(Ulongs)
         /\ dest' \in Seq(Seq(Ulongs)) /\ pc' \in Seq({"search", "done"})
         /\ Len(args') = k /\ Len(n') = k /\ Len(dest') = k /\ Len(pc') = k
         /\ Len(pc) \in Nat /\ thread_index = Len(pc) /\ thread_index < config.t
         /\ \A i \in 1..Len(pc) :
              args'[i] = args[i] /\ n'[i] = n[i] /\ dest'[i] = dest[i] /\ pc'[i] = pc[i]
         /\ args'[k] = [start |-> PartStart(thread_index),
                        end |-> Ulong(PartStart(thread_index + 1) - 1)]
         /\ n'[k] = PartStart(thread_index) /\ dest'[k] = <<>> /\ pc'[k] = "search"
<1>1. /\ config.s \in Ulongs /\ config.e \in Ulongs /\ config.t \in Ulongs
      /\ thread_index \in Nat /\ thread_index < config.t /\ thread_index = Len(pc)
      /\ ULONG_MAX \in Nat
  BY UlongFits DEF TypeInv, run_thread
<1>2. \A i \in Nat : PartStart(i) \in Ulongs
  <2>1. SUFFICES ASSUME NEW i \in Nat PROVE PartStart(i) \in Ulongs
    OBVIOUS
  <2>2. Ulong(config.e - config.s) \in Int
    BY <1>1, UlongFits DEF Ulongs
  <2>3. Ulong(Ulong(config.e - config.s) * i) \in Nat
    <3>1. Ulong(config.e - config.s) * i \in Int
      BY <2>2
    <3> QED
      BY <3>1, UlongFits DEF Ulongs
  <2>4. config.s \in Nat /\ config.t \in Nat /\ config.t > 0
    BY <1>1 DEF Ulongs
  <2>5. config.s + Ulong(Ulong(config.e - config.s) * i) \div config.t \in Int
    BY <2>3, <2>4
  <2> QED
    BY <2>5, UlongFits DEF PartStart
<1>3. PICK a : a = [start |-> PartStart(thread_index),
                    end |-> Ulong(PartStart(thread_index + 1) - 1)]
  OBVIOUS
<1>4. a \in [start : Ulongs, end : Ulongs] /\ PartStart(thread_index) \in Ulongs
  <2>1. thread_index + 1 \in Nat
    BY <1>1
  <2>2. PartStart(thread_index) \in Ulongs /\ PartStart(thread_index + 1) - 1 \in Int
    BY <1>1, <1>2, <2>1 DEF Ulongs
  <2> QED
    BY <1>3, <2>2, UlongFits
<1>5. /\ args' = Append(args, a) /\ n' = Append(n, PartStart(thread_index))
      /\ dest' = Append(dest, <<>>) /\ pc' = Append(pc, "search")
  BY <1>3 DEF run_thread
<1>6. /\ args \in Seq([start : Ulongs, end : Ulongs]) /\ n \in Seq(Ulongs)
      /\ dest \in Seq(Seq(Ulongs)) /\ pc \in Seq({"search", "done"})
      /\ Len(args) = Len(pc) /\ Len(n) = Len(pc) /\ Len(dest) = Len(pc)
      /\ <<>> \in Seq(Ulongs) /\ "search" \in {"search", "done"}
  BY EmptySeq DEF TypeInv
<1>7. /\ args' \in Seq([start : Ulongs, end : Ulongs]) /\ Len(args') = Len(pc) + 1
      /\ \A i \in 1..Len(pc) : args'[i] = args[i]
      /\ args'[Len(pc) + 1] = a
  BY <1>4, <1>5, <1>6, AppendProperties
<1>8. /\ n' \in Seq(Ulongs) /\ Len(n') = Len(pc) + 1
      /\ \A i \in 1..Len(pc) : n'[i] = n[i]
      /\ n'[Len(pc) + 1] = PartStart(thread_index)
  BY <1>4, <1>5, <1>6, AppendProperties
<1>9. /\ dest' \in Seq(Seq(Ulongs)) /\ Len(dest') = Len(pc) + 1
      /\ \A i \in 1..Len(pc) : dest'[i] = dest[i]
      /\ dest'[Len(pc) + 1] = <<>>
  BY <1>5, <1>6, AppendProperties
<1>10. /\ pc' \in Seq({"search", "done"}) /\ Len(pc') = Len(pc) + 1
       /\ \A i \in 1..Len(pc) : pc'[i] = pc[i]
       /\ pc'[Len(pc) + 1] = "search"
  BY <1>5, <1>6, AppendProperties
<1> QED
  BY <1>1, <1>3, <1>7, <1>8, <1>9, <1>10

\* One number is looked at: the thread passes it, and has it in its buffer if it is one.
LEMMA CheckNextEffect ==
  ASSUME TypeInv, NEW i \in DOMAIN pc, CheckNext(i)
  PROVE  /\ i \in 1..Len(pc) /\ Len(pc) \in Nat
         /\ n[i] \in Ulongs /\ n[i] =< args[i].end
         /\ n' \in Seq(Ulongs) /\ Len(n') = Len(n)
         /\ n'[i] = Ulong(n[i] + 1) /\ \A j \in 1..Len(pc) : j # i => n'[j] = n[j]
         /\ dest' \in Seq(Seq(Ulongs)) /\ Len(dest') = Len(dest)
         /\ \A j \in 1..Len(pc) : j # i => dest'[j] = dest[j]
         /\ dest'[i] = IF check(n[i]) THEN Append(dest[i], n[i]) ELSE dest[i]
         /\ dest[i] \in Seq(Ulongs) /\ Len(dest[i]) < MAX_PDI_NUMBER_COUNT - 1
<1>1. /\ n \in Seq(Ulongs) /\ dest \in Seq(Seq(Ulongs)) /\ pc \in Seq({"search", "done"})
      /\ Len(n) = Len(pc) /\ Len(dest) = Len(pc)
  BY DEF TypeInv
<1>2. i \in 1..Len(pc) /\ Len(pc) \in Nat
  BY <1>1, LenProperties
<1>3. n[i] \in Ulongs /\ dest[i] \in Seq(Ulongs)
  BY <1>1, <1>2, ElementOfSeq
<1>4. Ulong(n[i] + 1) \in Ulongs
  <2>1. n[i] + 1 \in Int
    BY <1>3, UlongFits DEF Ulongs
  <2> QED
    BY <2>1, UlongFits
<1>5. PICK d : d = IF check(n[i]) THEN Append(dest[i], n[i]) ELSE dest[i]
  OBVIOUS
<1>6. d \in Seq(Ulongs)
  BY <1>3, <1>5, AppendProperties
<1>7. n' = [n EXCEPT ![i] = Ulong(n[i] + 1)] /\ dest' = [dest EXCEPT ![i] = d]
  BY <1>5 DEF CheckNext
<1>8. /\ n' \in Seq(Ulongs) /\ Len(n') = Len(n)
      /\ \A j \in 1..Len(pc) : n'[j] = IF j = i THEN Ulong(n[i] + 1) ELSE n[j]
  BY <1>1, <1>2, <1>4, <1>7, ExceptSeq
<1>9. /\ dest' \in Seq(Seq(Ulongs)) /\ Len(dest') = Len(dest)
      /\ \A j \in 1..Len(pc) : dest'[j] = IF j = i THEN d ELSE dest[j]
  BY <1>1, <1>2, <1>6, <1>7, ExceptSeq
<1>10. n[i] =< args[i].end /\ Len(dest[i]) < MAX_PDI_NUMBER_COUNT - 1
  BY DEF CheckNext, Searching
<1> QED
  BY <1>2, <1>3, <1>5, <1>8, <1>9, <1>10

\* Every step keeps it.
LEMMA NextTypeInv == TypeInv /\ [Next]_vars => TypeInv'
<1> SUFFICES ASSUME TypeInv, [Next]_vars PROVE TypeInv'
  OBVIOUS
<1>len. Len(pc) \in Nat /\ DOMAIN pc = 1..Len(pc)
  BY LenProperties DEF TypeInv
<1>max. MAX_PDI_NUMBER_COUNT \in Nat /\ MAX_PDI_NUMBER_COUNT > 0
  BY DpnumAssumption
<1>1. CASE run_thread
  <2>1. /\ args' \in Seq([start : Ulongs, end : Ulongs]) /\ n' \in Seq(Ulongs)
        /\ dest' \in Seq(Seq(Ulongs)) /\ pc' \in Seq({"search", "done"})
        /\ Len(args') = Len(pc) + 1 /\ Len(n') = Len(pc) + 1 /\ Len(dest') = Len(pc) + 1
        /\ Len(pc') = Len(pc) + 1
    BY <1>1, RunThreadEffect
  <2>2. /\ config' = config /\ phase' = "create" /\ thread_index' = thread_index + 1
        /\ thread_index < config.t /\ thread_index = Len(pc)
    BY <1>1 DEF run_thread, TypeInv
  <2>3. thread_index' \in Nat /\ thread_index' =< config'.t
    BY <2>2 DEF TypeInv, Ulongs
  <2>4. \A i \in 1..Len(pc') : Len(dest'[i]) < MAX_PDI_NUMBER_COUNT
    <3>1. SUFFICES ASSUME NEW i \in 1..Len(pc') PROVE Len(dest'[i]) < MAX_PDI_NUMBER_COUNT
      OBVIOUS
    <3>2. i \in 1..Len(pc) \/ i = Len(pc) + 1
      BY <1>len, <2>1
    <3>3. /\ \A j \in 1..Len(pc) : dest'[j] = dest[j]
          /\ dest'[Len(pc) + 1] = <<>>
      BY <1>1, RunThreadEffect
    <3>4. Len(<<>>) = 0
      BY EmptySeq
    <3> QED
      BY <1>max, <3>2, <3>3, <3>4 DEF TypeInv
  <2> QED
    BY <2>1, <2>2, <2>3, <2>4 DEF TypeInv
<1>2. CASE CreationFails
  BY <1>2 DEF CreationFails, TypeInv
<1>3. CASE AllCreated
  <2>1. config.t \in Nat
    BY UlongFits DEF TypeInv, Ulongs
  <2> QED
    BY <1>3, <2>1 DEF AllCreated, TypeInv
<1>4. CASE JoinAndPrint
  <2>1. config.t \in Nat
    BY UlongFits DEF TypeInv, Ulongs
  <2> QED
    BY <1>4, <2>1 DEF JoinAndPrint, TypeInv
<1>5. CASE Exit
  BY <1>5 DEF Exit, TypeInv
<1>6. ASSUME NEW i \in DOMAIN pc, CheckNext(i) PROVE TypeInv'
  <2>1. /\ i \in 1..Len(pc)
        /\ n' \in Seq(Ulongs) /\ Len(n') = Len(n)
        /\ dest' \in Seq(Seq(Ulongs)) /\ Len(dest') = Len(dest)
    BY <1>6, CheckNextEffect
  <2>2. UNCHANGED <<config, phase, thread_index, args, pc>>
    BY <1>6 DEF CheckNext
  <2>3. Len(dest'[i]) < MAX_PDI_NUMBER_COUNT
    <3>1. /\ dest'[i] = IF check(n[i]) THEN Append(dest[i], n[i]) ELSE dest[i]
          /\ dest[i] \in Seq(Ulongs) /\ n[i] \in Ulongs
          /\ Len(dest[i]) < MAX_PDI_NUMBER_COUNT - 1
      BY <1>6, CheckNextEffect
    <3>2. Len(Append(dest[i], n[i])) = Len(dest[i]) + 1 /\ Len(dest[i]) \in Nat
      BY <3>1, AppendProperties, LenProperties
    <3>3. Len(dest'[i]) \in {Len(dest[i]), Len(dest[i]) + 1}
      BY <3>1, <3>2
    <3> QED
      BY <1>max, <3>1, <3>2, <3>3
  <2>4. \A j \in 1..Len(pc) : Len(dest'[j]) < MAX_PDI_NUMBER_COUNT
    <3>1. SUFFICES ASSUME NEW j \in 1..Len(pc) PROVE Len(dest'[j]) < MAX_PDI_NUMBER_COUNT
      OBVIOUS
    <3>2. j # i => dest'[j] = dest[j]
      BY <1>6, CheckNextEffect
    <3> QED
      BY <2>3, <3>2 DEF TypeInv
  <2> QED
    BY <2>1, <2>2, <2>4 DEF TypeInv
<1>7. ASSUME NEW i \in DOMAIN pc, FinishRange(i) PROVE TypeInv'
  <2>1. pc' = [pc EXCEPT ![i] = "done"] /\ UNCHANGED <<config, phase, thread_index, args, n, dest>>
    BY <1>7 DEF FinishRange
  <2>2. pc' \in Seq({"search", "done"}) /\ Len(pc') = Len(pc)
    BY <1>len, <2>1, ExceptSeq DEF TypeInv
  <2> QED
    BY <2>1, <2>2 DEF TypeInv
<1>8. CASE UNCHANGED vars
  BY <1>8 DEF vars, TypeInv
<1> QED
  BY <1>1, <1>2, <1>3, <1>4, <1>5, <1>6, <1>7, <1>8 DEF Next, main, check_range, Terminated

LEMMA TypeInvAlways == Spec => []TypeInv
BY InitTypeInv, NextTypeInv, PTL DEF Spec

\* Every variable always holds a value of its type: as many records, positions and
\* buffers as threads, and no buffer filled beyond its terminator.
THEOREM TypeCorrect == Spec => []TypeOK
<1>1. TypeInv => TypeOK
  <2> SUFFICES ASSUME TypeInv PROVE TypeOK
    OBVIOUS
  <2>1. config.t \in Nat /\ config \in [s : 0..ULONG_MAX, e : 0..ULONG_MAX, t : 0..ULONG_MAX]
    BY DEF TypeInv, Ulongs
  <2>2. thread_index \in 0..config.t
    BY <2>1 DEF TypeInv
  <2>3. /\ args \in [1..Len(pc) -> [start : 0..ULONG_MAX, end : 0..ULONG_MAX]]
        /\ n \in [1..Len(pc) -> 0..ULONG_MAX]
        /\ pc \in [1..Len(pc) -> {"search", "done"}]
        /\ DOMAIN dest = 1..Len(pc)
    BY LenProperties DEF TypeInv, Ulongs
  <2> QED
    BY <2>1, <2>2, <2>3 DEF TypeOK, TypeInv
<1> QED
  BY <1>1, TypeInvAlways, PTL

-----------------------------------------------------------------------------
(* The parts of the range.                                                 *)

\* What the split of the range counts on: there is a thread, the products fit an
\* unsigned long, and a range that starts at 0 has a number for every thread, for
\* otherwise the end of a part would be 0 - 1.
SplittableInputs ==
  \A input \in Inputs :
    LET s == input.s
        e == Ulong(input.e + 1)
    IN  s =< e => /\ input.t > 0
                  /\ (e - s) * input.t =< ULONG_MAX
                  /\ s = 0 => input.t =< e

\* The same of the input that main() was given.
ConfigInv ==
  phase # "invalid_range" =>
    /\ config.s =< config.e /\ config.t > 0
    /\ (config.e - config.s) * config.t =< ULONG_MAX
    /\ config.s = 0 => config.t =< config.e

\* Where part i would start without an unsigned long to compute it in.
Bound(i) == config.s + ((config.e - config.s) * i) \div config.t

\* Every thread has its part, and is in it or at its end.
PartsInv ==
  /\ phase = "invalid_range" => Len(pc) = 0
  /\ \A i \in 1..Len(pc) :
       /\ args[i] = [start |-> Bound(i - 1), end |-> Bound(i) - 1]
       /\ n[i] \in Bound(i - 1)..Bound(i)

\* Truncating division of multiples: it starts at 0, ends at the size, and never
\* goes back.
LEMMA DivisionOfMultiples ==
  ASSUME NEW size \in Nat, NEW t \in Nat, t > 0
  PROVE  /\ (size * 0) \div t = 0
         /\ (size * t) \div t = size
         /\ \A i \in 0..t : (size * i) \div t \in 0..size
         /\ \A i, j \in 0..t : i =< j => (size * i) \div t =< (size * j) \div t
<1>1. ASSUME NEW a \in Nat PROVE a \div t \in Nat /\ t * (a \div t) =< a /\ a < t * (a \div t) + t
  OBVIOUS
<1>2. ASSUME NEW a \in Nat, NEW b \in Nat, a =< b PROVE a \div t =< b \div t
  <2>1. SUFFICES ASSUME a \div t >= b \div t + 1 PROVE FALSE
    BY <1>1
  <2>2. t * (a \div t) >= t * (b \div t + 1)
    BY <1>1, <2>1
  <2>3. t * (b \div t + 1) = t * (b \div t) + t
    BY <1>1
  <2>4. t * (a \div t) =< a /\ b < t * (b \div t) + t
    BY <1>1
  <2>5. t * (a \div t) \in Nat /\ t * (b \div t) \in Nat
    BY <1>1
  <2> QED
    BY <1>2, <2>2, <2>3, <2>4, <2>5
<1>3. (size * 0) \div t = 0
  OBVIOUS
<1>4. (size * t) \div t = size
  OBVIOUS
<1>5. ASSUME NEW i \in 0..t, NEW j \in 0..t, i =< j
      PROVE  (size * i) \div t =< (size * j) \div t
  <2>1. size * i \in Nat /\ size * j \in Nat /\ size * i =< size * j
    BY <1>5
  <2> QED
    BY <1>2, <2>1
<1>6. ASSUME NEW i \in 0..t PROVE (size * i) \div t \in 0..size
  <2>1. 0 \in 0..t /\ t \in 0..t /\ 0 =< i /\ i =< t
    OBVIOUS
  <2>2. (size * i) \div t =< (size * t) \div t
    BY <1>5, <2>1
  <2>3. size * i \in Nat
    OBVIOUS
  <2> QED
    BY <1>1, <1>4, <2>2, <2>3
<1> QED
  BY <1>3, <1>4, <1>5, <1>6

\* Every number below the size lies between two successive quotients, and only once.
LEMMA QuotientsCover ==
  ASSUME NEW size \in Nat, NEW t \in Nat, t > 0, NEW x \in 0..(size - 1)
  PROVE  /\ \E i \in 1..t : (size * (i - 1)) \div t =< x /\ x < (size * i) \div t
         /\ \A i, j \in 1..t :
              /\ (size * (i - 1)) \div t =< x /\ x < (size * i) \div t
              /\ (size * (j - 1)) \div t =< x /\ x < (size * j) \div t
              => i = j
<1> DEFINE f(i) == (size * i) \div t
<1>1. PICK k : k = (t * (x + 1) - 1) \div size
  OBVIOUS
<1>2. size > 0 /\ t * (x + 1) \in Nat /\ t * (x + 1) >= 1
  OBVIOUS
<1>3. k \in Nat /\ size * k =< t * (x + 1) - 1 /\ t * (x + 1) - 1 < size * k + size
  BY <1>1, <1>2
<1>4. size * k \in Nat /\ size * (k + 1) \in Nat /\ size * (k + 1) = size * k + size
  BY <1>3
<1>5. k < t
  <2>1. t * (x + 1) =< t * size
    OBVIOUS
  <2>2. SUFFICES ASSUME k >= t PROVE FALSE
    BY <1>3
  <2>3. size * k >= size * t
    BY <1>3, <2>2
  <2> QED
    BY <1>2, <1>3, <1>4, <2>1, <2>3
<1>6. f(k) =< x
  <2>1. f(k) \in Nat /\ t * f(k) =< size * k
    BY <1>4
  <2>2. SUFFICES ASSUME f(k) >= x + 1 PROVE FALSE
    BY <2>1
  <2>3. t * f(k) >= t * (x + 1)
    BY <2>1, <2>2
  <2>4. t * f(k) \in Nat
    BY <2>1
  <2> HIDE DEF f
  <2> QED
    BY <1>2, <1>3, <1>4, <2>1, <2>3, <2>4
<1>7. x < f(k + 1)
  <2>1. f(k + 1) \in Nat /\ size * (k + 1) < t * f(k + 1) + t
    BY <1>4
  <2>2. SUFFICES ASSUME f(k + 1) =< x PROVE FALSE
    BY <2>1
  <2>3. t * f(k + 1) =< t * x
    BY <2>1, <2>2
  <2>4. t * (x + 1) = t * x + t /\ t * x \in Nat /\ t * f(k + 1) \in Nat
    BY <2>1
  <2> HIDE DEF f
  <2> QED
    BY <1>2, <1>3, <1>4, <2>1, <2>3, <2>4
<1>8. k + 1 \in 1..t /\ (k + 1) - 1 = k
  BY <1>3, <1>5
<1>9. ASSUME NEW i \in 1..t, NEW j \in 1..t, i < j,
             x < f(i), f(j - 1) =< x
      PROVE  FALSE
  <2>1. i \in 0..t /\ j - 1 \in 0..t /\ i =< j - 1
    BY <1>9
  <2>2. f(i) =< f(j - 1)
    BY <2>1, DivisionOfMultiples
  <2>3. f(i) \in 0..size /\ f(j - 1) \in 0..size
    BY <2>1, DivisionOfMultiples
  <2> HIDE DEF f
  <2> QED
    BY <1>9, <2>2, <2>3
<1>10. ASSUME NEW i \in 1..t, NEW j \in 1..t,
              f(i - 1) =< x, x < f(i), f(j - 1) =< x, x < f(j)
       PROVE  i = j
  <2>1. i \in Int /\ j \in Int
    OBVIOUS
  <2> HIDE DEF f
  <2> QED
    BY <1>9, <1>10, <2>1
<1> QED
  BY <1>6, <1>7, <1>8, <1>10

\* What the conditions on the input give: part i starts where it would without
\* overflow, in the range or at its end, and the parts are in their order.
LEMMA PartStartIsBound ==
  ASSUME TypeInv, ConfigInv, phase # "invalid_range", NEW i \in 0..config.t
  PROVE  /\ PartStart(i) = Bound(i)
         /\ Bound(i) \in config.s..config.e
         /\ i > 0 => Bound(i) >= 1
<1> DEFINE size == config.e - config.s
<1>1. /\ config.s \in Ulongs /\ config.e \in Ulongs /\ config.t \in Ulongs
      /\ config.s =< config.e /\ config.t > 0 /\ size * config.t =< ULONG_MAX
      /\ config.s = 0 => config.t =< config.e
  BY DEF TypeInv, ConfigInv
<1>2. /\ config.s \in Nat /\ config.e \in Nat /\ config.t \in Nat /\ size \in Nat
      /\ ULONG_MAX \in Nat /\ config.e =< ULONG_MAX
  BY <1>1, UlongFits DEF Ulongs
<1>3. i \in Nat /\ i =< config.t
  BY <1>2
<1>4. size \in Ulongs /\ size * i \in Ulongs
  <2>1. size \in 0..ULONG_MAX
    BY <1>2
  <2>2. size * i \in Nat /\ size * i =< size * config.t
    BY <1>2, <1>3
  <2>3. size * config.t \in Nat
    BY <1>2
  <2> HIDE DEF size
  <2> QED
    BY <1>1, <1>2, <2>1, <2>2, <2>3 DEF Ulongs
<1>5. Ulong(config.e - config.s) = size /\ Ulong(Ulong(config.e - config.s) * i) = size * i
  BY <1>4, UlongFits
<1>6. (size * i) \div config.t \in 0..size
  BY <1>1, <1>2, DivisionOfMultiples
<1>7. Bound(i) = config.s + (size * i) \div config.t
  BY DEF Bound
<1>8. Bound(i) \in config.s..config.e /\ Bound(i) \in Ulongs
  BY <1>2, <1>6, <1>7 DEF Ulongs
<1>9. PartStart(i) = Bound(i)
  BY <1>5, <1>7, <1>8, UlongFits DEF PartStart
<1>10. ASSUME i > 0 PROVE Bound(i) >= 1
  <2>1. CASE config.s > 0
    BY <1>2, <1>8, <2>1
  <2>2. CASE config.s = 0
    <3>1. config.t =< size
      BY <1>1, <1>2, <2>2
    <3>2. size =< size * i
      BY <1>2, <1>3, <1>10
    <3>3. size * i \in Nat /\ config.t =< size * i
      BY <1>2, <1>3, <3>1, <3>2
    <3>4. (size * i) \div config.t >= 1
      BY <1>1, <1>2, <3>3
    <3> QED
      BY <1>2, <1>6, <1>7, <2>2, <3>4
  <2> QED
    BY <1>2, <2>1, <2>2
<1> QED
  BY <1>8, <1>9, <1>10

\* Successive bounds are in order.
LEMMA BoundsInOrder ==
  ASSUME TypeInv, ConfigInv, phase # "invalid_range", NEW i \in 1..config.t
  PROVE  /\ i - 1 \in 0..config.t /\ i \in 0..config.t
         /\ Bound(i - 1) =< Bound(i)
<1>1. /\ config.s \in Nat /\ config.e \in Nat /\ config.t \in Nat /\ config.t > 0
      /\ config.e - config.s \in Nat
  BY UlongFits DEF TypeInv, ConfigInv, Ulongs
<1>2. i - 1 \in 0..config.t /\ i \in 0..config.t /\ i - 1 =< i
  BY <1>1
<1>3. ((config.e - config.s) * (i - 1)) \div config.t
        =< ((config.e - config.s) * i) \div config.t
  BY <1>1, <1>2, DivisionOfMultiples
<1>4. /\ ((config.e - config.s) * (i - 1)) \div config.t \in Int
      /\ ((config.e - config.s) * i) \div config.t \in Int
  BY <1>1, <1>2
<1> QED
  BY <1>1, <1>2, <1>3, <1>4 DEF Bound

\* Where a thread is in its part.
LEMMA ThreadInPart ==
  ASSUME PartsInv, NEW i \in 1..Len(pc)
  PROVE  /\ args[i].start = Bound(i - 1) /\ args[i].end = Bound(i) - 1
         /\ n[i] \in Bound(i - 1)..Bound(i)
<1>1. PICK a, b : a = Bound(i - 1) /\ b = Bound(i)
  OBVIOUS
<1>2. args[i] = [start |-> Bound(i - 1), end |-> Bound(i) - 1] /\ n[i] \in Bound(i - 1)..Bound(i)
  BY Zenon DEF PartsInv
<1>3. args[i] = [start |-> a, end |-> b - 1]
  BY <1>1, <1>2
<1> QED
  BY <1>1, <1>2, <1>3

\* Threads there are only for a valid range, and no more of them than were asked for.
LEMMA ThreadsOfARange ==
  ASSUME TypeInv, PartsInv, NEW i \in 1..Len(pc)
  PROVE  phase # "invalid_range" /\ Len(pc) \in Nat /\ i \in 1..config.t
<1>1. Len(pc) \in Nat /\ config.t \in Nat
  BY LenProperties DEF TypeInv, Ulongs
<1>2. phase # "invalid_range"
  BY <1>1 DEF PartsInv
<1>3. Len(pc) =< config.t
  BY <1>1, <1>2 DEF TypeInv
<1> QED
  BY <1>1, <1>2, <1>3

\* The input of main() is one of those that can be split.
LEMMA InitPartsInv ==
  ASSUME SplittableInputs
  PROVE  Init => ConfigInv /\ PartsInv
<1> SUFFICES ASSUME Init PROVE ConfigInv /\ PartsInv
  OBVIOUS
<1>1. PICK input \in Inputs : config = [input EXCEPT !.e = Ulong(@ + 1)]
  BY DEF Init
<1>2. input \in [s : 0..ULONG_MAX, e : 0..ULONG_MAX, t : 0..ULONG_MAX]
  BY DpnumAssumption
<1>3. config.s = input.s /\ config.t = input.t /\ config.e = Ulong(input.e + 1)
  BY <1>1, <1>2
<1>4. config.s \in Ulongs /\ config.e \in Ulongs
  BY InitTypeInv DEF TypeInv
<1>5. config.s \in Nat /\ config.e \in Nat
  BY <1>4, UlongFits DEF Ulongs
<1>6. ConfigInv
  <2>1. SUFFICES ASSUME phase # "invalid_range"
                 PROVE  /\ config.s =< config.e /\ config.t > 0
                        /\ (config.e - config.s) * config.t =< ULONG_MAX
                        /\ config.s = 0 => config.t =< config.e
    BY DEF ConfigInv
  <2>2. config.s =< config.e
    BY <1>5, <2>1 DEF Init
  <2> QED
    BY <1>3, <2>2 DEF SplittableInputs
<1>7. Len(pc) = 0
  BY EmptySeq DEF Init
<1> QED
  BY <1>6, <1>7 DEF PartsInv

\* Every step keeps the parts where they are and the threads in their parts.
LEMMA NextPartsInv ==
  TypeInv /\ ConfigInv /\ PartsInv /\ [Next]_vars => ConfigInv' /\ PartsInv'
<1> SUFFICES ASSUME TypeInv, ConfigInv, PartsInv, [Next]_vars PROVE ConfigInv' /\ PartsInv'
  OBVIOUS
<1>len. Len(pc) \in Nat /\ DOMAIN pc = 1..Len(pc)
  BY LenProperties DEF TypeInv
<1>config. config' = config /\ (phase = "invalid_range" <=> phase' = "invalid_range")
  BY DEF Next, main, run_thread, CreationFails, AllCreated, JoinAndPrint, Exit, check_range,
         CheckNext, FinishRange, Terminated, Over, vars
<1>bound. \A i : Bound(i)' = Bound(i)
  BY <1>config DEF Bound
<1>1. ConfigInv'
  BY <1>config DEF ConfigInv
<1>2. CASE run_thread
  <2>1. /\ Len(pc') = Len(pc) + 1 /\ thread_index = Len(pc) /\ thread_index < config.t
        /\ \A i \in 1..Len(pc) : args'[i] = args[i] /\ n'[i] = n[i]
        /\ args'[Len(pc) + 1] = [start |-> PartStart(thread_index),
                                 end |-> Ulong(PartStart(thread_index + 1) - 1)]
        /\ n'[Len(pc) + 1] = PartStart(thread_index)
    BY <1>2, RunThreadEffect
  <2>2. phase # "invalid_range" /\ config.t \in Nat
    BY <1>2 DEF run_thread, TypeInv, Ulongs
  <2>3. PICK k : k = Len(pc) + 1
    OBVIOUS
  <2>4. k \in 1..config.t /\ k > 0 /\ k - 1 = thread_index /\ k = thread_index + 1
    BY <1>len, <2>1, <2>2, <2>3
  <2>5. /\ PartStart(k - 1) = Bound(k - 1) /\ PartStart(k) = Bound(k)
        /\ Bound(k) >= 1 /\ Bound(k - 1) =< Bound(k)
        /\ Bound(k - 1) \in config.s..config.e /\ Bound(k) \in config.s..config.e
    BY <2>2, <2>4, PartStartIsBound, BoundsInOrder
  <2>6. config.s \in Nat /\ config.e \in Nat /\ config.e =< ULONG_MAX /\ ULONG_MAX \in Nat
    BY UlongFits DEF TypeInv, Ulongs
  <2>7. Ulong(Bound(k) - 1) = Bound(k) - 1
    <3>1. Bound(k) - 1 \in 0..ULONG_MAX
      BY <2>5, <2>6
    <3> QED
      BY <3>1, UlongFits DEF Ulongs
  <2>8. /\ args'[k] = [start |-> Bound(k - 1), end |-> Bound(k) - 1]
        /\ n'[k] = Bound(k - 1)
    BY <2>1, <2>3, <2>4, <2>5, <2>7
  <2>9. n'[k] \in Bound(k - 1)..Bound(k)
    BY <2>5, <2>6, <2>8
  <2>10. \A i \in 1..Len(pc') : i \in 1..Len(pc) \/ i = k
    BY <1>len, <2>1, <2>3
  <2>11. \A i \in 1..Len(pc') :
           /\ args'[i] = [start |-> Bound(i - 1), end |-> Bound(i) - 1]
           /\ n'[i] \in Bound(i - 1)..Bound(i)
    BY <2>1, <2>8, <2>9, <2>10 DEF PartsInv
  <2>12. phase' # "invalid_range"
    BY <1>config, <2>2
  <2>13. PartsInv'
    BY <1>bound, <2>11, <2>12 DEF PartsInv
  <2> QED
    BY <1>1, <2>13
<1>3. ASSUME NEW i \in DOMAIN pc, CheckNext(i) PROVE PartsInv'
  <2>1. /\ i \in 1..Len(pc) /\ n[i] \in Ulongs /\ n[i] =< args[i].end
        /\ n'[i] = Ulong(n[i] + 1) /\ \A j \in 1..Len(pc) : j # i => n'[j] = n[j]
    BY <1>3, CheckNextEffect
  <2>2. phase # "invalid_range" /\ i \in 1..config.t
    BY <2>1, ThreadsOfARange
  <2>3. /\ Bound(i - 1) \in config.s..config.e /\ Bound(i) \in config.s..config.e
    BY <2>2, PartStartIsBound, BoundsInOrder
  <2>4. config.s \in Nat /\ config.e \in Nat /\ config.e =< ULONG_MAX /\ ULONG_MAX \in Nat
    BY UlongFits DEF TypeInv, Ulongs
  <2>5. args[i].end = Bound(i) - 1 /\ n[i] \in Bound(i - 1)..Bound(i)
    BY <2>1, ThreadInPart
  <2>6. n[i] + 1 \in Bound(i - 1)..Bound(i) /\ n[i] + 1 \in 0..ULONG_MAX
    <3>1. PICK m, low, high : m = n[i] /\ low = Bound(i - 1) /\ high = Bound(i)
      OBVIOUS
    <3>2. low \in Nat /\ high \in Nat /\ high =< ULONG_MAX /\ ULONG_MAX \in Nat
      BY <2>3, <2>4, <3>1
    <3>3. m \in low..high /\ m =< high - 1
      BY <2>1, <2>5, <3>1
    <3>4. m + 1 \in low..high /\ m + 1 \in 0..ULONG_MAX
      BY <3>2, <3>3
    <3> QED
      BY <3>1, <3>4
  <2>7. n'[i] \in Bound(i - 1)..Bound(i)
    BY <2>1, <2>6, UlongFits DEF Ulongs
  <2>8. pc' = pc /\ args' = args
    BY <1>3 DEF CheckNext
  <2> QED
    BY <1>config, <1>bound, <2>1, <2>2, <2>7, <2>8 DEF PartsInv
<1>4. ASSUME NEW i \in DOMAIN pc, FinishRange(i) PROVE PartsInv'
  <2>1. Len(pc') = Len(pc) /\ args' = args /\ n' = n
    BY <1>4, <1>len, ExceptSeq DEF FinishRange, TypeInv
  <2> QED
    BY <1>config, <1>bound, <2>1 DEF PartsInv
<1>5. CASE CreationFails \/ AllCreated \/ JoinAndPrint \/ Exit \/ UNCHANGED vars
  <2>1. pc' = pc /\ args' = args /\ n' = n
    BY <1>5 DEF CreationFails, AllCreated, JoinAndPrint, Exit, vars
  <2> QED
    BY <1>1, <1>config, <1>bound, <2>1 DEF PartsInv
<1> QED
  BY <1>1, <1>2, <1>3, <1>4, <1>5 DEF Next, main, check_range, Terminated

\* Every number of the range is in exactly one part, for every word size, range and
\* number of threads for which the code's arithmetic does not overflow; and the
\* threads look at no number outside it.
THEOREM PartsCoverTheRange == ASSUME SplittableInputs PROVE Spec => []PartsCover
<1>1. TypeInv /\ ConfigInv /\ PartsInv => PartsCover
  <2> SUFFICES ASSUME TypeInv, ConfigInv, PartsInv PROVE PartsCover
    OBVIOUS
  <2>type. /\ config.s \in Nat /\ config.e \in Nat /\ config.t \in Nat
           /\ Len(pc) \in Nat /\ DOMAIN pc = 1..Len(pc) /\ DOMAIN args = 1..Len(pc)
    BY UlongFits, LenProperties DEF TypeInv, Ulongs
  <2>1. ASSUME phase = "join", NEW k \in SearchRange
        PROVE  Cardinality({i \in DOMAIN args : args[i].start =< k /\ k =< args[i].end}) = 1
    <3>1. config.t > 0 /\ config.s =< config.e /\ Len(pc) = config.t
      BY <2>1 DEF ConfigInv, TypeInv
    <3>2. PICK size : size = config.e - config.s
      OBVIOUS
    <3>3. PICK x : x = k - config.s
      OBVIOUS
    <3>4. size \in Nat /\ x \in 0..(size - 1) /\ k \in Int /\ k = config.s + x
      BY <2>type, <2>1, <3>1, <3>2, <3>3 DEF SearchRange
    <3> DEFINE in(i) == (size * (i - 1)) \div config.t =< x /\ x < (size * i) \div config.t
    <3>5. ASSUME NEW i \in 1..config.t
          PROVE  in(i) <=> args[i].start =< k /\ k =< args[i].end
      <4>1. args[i].start = Bound(i - 1) /\ args[i].end = Bound(i) - 1
        BY <3>1, ThreadInPart
      <4>2. /\ Bound(i - 1) = config.s + (size * (i - 1)) \div config.t
            /\ Bound(i) = config.s + (size * i) \div config.t
        BY <3>2 DEF Bound
      <4>3. i - 1 \in 0..config.t /\ i \in 0..config.t
        BY <2>type
      <4>4. (size * (i - 1)) \div config.t \in 0..size /\ (size * i) \div config.t \in 0..size
        BY <2>type, <3>1, <3>4, <4>3, DivisionOfMultiples
      <4>5. PICK a : a = (size * (i - 1)) \div config.t
        OBVIOUS
      <4>6. PICK b : b = (size * i) \div config.t
        OBVIOUS
      <4>7. a \in Int /\ b \in Int
        BY <4>4, <4>5, <4>6
      <4>8. in(i) <=> a =< x /\ x < b
        BY <4>5, <4>6
      <4> HIDE DEF in
      <4>9. args[i].start = config.s + a /\ args[i].end = (config.s + b) - 1
        <5>1. Bound(i - 1) = config.s + a /\ Bound(i) = config.s + b
          BY <4>2, <4>5, <4>6, Zenon
        <5> QED
          BY <4>1, <5>1, Zenon
      <4>10. x \in Int /\ config.s \in Int /\ k = config.s + x
        BY <2>type, <3>4
      <4>11. a =< x /\ x < b <=> config.s + a =< k /\ k =< (config.s + b) - 1
        BY <4>7, <4>10
      <4> QED
        BY <4>8, <4>9, <4>11
    <3>6. PICK i \in 1..config.t : in(i)
      BY <2>type, <3>1, <3>4, QuotientsCover
    <3>7. \A j \in 1..config.t : in(j) => j = i
      BY <2>type, <3>1, <3>4, <3>6, QuotientsCover
    <3> HIDE DEF in
    <3>8. {j \in DOMAIN args : args[j].start =< k /\ k =< args[j].end} = {i}
      BY <2>type, <3>1, <3>5, <3>6, <3>7
    <3> QED
      BY <3>8, FS_Singleton
  <2>2. ASSUME NEW i \in DOMAIN pc, Searching(i) PROVE n[i] \in SearchRange
    <3>1. i \in 1..Len(pc) /\ phase # "invalid_range" /\ i \in 1..config.t
      BY <2>type, ThreadsOfARange
    <3>2. /\ Bound(i - 1) \in config.s..config.e /\ Bound(i) \in config.s..config.e
      BY <3>1, PartStartIsBound, BoundsInOrder
    <3>3. args[i].end = Bound(i) - 1 /\ n[i] \in Bound(i - 1)..Bound(i)
      BY <3>1, ThreadInPart
    <3>4. n[i] =< args[i].end
      BY <2>2 DEF Searching
    <3> QED
      BY <2>type, <3>2, <3>3, <3>4 DEF SearchRange
  <2> QED
    BY <2>1, <2>2 DEF PartsCover
<1>2. TypeInv /\ ConfigInv /\ PartsInv /\ [Next]_vars => ConfigInv' /\ PartsInv'
  BY NextPartsInv
<1> QED
  BY <1>1, <1>2, InitPartsInv, TypeInvAlways, PTL DEF Spec

-----------------------------------------------------------------------------
(* Powers of two.                                                          *)

\* The provers know no powers; these are those of PowersOfTwoAssumption.
TwoTo(i) == 2^i

\* They grow, and ULONG_MAX is below the last.
LEMMA PowersOfTwo ==
  /\ \A i \in 0..W : TwoTo(i) \in Nat /\ TwoTo(i) > i
  /\ \A i \in 0..(W - 1) : TwoTo(i + 1) = 2 * TwoTo(i)
  /\ \A i \in 0..W, j \in 0..W : j =< i => TwoTo(j) =< TwoTo(i)
  /\ ULONG_MAX = TwoTo(W) - 1
<1>1. /\ W \in Nat /\ TwoTo(0) = 1
      /\ \A i \in 0..(W - 1) : TwoTo(i) \in Nat /\ TwoTo(i + 1) = 2 * TwoTo(i)
  BY DpnumAssumption, PowersOfTwoAssumption DEF TwoTo
<1>2. ULONG_MAX = TwoTo(W) - 1
  BY DEF ULONG_MAX, TwoTo
<1> DEFINE Grown == {i \in Nat : i =< W =>
                        /\ TwoTo(i) \in Nat /\ TwoTo(i) > i
                        /\ \A j \in 0..W : j =< i => TwoTo(j) =< TwoTo(i)}
<1>3. 0 \in Grown
  <2>1. \A j \in 0..W : j =< 0 => j = 0
    OBVIOUS
  <2> QED
    BY <1>1, <2>1
<1>4. ASSUME NEW i \in Nat, i \in Grown PROVE i + 1 \in Grown
  <2>1. SUFFICES ASSUME i + 1 =< W
                 PROVE  /\ TwoTo(i + 1) \in Nat /\ TwoTo(i + 1) > i + 1
                        /\ \A j \in 0..W : j =< i + 1 => TwoTo(j) =< TwoTo(i + 1)
    OBVIOUS
  <2>2. i \in 0..(W - 1) /\ i =< W
    BY <1>1, <2>1
  <2>3. PICK x, y : x = TwoTo(i) /\ y = TwoTo(i + 1)
    OBVIOUS
  <2>4. x \in Nat /\ x > i /\ y = 2 * x /\ \A j \in 0..W : j =< i => TwoTo(j) =< x
    BY <1>1, <1>4, <2>2, <2>3
  <2>5. \A j \in 0..W : j =< i + 1 => TwoTo(j) =< y
    <3>1. SUFFICES ASSUME NEW j \in 0..W, j =< i + 1 PROVE TwoTo(j) =< y
      OBVIOUS
    <3>2. CASE j = i + 1
      BY <2>3, <2>4, <3>2
    <3>3. CASE j # i + 1
      <4>1. j =< i /\ j \in 0..(W - 1)
        BY <1>1, <2>2, <3>1, <3>3
      <4>2. TwoTo(j) =< x /\ TwoTo(j) \in Nat
        BY <1>1, <2>4, <4>1
      <4> QED
        BY <2>4, <4>2
    <3> QED
      BY <3>2, <3>3
  <2>6. y \in Nat /\ y > i + 1
    BY <2>4
  <2> QED
    BY <2>3, <2>5, <2>6
<1>5. \A i \in Nat : i \in Grown
  <2> HIDE DEF Grown
  <2>1. \A i \in Nat : i \in Grown => i + 1 \in Grown
    BY <1>4
  <2> QED
    BY <1>3, <2>1, Induction
<1>6. \A i \in 0..W : /\ TwoTo(i) \in Nat /\ TwoTo(i) > i
                      /\ \A j \in 0..W : j =< i => TwoTo(j) =< TwoTo(i)
  BY <1>1, <1>5
<1> QED
  BY <1>1, <1>2, <1>6

\* The half that ends a row of the table is odd, and not one.
LEMMA HalfIsOdd ==
  ASSUME W > 2
  PROVE  \E h \in Nat : h >= 1 /\ ULONG_MAX = 4 * h + 3
<1>1. W \in Nat /\ W - 2 \in 0..(W - 1) /\ W - 1 \in 0..(W - 1) /\ W - 2 \in 0..W
      /\ (W - 2) + 1 = W - 1 /\ (W - 1) + 1 = W
  BY DpnumAssumption
<1>2. PICK x : x = TwoTo(W - 2)
  OBVIOUS
<1>3. x \in Nat /\ x > W - 2 /\ ULONG_MAX = 2 * (2 * x) - 1
  BY <1>1, <1>2, PowersOfTwo
<1>4. x - 1 \in Nat /\ x - 1 >= 1 /\ ULONG_MAX = 4 * (x - 1) + 3
  BY <1>1, <1>3
<1> QED
  BY <1>4

-----------------------------------------------------------------------------
(* The rows of the table and the powers they hold.                         *)

Decimals == 0..(BASE - 1)

\* The recursion of SaturatedPower().
LEMMA SaturatedPowers ==
  ASSUME NEW d \in Decimals
  PROVE  /\ SaturatedPower(d)[0] = 1
         /\ \A i \in Nat :
              /\ SaturatedPower(d)[i] \in 0..(ULONG_MAX + 1)
              /\ SaturatedPower(d)[i + 1] =
                   IF SaturatedPower(d)[i] * d =< ULONG_MAX
                     THEN SaturatedPower(d)[i] * d ELSE ULONG_MAX + 1
<1>1. PICK m : m = ULONG_MAX
  OBVIOUS
<1>2. m \in Nat /\ d \in Nat
  BY <1>1, UlongFits DEF Decimals, BASE
<1> DEFINE S == 0..(m + 1)
           next(x) == Min({x * d, m + 1})
           h == [x \in S |-> next(x)]
<1>3. \A x \in S : next(x) = (IF x * d =< m THEN x * d ELSE m + 1) /\ next(x) \in S
  <2>1. SUFFICES ASSUME NEW x \in S
                 PROVE  next(x) = (IF x * d =< m THEN x * d ELSE m + 1) /\ next(x) \in S
    OBVIOUS
  <2>2. x \in Nat
    BY <1>2
  <2>3. PICK y : y = x * d
    OBVIOUS
  <2>4. y \in Nat
    BY <1>2, <2>2, <2>3
  <2>5. CASE y =< m
    <3>1. \A z \in {y, m + 1} : y =< z
      BY <1>2, <2>4, <2>5
    <3>2. {y, m + 1} \subseteq Int /\ y \in {y, m + 1}
      BY <1>2, <2>4
    <3>3. Min({y, m + 1}) = y
      BY <3>1, <3>2, LeastIs
    <3> QED
      BY <1>2, <2>3, <2>4, <2>5, <3>3
  <2>6. CASE ~(y =< m)
    <3>1. \A z \in {y, m + 1} : m + 1 =< z
      BY <1>2, <2>4, <2>6
    <3>2. {y, m + 1} \subseteq Int /\ m + 1 \in {y, m + 1}
      BY <1>2, <2>4
    <3>3. Min({y, m + 1}) = m + 1
      BY <3>1, <3>2, LeastIs
    <3> QED
      BY <1>2, <2>3, <2>4, <2>6, <3>3
  <2> QED
    BY <2>5, <2>6
<1> DEFINE solves(p) == p = [i \in Nat |-> IF i = 0 THEN 1 ELSE next(p[i - 1])]
<1>4. \E p : solves(p)
  <2>1. h \in [S -> S] /\ 1 \in S
    <3>1. 1 \in S
      BY <1>2
    <3> HIDE DEF S, next
    <3> QED
      BY <1>3, <3>1
  <2>2. PICK f \in [Nat -> S] : f[0] = 1 /\ \A i \in Nat : f[i + 1] = h[f[i]]
    <3> HIDE DEF S, h
    <3>1. \E f \in [Nat -> S] : Iterates(f, 1, h)
      BY <2>1, PrimitiveRecursion, Zenon
    <3> QED
      BY <3>1 DEF Iterates
  <2>3. ASSUME NEW i \in Nat PROVE f[i] = IF i = 0 THEN 1 ELSE next(f[i - 1])
    <3>1. CASE i = 0
      BY <2>2, <3>1
    <3>2. CASE i # 0
      <4>1. i - 1 \in Nat /\ (i - 1) + 1 = i
        BY <3>2
      <4>2. f[(i - 1) + 1] = h[f[i - 1]] /\ f[i - 1] \in S
        BY <2>2, <4>1
      <4>3. h[f[i - 1]] = next(f[i - 1])
        BY <4>2
      <4> HIDE DEF next, h, S
      <4> QED
        BY <3>2, <4>1, <4>2, <4>3
    <3> QED
      BY <3>1, <3>2
  <2>4. f = [i \in Nat |-> f[i]]
    BY <2>2
  <2>5. solves(f)
    <3> HIDE DEF next
    <3> QED
      BY <2>3, <2>4
  <2> QED
    BY <2>5
<1>5. PICK p : p = SaturatedPower(d)
  OBVIOUS
<1>6. solves(p)
  <2>1. p = CHOOSE q : solves(q)
    BY <1>1, <1>5 DEF SaturatedPower
  <2> HIDE DEF solves
  <2> QED
    BY <1>4, <2>1
<1>7. p[0] = 1 /\ \A i \in Nat : p[i + 1] = next(p[i])
  <2> HIDE DEF next
  <2>1. \A i \in Nat : i + 1 \in Nat /\ i + 1 # 0 /\ (i + 1) - 1 = i
    OBVIOUS
  <2>2. \A i \in Nat : p[i] = IF i = 0 THEN 1 ELSE next(p[i - 1])
    BY <1>6
  <2> QED
    BY <2>1, <2>2
<1> DEFINE Typed == {i \in Nat : p[i] \in S}
<1>8. \A i \in Nat : i \in Typed
  <2>1. 0 \in Typed
    BY <1>2, <1>7
  <2>2. \A i \in Nat : i \in Typed => i + 1 \in Typed
    <3> HIDE DEF next, S
    <3> QED
      BY <1>3, <1>7
  <2> HIDE DEF Typed
  <2> QED
    BY <2>1, <2>2, Induction
<1>9. \A i \in Nat : p[i] \in S /\ p[i + 1] = IF p[i] * d =< m THEN p[i] * d ELSE m + 1
  <2> HIDE DEF next, S
  <2> QED
    BY <1>3, <1>7, <1>8
<1> QED
  BY <1>1, <1>5, <1>7, <1>9

\* The recursion of Products().
LEMMA ProductsWrap ==
  ASSUME NEW d \in Decimals
  PROVE  /\ Products(d)[0] = 1
         /\ \A i \in 0..(UL_SIZE - 1) : Products(d)[i + 1] = Ulong(Products(d)[i] * d)
<1>1. PICK w : w = UL_SIZE
  OBVIOUS
<1>2. w \in Nat /\ d \in Nat /\ 1 \in Ulongs
  <2>1. ULONG_MAX >= 1
    <3>1. W \in Nat /\ W > 0 /\ W \in 0..W
      BY DpnumAssumption
    <3>2. PICK x : x = TwoTo(W)
      OBVIOUS
    <3>3. x \in Nat /\ x > W /\ ULONG_MAX = x - 1
      BY <3>1, <3>2, PowersOfTwo
    <3> QED
      BY <3>1, <3>3
  <2> QED
    BY <1>1, <2>1, DpnumAssumption, UlongFits DEF Decimals, BASE, UL_SIZE, Ulongs
<1> DEFINE h == [x \in Ulongs |-> Ulong(x * d)]
           solves(p) == p = [i \in 0..w |-> IF i = 0 THEN 1 ELSE Ulong(p[i - 1] * d)]
<1>3. \E p : solves(p)
  <2>1. h \in [Ulongs -> Ulongs]
    <3>1. \A x \in Ulongs : x * d \in Int
      BY <1>2, UlongFits DEF Ulongs
    <3> QED
      BY <3>1, UlongFits
  <2>2. PICK f \in [Nat -> Ulongs] : f[0] = 1 /\ \A i \in Nat : f[i + 1] = h[f[i]]
    <3> HIDE DEF h
    <3>1. \E f \in [Nat -> Ulongs] : Iterates(f, 1, h)
      BY <1>2, <2>1, PrimitiveRecursion, Zenon
    <3> QED
      BY <3>1 DEF Iterates
  <2> DEFINE p == [i \in 0..w |-> f[i]]
  <2>3. ASSUME NEW i \in 0..w PROVE p[i] = IF i = 0 THEN 1 ELSE Ulong(p[i - 1] * d)
    <3>1. CASE i = 0
      BY <2>2, <3>1
    <3>2. CASE i # 0
      <4>1. i - 1 \in Nat /\ (i - 1) + 1 = i /\ i - 1 \in 0..w
        BY <1>2, <3>2
      <4>2. f[(i - 1) + 1] = h[f[i - 1]] /\ f[i - 1] \in Ulongs
        BY <2>2, <4>1
      <4>3. h[f[i - 1]] = Ulong(f[i - 1] * d)
        BY <4>2
      <4>4. p[i] = f[i] /\ p[i - 1] = f[i - 1]
        BY <4>1
      <4> HIDE DEF h, p
      <4> QED
        BY <3>2, <4>1, <4>2, <4>3, <4>4
    <3> QED
      BY <3>1, <3>2
  <2>4. p = [i \in 0..w |-> p[i]]
    OBVIOUS
  <2>5. solves(p)
    <3> HIDE DEF p
    <3> QED
      BY <2>3, <2>4
  <2> HIDE DEF p, solves
  <2> QED
    BY <2>5
<1>4. PICK p : p = Products(d)
  OBVIOUS
<1>5. solves(p)
  <2>1. p = CHOOSE q : solves(q)
    BY <1>1, <1>4 DEF Products
  <2> HIDE DEF solves
  <2> QED
    BY <1>3, <2>1
<1>6. p[0] = 1
  <2>1. 0 \in 0..w
    BY <1>2
  <2> QED
    BY <1>5, <2>1
<1>7. ASSUME NEW i \in 0..(w - 1) PROVE p[i + 1] = Ulong(p[i] * d)
  <2>1. i + 1 \in 0..w /\ i + 1 # 0 /\ (i + 1) - 1 = i
    BY <1>2
  <2>2. p[i + 1] = IF i + 1 = 0 THEN 1 ELSE Ulong(p[(i + 1) - 1] * d)
    BY <1>5, <2>1
  <2> QED
    BY <2>1, <2>2
<1> QED
  BY <1>1, <1>4, <1>6, <1>7

\* Their values are unsigned longs.
LEMMA ProductsAreUlongs ==
  ASSUME NEW d \in Decimals
  PROVE  \A i \in 0..(UL_SIZE - 1) : Products(d)[i] \in Ulongs
<1>1. PICK w, q : w = UL_SIZE /\ q = Products(d)
  OBVIOUS
<1>2. w \in Nat /\ d \in Nat /\ 1 \in Ulongs
  <2>1. W \in Nat /\ W > 0 /\ W \in 0..W
    BY DpnumAssumption
  <2>2. PICK x : x = TwoTo(W)
    OBVIOUS
  <2>3. x \in Nat /\ x > W /\ ULONG_MAX = x - 1
    BY <2>1, <2>2, PowersOfTwo
  <2> QED
    BY <1>1, <2>1, <2>3 DEF Decimals, BASE, UL_SIZE, Ulongs
<1>3. q[0] = 1 /\ \A i \in 0..(w - 1) : q[i + 1] = Ulong(q[i] * d)
  BY <1>1, ProductsWrap
<1> DEFINE S == {i \in Nat : i < w => q[i] \in Ulongs}
<1>4. 0 \in S
  BY <1>2, <1>3
<1>5. ASSUME NEW i \in Nat, i \in S PROVE i + 1 \in S
  <2>1. SUFFICES ASSUME i + 1 < w PROVE q[i + 1] \in Ulongs
    OBVIOUS
  <2>2. i \in 0..(w - 1) /\ q[i] \in Ulongs
    BY <1>2, <1>5, <2>1
  <2>3. q[i] * d \in Int
    BY <1>2, <2>2, UlongFits DEF Ulongs
  <2> QED
    BY <1>3, <2>2, <2>3, UlongFits
<1>6. \A i \in Nat : i \in S
  <2>1. \A i \in Nat : i \in S => i + 1 \in S
    BY <1>5
  <2> HIDE DEF S
  <2> QED
    BY <1>4, <2>1, Induction
<1>7. \A i \in 0..(w - 1) : q[i] \in Ulongs
  BY <1>2, <1>6
<1> QED
  BY <1>1, <1>7

\* What a power that fits says of those before it: the row has it, and goes on to it, for
\* all before it are below the half that ends the row.
LEMMA PowerInRow ==
  ASSUME W > 2, NEW d \in Decimals, d # 0
  PROVE  \A e \in Nat : e < UL_SIZE /\ SaturatedPower(d)[e] =< ULONG_MAX =>
           /\ Products(d)[e] = SaturatedPower(d)[e]
           /\ \A j \in 0..(e - 1) : Products(d)[j] < ULONG_MAX \div 2
<1>1. PICK m, w, p, q : /\ m = ULONG_MAX /\ w = UL_SIZE
                        /\ p = SaturatedPower(d) /\ q = Products(d)
  OBVIOUS
<1>2. PICK h \in Nat : h >= 1 /\ m = 4 * h + 3
  BY <1>1, HalfIsOdd
<1>3. /\ m \in Nat /\ w \in Nat /\ m \div 2 = 2 * h + 1
      /\ d \in Nat /\ d >= 1
  BY <1>1, <1>2, DpnumAssumption DEF Decimals, BASE, UL_SIZE
<1>4. /\ p[0] = 1
      /\ \A i \in Nat : /\ p[i] \in 0..(m + 1)
                        /\ p[i + 1] = IF p[i] * d =< m THEN p[i] * d ELSE m + 1
  BY <1>1, SaturatedPowers
<1>5. /\ q[0] = 1
      /\ \A i \in 0..(w - 1) : q[i + 1] = Ulong(q[i] * d)
  BY <1>1, ProductsWrap
<1> DEFINE S == {e \in Nat : e < w /\ p[e] =< m =>
                    /\ q[e] = p[e] /\ p[e] >= 1
                    /\ d = 1 => p[e] = 1
                    /\ d = 2 => p[e] = 1 \/ \E x \in Nat : p[e] = 2 * x
                    /\ \A j \in 0..(e - 1) : q[j] < 2 * h + 1}
<1>6. 0 \in S
  <2>1. 0..(0 - 1) = {}
    OBVIOUS
  <2> QED
    BY <1>4, <1>5, <2>1
<1>7. ASSUME NEW e \in Nat, e \in S PROVE e + 1 \in S
  <2>1. SUFFICES ASSUME e + 1 < w, p[e + 1] =< m
                 PROVE  /\ q[e + 1] = p[e + 1] /\ p[e + 1] >= 1
                        /\ d = 1 => p[e + 1] = 1
                        /\ d = 2 => p[e + 1] = 1 \/ \E x \in Nat : p[e + 1] = 2 * x
                        /\ \A j \in 0..((e + 1) - 1) : q[j] < 2 * h + 1
    OBVIOUS
  <2>2. PICK a, b : a = p[e] /\ b = p[e + 1]
    OBVIOUS
  <2>3. a \in Nat /\ b \in Nat /\ b = IF a * d =< m THEN a * d ELSE m + 1
    BY <1>3, <1>4, <2>2
  <2>4. b = a * d /\ a * d =< m
    BY <1>3, <2>1, <2>2, <2>3
  <2>5. a =< a * d /\ a =< m
    <3>1. a * d = a + a * (d - 1) /\ a * (d - 1) >= 0
      BY <1>3, <2>3
    <3> QED
      BY <1>3, <2>3, <2>4, <3>1
  <2>6. /\ q[e] = a /\ a >= 1
        /\ d = 1 => a = 1
        /\ d = 2 => a = 1 \/ \E x \in Nat : a = 2 * x
        /\ \A j \in 0..(e - 1) : q[j] < 2 * h + 1
    BY <1>3, <1>7, <2>1, <2>2, <2>5
  <2>7. q[e + 1] = b
    <3>1. e \in 0..(w - 1)
      BY <1>3, <2>1
    <3>2. a * d \in Ulongs /\ Ulong(a * d) = a * d
      <4>1. a * d \in 0..m
        BY <1>3, <2>3, <2>4
      <4> QED
        BY <1>1, <4>1, UlongFits DEF Ulongs
    <3> QED
      BY <1>5, <2>4, <2>6, <3>1, <3>2
  <2>8. a < 2 * h + 1
    <3>1. CASE d = 1
      BY <1>2, <2>6, <3>1
    <3>2. CASE d = 2
      <4>1. 2 * a =< 4 * h + 3
        BY <1>2, <2>3, <2>4, <3>2
      <4>2. CASE a = 1
        BY <1>2, <4>2
      <4>3. ASSUME NEW x \in Nat, a = 2 * x PROVE a < 2 * h + 1
        BY <1>2, <4>1, <4>3
      <4> QED
        BY <2>6, <3>2, <4>2, <4>3
    <3>3. CASE d >= 3
      <4>1. a * d >= a * 3
        <5>1. a * d = a * 3 + a * (d - 3) /\ a * (d - 3) >= 0
          BY <1>3, <2>3, <3>3
        <5> QED
          BY <1>3, <2>3, <5>1
      <4>2. a * 3 =< 4 * h + 3
        BY <1>2, <1>3, <2>3, <2>4, <4>1
      <4> QED
        BY <1>2, <2>3, <4>2
    <3> QED
      BY <1>3, <3>1, <3>2, <3>3
  <2>9. \A j \in 0..((e + 1) - 1) : q[j] < 2 * h + 1
    <3>1. \A j \in 0..((e + 1) - 1) : j = e \/ j \in 0..(e - 1)
      OBVIOUS
    <3> QED
      BY <2>6, <2>8, <3>1
  <2>10. b >= 1
    BY <2>3, <2>4, <2>5, <2>6
  <2>11. d = 1 => b = 1
    BY <2>3, <2>4, <2>6
  <2>12. d = 2 => \E x \in Nat : b = 2 * x
    BY <2>3, <2>4
  <2> QED
    BY <2>2, <2>7, <2>9, <2>10, <2>11, <2>12
<1>8. \A e \in Nat : e \in S
  <2>1. \A e \in Nat : e \in S => e + 1 \in S
    BY <1>7
  <2> HIDE DEF S
  <2> QED
    BY <1>6, <2>1, Induction
<1>9. \A e \in Nat : e < w /\ p[e] =< m =>
        q[e] = p[e] /\ \A j \in 0..(e - 1) : q[j] < m \div 2
  BY <1>3, <1>8
<1> QED
  BY <1>1, <1>9

\* No power that fits is missing in the table, and none is behind the end of its row.
LEMMA NoPowerMissing ==
  ASSUME W > 2, NEW d \in Decimals, NEW e \in 0..(UL_SIZE - 1),
         d # 0 \/ e # 0, SaturatedPower(d)[e] =< ULONG_MAX
  PROVE  power[d][e] = SaturatedPower(d)[e] /\ ~(e > max_power[d])
<1>1. /\ W \in Nat /\ UL_SIZE = W /\ e \in Nat /\ e =< W - 1 /\ d \in 0..(BASE - 1)
      /\ d \in Nat
  BY DpnumAssumption DEF UL_SIZE, Decimals, BASE
<1>2. CASE d = 0
  <2>1. power[d][e] = 0 /\ max_power[d] = ULONG_MAX
    BY <1>1, <1>2 DEF power, max_power, UL_SIZE
  <2>2. SaturatedPower(d)[e] = 0
    <3>1. e - 1 \in Nat /\ (e - 1) + 1 = e
      BY <1>1, <1>2
    <3>2. PICK x, m : x = SaturatedPower(d)[e - 1] /\ m = ULONG_MAX
      OBVIOUS
    <3>3. x \in 0..(m + 1) /\ m \in Nat
          /\ SaturatedPower(d)[e] = IF x * d =< m THEN x * d ELSE m + 1
      BY <3>1, <3>2, SaturatedPowers, UlongFits
    <3>4. x * d = 0
      BY <1>2, <3>3
    <3> QED
      BY <3>3, <3>4
  <2>3. e =< ULONG_MAX
    <3>1. PICK x : x = TwoTo(W)
      OBVIOUS
    <3>2. x \in Nat /\ x > W /\ ULONG_MAX = x - 1
      BY <1>1, <3>1, PowersOfTwo
    <3> QED
      BY <1>1, <3>2
  <2> QED
    BY <1>1, <2>1, <2>2, <2>3, UlongFits
<1>3. CASE d # 0
  <2>1. PICK q : q = Products(d)
    OBVIOUS
  <2>2. /\ q[e] = SaturatedPower(d)[e]
        /\ \A j \in 0..(e - 1) : q[j] < ULONG_MAX \div 2
    BY <1>1, <1>3, <2>1, PowerInRow
  <2> DEFINE Ends == {i \in 0..(UL_SIZE - 1) : i = UL_SIZE - 1 \/ q[i] >= ULONG_MAX \div 2}
  <2>3. max_power[d] = Min(Ends)
    BY <1>1, <1>3, <2>1 DEF max_power
  <2>4. Ends \subseteq Nat /\ UL_SIZE - 1 \in Ends
    BY <1>1
  <2>5. PICK x \in Ends : \A y \in Ends : x =< y
    <3> HIDE DEF Ends
    <3> QED
      BY <2>4, LeastExists
  <2>6. max_power[d] = x
    <3>1. Ends \subseteq Int
      BY <2>4
    <3> HIDE DEF Ends
    <3> QED
      BY <2>3, <2>5, <3>1, LeastIs
  <2>7. e =< x
    <3>1. SUFFICES ASSUME x < e PROVE FALSE
      BY <1>1, <2>4
    <3>2. x \in 0..(e - 1) /\ x # UL_SIZE - 1
      BY <1>1, <2>4, <3>1
    <3>3. PICK half : half = ULONG_MAX \div 2
      OBVIOUS
    <3>4. half \in Int /\ q[x] \in Int
      <4>1. half \in Int
        BY <3>3, UlongFits
      <4>2. \A y \in 0..(UL_SIZE - 1) : Products(d)[y] \in Int
        BY ProductsAreUlongs, UlongFits DEF Ulongs
      <4> QED
        BY <1>1, <2>1, <4>1, <4>2
    <3>5. q[x] < half /\ q[x] >= half
      BY <2>2, <3>2, <3>3
    <3> QED
      BY <3>4, <3>5
  <2>8. power[d][e] = q[e]
    <3>1. e =< max_power[d] /\ d > 0
      BY <1>1, <1>3, <2>6, <2>7
    <3> QED
      BY <1>1, <2>1, <3>1 DEF power
  <2> QED
    BY <1>1, <2>2, <2>4, <2>6, <2>7, <2>8
<1> QED
  BY <1>2, <1>3

\* No power of a digit above one with as many factors as the word has bits fits; a power of
\* one is one, and one of zero is zero.
LEMMA PowersByWidth ==
  ASSUME NEW d \in Decimals
  PROVE  /\ d >= 2 => SaturatedPower(d)[UL_SIZE] = ULONG_MAX + 1
         /\ d < 2 => \A e \in Nat \ {0} : SaturatedPower(d)[e] = d
<1>1. PICK m, p : m = ULONG_MAX /\ p = SaturatedPower(d)
  OBVIOUS
<1>2. /\ m \in Nat /\ d \in Nat /\ W \in Nat /\ UL_SIZE = W /\ W > 0
      /\ m >= 1
  <2>1. PICK x : x = TwoTo(W)
    OBVIOUS
  <2>2. W \in Nat /\ W > 0 /\ W \in 0..W
    BY DpnumAssumption
  <2>3. x \in Nat /\ x > W /\ m = x - 1
    BY <1>1, <2>1, <2>2, PowersOfTwo
  <2> QED
    BY <2>2, <2>3 DEF Decimals, BASE, UL_SIZE
<1>3. /\ p[0] = 1
      /\ \A i \in Nat : /\ p[i] \in 0..(m + 1)
                        /\ p[i + 1] = IF p[i] * d =< m THEN p[i] * d ELSE m + 1
  BY <1>1, SaturatedPowers
<1>4. ASSUME d >= 2 PROVE p[W] = m + 1
  <2> DEFINE S == {i \in Nat : i =< W => p[i] >= TwoTo(i)}
  <2>1. 0 \in S
    BY <1>2, <1>3, PowersOfTwoAssumption DEF TwoTo
  <2>2. ASSUME NEW i \in Nat, i \in S PROVE i + 1 \in S
    <3>1. SUFFICES ASSUME i + 1 =< W PROVE p[i + 1] >= TwoTo(i + 1)
      OBVIOUS
    <3>2. PICK a, b, x, y : a = p[i] /\ b = p[i + 1] /\ x = TwoTo(i) /\ y = TwoTo(i + 1)
      OBVIOUS
    <3>3. /\ x \in Nat /\ y = 2 * x /\ y =< m + 1
      <4>1. i \in 0..W /\ i \in 0..(W - 1) /\ i + 1 \in 0..W /\ W \in 0..W /\ i + 1 =< W
        BY <1>2, <3>1
      <4>2. TwoTo(i + 1) =< TwoTo(W) /\ TwoTo(W) \in Nat /\ m = TwoTo(W) - 1
        BY <1>1, <4>1, PowersOfTwo
      <4>3. x \in Nat /\ y = 2 * x
        BY <3>2, <4>1, PowersOfTwo
      <4>4. PICK z : z = TwoTo(W)
        OBVIOUS
      <4>5. y =< z /\ z \in Nat /\ m = z - 1
        BY <3>2, <4>2, <4>4
      <4> QED
        BY <4>3, <4>5
    <3>4. /\ a \in Nat /\ a >= x /\ b = IF a * d =< m THEN a * d ELSE m + 1
      BY <1>2, <1>3, <2>2, <3>1, <3>2
    <3>5. a * d >= y
      <4>1. a * d = a * 2 + a * (d - 2) /\ a * (d - 2) >= 0
        BY <1>2, <1>4, <3>4
      <4>2. a * d >= a * 2
        BY <1>2, <3>4, <4>1
      <4> QED
        BY <1>2, <3>3, <3>4, <4>2
    <3>6. b >= y
      BY <1>2, <3>3, <3>4, <3>5
    <3> QED
      BY <3>2, <3>6
  <2>3. \A i \in Nat : i \in S
    <3>1. \A i \in Nat : i \in S => i + 1 \in S
      BY <2>2
    <3> HIDE DEF S
    <3> QED
      BY <2>1, <3>1, Induction
  <2>4. p[W] >= TwoTo(W)
    BY <1>2, <2>3
  <2>5. TwoTo(W) \in Nat /\ m = TwoTo(W) - 1
    BY <1>1, <1>2, PowersOfTwo
  <2>6. PICK x, z : x = p[W] /\ z = TwoTo(W)
    OBVIOUS
  <2>7. x >= z /\ z \in Nat /\ m = z - 1 /\ x \in 0..(m + 1)
    BY <1>2, <1>3, <2>4, <2>5, <2>6
  <2>8. x = m + 1
    BY <2>7
  <2> QED
    BY <2>6, <2>8
<1>5. ASSUME d < 2 PROVE \A e \in Nat \ {0} : p[e] = d
  <2> DEFINE S == {i \in Nat : p[i + 1] = d}
  <2>1. 0 \in S
    <3>1. p[0 + 1] = IF p[0] * d =< m THEN p[0] * d ELSE m + 1
      BY <1>3
    <3>2. p[0] * d = d /\ d =< m
      BY <1>2, <1>3, <1>5
    <3> QED
      BY <3>1, <3>2
  <2>2. ASSUME NEW i \in Nat, i \in S PROVE i + 1 \in S
    <3>1. PICK j : j = i + 1
      OBVIOUS
    <3>2. j \in Nat /\ p[j] = d /\ p[j + 1] = IF p[j] * d =< m THEN p[j] * d ELSE m + 1
      BY <1>3, <2>2, <3>1
    <3>3. p[j] * d = d /\ d =< m
      <4>1. d = 0 \/ d = 1
        BY <1>2, <1>5
      <4> QED
        BY <1>2, <3>2, <4>1
    <3>4. p[j + 1] = d
      BY <3>2, <3>3
    <3> QED
      BY <3>1, <3>2, <3>4
  <2>3. \A i \in Nat : i \in S
    <3>1. \A i \in Nat : i \in S => i + 1 \in S
      BY <2>2
    <3> HIDE DEF S
    <3> QED
      BY <2>1, <3>1, Induction
  <2>4. \A e \in Nat \ {0} : e - 1 \in Nat /\ (e - 1) + 1 = e
    OBVIOUS
  <2> QED
    BY <2>3, <2>4
<1> QED
  BY <1>1, <1>2, <1>4, <1>5

-----------------------------------------------------------------------------
(* The digits of a number.                                                 *)

Numerals == Seq(Decimals)

\* The quotient and the remainder are a smaller number and a digit.
LEMMA DigitStep ==
  ASSUME NEW k \in Nat
  PROVE  /\ k % BASE \in Decimals /\ k \div BASE \in Nat
         /\ k < BASE => k \in Decimals
         /\ k >= BASE => k \div BASE + 1 < k /\ k \div BASE >= 1
BY DEF BASE, Decimals

\* The recursion of Digits has a solution.
LEMMA DigitsExist ==
  \E f : f = [k \in Nat |-> IF k < BASE THEN <<k>> ELSE Append(f[k \div BASE], k % BASE)]
<1> DEFINE S == [Nat -> Numerals]
           next(g) == [k \in Nat |-> IF k < BASE THEN <<k>> ELSE Append(g[k \div BASE], k % BASE)]
           h == [g \in S |-> next(g)]
           a == [k \in Nat |-> <<>>]
<1>1. \A g \in S : next(g) \in S
  <2>1. SUFFICES ASSUME NEW g \in S, NEW k \in Nat
                 PROVE  (IF k < BASE THEN <<k>> ELSE Append(g[k \div BASE], k % BASE)) \in Numerals
    OBVIOUS
  <2>2. g[k \div BASE] \in Numerals /\ k % BASE \in Decimals
    BY DigitStep
  <2>3. k < BASE => <<k>> \in Numerals
    BY DigitStep DEF Numerals
  <2>4. Append(g[k \div BASE], k % BASE) \in Numerals
    BY <2>2, AppendProperties DEF Numerals
  <2> QED
    BY <2>3, <2>4
<1>2. a \in S
  BY EmptySeq DEF Numerals
<1>3. h \in [S -> S]
  <2> HIDE DEF S, next
  <2> QED
    BY <1>1
<1>4. PICK F \in [Nat -> S] : F[0] = a /\ \A i \in Nat : F[i + 1] = h[F[i]]
  <2> HIDE DEF S, h, a
  <2>1. \E f \in [Nat -> S] : Iterates(f, a, h)
    BY <1>2, <1>3, PrimitiveRecursion, Zenon
  <2> QED
    BY <2>1 DEF Iterates
<1>5. \A i \in Nat : F[i] \in S /\ F[i + 1] = next(F[i])
  <2> HIDE DEF S, next
  <2> QED
    BY <1>4
<1>6. ASSUME NEW i \in Nat, NEW k \in Nat
      PROVE  F[i + 1][k] = IF k < BASE THEN <<k>> ELSE Append(F[i][k \div BASE], k % BASE)
  BY <1>5
<1> HIDE DEF S, next, h, a
\* What k is mapped to after k + 1 steps is what it is mapped to from then on.
<1> DEFINE Settled == {i \in Nat : \A k \in 0..i : F[(i + 1) + 1][k] = F[i + 1][k]}
<1>7. 0 \in Settled
  <2>1. F[(0 + 1) + 1][0] = <<0>> /\ F[0 + 1][0] = <<0>>
    <3>1. 0 \in Nat /\ 0 + 1 \in Nat /\ 0 < BASE
      BY DEF BASE
    <3> QED
      BY <1>6, <3>1
  <2>2. \A k \in 0..0 : k = 0
    OBVIOUS
  <2> QED
    BY <2>1, <2>2
<1>8. ASSUME NEW i \in Nat, i \in Settled PROVE i + 1 \in Settled
  <2>1. PICK j : j = i + 1
    OBVIOUS
  <2>2. j \in Nat /\ j + 1 \in Nat /\ \A k \in 0..i : F[j + 1][k] = F[j][k]
    BY <1>8, <2>1
  <2>3. ASSUME NEW k \in 0..j PROVE F[(j + 1) + 1][k] = F[j + 1][k]
    <3>1. k \in Nat
      BY <2>2
    <3>2. /\ F[(j + 1) + 1][k] = IF k < BASE THEN <<k>> ELSE Append(F[j + 1][k \div BASE], k % BASE)
          /\ F[j + 1][k] = IF k < BASE THEN <<k>> ELSE Append(F[j][k \div BASE], k % BASE)
      BY <1>6, <2>2, <3>1
    <3>3. k >= BASE => F[j + 1][k \div BASE] = F[j][k \div BASE]
      <4>1. k >= BASE => k \div BASE \in 0..i
        BY <2>1, <3>1, DigitStep
      <4> QED
        BY <2>2, <4>1
    <3>4. k < BASE \/ k >= BASE
      BY <3>1 DEF BASE
    <3> QED
      BY <3>2, <3>3, <3>4
  <2> QED
    BY <2>1, <2>2, <2>3
<1>9. \A i \in Nat : i \in Settled
  <2>1. \A i \in Nat : i \in Settled => i + 1 \in Settled
    BY <1>8
  <2> HIDE DEF Settled
  <2> QED
    BY <1>7, <2>1, Induction
<1>10. ASSUME NEW k \in Nat
       PROVE  \A i \in Nat : F[(k + i) + 1][k] = F[k + 1][k]
  <2> DEFINE T == {i \in Nat : F[(k + i) + 1][k] = F[k + 1][k]}
  <2>1. 0 \in T
    OBVIOUS
  <2>2. ASSUME NEW i \in Nat, i \in T PROVE i + 1 \in T
    <3>1. PICK j : j = k + i
      OBVIOUS
    <3>2. j \in Nat /\ k \in 0..j /\ k + (i + 1) = j + 1 /\ F[j + 1][k] = F[k + 1][k]
      BY <2>2, <3>1
    <3>3. F[(j + 1) + 1][k] = F[j + 1][k]
      BY <1>9, <3>2
    <3> QED
      BY <3>2, <3>3
  <2>3. \A i \in Nat : i \in T => i + 1 \in T
    BY <2>2
  <2> HIDE DEF T
  <2>4. \A i \in Nat : i \in T
    BY <2>1, <2>3, Induction
  <2> QED
    BY <2>4 DEF T
<1> DEFINE f == [k \in Nat |-> F[k + 1][k]]
<1>11. ASSUME NEW k \in Nat
       PROVE  f[k] = IF k < BASE THEN <<k>> ELSE Append(f[k \div BASE], k % BASE)
  <2>1. F[k + 1][k] = IF k < BASE THEN <<k>> ELSE Append(F[k][k \div BASE], k % BASE)
    BY <1>6
  <2>2. ASSUME k >= BASE PROVE F[k][k \div BASE] = f[k \div BASE]
    <3>1. PICK j : j = k \div BASE
      OBVIOUS
    <3>2. j \in Nat /\ j + 1 < k
      BY <2>2, <3>1, DigitStep
    <3>3. PICK i : i = k - (j + 1)
      OBVIOUS
    <3>4. i \in Nat /\ (j + i) + 1 = k
      BY <3>2, <3>3
    <3>5. F[k][j] = F[j + 1][j]
      BY <1>10, <3>2, <3>4
    <3> QED
      BY <3>1, <3>2, <3>5
  <2>3. k < BASE \/ k >= BASE
    BY DEF BASE
  <2> QED
    BY <2>1, <2>2, <2>3
<1>12. f = [k \in Nat |-> f[k]]
  OBVIOUS
<1> HIDE DEF f
<1>13. f = [k \in Nat |-> IF k < BASE THEN <<k>> ELSE Append(f[k \div BASE], k % BASE)]
  BY <1>11, <1>12
<1> QED
  BY <1>13

\* A number is written in digits, and has no more of them than it says, two at least when
\* it is no digit itself.
LEMMA DigitsAre ==
  ASSUME NEW k \in Nat
  PROVE  /\ Digits[k] \in Numerals
         /\ k < BASE => Digits[k] = <<k>>
         /\ k >= BASE => Len(Digits[k]) < k
<1>1. Digits = [j \in Nat |-> IF j < BASE THEN <<j>> ELSE Append(Digits[j \div BASE], j % BASE)]
  BY DigitsExist DEF Digits
<1>2. \A j \in Nat : /\ j < BASE => Digits[j] = <<j>>
                     /\ j >= BASE => Digits[j] = Append(Digits[j \div BASE], j % BASE)
  <2>1. \A j \in Nat : Digits[j] = IF j < BASE THEN <<j>> ELSE Append(Digits[j \div BASE], j % BASE)
    BY <1>1
  <2>2. \A j \in Nat : j >= BASE => ~(j < BASE)
    BY DEF BASE
  <2> QED
    BY <2>1, <2>2
<1> DEFINE good(j) == /\ Digits[j] \in Numerals /\ Len(Digits[j]) \in Nat
                      /\ j >= 1 => Len(Digits[j]) =< j
                      /\ j >= BASE => Len(Digits[j]) < j
           S == {i \in Nat : \A j \in 0..i : good(j)}
<1>3. \A j \in Nat : j < BASE => good(j)
  <2>1. SUFFICES ASSUME NEW j \in Nat, j < BASE PROVE good(j)
    OBVIOUS
  <2>2. Digits[j] = <<j>> /\ j \in Decimals
    BY <1>2, <2>1, DigitStep
  <2>3. <<j>> \in Numerals /\ Len(<<j>>) = 1
    BY <2>2 DEF Numerals
  <2>4. ~(j >= BASE)
    BY <2>1 DEF BASE
  <2> QED
    BY <2>2, <2>3, <2>4
<1>4. 0 \in S
  <2>1. good(0)
    <3>1. 0 \in Nat /\ 0 < BASE
      BY DEF BASE
    <3> HIDE DEF good
    <3> QED
      BY <1>3, <3>1
  <2>2. \A j \in 0..0 : j = 0
    OBVIOUS
  <2> HIDE DEF good
  <2> QED
    BY <2>1, <2>2
<1>5. ASSUME NEW i \in Nat, i \in S PROVE i + 1 \in S
  <2>1. PICK m : m = i + 1
    OBVIOUS
  <2>2. m \in Nat /\ \A j \in 0..m : j = m \/ j \in 0..i
    BY <2>1
  <2>3. ASSUME m >= BASE PROVE good(m)
    <3>1. PICK j, t : j = m \div BASE /\ t = Digits[m \div BASE]
      OBVIOUS
    <3>2. j \in 0..i /\ j >= 1 /\ j + 1 < m /\ m % BASE \in Decimals
      BY <2>1, <2>2, <2>3, <3>1, DigitStep
    <3>3. t \in Numerals /\ Len(t) \in Nat /\ Len(t) =< j
      BY <1>5, <3>1, <3>2
    <3>4. Digits[m] = Append(t, m % BASE)
      BY <1>2, <2>2, <2>3, <3>1
    <3>5. Append(t, m % BASE) \in Numerals /\ Len(Append(t, m % BASE)) = Len(t) + 1
      BY <3>2, <3>3, AppendProperties DEF Numerals
    <3>6. PICK l : l = Len(t)
      OBVIOUS
    <3>7. l \in Nat /\ l =< j /\ l + 1 < m
      BY <2>2, <3>2, <3>3, <3>6
    <3>8. Len(Digits[m]) = l + 1 /\ Digits[m] \in Numerals
      BY <3>4, <3>5, <3>6
    <3> QED
      BY <2>2, <3>7, <3>8
  <2>4. m < BASE \/ m >= BASE
    BY <2>2 DEF BASE
  <2> HIDE DEF good
  <2> QED
    BY <1>3, <1>5, <2>1, <2>2, <2>3, <2>4
<1>6. \A i \in Nat : i \in S
  <2>1. \A i \in Nat : i \in S => i + 1 \in S
    BY <1>5
  <2> HIDE DEF S
  <2> QED
    BY <1>4, <2>1, Induction
<1>7. good(k)
  <2>1. k \in 0..k
    OBVIOUS
  <2> HIDE DEF good
  <2> QED
    BY <1>6, <2>1
<1> QED
  BY <1>2, <1>7

\* What the table holds is an unsigned long.
LEMMA PowersAreUlongs ==
  ASSUME NEW d \in Decimals, NEW e \in 0..(UL_SIZE - 1)
  PROVE  power[d][e] \in Ulongs
<1>1. power[d][e] = IF d > 0 /\ e =< max_power[d] THEN Products(d)[e] ELSE 0
  BY DEF power, Decimals
<1>2. Products(d)[e] \in Ulongs
  BY ProductsAreUlongs
<1>3. 0 \in Ulongs
  BY UlongFits DEF Ulongs
<1> QED
  BY <1>1, <1>2, <1>3

\* The sum of compute_power_sum(), digit by digit.
WordSums(sums, digits, e) ==
  /\ sums[0] = 0
  /\ \A k \in 0..(Len(digits) - 1) : sums[k + 1] = Ulong(sums[k] + power[digits[k + 1]][e])

LEMMA WordSumsExist ==
  ASSUME NEW digits \in Numerals, NEW e \in 0..(UL_SIZE - 1)
  PROVE  \E sums \in [0..Len(digits) -> Ulongs] :
           /\ WordSums(sums, digits, e)
           /\ FoldLeft(LAMBDA sum, digit : Ulong(sum + power[digit][e]), 0, digits)
                = sums[Len(digits)]
<1> DEFINE next(x, d) == Ulong(x + power[d][e])
           h == [x \in Ulongs |-> [d \in Decimals |-> next(x, d)]]
           D == DOMAIN digits
           solves(f) == f = [s \in SUBSET D |->
                               IF s = {} THEN 0 ELSE next(f[s \ {Max(s)}], digits[Max(s)])]
<1>1. digits \in Seq(Decimals) /\ Len(digits) \in Nat /\ D = 1..Len(digits)
  BY LenProperties DEF Numerals
<1>2. h \in [Ulongs -> [Decimals -> Ulongs]] /\ 0 \in Ulongs
  <2>1. \A x \in Ulongs, d \in Decimals : x + power[d][e] \in Int
    <3>1. SUFFICES ASSUME NEW x \in Ulongs, NEW d \in Decimals PROVE x + power[d][e] \in Int
      OBVIOUS
    <3>2. power[d][e] \in Ulongs
      BY PowersAreUlongs
    <3> QED
      BY <3>2, UlongFits DEF Ulongs
  <2>2. \A x \in Ulongs, d \in Decimals : next(x, d) \in Ulongs
    BY <2>1, UlongFits
  <2>3. 0 \in Ulongs
    BY UlongFits DEF Ulongs
  <2> HIDE DEF next
  <2> QED
    BY <2>2, <2>3
<1>3. PICK f \in [SUBSET D -> Ulongs] : \A s \in SUBSET D :
        /\ s = {} => f[s] = 0
        /\ s # {} => Max(s) \in s /\ f[s] = h[f[s \ {Max(s)}]][digits[Max(s)]]
  <2> HIDE DEF h
  <2>1. \E f \in [SUBSET DOMAIN digits -> Ulongs] : Folds(f, 0, h, digits)
    BY <1>1, <1>2, FoldsExist, Zenon
  <2> QED
    BY <2>1 DEF Folds
<1>4. solves(f)
  <2>1. ASSUME NEW s \in SUBSET D
        PROVE  f[s] = IF s = {} THEN 0 ELSE next(f[s \ {Max(s)}], digits[Max(s)])
    <3>1. CASE s = {}
      BY <1>3, <3>1
    <3>2. CASE s # {}
      <4>1. PICK j, r : j = Max(s) /\ r = s \ {Max(s)}
        OBVIOUS
      <4>2. j \in D /\ r \in SUBSET D /\ f[s] = h[f[r]][digits[j]]
        BY <1>3, <3>2, <4>1
      <4>3. digits[j] \in Decimals /\ f[r] \in Ulongs
        BY <1>1, <1>3, <4>2, ElementOfSeq
      <4>4. h[f[r]][digits[j]] = next(f[r], digits[j])
        BY <4>3
      <4> HIDE DEF next, h
      <4> QED
        BY <3>2, <4>1, <4>2, <4>4
    <3> QED
      BY <3>1, <3>2
  <2>2. f = [s \in SUBSET D |-> f[s]]
    BY <1>3
  <2> HIDE DEF next, D
  <2> QED
    BY <2>1, <2>2
<1>5. PICK g : solves(g) /\ g = CHOOSE c : solves(c)
  <2> HIDE DEF solves
  <2> QED
    BY <1>4
<1>6. FoldLeft(LAMBDA sum, digit : Ulong(sum + power[digit][e]), 0, digits) = g[D]
  BY <1>5 DEF FoldLeft, MapThenFoldSet
<1> DEFINE sums == [k \in 0..Len(digits) |-> g[1..k]]
<1>7. sums[0] = 0
  <2>1. 1..0 = {} /\ {} \in SUBSET D
    OBVIOUS
  <2>2. g[{}] = 0
    BY <1>5, <2>1
  <2> QED
    BY <1>1, <2>1, <2>2
<1>8. ASSUME NEW k \in 0..(Len(digits) - 1)
      PROVE  sums[k + 1] = next(sums[k], digits[k + 1])
  <2>1. PICK j, s : j = k + 1 /\ s = 1..(k + 1)
    OBVIOUS
  <2>2. k \in Nat /\ k \in 0..Len(digits) /\ k + 1 \in 0..Len(digits) /\ s \in SUBSET D
    BY <1>1, <1>8, <2>1
  <2>3. s # {} /\ Max(s) = j /\ s \ {j} = 1..k
    BY <2>1, <2>2, FirstNumbers
  <2>4. g[s] = next(g[s \ {Max(s)}], digits[Max(s)])
    <3> HIDE DEF next
    <3> QED
      BY <1>5, <2>2, <2>3
  <2>5. g[s] = next(g[1..k], digits[j])
    BY <2>3, <2>4
  <2> HIDE DEF next
  <2> QED
    BY <2>1, <2>2, <2>5
<1>9. \A k \in 0..Len(digits) : sums[k] \in Ulongs
  <2> DEFINE T == {k \in Nat : k =< Len(digits) => sums[k] \in Ulongs}
  <2>1. 0 \in T
    BY <1>2, <1>7
  <2>2. ASSUME NEW k \in Nat, k \in T PROVE k + 1 \in T
    <3>1. SUFFICES ASSUME k + 1 =< Len(digits) PROVE sums[k + 1] \in Ulongs
      OBVIOUS
    <3>2. k \in 0..(Len(digits) - 1) /\ sums[k] \in Ulongs /\ k + 1 \in 1..Len(digits)
      BY <1>1, <2>2, <3>1
    <3>3. power[digits[k + 1]][e] \in Ulongs
      BY <1>1, <3>2, ElementOfSeq, PowersAreUlongs
    <3>4. sums[k] + power[digits[k + 1]][e] \in Int
      <4> HIDE DEF sums
      <4> QED
        BY <3>2, <3>3, UlongFits DEF Ulongs
    <3>5. sums[k + 1] = Ulong(sums[k] + power[digits[k + 1]][e])
      BY <1>8, <3>2
    <3> HIDE DEF sums
    <3> QED
      BY <3>4, <3>5, UlongFits
  <2>3. \A k \in Nat : k \in T
    <3>1. \A k \in Nat : k \in T => k + 1 \in T
      BY <2>2
    <3> HIDE DEF T
    <3> QED
      BY <2>1, <3>1, Induction
  <2> HIDE DEF sums
  <2> QED
    BY <1>1, <2>3
<1>10. sums \in [0..Len(digits) -> Ulongs]
  BY <1>9
<1>11. g[D] = sums[Len(digits)]
  BY <1>1
<1>12. WordSums(sums, digits, e)
  <2> HIDE DEF sums
  <2> QED
    BY <1>7, <1>8 DEF WordSums
<1> HIDE DEF sums
<1> QED
  BY <1>6, <1>10, <1>11, <1>12

\* The sum of IsPdi(), digit by digit.
PaperSums(sums, digits, e) ==
  /\ sums[0] = 0
  /\ \A k \in 0..(Len(digits) - 1) : sums[k + 1] = sums[k] + SaturatedPower(digits[k + 1])[e]

LEMMA PaperSumsExist ==
  ASSUME NEW digits \in Numerals, NEW e \in Nat
  PROVE  \E sums \in [0..Len(digits) -> Nat] :
           /\ PaperSums(sums, digits, e)
           /\ FoldLeft(LAMBDA sum, digit : sum + SaturatedPower(digit)[e], 0, digits)
                = sums[Len(digits)]
<1> DEFINE next(x, d) == x + SaturatedPower(d)[e]
           h == [x \in Nat |-> [d \in Decimals |-> next(x, d)]]
           D == DOMAIN digits
           solves(f) == f = [s \in SUBSET D |->
                               IF s = {} THEN 0 ELSE next(f[s \ {Max(s)}], digits[Max(s)])]
<1>1. digits \in Seq(Decimals) /\ Len(digits) \in Nat /\ D = 1..Len(digits)
  BY LenProperties DEF Numerals
<1>2. \A x \in Nat, d \in Decimals : next(x, d) \in Nat
  <2>1. \A d \in Decimals : SaturatedPower(d)[e] \in Nat
    <3>1. SUFFICES ASSUME NEW d \in Decimals PROVE SaturatedPower(d)[e] \in Nat
      OBVIOUS
    <3>2. PICK x, m : x = SaturatedPower(d)[e] /\ m = ULONG_MAX
      OBVIOUS
    <3>3. m \in Nat /\ x \in 0..(m + 1)
      BY <3>2, SaturatedPowers, UlongFits
    <3> QED
      BY <3>2, <3>3
  <2> QED
    BY <2>1
<1>3. PICK f \in [SUBSET D -> Nat] : \A s \in SUBSET D :
        /\ s = {} => f[s] = 0
        /\ s # {} => Max(s) \in s /\ f[s] = h[f[s \ {Max(s)}]][digits[Max(s)]]
  <2>1. h \in [Nat -> [Decimals -> Nat]]
    <3> HIDE DEF next
    <3> QED
      BY <1>2
  <2> HIDE DEF h
  <2>2. \E f \in [SUBSET DOMAIN digits -> Nat] : Folds(f, 0, h, digits)
    BY <1>1, <2>1, FoldsExist, Zenon
  <2> QED
    BY <2>2 DEF Folds
<1>4. solves(f)
  <2>1. ASSUME NEW s \in SUBSET D
        PROVE  f[s] = IF s = {} THEN 0 ELSE next(f[s \ {Max(s)}], digits[Max(s)])
    <3>1. CASE s = {}
      BY <1>3, <3>1
    <3>2. CASE s # {}
      <4>1. PICK j, r : j = Max(s) /\ r = s \ {Max(s)}
        OBVIOUS
      <4>2. j \in D /\ r \in SUBSET D /\ f[s] = h[f[r]][digits[j]]
        BY <1>3, <3>2, <4>1
      <4>3. digits[j] \in Decimals /\ f[r] \in Nat
        BY <1>1, <1>3, <4>2, ElementOfSeq
      <4>4. h[f[r]][digits[j]] = next(f[r], digits[j])
        BY <4>3
      <4> HIDE DEF next, h
      <4> QED
        BY <3>2, <4>1, <4>2, <4>4
    <3> QED
      BY <3>1, <3>2
  <2>2. f = [s \in SUBSET D |-> f[s]]
    BY <1>3
  <2> HIDE DEF next, D
  <2> QED
    BY <2>1, <2>2
<1>5. PICK g : solves(g) /\ g = CHOOSE c : solves(c)
  <2> HIDE DEF solves
  <2> QED
    BY <1>4
<1>6. FoldLeft(LAMBDA sum, digit : sum + SaturatedPower(digit)[e], 0, digits) = g[D]
  BY <1>5 DEF FoldLeft, MapThenFoldSet
<1> DEFINE sums == [k \in 0..Len(digits) |-> g[1..k]]
<1>7. sums[0] = 0
  <2>1. 1..0 = {} /\ {} \in SUBSET D
    OBVIOUS
  <2>2. g[{}] = 0
    BY <1>5, <2>1
  <2> QED
    BY <1>1, <2>1, <2>2
<1>8. ASSUME NEW k \in 0..(Len(digits) - 1)
      PROVE  sums[k + 1] = next(sums[k], digits[k + 1])
  <2>1. PICK j, s : j = k + 1 /\ s = 1..(k + 1)
    OBVIOUS
  <2>2. k \in Nat /\ k \in 0..Len(digits) /\ k + 1 \in 0..Len(digits) /\ s \in SUBSET D
    BY <1>1, <1>8, <2>1
  <2>3. s # {} /\ Max(s) = j /\ s \ {j} = 1..k
    BY <2>1, <2>2, FirstNumbers
  <2>4. g[s] = next(g[s \ {Max(s)}], digits[Max(s)])
    <3> HIDE DEF next
    <3> QED
      BY <1>5, <2>2, <2>3
  <2>5. g[s] = next(g[1..k], digits[j])
    BY <2>3, <2>4
  <2> HIDE DEF next
  <2> QED
    BY <2>1, <2>2, <2>5
<1>9. \A k \in 0..Len(digits) : sums[k] \in Nat
  <2> DEFINE T == {k \in Nat : k =< Len(digits) => sums[k] \in Nat}
  <2>1. 0 \in T
    BY <1>7
  <2>2. ASSUME NEW k \in Nat, k \in T PROVE k + 1 \in T
    <3>1. SUFFICES ASSUME k + 1 =< Len(digits) PROVE sums[k + 1] \in Nat
      OBVIOUS
    <3>2. k \in 0..(Len(digits) - 1) /\ sums[k] \in Nat /\ k + 1 \in 1..Len(digits)
      BY <1>1, <2>2, <3>1
    <3>3. digits[k + 1] \in Decimals /\ sums[k + 1] = next(sums[k], digits[k + 1])
      BY <1>1, <1>8, <3>2, ElementOfSeq
    <3> HIDE DEF sums, next
    <3> QED
      BY <1>2, <3>2, <3>3
  <2>3. \A k \in Nat : k \in T
    <3>1. \A k \in Nat : k \in T => k + 1 \in T
      BY <2>2
    <3> HIDE DEF T
    <3> QED
      BY <2>1, <3>1, Induction
  <2> HIDE DEF sums
  <2> QED
    BY <1>1, <2>3
<1>10. sums \in [0..Len(digits) -> Nat]
  BY <1>9
<1>11. g[D] = sums[Len(digits)]
  BY <1>1
<1>12. PaperSums(sums, digits, e)
  <2> HIDE DEF sums
  <2> QED
    BY <1>7, <1>8 DEF PaperSums
<1> HIDE DEF sums
<1> QED
  BY <1>6, <1>10, <1>11, <1>12

-----------------------------------------------------------------------------
(* Sums that fit.                                                          *)

\* The sums on paper grow: none is above the last, and no term is.
LEMMA PaperSumsGrow ==
  ASSUME NEW digits \in Numerals, NEW e \in Nat, NEW sums \in [0..Len(digits) -> Nat],
         PaperSums(sums, digits, e)
  PROVE  \A i \in 1..Len(digits) :
           /\ digits[i] \in Decimals /\ SaturatedPower(digits[i])[e] \in Nat
           /\ sums[i] = sums[i - 1] + SaturatedPower(digits[i])[e]
           /\ sums[i] =< sums[Len(digits)]
           /\ SaturatedPower(digits[i])[e] =< sums[Len(digits)]
<1>1. PICK l, last : l = Len(digits) /\ last = sums[Len(digits)]
  OBVIOUS
<1>2. l \in Nat /\ last = sums[l] /\ sums \in [0..l -> Nat] /\ digits \in Seq(Decimals)
  BY <1>1, LenProperties DEF Numerals
<1>3. ASSUME NEW i \in 1..l
      PROVE  /\ digits[i] \in Decimals /\ SaturatedPower(digits[i])[e] \in Nat
             /\ sums[i] = sums[i - 1] + SaturatedPower(digits[i])[e]
  <2>1. digits[i] \in Decimals
    BY <1>1, <1>2, ElementOfSeq
  <2>2. PICK x, m : x = SaturatedPower(digits[i])[e] /\ m = ULONG_MAX
    OBVIOUS
  <2>3. m \in Nat /\ x \in 0..(m + 1)
    BY <2>1, <2>2, SaturatedPowers, UlongFits
  <2>4. i - 1 \in 0..(l - 1) /\ (i - 1) + 1 = i
    BY <1>2
  <2>5. sums[i] = sums[i - 1] + x
    BY <1>1, <2>2, <2>4 DEF PaperSums
  <2> QED
    BY <2>1, <2>2, <2>3, <2>5
<1> DEFINE S == {d \in Nat : d =< l => sums[l - d] =< last}
<1>4. 0 \in S
  BY <1>2
<1>5. ASSUME NEW d \in Nat, d \in S PROVE d + 1 \in S
  <2>1. SUFFICES ASSUME d + 1 =< l PROVE sums[l - (d + 1)] =< last
    OBVIOUS
  <2>2. PICK i : i = l - d
    OBVIOUS
  <2>3. i \in 1..l /\ i - 1 \in 0..l /\ i \in 0..l /\ l - (d + 1) = i - 1 /\ sums[i] =< last
    BY <1>2, <1>5, <2>1, <2>2
  <2>4. PICK x, y, z : x = sums[i - 1] /\ y = sums[i] /\ z = SaturatedPower(digits[i])[e]
    OBVIOUS
  <2>5. x \in Nat /\ z \in Nat /\ y = x + z /\ y =< last /\ last \in Nat
    BY <1>2, <1>3, <2>3, <2>4
  <2>6. x =< last
    BY <2>5
  <2> QED
    BY <2>3, <2>4, <2>6
<1>6. \A d \in Nat : d \in S
  <2>1. \A d \in Nat : d \in S => d + 1 \in S
    BY <1>5
  <2> HIDE DEF S
  <2> QED
    BY <1>4, <2>1, Induction
<1>7. ASSUME NEW i \in 1..l PROVE sums[i] =< last /\ SaturatedPower(digits[i])[e] =< last
  <2>1. l - i \in Nat /\ l - i =< l /\ l - (l - i) = i /\ i \in 0..l /\ i - 1 \in 0..l
    BY <1>2
  <2>2. sums[i] =< last
    BY <1>6, <2>1
  <2>3. PICK x, y, z : x = sums[i - 1] /\ y = sums[i] /\ z = SaturatedPower(digits[i])[e]
    OBVIOUS
  <2>4. x \in Nat /\ z \in Nat /\ y = x + z /\ y =< last /\ last \in Nat
    BY <1>2, <1>3, <2>1, <2>2, <2>3
  <2>5. z =< last
    BY <2>4
  <2> QED
    BY <2>2, <2>3, <2>5
<1> QED
  BY <1>1, <1>3, <1>7

\* A sum that fits is computed with the table and the word as on paper.
LEMMA SumsAgree ==
  ASSUME W > 2, NEW digits \in Numerals, NEW e \in 0..(UL_SIZE - 1),
         \A i \in 1..Len(digits) : digits[i] # 0 \/ e # 0,
         NEW sums \in [0..Len(digits) -> Nat], PaperSums(sums, digits, e),
         sums[Len(digits)] =< ULONG_MAX
  PROVE  compute_power_sum(digits, e) = sums[Len(digits)]
<1>1. PICK l : l = Len(digits)
  OBVIOUS
<1>2. /\ l \in Nat /\ DOMAIN digits = 1..l /\ e \in Nat /\ ULONG_MAX \in Nat
      /\ sums \in [0..l -> Nat]
  BY <1>1, LenProperties, UlongFits, DpnumAssumption DEF Numerals, UL_SIZE
<1>3. \A i \in 1..l :
        /\ digits[i] \in Decimals /\ SaturatedPower(digits[i])[e] \in Nat
        /\ sums[i] = sums[i - 1] + SaturatedPower(digits[i])[e]
        /\ sums[i] =< sums[l] /\ SaturatedPower(digits[i])[e] =< sums[l]
  BY <1>1, <1>2, PaperSumsGrow
<1>4. ASSUME NEW i \in 1..l
      PROVE  /\ power[digits[i]][e] = SaturatedPower(digits[i])[e]
             /\ ~(e > max_power[digits[i]])
             /\ sums[i] \in Ulongs
  <2>1. PICK x, y, m, z : /\ x = SaturatedPower(digits[i])[e] /\ m = ULONG_MAX /\ y = sums[l]
                          /\ z = sums[i]
    OBVIOUS
  <2>2. i \in 0..l /\ l \in 0..l
    BY <1>2
  <2>3. x \in Nat /\ y \in Nat /\ m \in Nat /\ x =< y /\ y =< m /\ z =< y /\ z \in Nat
    BY <1>1, <1>2, <1>3, <2>1, <2>2
  <2>4. x =< m /\ z \in 0..m
    BY <2>3
  <2>5. digits[i] \in Decimals /\ (digits[i] # 0 \/ e # 0)
    BY <1>1, <1>3
  <2>6. power[digits[i]][e] = SaturatedPower(digits[i])[e] /\ ~(e > max_power[digits[i]])
    BY <2>1, <2>4, <2>5, NoPowerMissing
  <2> QED
    BY <2>1, <2>4, <2>6 DEF Ulongs
<1>5. PICK word \in [0..l -> Ulongs] :
        /\ WordSums(word, digits, e)
        /\ FoldLeft(LAMBDA sum, digit : Ulong(sum + power[digit][e]), 0, digits) = word[l]
  BY <1>1, WordSumsExist
<1>6. word[0] = 0 /\ \A k \in 0..(l - 1) : word[k + 1] = Ulong(word[k] + power[digits[k + 1]][e])
  BY <1>1, <1>5 DEF WordSums
<1> DEFINE S == {k \in Nat : k =< l => word[k] = sums[k]}
<1>7. 0 \in S
  BY <1>6 DEF PaperSums
<1>8. ASSUME NEW k \in Nat, k \in S PROVE k + 1 \in S
  <2>1. SUFFICES ASSUME k + 1 =< l PROVE word[k + 1] = sums[k + 1]
    OBVIOUS
  <2>2. PICK j : j = k + 1
    OBVIOUS
  <2>3. k \in 0..(l - 1) /\ j \in 1..l /\ j - 1 = k /\ word[k] = sums[k]
    BY <1>2, <1>8, <2>1, <2>2
  <2>4. word[j] = Ulong(sums[k] + power[digits[j]][e])
    BY <1>6, <2>2, <2>3
  <2>5. sums[j] = sums[k] + power[digits[j]][e] /\ sums[j] \in Ulongs
    BY <1>3, <1>4, <2>3
  <2> QED
    BY <2>2, <2>4, <2>5, UlongFits
<1>9. \A k \in Nat : k \in S
  <2>1. \A k \in Nat : k \in S => k + 1 \in S
    BY <1>8
  <2> HIDE DEF S
  <2> QED
    BY <1>7, <2>1, Induction
<1>10. word[l] = sums[l]
  BY <1>2, <1>9
<1>11. ~ \E i \in DOMAIN digits : e > max_power[digits[i]]
  BY <1>2, <1>4
<1>12. compute_power_sum(digits, e)
         = FoldLeft(LAMBDA sum, digit : Ulong(sum + power[digit][e]), 0, digits)
  BY <1>11 DEF compute_power_sum
<1> QED
  BY <1>1, <1>5, <1>10, <1>12

\* What IsPdi() says of a number, with the sums digit by digit.
LEMMA PdiSums ==
  ASSUME NEW k \in DigitPowerSums
  PROVE  /\ k \in Nat /\ k > 0 /\ k =< ULONG_MAX
         /\ \E e \in 0..W : \E sums \in [0..Len(Digits[k]) -> Nat] :
              PaperSums(sums, Digits[k], e) /\ sums[Len(Digits[k])] = k
<1>1. k \in 1..ULONG_MAX /\ IsPdi(k)
  BY DEF DigitPowerSums
<1>2. k \in Nat /\ k > 0 /\ k =< ULONG_MAX
  BY <1>1, UlongFits
<1>3. PICK e \in 0..UL_SIZE :
        k = FoldLeft(LAMBDA sum, digit : sum + SaturatedPower(digit)[e], 0, Digits[k])
  BY <1>1 DEF IsPdi
<1>4. e \in 0..W /\ e \in Nat
  BY DpnumAssumption DEF UL_SIZE
<1>5. PICK sums \in [0..Len(Digits[k]) -> Nat] :
        /\ PaperSums(sums, Digits[k], e)
        /\ FoldLeft(LAMBDA sum, digit : sum + SaturatedPower(digit)[e], 0, Digits[k])
             = sums[Len(Digits[k])]
  <2>1. Digits[k] \in Numerals
    BY <1>2, DigitsAre
  <2> QED
    BY <1>4, <2>1, PaperSumsExist
<1> QED
  BY <1>2, <1>3, <1>4, <1>5

\* With exponent 0 a number is the number of its digits, which only 1 is.
LEMMA OnlyOneCountsItsDigits ==
  ASSUME NEW k \in Nat, k > 0, NEW sums \in [0..Len(Digits[k]) -> Nat],
         PaperSums(sums, Digits[k], 0), sums[Len(Digits[k])] = k
  PROVE  Digits[k] = <<1>>
<1>1. PICK digits, l : digits = Digits[k] /\ l = Len(Digits[k])
  OBVIOUS
<1>2. /\ digits \in Numerals /\ l \in Nat /\ sums \in [0..l -> Nat]
  <2>1. digits \in Numerals
    BY <1>1, DigitsAre
  <2> QED
    BY <1>1, <2>1, LenProperties DEF Numerals
<1>3. \A i \in 1..l : sums[i] = sums[i - 1] + 1
  <2>1. SUFFICES ASSUME NEW i \in 1..l PROVE sums[i] = sums[i - 1] + 1
    OBVIOUS
  <2>2. digits[i] \in Decimals /\ sums[i] = sums[i - 1] + SaturatedPower(digits[i])[0]
    BY <1>1, <1>2, PaperSumsGrow
  <2>3. SaturatedPower(digits[i])[0] = 1
    BY <2>2, SaturatedPowers
  <2> QED
    BY <2>2, <2>3
<1> DEFINE S == {i \in Nat : i =< l => sums[i] = i}
<1>4. 0 \in S
  BY DEF PaperSums
<1>5. ASSUME NEW i \in Nat, i \in S PROVE i + 1 \in S
  <2>1. SUFFICES ASSUME i + 1 =< l PROVE sums[i + 1] = i + 1
    OBVIOUS
  <2>2. i + 1 \in 1..l /\ (i + 1) - 1 = i /\ sums[i] = i
    BY <1>2, <1>5, <2>1
  <2>3. sums[i + 1] = sums[(i + 1) - 1] + 1
    BY <1>3, <2>2
  <2> QED
    BY <2>2, <2>3
<1>6. \A i \in Nat : i \in S
  <2>1. \A i \in Nat : i \in S => i + 1 \in S
    BY <1>5
  <2> HIDE DEF S
  <2> QED
    BY <1>4, <2>1, Induction
<1>7. sums[l] = l
  BY <1>2, <1>6
<1>8. Len(Digits[k]) = k
  BY <1>1, <1>7
<1>9. k < BASE
  <2>1. k >= BASE => Len(Digits[k]) < k
    BY DigitsAre
  <2>2. BASE \in Nat
    BY DEF BASE
  <2> QED
    BY <1>8, <2>1, <2>2
<1>10. Digits[k] = <<k>>
  BY <1>9, DigitsAre
<1>11. Len(<<k>>) = 1
  OBVIOUS
<1> QED
  BY <1>8, <1>10, <1>11

\* Where even the highest power fits the digits are 0 and 1, and every power will do.
LEMMA HighestPowerIsFirst ==
  ASSUME NEW digits \in Numerals, NEW sums \in [0..Len(digits) -> Nat],
         PaperSums(sums, digits, W), sums[Len(digits)] =< ULONG_MAX
  PROVE  PaperSums(sums, digits, 1)
<1>1. PICK l, m, last : l = Len(digits) /\ m = ULONG_MAX /\ last = sums[Len(digits)]
  OBVIOUS
<1>2. /\ l \in Nat /\ m \in Nat /\ sums \in [0..l -> Nat] /\ last \in Nat /\ last =< m
      /\ W \in Nat \ {0} /\ 1 \in Nat \ {0}
  <2>1. l \in Nat
    BY <1>1, LenProperties DEF Numerals
  <2> QED
    BY <1>1, <2>1, UlongFits, DpnumAssumption
<1>3. ASSUME NEW k \in 0..(l - 1)
      PROVE  sums[k + 1] = sums[k] + SaturatedPower(digits[k + 1])[1]
  <2>1. PICK i : i = k + 1
    OBVIOUS
  <2>2. i \in 1..l /\ i - 1 = k
    BY <1>2, <2>1
  <2>3. PICK d, x : d = digits[i] /\ x = SaturatedPower(digits[i])[W]
    OBVIOUS
  <2>4. /\ d \in Decimals /\ x \in Nat /\ sums[i] = sums[i - 1] + x /\ x =< last
    BY <1>1, <1>2, <2>2, <2>3, PaperSumsGrow
  <2>5. d < 2
    <3>1. d >= 2 => x = m + 1
      BY <1>1, <2>3, <2>4, PowersByWidth DEF UL_SIZE
    <3>2. d \in Nat
      BY <2>4 DEF Decimals, BASE
    <3> QED
      BY <1>2, <2>4, <3>1, <3>2
  <2>6. SaturatedPower(d)[W] = d /\ SaturatedPower(d)[1] = d
    BY <1>2, <2>4, <2>5, PowersByWidth
  <2> QED
    BY <2>1, <2>2, <2>3, <2>4, <2>6
<1>4. sums[0] = 0
  BY DEF PaperSums
<1> QED
  BY <1>1, <1>3, <1>4 DEF PaperSums

\* For every word size the test finds every digit-power sum: no power that the sum needs
\* wraps, and none is left out of the table by the early end of its row or rejected with it;
\* the exponents that compute_power_sum() is not asked for add no number.
THEOREM TestMissesNothing ==
  ASSUME W > 2
  PROVE  \A k \in DigitPowerSums : check(k)
<1> SUFFICES ASSUME NEW k \in DigitPowerSums PROVE check(k)
  OBVIOUS
<1>1. k \in Nat /\ k > 0 /\ k =< ULONG_MAX
  BY PdiSums
<1>2. PICK e \in 0..W : \E sums \in [0..Len(Digits[k]) -> Nat] :
        PaperSums(sums, Digits[k], e) /\ sums[Len(Digits[k])] = k
  BY PdiSums
<1>3. PICK sums \in [0..Len(Digits[k]) -> Nat] :
        PaperSums(sums, Digits[k], e) /\ sums[Len(Digits[k])] = k
  BY <1>2
<1>4. Digits[k] \in Numerals /\ W \in Nat /\ UL_SIZE = W
  BY <1>1, DigitsAre, DpnumAssumption DEF UL_SIZE
<1>5. SUFFICES \E x \in 0..(UL_SIZE - 1) : compute_power_sum(Digits[k], x) = k
  BY <1>1 DEF check
<1>6. CASE e = 0
  <2>1. Digits[k] = <<1>>
    BY <1>1, <1>3, <1>6, OnlyOneCountsItsDigits
  <2>2. Len(<<1>>) = 1 /\ <<1>>[1] # 0
    OBVIOUS
  <2>3. \A i \in 1..Len(Digits[k]) : Digits[k][i] # 0 \/ e # 0
    BY <2>1, <2>2
  <2>4. e \in 0..(UL_SIZE - 1)
    BY <1>4, <1>6
  <2>5. compute_power_sum(Digits[k], e) = k
    BY <1>1, <1>3, <1>4, <2>3, <2>4, SumsAgree
  <2> QED
    BY <2>4, <2>5
<1>7. CASE e # 0 /\ e # W
  <2>1. e \in 0..(UL_SIZE - 1)
    BY <1>4, <1>7
  <2>2. compute_power_sum(Digits[k], e) = k
    BY <1>1, <1>3, <1>4, <1>7, <2>1, SumsAgree
  <2> QED
    BY <2>1, <2>2
<1>8. CASE e = W
  <2>1. PaperSums(sums, Digits[k], 1)
    BY <1>1, <1>3, <1>4, <1>8, HighestPowerIsFirst
  <2>2. 1 \in 0..(UL_SIZE - 1) /\ 1 # 0
    BY <1>4
  <2>3. compute_power_sum(Digits[k], 1) = k
    BY <1>1, <1>3, <1>4, <2>1, <2>2, SumsAgree
  <2> QED
    BY <2>2, <2>3
<1> QED
  BY <1>6, <1>7, <1>8

-----------------------------------------------------------------------------
(* What main() prints, given that the test of one number is right.         *)

Searchable == 0..(ULONG_MAX - 1)

\* The numbers below high, and not below low, that pass the test.
Hits(low, high) == {k \in low..(high - 1) : check(k)}

\* What a search counts on besides: no sum with a product that has wrapped is a number by
\* accident, and the numbers that pass the test fit a buffer, the terminator included.
TestIsSound == \A k \in Searchable : check(k) => k \in DigitPowerSums

EnoughRoom == Cardinality({k \in Searchable : check(k)}) < MAX_PDI_NUMBER_COUNT

\* Then the test answers as the definition does.
LEMMA TestIsExact ==
  ASSUME W > 2, TestIsSound
  PROVE  \A k \in Searchable : check(k) <=> k \in DigitPowerSums
BY TestMissesNothing DEF TestIsSound

Ascending(s) == \A i, j \in DOMAIN s : i < j => s[i] < s[j]

\* Every buffer holds what its thread has passed that it should hold.
SearchInv ==
  \A i \in 1..Len(pc) :
    /\ Ascending(dest[i])
    /\ ToSet(dest[i]) = Hits(Bound(i - 1), n[i])
    /\ pc[i] = "done" => n[i] = Bound(i) \/ Len(dest[i]) >= MAX_PDI_NUMBER_COUNT - 1

\* main() has printed the parts of the threads it has joined.
PrintInv ==
  /\ output \in Seq(Ulongs)
  /\ phase = "create" => output = <<>>
  /\ phase \in {"join", "exit"} =>
       /\ Ascending(output)
       /\ ToSet(output) = Hits(config.s, Bound(thread_index))
  /\ phase = "exit" => thread_index = config.t

\* The elements of two sequences put together.
LEMMA ConcatElements ==
  ASSUME NEW s \in Seq(Ulongs), NEW r \in Seq(Ulongs)
  PROVE  /\ s \o r \in Seq(Ulongs)
         /\ ToSet(s \o r) = ToSet(s) \union ToSet(r)
         /\ Ascending(s) /\ Ascending(r) /\ (\A x \in ToSet(s), y \in ToSet(r) : x < y)
              => Ascending(s \o r)
<1>1. PICK a, b, sr : a = Len(s) /\ b = Len(r) /\ sr = s \o r
  OBVIOUS
<1>2. a \in Nat /\ b \in Nat /\ DOMAIN s = 1..a /\ DOMAIN r = 1..b
  BY <1>1, LenProperties
<1>3. /\ sr \in Seq(Ulongs) /\ Len(sr) = a + b
      /\ \A i \in 1..(a + b) : sr[i] = IF i =< a THEN s[i] ELSE r[i - a]
  BY <1>1, ConcatProperties
<1>4. DOMAIN sr = 1..(a + b)
  BY <1>3, LenProperties
<1>5. \A i \in 1..(a + b) : \/ i \in 1..a /\ sr[i] = s[i]
                            \/ i > a /\ i - a \in 1..b /\ sr[i] = r[i - a]
  BY <1>2, <1>3
<1>6. /\ \A i \in 1..a : i \in 1..(a + b) /\ sr[i] = s[i]
      /\ \A i \in 1..b : i + a \in 1..(a + b) /\ sr[i + a] = r[i]
  <2>1. ASSUME NEW i \in 1..a PROVE i \in 1..(a + b) /\ sr[i] = s[i]
    BY <1>2, <1>3
  <2>2. ASSUME NEW i \in 1..b PROVE i + a \in 1..(a + b) /\ sr[i + a] = r[i]
    <3>1. i + a \in 1..(a + b) /\ ~(i + a =< a) /\ (i + a) - a = i
      BY <1>2
    <3> QED
      BY <1>3, <3>1
  <2> QED
    BY <2>1, <2>2
<1>7. ToSet(sr) = ToSet(s) \union ToSet(r)
  <2>1. ASSUME NEW x \in ToSet(sr) PROVE x \in ToSet(s) \union ToSet(r)
    <3>1. PICK i \in 1..(a + b) : x = sr[i]
      BY <1>4 DEF ToSet
    <3> QED
      BY <1>2, <1>5, <3>1 DEF ToSet
  <2>2. ASSUME NEW x \in ToSet(s) \union ToSet(r) PROVE x \in ToSet(sr)
    <3>1. (\E i \in 1..a : x = s[i]) \/ (\E i \in 1..b : x = r[i])
      BY <1>2 DEF ToSet
    <3>2. \E i \in 1..(a + b) : x = sr[i]
      BY <1>6, <3>1
    <3> QED
      BY <1>4, <3>2 DEF ToSet
  <2> QED
    BY <2>1, <2>2
<1>8. ASSUME Ascending(s), Ascending(r), \A x \in ToSet(s), y \in ToSet(r) : x < y
      PROVE  Ascending(sr)
  <2>1. SUFFICES ASSUME NEW i \in 1..(a + b), NEW j \in 1..(a + b), i < j PROVE sr[i] < sr[j]
    BY <1>4 DEF Ascending
  <2>2. CASE j =< a
    <3>1. i \in 1..a /\ j \in 1..a
      BY <1>2, <2>1, <2>2
    <3> QED
      BY <1>2, <1>6, <1>8, <2>1, <3>1 DEF Ascending
  <2>3. CASE i > a
    <3>1. i - a \in 1..b /\ j - a \in 1..b /\ i - a < j - a
      BY <1>2, <2>1, <2>3
    <3>2. sr[i] = r[i - a] /\ sr[j] = r[j - a]
      BY <1>2, <1>3, <2>1, <2>3
    <3> QED
      BY <1>2, <1>8, <3>1, <3>2 DEF Ascending
  <2>4. CASE i =< a /\ j > a
    <3>1. i \in 1..a /\ j - a \in 1..b
      BY <1>2, <2>1, <2>4
    <3>2. sr[i] = s[i] /\ sr[j] = r[j - a]
      BY <1>2, <1>3, <2>1, <2>4
    <3>3. s[i] \in ToSet(s) /\ r[j - a] \in ToSet(r)
      BY <1>2, <3>1 DEF ToSet
    <3> QED
      BY <1>8, <3>2, <3>3
  <2> QED
    BY <1>2, <2>1, <2>2, <2>3, <2>4
<1> QED
  BY <1>1, <1>3, <1>7, <1>8

\* The elements of a sequence with one more.
LEMMA AppendElements ==
  ASSUME NEW s \in Seq(Ulongs), NEW k \in Ulongs
  PROVE  /\ ToSet(Append(s, k)) = ToSet(s) \union {k}
         /\ Ascending(s) /\ (\A x \in ToSet(s) : x < k) => Ascending(Append(s, k))
<1>1. Append(s, k) = s \o <<k>>
  BY AppendIsConcat
<1>2. <<k>> \in Seq(Ulongs) /\ DOMAIN <<k>> = 1..1 /\ <<k>>[1] = k
  OBVIOUS
<1>3. ToSet(<<k>>) = {k}
  BY <1>2 DEF ToSet
<1>4. Ascending(<<k>>)
  BY <1>2 DEF Ascending
<1> QED
  BY <1>1, <1>2, <1>3, <1>4, ConcatElements

\* An ascending sequence has as many elements as places.
LEMMA AscendingCardinality ==
  ASSUME NEW s \in Seq(Ulongs), Ascending(s)
  PROVE  IsFiniteSet(ToSet(s)) /\ Cardinality(ToSet(s)) = Len(s)
<1>1. Len(s) \in Nat /\ DOMAIN s = 1..Len(s)
  BY LenProperties
<1>2. \A i \in 1..Len(s) : s[i] \in Ulongs
  BY ElementOfSeq
<1>3. \A i, j \in 1..Len(s) : s[i] = s[j] => i = j
  <2>1. SUFFICES ASSUME NEW i \in 1..Len(s), NEW j \in 1..Len(s), s[i] = s[j], i < j
                 PROVE  FALSE
    BY <1>1
  <2>2. s[i] < s[j]
    BY <1>1, <2>1, Zenon DEF Ascending
  <2>3. s[i] \in Int
    BY <1>2, UlongFits DEF Ulongs
  <2> QED
    BY <2>1, <2>2, <2>3
<1>4. s \in [1..Len(s) -> ToSet(s)]
  <2>1. s \in [1..Len(s) -> Ulongs]
    BY LenProperties
  <2> QED
    BY <1>1, <2>1 DEF ToSet
<1>5. s \in Bijection(1..Len(s), ToSet(s))
  <2>1. s \in Injection(1..Len(s), ToSet(s))
    <3>1. IsInjective(s)
      BY <1>1, <1>3, Zenon DEF IsInjective
    <3> QED
      BY <1>4, <3>1, Zenon DEF Injection
  <2>2. s \in Surjection(1..Len(s), ToSet(s))
    <3>1. \A x \in ToSet(s) : \E i \in 1..Len(s) : s[i] = x
      BY <1>1 DEF ToSet
    <3> QED
      BY <1>4, <3>1, Zenon DEF Surjection
  <2> QED
    BY <2>1, <2>2, Zenon DEF Bijection
<1>6. IsFiniteSet(1..Len(s)) /\ Cardinality(1..Len(s)) = Len(s)
  BY <1>1, FS_Interval
<1>7. ExistsBijection(1..Len(s), ToSet(s))
  BY <1>5 DEF ExistsBijection
<1> QED
  BY <1>6, <1>7, FS_Bijection

\* What two ranges that meet hold together.
LEMMA HitsTogether ==
  ASSUME NEW low \in Int, NEW middle \in Int, NEW high \in Int, low =< middle, middle =< high
  PROVE  /\ Hits(low, middle) \union Hits(middle, high) = Hits(low, high)
         /\ \A x \in Hits(low, middle), y \in Hits(middle, high) : x < y
<1>1. low..(middle - 1) \union middle..(high - 1) = low..(high - 1)
  OBVIOUS
<1>2. \A x \in low..(middle - 1), y \in middle..(high - 1) : x < y
  OBVIOUS
<1>3. Hits(low, middle) \union Hits(middle, high) = Hits(low, high)
  BY <1>1, Zenon DEF Hits
<1>4. \A x \in Hits(low, middle), y \in Hits(middle, high) : x < y
  BY <1>2, Zenon DEF Hits
<1> QED
  BY <1>3, <1>4

\* An empty range holds nothing.
LEMMA HitsOfNothing ==
  ASSUME NEW low \in Int
  PROVE  Hits(low, low) = {}
<1>1. low..(low - 1) = {}
  OBVIOUS
<1> QED
  BY <1>1, Zenon DEF Hits

\* What a range of one number more holds.
LEMMA HitsOfOneMore ==
  ASSUME NEW low \in Int, NEW middle \in Int, low =< middle
  PROVE  Hits(low, middle + 1) =
           IF check(middle) THEN Hits(low, middle) \union {middle} ELSE Hits(low, middle)
<1>1. low..((middle + 1) - 1) = (low..(middle - 1)) \union {middle}
  OBVIOUS
<1>2. ASSUME NEW x PROVE x \in Hits(low, middle + 1) <=>
                         x \in Hits(low, middle) \/ (x = middle /\ check(middle))
  BY <1>1, Zenon DEF Hits
<1>3. CASE check(middle)
  BY <1>2, <1>3, Zenon
<1>4. CASE ~check(middle)
  BY <1>2, <1>4, Zenon
<1> QED
  BY <1>3, <1>4

\* There is no thread and nothing printed at first.
LEMMA InitSearchInv == Init => SearchInv /\ PrintInv
<1> SUFFICES ASSUME Init PROVE SearchInv /\ PrintInv
  OBVIOUS
<1>1. pc = <<>> /\ output = <<>> /\ phase \in {"invalid_range", "create"}
  BY DEF Init
<1>2. Len(pc) = 0 /\ output \in Seq(Ulongs)
  BY <1>1, EmptySeq
<1> QED
  BY <1>1, <1>2 DEF SearchInv, PrintInv

\* What a thread of a valid range is searching, as integers.
LEMMA SearchedPart ==
  ASSUME TypeInv, ConfigInv, PartsInv, NEW i \in 1..Len(pc)
  PROVE  /\ Bound(i - 1) \in Int /\ Bound(i) \in Int /\ n[i] \in Int /\ n[i] + 1 \in Int
         /\ config.s =< Bound(i - 1) /\ Bound(i - 1) =< n[i] /\ n[i] =< Bound(i)
         /\ Bound(i) =< config.e /\ config.s \in Nat /\ config.e \in 0..ULONG_MAX
         /\ dest[i] \in Seq(Ulongs) /\ args[i].end = Bound(i) - 1
<1>1. phase # "invalid_range" /\ i \in 1..config.t
  BY ThreadsOfARange
<1>2. Bound(i - 1) \in config.s..config.e /\ Bound(i) \in config.s..config.e
  BY <1>1, PartStartIsBound, BoundsInOrder
<1>3. n[i] \in Bound(i - 1)..Bound(i) /\ args[i].end = Bound(i) - 1
  BY ThreadInPart
<1>4. config.s \in Nat /\ config.e \in 0..ULONG_MAX /\ config.e \in Nat
  BY UlongFits DEF TypeInv, Ulongs
<1>5. dest[i] \in Seq(Ulongs)
  <2>1. i \in 1..Len(dest) /\ dest \in Seq(Seq(Ulongs))
    BY DEF TypeInv
  <2> QED
    BY <2>1, ElementOfSeq
<1> QED
  BY <1>2, <1>3, <1>4, <1>5

\* Every step keeps what the buffers hold.
LEMMA NextSearchInv ==
  TypeInv /\ ConfigInv /\ PartsInv /\ SearchInv /\ [Next]_vars => SearchInv'
<1> SUFFICES ASSUME TypeInv, ConfigInv, PartsInv, SearchInv, [Next]_vars PROVE SearchInv'
  OBVIOUS
<1>len. Len(pc) \in Nat /\ DOMAIN pc = 1..Len(pc)
  BY LenProperties DEF TypeInv
<1>config. config' = config
  BY DEF Next, main, run_thread, CreationFails, AllCreated, JoinAndPrint, Exit, check_range,
         CheckNext, FinishRange, Terminated, vars
<1>bound. \A i : Bound(i)' = Bound(i)
  BY <1>config DEF Bound
<1> DEFINE Kept(i) ==
      /\ Ascending(dest'[i])
      /\ ToSet(dest'[i]) = Hits(Bound(i - 1), n'[i])
      /\ pc'[i] = "done" => n'[i] = Bound(i) \/ Len(dest'[i]) >= MAX_PDI_NUMBER_COUNT - 1
<1>same. ASSUME NEW i \in 1..Len(pc), n'[i] = n[i], dest'[i] = dest[i], pc'[i] = pc[i]
         PROVE  Kept(i)
  BY <1>same DEF SearchInv
<1>goal. (\A i \in 1..Len(pc') : Kept(i)) => SearchInv'
  BY <1>bound, Zenon DEF SearchInv, Ascending, ToSet, Hits
<1>1. CASE run_thread
  <2>1. /\ Len(pc') = Len(pc) + 1
        /\ \A i \in 1..Len(pc) : n'[i] = n[i] /\ dest'[i] = dest[i] /\ pc'[i] = pc[i]
        /\ thread_index = Len(pc) /\ thread_index < config.t
        /\ n'[Len(pc) + 1] = PartStart(thread_index)
        /\ dest'[Len(pc) + 1] = <<>> /\ pc'[Len(pc) + 1] = "search"
    BY <1>1, RunThreadEffect
  <2>2. PICK k : k = Len(pc) + 1
    OBVIOUS
  <2>3. k - 1 = thread_index /\ thread_index \in 0..config.t /\ phase # "invalid_range"
    BY <1>1, <1>len, <2>1, <2>2 DEF run_thread, TypeInv, Ulongs
  <2>4. PartStart(k - 1) = Bound(k - 1) /\ Bound(k - 1) \in config.s..config.e
    BY <2>3, PartStartIsBound
  <2>5. Bound(k - 1) \in Int
    BY <2>4
  <2>6. Hits(Bound(k - 1), n'[k]) = {}
    <3>1. n'[k] = Bound(k - 1)
      BY <2>1, <2>2, <2>3, <2>4
    <3> QED
      BY <2>5, <3>1, HitsOfNothing, Zenon
  <2>7. DOMAIN <<>> = {} /\ dest'[k] = <<>>
    BY <2>1, <2>2
  <2>8. Kept(k)
    <3>1. pc'[k] = "search"
      BY <2>1, <2>2
    <3> QED
      BY <2>6, <2>7, <3>1 DEF Ascending, ToSet
  <2>9. \A i \in 1..Len(pc) : Kept(i)
    BY <1>same, <2>1
  <2>10. \A i \in 1..Len(pc') : i \in 1..Len(pc) \/ i = k
    BY <1>len, <2>1, <2>2
  <2> HIDE DEF Kept
  <2> QED
    BY <1>goal, <2>8, <2>9, <2>10
<1>2. ASSUME NEW i \in DOMAIN pc, CheckNext(i) PROVE SearchInv'
  <2>1. /\ i \in 1..Len(pc) /\ n[i] \in Ulongs /\ n[i] =< args[i].end
        /\ n'[i] = Ulong(n[i] + 1) /\ \A j \in 1..Len(pc) : j # i => n'[j] = n[j]
        /\ \A j \in 1..Len(pc) : j # i => dest'[j] = dest[j]
        /\ dest'[i] = IF check(n[i]) THEN Append(dest[i], n[i]) ELSE dest[i]
    BY <1>2, CheckNextEffect
  <2>2. /\ Bound(i - 1) \in Int /\ Bound(i) \in Int /\ n[i] \in Int
        /\ Bound(i - 1) =< n[i] /\ n[i] =< Bound(i) - 1
        /\ Bound(i) =< config.e /\ config.e \in 0..ULONG_MAX /\ dest[i] \in Seq(Ulongs)
    BY <2>1, SearchedPart
  <2>3. n'[i] = n[i] + 1
    <3>1. PICK m, low, high, last : m = n[i] /\ low = Bound(i - 1) /\ high = Bound(i)
                                    /\ last = config.e
      OBVIOUS
    <3>2. /\ m \in 0..ULONG_MAX /\ high \in Int /\ m =< high - 1
          /\ high =< last /\ last \in 0..ULONG_MAX /\ ULONG_MAX \in Nat
      BY <2>1, <2>2, <3>1, UlongFits DEF Ulongs
    <3>3. m + 1 \in Ulongs
      BY <3>2 DEF Ulongs
    <3> QED
      BY <2>1, <3>1, <3>3, UlongFits
  <2>4. Ascending(dest[i]) /\ ToSet(dest[i]) = Hits(Bound(i - 1), n[i])
    BY <2>1 DEF SearchInv
  <2>5. pc' = pc /\ pc[i] = "search"
    BY <1>2 DEF CheckNext, Searching
  <2>6. PICK low, m, d : low = Bound(i - 1) /\ m = n[i] /\ d = dest[i]
    OBVIOUS
  <2>7. Hits(low, m + 1) = IF check(m) THEN Hits(low, m) \union {m} ELSE Hits(low, m)
    <3>1. low \in Int /\ m \in Int /\ low =< m
      BY <2>2, <2>6, Zenon
    <3> QED
      BY <3>1, HitsOfOneMore, Zenon
  <2>8. \A x \in ToSet(d) : x < m
    <3>1. ToSet(d) = Hits(low, m) /\ low \in Int /\ m \in Int
      BY <2>2, <2>4, <2>6
    <3>2. \A x \in low..(m - 1) : x < m
      BY <3>1
    <3> QED
      BY <3>1, <3>2, Zenon DEF Hits
  <2>9. /\ ToSet(Append(d, m)) = ToSet(d) \union {m}
        /\ Ascending(Append(d, m))
    BY <2>1, <2>2, <2>4, <2>6, <2>8, AppendElements
  <2>10. Ascending(dest'[i]) /\ ToSet(dest'[i]) = Hits(low, n'[i])
    <3>1. ToSet(d) = Hits(low, m) /\ Ascending(d) /\ n'[i] = m + 1
          /\ dest'[i] = IF check(m) THEN Append(d, m) ELSE d
      BY <2>1, <2>3, <2>4, <2>6
    <3>2. CASE check(m)
      BY <2>7, <2>9, <3>1, <3>2
    <3>3. CASE ~check(m)
      BY <2>7, <3>1, <3>3
    <3> QED
      BY <3>2, <3>3
  <2>11. Kept(i)
    BY <2>5, <2>6, <2>10
  <2>12. \A j \in 1..Len(pc) : j # i => Kept(j)
    BY <1>same, <2>1, <2>5
  <2> HIDE DEF Kept
  <2> QED
    BY <1>goal, <2>5, <2>11, <2>12
<1>3. ASSUME NEW i \in DOMAIN pc, FinishRange(i) PROVE SearchInv'
  <2>1. /\ pc' = [pc EXCEPT ![i] = "done"] /\ ~Searching(i) /\ pc[i] = "search"
        /\ n' = n /\ dest' = dest
    BY <1>3 DEF FinishRange
  <2>2. Len(pc') = Len(pc) /\ \A j \in 1..Len(pc) : j # i => pc'[j] = pc[j]
    BY <1>len, <2>1, ExceptSeq DEF TypeInv
  <2>3. n[i] = Bound(i) \/ Len(dest[i]) >= MAX_PDI_NUMBER_COUNT - 1
    <3>1. /\ i \in 1..Len(pc) /\ n[i] \in Int /\ Bound(i) \in Int /\ n[i] =< Bound(i)
          /\ args[i].end = Bound(i) - 1 /\ dest[i] \in Seq(Ulongs)
      BY <1>len, SearchedPart
    <3>2. Len(dest[i]) \in Nat /\ MAX_PDI_NUMBER_COUNT \in Nat
      BY <3>1, LenProperties, DpnumAssumption
    <3>3. ~(n[i] =< Bound(i) - 1) \/ ~(Len(dest[i]) < MAX_PDI_NUMBER_COUNT - 1)
      BY <2>1, <3>1 DEF Searching
    <3> QED
      BY <3>1, <3>2, <3>3
  <2>4. Kept(i)
    BY <1>len, <2>1, <2>3 DEF SearchInv
  <2>5. \A j \in 1..Len(pc) : j # i => Kept(j)
    BY <1>same, <2>1, <2>2
  <2> HIDE DEF Kept
  <2> QED
    BY <1>goal, <2>2, <2>4, <2>5
<1>4. CASE CreationFails \/ AllCreated \/ JoinAndPrint \/ Exit \/ UNCHANGED vars
  <2>1. pc' = pc /\ n' = n /\ dest' = dest
    BY <1>4 DEF CreationFails, AllCreated, JoinAndPrint, Exit, vars
  <2>2. \A i \in 1..Len(pc) : Kept(i)
    BY <1>same, <2>1
  <2> HIDE DEF Kept
  <2> QED
    BY <1>goal, <2>1, <2>2
<1> QED
  BY <1>1, <1>2, <1>3, <1>4 DEF Next, main, check_range, Terminated

\* A thread that is done has in its buffer every hit of its part: one that stopped
\* because the buffer was full has all there are.
LEMMA DoneHasAll ==
  ASSUME EnoughRoom, TypeInv, ConfigInv, PartsInv, SearchInv,
         NEW i \in 1..Len(pc), pc[i] = "done"
  PROVE  ToSet(dest[i]) = Hits(Bound(i - 1), Bound(i))
<1>1. /\ Bound(i - 1) \in Int /\ Bound(i) \in Int /\ n[i] \in Int
      /\ config.s =< Bound(i - 1) /\ Bound(i - 1) =< n[i] /\ n[i] =< Bound(i)
      /\ Bound(i) =< config.e /\ config.s \in Nat /\ config.e \in 0..ULONG_MAX
      /\ dest[i] \in Seq(Ulongs)
  BY SearchedPart
<1>2. /\ Ascending(dest[i]) /\ ToSet(dest[i]) = Hits(Bound(i - 1), n[i])
      /\ n[i] = Bound(i) \/ Len(dest[i]) >= MAX_PDI_NUMBER_COUNT - 1
  BY DEF SearchInv
<1>3. CASE n[i] = Bound(i)
  BY <1>2, <1>3
<1>4. CASE Len(dest[i]) >= MAX_PDI_NUMBER_COUNT - 1
  <2>1. PICK all : all = {k \in Searchable : check(k)}
    OBVIOUS
  <2>2. IsFiniteSet(all) /\ Cardinality(all) < MAX_PDI_NUMBER_COUNT
    <3>1. IsFiniteSet(Searchable)
      <4>1. PICK m : m = ULONG_MAX - 1
        OBVIOUS
      <4>2. m \in Int /\ Searchable = 0..m
        BY <4>1, UlongFits DEF Searchable
      <4> QED
        BY <4>2, FS_Interval
    <3>2. all \in SUBSET Searchable
      BY <2>1
    <3> QED
      BY <2>1, <3>1, <3>2, FS_Subset DEF EnoughRoom
  <2>3. ToSet(dest[i]) \subseteq Hits(Bound(i - 1), Bound(i))
    <3>1. Bound(i - 1)..(n[i] - 1) \subseteq Bound(i - 1)..(Bound(i) - 1)
      BY <1>1
    <3> QED
      BY <1>2, <3>1, Zenon DEF Hits
  <2>4. Hits(Bound(i - 1), Bound(i)) \subseteq all
    <3>1. Bound(i - 1)..(Bound(i) - 1) \subseteq Searchable
      BY <1>1, UlongFits DEF Searchable
    <3> QED
      BY <2>1, <3>1, Zenon DEF Hits
  <2>5. IsFiniteSet(ToSet(dest[i])) /\ Cardinality(ToSet(dest[i])) = Len(dest[i])
    BY <1>1, <1>2, AscendingCardinality
  <2>6. ToSet(dest[i]) \subseteq all
    BY <2>3, <2>4
  <2>7. /\ Cardinality(ToSet(dest[i])) =< Cardinality(all)
        /\ Cardinality(ToSet(dest[i])) = Cardinality(all) => ToSet(dest[i]) = all
    BY <2>2, <2>6, FS_Subset
  <2>8. Cardinality(all) \in Nat /\ Len(dest[i]) \in Nat /\ MAX_PDI_NUMBER_COUNT \in Nat
    BY <1>1, <2>2, FS_CardinalityType, LenProperties, DpnumAssumption
  <2>9. ToSet(dest[i]) = all
    BY <1>4, <2>2, <2>5, <2>7, <2>8
  <2> QED
    BY <2>3, <2>4, <2>9
<1> QED
  BY <1>2, <1>3, <1>4

\* Every step keeps what has been printed.
LEMMA NextPrintInv ==
  ASSUME EnoughRoom
  PROVE  TypeInv /\ ConfigInv /\ PartsInv /\ SearchInv /\ PrintInv /\ [Next]_vars => PrintInv'
<1> SUFFICES ASSUME TypeInv, ConfigInv, PartsInv, SearchInv, PrintInv, [Next]_vars
             PROVE  PrintInv'
  OBVIOUS
<1>config. config' = config
  BY DEF Next, main, run_thread, CreationFails, AllCreated, JoinAndPrint, Exit, check_range,
         CheckNext, FinishRange, Terminated, vars
<1>bound. \A i : Bound(i)' = Bound(i)
  BY <1>config DEF Bound
<1>nat. /\ config.s \in Nat /\ config.e \in Nat /\ config.t \in Nat
        /\ thread_index \in Nat /\ thread_index =< config.t
  BY UlongFits DEF TypeInv, Ulongs
<1> DEFINE Printed(s, k) == Ascending(s) /\ ToSet(s) = Hits(config.s, Bound(k))
<1>goal. /\ output' \in Seq(Ulongs)
         /\ phase' = "create" => output' = <<>>
         /\ phase' \in {"join", "exit"} => Printed(output', thread_index')
         /\ phase' = "exit" => thread_index' = config.t
         => PrintInv'
  BY <1>config, <1>bound, Zenon DEF PrintInv, Ascending, ToSet, Hits
<1>now. /\ output \in Seq(Ulongs)
        /\ phase = "create" => output = <<>>
        /\ phase \in {"join", "exit"} => Printed(output, thread_index)
        /\ phase = "exit" => thread_index = config.t
  BY DEF PrintInv
<1>zero. phase # "invalid_range" => Bound(0) = config.s
  <2>1. SUFFICES ASSUME phase # "invalid_range" PROVE Bound(0) = config.s
    OBVIOUS
  <2>2. PICK size : size = config.e - config.s
    OBVIOUS
  <2>3. config.t > 0 /\ size \in Nat
    BY <1>nat, <2>1, <2>2 DEF ConfigInv
  <2>4. (size * 0) \div config.t = 0
    BY <1>nat, <2>3, DivisionOfMultiples
  <2>5. Bound(0) = config.s + 0
    BY <2>2, <2>4, Zenon DEF Bound
  <2> QED
    BY <1>nat, <2>5
<1> HIDE DEF Printed
<1>1. CASE AllCreated
  <2>1. /\ phase = "create" /\ phase' = "join" /\ thread_index' = 0 /\ output' = output
    BY <1>1 DEF AllCreated
  <2>2. output' = <<>> /\ DOMAIN <<>> = {} /\ Bound(0) = config.s
    BY <1>now, <1>zero, <2>1
  <2>3. Hits(config.s, config.s) = {}
    <3>1. config.s \in Int
      BY <1>nat
    <3> QED
      BY <3>1, HitsOfNothing, Zenon
  <2>4. Printed(output', 0)
    BY <2>2, <2>3 DEF Printed, Ascending, ToSet
  <2> QED
    BY <1>goal, <1>now, <2>1, <2>4
<1>2. CASE JoinAndPrint
  <2>1. PICK k : k = thread_index + 1
    OBVIOUS
  <2>2. /\ phase = "join" /\ phase' = phase /\ thread_index < config.t
        /\ thread_index' = k /\ pc[k] = "done" /\ output' = output \o dest[k]
    BY <1>2, <2>1 DEF JoinAndPrint
  <2>3. k \in 1..Len(pc) /\ k - 1 = thread_index
    BY <1>nat, <2>1, <2>2 DEF TypeInv
  <2>4. PICK low, middle, high : low = config.s /\ middle = Bound(k - 1) /\ high = Bound(k)
    OBVIOUS
  <2>5. /\ low \in Int /\ middle \in Int /\ high \in Int /\ low =< middle /\ middle =< high
        /\ dest[k] \in Seq(Ulongs)
    <3>1. k \in 1..Len(pc)
      BY <2>3
    <3>2. /\ Bound(k - 1) \in Int /\ Bound(k) \in Int /\ n[k] \in Int
          /\ config.s =< Bound(k - 1) /\ Bound(k - 1) =< n[k] /\ n[k] =< Bound(k)
          /\ config.s \in Nat /\ dest[k] \in Seq(Ulongs)
      BY <3>1, SearchedPart, Zenon
    <3>3. PICK m : m = n[k]
      OBVIOUS
    <3>4. /\ low \in Nat /\ middle \in Int /\ high \in Int /\ m \in Int
          /\ low =< middle /\ middle =< m /\ m =< high
      BY <2>4, <3>2, <3>3, Zenon
    <3> QED
      BY <3>2, <3>4
  <2>6. ToSet(dest[k]) = Hits(middle, high) /\ Ascending(dest[k])
    BY <2>2, <2>3, <2>4, DoneHasAll DEF SearchInv
  <2>7. ToSet(output) = Hits(low, middle) /\ Ascending(output)
    BY <1>now, <2>2, <2>3, <2>4 DEF Printed
  <2>8. /\ Hits(low, middle) \union Hits(middle, high) = Hits(low, high)
        /\ \A x \in Hits(low, middle), y \in Hits(middle, high) : x < y
    BY <2>5, HitsTogether
  <2>9. /\ output' \in Seq(Ulongs) /\ ToSet(output') = Hits(low, high) /\ Ascending(output')
    <3>1. PICK r : r = dest[k]
      OBVIOUS
    <3>2. /\ r \in Seq(Ulongs) /\ output \in Seq(Ulongs) /\ output' = output \o r
          /\ Ascending(r) /\ Ascending(output)
          /\ ToSet(output) = Hits(low, middle) /\ ToSet(r) = Hits(middle, high)
      BY <1>now, <2>2, <2>5, <2>6, <2>7, <3>1, Zenon
    <3>3. \A x \in ToSet(output), y \in ToSet(r) : x < y
      BY <2>8, <3>2, Zenon
    <3>4. /\ output \o r \in Seq(Ulongs)
          /\ ToSet(output \o r) = ToSet(output) \union ToSet(r)
          /\ Ascending(output \o r)
      BY <3>2, <3>3, ConcatElements, Zenon
    <3> QED
      BY <2>8, <3>2, <3>4, Zenon
  <2>10. Printed(output', k)
    BY <2>4, <2>9 DEF Printed
  <2> QED
    BY <1>goal, <2>2, <2>9, <2>10
<1>3. CASE Exit
  <2>1. /\ phase = "join" /\ thread_index >= config.t /\ phase' = "exit"
        /\ thread_index' = thread_index /\ output' = output
    BY <1>3 DEF Exit
  <2>2. thread_index = config.t
    BY <1>nat, <2>1
  <2> QED
    BY <1>goal, <1>now, <2>1, <2>2
<1>4. CASE CreationFails
  BY <1>4, <1>goal, <1>now DEF CreationFails
<1>5. CASE run_thread
  <2>1. phase = "create" /\ phase' = "create" /\ output' = output
    BY <1>5 DEF run_thread
  <2> QED
    BY <1>goal, <1>now, <2>1
<1>6. ASSUME NEW i \in DOMAIN pc, check_range(i) PROVE PrintInv'
  <2>1. phase' = phase /\ output' = output /\ thread_index' = thread_index
    BY <1>6 DEF check_range, CheckNext, FinishRange
  <2> QED
    BY <1>goal, <1>now, <2>1
<1>7. CASE UNCHANGED vars
  <2>1. phase' = phase /\ output' = output /\ thread_index' = thread_index
    BY <1>7 DEF vars
  <2> QED
    BY <1>goal, <1>now, <2>1
<1> QED
  BY <1>1, <1>2, <1>3, <1>4, <1>5, <1>6, <1>7 DEF Next, main, Terminated

\* However many threads there are and however they interleave, main() prints in
\* ascending order the numbers of the range that are digit-power sums, each once, and
\* all of them by the time it returns.
THEOREM OutputIsExact ==
  ASSUME SplittableInputs, W > 2, TestIsSound, EnoughRoom
  PROVE  Spec => []OutputExact
<1>1. TypeInv /\ ConfigInv /\ PrintInv => OutputExact
  <2> SUFFICES ASSUME TypeInv, ConfigInv, PrintInv, phase \in {"join", "exit"}
               PROVE  OutputExact
    BY DEF OutputExact
  <2> DEFINE wanted == {k \in DigitPowerSums : k \in SearchRange}
             printed == ToSet(output)
  <2>1. /\ config.s \in Nat /\ config.e \in Nat /\ config.e =< ULONG_MAX /\ ULONG_MAX \in Nat
        /\ config.t \in Nat /\ thread_index \in 0..config.t
        /\ config.s =< config.e /\ config.t > 0
    BY UlongFits DEF TypeInv, ConfigInv, Ulongs
  <2>2. /\ Ascending(output) /\ printed = Hits(config.s, Bound(thread_index))
        /\ phase = "exit" => thread_index = config.t
    BY DEF PrintInv
  <2>3. PICK high : high = Bound(thread_index)
    OBVIOUS
  <2>4. high \in config.s..config.e
    BY <2>1, <2>3, PartStartIsBound
  <2>5. phase = "exit" => high = config.e
    <3>1. SUFFICES ASSUME phase = "exit" PROVE high = config.e
      OBVIOUS
    <3>2. PICK size : size = config.e - config.s
      OBVIOUS
    <3>3. size \in Nat
      BY <2>1, <3>2
    <3>4. (size * config.t) \div config.t = size
      BY <2>1, <3>3, DivisionOfMultiples
    <3>5. high = config.s + size
      BY <2>2, <2>3, <3>1, <3>2, <3>4, Zenon DEF Bound
    <3> QED
      BY <2>1, <3>2, <3>5
  <2>6. wanted = Hits(config.s, config.e)
    <3>1. SearchRange \subseteq Searchable
      BY <2>1 DEF SearchRange, Searchable
    <3> QED
      BY <3>1, TestIsExact, Zenon DEF SearchRange, Hits
  <2>7. \A k : k \in printed <=> k \in wanted /\ k < high
    <3>1. config.s..(high - 1) = {k \in config.s..(config.e - 1) : k < high}
      BY <2>1, <2>4
    <3> QED
      BY <2>2, <2>3, <2>6, <3>1, Zenon DEF Hits
  <2>8. wanted \subseteq Int
    BY <2>1 DEF SearchRange
  <2>9. \A k \in wanted, p \in printed : k < p => k \in printed
    <3>1. SUFFICES ASSUME NEW k \in wanted, NEW p \in printed, k < p PROVE k < high
      BY <2>7
    <3>2. p < high /\ p \in Int /\ k \in Int /\ high \in Int
      BY <2>1, <2>4, <2>7, <2>8, <3>1
    <3> HIDE DEF wanted, printed
    <3> QED
      BY <3>1, <3>2
  <2>10. phase = "exit" => printed = wanted
    <3>1. SUFFICES ASSUME phase = "exit" PROVE printed = wanted
      OBVIOUS
    <3>2. \A k \in wanted : k < high
      BY <2>1, <2>5, <3>1 DEF SearchRange
    <3> HIDE DEF wanted, printed
    <3> QED
      BY <2>7, <3>2
  <2>11. \A i, j \in DOMAIN output : i < j => output[i] < output[j]
    BY <2>2 DEF Ascending
  <2>12. printed \subseteq wanted
    BY <2>7
  <2> QED
    BY <2>9, <2>10, <2>11, <2>12, Zenon DEF OutputExact
<1>2. TypeInv /\ ConfigInv /\ PartsInv /\ [Next]_vars => ConfigInv' /\ PartsInv'
  BY NextPartsInv
<1>3. TypeInv /\ ConfigInv /\ PartsInv /\ SearchInv /\ PrintInv /\ [Next]_vars
        => SearchInv' /\ PrintInv'
  BY NextSearchInv, NextPrintInv
<1> QED
  BY <1>1, <1>2, <1>3, InitPartsInv, InitSearchInv, TypeInvAlways, PTL DEF Spec

===============================================================================
