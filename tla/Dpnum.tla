--------------------------------- MODULE Dpnum ---------------------------------
(***************************************************************************)
(* dpnum of math-multithreading/: prints the numbers of a range that equal *)
(* the sum of some power of their digits.  main() splits the range among   *)
(* threads; each writes what it finds to a buffer of its own, and main()   *)
(* prints the buffers in order as it joins the threads.                    *)
(*                                                                         *)
(* An unsigned long has W bits; all its arithmetic is modulo 2^W.          *)
(***************************************************************************)
EXTENDS Integers, Sequences, FiniteSets, SequencesExt, FiniteSetsExt

CONSTANTS
  W,                     \* bits of an unsigned long: UL_SIZE is the same number
  Inputs,                \* records of what -s, -e and -t may be given
  MAX_PDI_NUMBER_COUNT,  \* length of a thread's buffer, terminator included
  CreateMayFail          \* may thrd_create fail?

ULONG_MAX == 2^W - 1
UL_SIZE == W
BASE == 10

ASSUME DpnumAssumption ==
  /\ W \in Nat \ {0} /\ ULONG_MAX \in Nat
  /\ Inputs \subseteq [s : 0..ULONG_MAX, e : 0..ULONG_MAX, t : 0..ULONG_MAX]
  /\ MAX_PDI_NUMBER_COUNT \in Nat \ {0}
  /\ CreateMayFail \in BOOLEAN

\* What the powers of two are, said for the provers, which know nothing of them.
ASSUME PowersOfTwoAssumption ==
  /\ 2^0 = 1
  /\ \A i \in 0..(W - 1) : 2^i \in Nat /\ 2^(i + 1) = 2 * 2^i

\* The value of an unsigned long expression.
Ulong(x) == x % (ULONG_MAX + 1)

VARIABLES
  config,        \* the fields s, e and t
  phase,         \* where main() is
  thread_index,  \* its loop variable
  args,          \* start and end of every thread created
  n,             \* the n of every thread
  dest,          \* what every thread has written to its buffer
  pc,            \* where every thread is
  output         \* what main() has printed

vars == <<config, phase, thread_index, args, n, dest, pc, output>>

-----------------------------------------------------------------------------
(* precompute_powers(), compute_power_sum() and check().                   *)

\* The products of a row of the table, as an unsigned long holds them.
Products(digit) ==
  LET p[i \in 0..UL_SIZE] == IF i = 0 THEN 1 ELSE Ulong(p[i - 1] * digit) IN p

\* max_power: a row ends before the table does, after the first product that
\* is not below ULONG_MAX / 2.
max_power ==
  [digit \in 0..(BASE - 1) |->
     IF digit = 0 THEN ULONG_MAX
     ELSE Min({i \in 0..(UL_SIZE - 1) :
                 i = UL_SIZE - 1 \/ Products(digit)[i] >= ULONG_MAX \div 2})]

power ==
  [digit \in 0..(BASE - 1) |-> [i \in 0..(UL_SIZE - 1) |->
     IF digit > 0 /\ i =< max_power[digit] THEN Products(digit)[i] ELSE 0]]

\* What snprintf writes, digit by digit.
Digits[k \in Nat] == IF k < BASE THEN <<k>> ELSE Append(Digits[k \div BASE], k % BASE)

\* A slip in compute_power_sum: the exponent is not compared with the row.
UncheckedPowerSum(digits, exponent) ==
  FoldLeft(LAMBDA sum, digit : Ulong(sum + power[digit][exponent]), 0, digits)

compute_power_sum(digits, exponent) ==
  IF \E i \in DOMAIN digits : exponent > max_power[digits[i]]
    THEN 0
    ELSE FoldLeft(LAMBDA sum, digit : Ulong(sum + power[digit][exponent]), 0, digits)

check(k) ==
  k # 0 /\ \E exponent \in 0..(UL_SIZE - 1) : compute_power_sum(Digits[k], exponent) = k

-----------------------------------------------------------------------------
(* parse_flags() and run_thread().                                         *)

Init ==
  /\ \E input \in Inputs : config = [input EXCEPT !.e = Ulong(@ + 1)]
  /\ phase = IF config.s > config.e THEN "invalid_range" ELSE "create"
  /\ thread_index = 0
  /\ args = <<>> /\ n = <<>> /\ dest = <<>> /\ pc = <<>>
  /\ output = <<>>

\* The first number of part i; part i ends before the first of part i + 1.
PartStart(i) ==
  Ulong(config.s + Ulong(Ulong(config.e - config.s) * i) \div config.t)

\* A slip in run_thread: the parts overlap by one number.
RunThreadOverlapping ==
  /\ phase = "create" /\ thread_index < config.t
  /\ args' = Append(args, [start |-> PartStart(thread_index),
                           end |-> PartStart(thread_index + 1)])
  /\ n' = Append(n, PartStart(thread_index))
  /\ dest' = Append(dest, <<>>)
  /\ pc' = Append(pc, "search")
  /\ thread_index' = thread_index + 1
  /\ UNCHANGED <<config, phase, output>>

run_thread ==
  /\ phase = "create" /\ thread_index < config.t
  /\ args' = Append(args, [start |-> PartStart(thread_index),
                           end |-> Ulong(PartStart(thread_index + 1) - 1)])
  /\ n' = Append(n, PartStart(thread_index))
  /\ dest' = Append(dest, <<>>)
  /\ pc' = Append(pc, "search")
  /\ thread_index' = thread_index + 1
  /\ UNCHANGED <<config, phase, output>>

\* main() returns at once, whatever the other threads are doing.
CreationFails ==
  /\ CreateMayFail
  /\ phase = "create" /\ thread_index < config.t
  /\ phase' = "thread_error"
  /\ UNCHANGED <<config, thread_index, args, n, dest, pc, output>>

-----------------------------------------------------------------------------
(* check_range(), thread i.                                                *)

Searching(i) ==
  /\ pc[i] = "search"
  /\ n[i] =< args[i].end
  /\ Len(dest[i]) < MAX_PDI_NUMBER_COUNT - 1

\* A slip in check_range: only a number that was found is passed.
CheckNextStuck(i) ==
  /\ Searching(i)
  /\ dest' = [dest EXCEPT ![i] = IF check(n[i]) THEN Append(@, n[i]) ELSE @]
  /\ n' = [n EXCEPT ![i] = IF check(@) THEN Ulong(@ + 1) ELSE @]
  /\ UNCHANGED <<config, phase, thread_index, args, pc, output>>

CheckNext(i) ==
  /\ Searching(i)
  /\ dest' = [dest EXCEPT ![i] = IF check(n[i]) THEN Append(@, n[i]) ELSE @]
  /\ n' = [n EXCEPT ![i] = Ulong(@ + 1)]
  /\ UNCHANGED <<config, phase, thread_index, args, pc, output>>

FinishRange(i) ==
  /\ pc[i] = "search" /\ ~Searching(i)
  /\ pc' = [pc EXCEPT ![i] = "done"]
  /\ UNCHANGED <<config, phase, thread_index, args, n, dest, output>>

check_range(i) == CheckNext(i) \/ FinishRange(i)

-----------------------------------------------------------------------------
(* main().                                                                 *)

\* A slip in main: the last thread is not created.
AllButOneCreated ==
  /\ phase = "create" /\ thread_index + 1 >= config.t
  /\ phase' = "join" /\ thread_index' = 0
  /\ UNCHANGED <<config, args, n, dest, pc, output>>

AllCreated ==
  /\ phase = "create" /\ thread_index >= config.t
  /\ phase' = "join" /\ thread_index' = 0
  /\ UNCHANGED <<config, args, n, dest, pc, output>>

\* A slip in main: prints the buffer of a thread that may still be searching.
PrintUnjoined ==
  /\ phase = "join" /\ thread_index < config.t
  /\ output' = output \o dest[thread_index + 1]
  /\ thread_index' = thread_index + 1
  /\ UNCHANGED <<config, phase, args, n, dest, pc>>

JoinAndPrint ==
  /\ phase = "join" /\ thread_index < config.t
  /\ pc[thread_index + 1] = "done"
  /\ output' = output \o dest[thread_index + 1]
  /\ thread_index' = thread_index + 1
  /\ UNCHANGED <<config, phase, args, n, dest, pc>>

Exit ==
  /\ phase = "join" /\ thread_index >= config.t
  /\ phase' = "exit"
  /\ UNCHANGED <<config, thread_index, args, n, dest, pc, output>>

main == run_thread \/ CreationFails \/ AllCreated \/ JoinAndPrint \/ Exit

Over == phase \in {"invalid_range", "thread_error", "exit"}
Terminated == Over /\ UNCHANGED vars

Next ==
  \/ main
  \/ ~Over /\ \E i \in DOMAIN pc : check_range(i)
  \/ Terminated

Spec == Init /\ [][Next]_vars

\* main() and every thread keep running.
FairSpec ==
  /\ Spec
  /\ WF_vars(main)
  /\ \A i \in 1..Max({input.t : input \in Inputs}) :
       WF_vars(~Over /\ i \in DOMAIN pc /\ check_range(i))

-----------------------------------------------------------------------------
(* Properties.                                                             *)

\* The values every variable may take: one record, one n and one buffer for
\* each thread created, all of them before the first is joined.
TypeOK ==
  LET threads == 1..Len(pc) IN
  /\ config \in [s : 0..ULONG_MAX, e : 0..ULONG_MAX, t : 0..ULONG_MAX]
  /\ phase \in {"invalid_range", "create", "thread_error", "join", "exit"}
  /\ thread_index \in 0..config.t
  /\ phase \in {"create", "thread_error"} => Len(pc) = thread_index
  /\ phase \in {"join", "exit"} => Len(pc) = config.t
  /\ args \in [threads -> [start : 0..ULONG_MAX, end : 0..ULONG_MAX]]
  /\ n \in [threads -> 0..ULONG_MAX]
  /\ pc \in [threads -> {"search", "done"}]
  /\ DOMAIN dest = threads
  /\ \A i \in threads : Len(dest[i]) < MAX_PDI_NUMBER_COUNT

\* The numbers the user asked for.
SearchRange == config.s..(config.e - 1)

\* The mathematical definition, with powers that saturate above ULONG_MAX.
SaturatedPower(digit) ==
  LET p[i \in Nat] == IF i = 0 THEN 1 ELSE Min({p[i - 1] * digit, ULONG_MAX + 1}) IN p

IsPdi(k) ==
  k > 0 /\ \E exponent \in 0..UL_SIZE :
    k = FoldLeft(LAMBDA sum, digit : sum + SaturatedPower(digit)[exponent], 0, Digits[k])

DigitPowerSums == {k \in 1..ULONG_MAX : IsPdi(k)}

\* The test with its table of wrapping powers and its early exit answers as
\* the definition does, for every number that is searched.
CheckIsExact ==
  \A i \in DOMAIN pc : Searching(i) => (check(n[i]) <=> n[i] \in DigitPowerSums)

\* Every number of the range is in exactly one thread's part, although the
\* parts are computed independently with truncating division, and no thread
\* looks at a number outside the range.
PartsCover ==
  /\ phase = "join" =>
       \A k \in SearchRange :
         Cardinality({i \in DOMAIN args : args[i].start =< k /\ k =< args[i].end}) = 1
  /\ \A i \in DOMAIN pc : Searching(i) => n[i] \in SearchRange

\* However the threads interleave, main() prints the numbers of the range in
\* ascending order, each once, and all of them before it returns: a buffer of as
\* many elements as there are such numbers, and the terminator, is enough.
OutputExact ==
  phase \in {"join", "exit"} =>
    LET wanted == {k \in DigitPowerSums : k \in SearchRange}
        printed == ToSet(output)
    IN  /\ \A i, j \in DOMAIN output : i < j => output[i] < output[j]
        /\ printed \subseteq wanted
        /\ \A k \in wanted, p \in printed : k < p => k \in printed
        /\ phase = "exit" /\ config.t > 0 => printed = wanted

\* Every search ends and main() returns.
PrintsAll == <>Over

================================================================================
