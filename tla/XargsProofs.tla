------------------------------ MODULE XargsProofs ------------------------------
(* Proofs about xargs for every input, every -n and every size of the      *)
(* storage and of the list of arguments.                                   *)
EXTENDS Xargs, RecursionLemmas

-----------------------------------------------------------------------------
(* Types, and where the cursor is.                                         *)

\* The types of the variables.
TypeInv ==
  /\ stdin \in Seq(Bytes) /\ n \in Int /\ additional_argc \in Nat
  /\ pos \in 0..Len(stdin)
  /\ phase \in {"skip", "arg", "run", "wait", "exit", "undefined"}
  /\ storage \in Seq(Bytes) /\ start \in Nat /\ args \in Seq(Nat) /\ p \in Nat

\* Every byte of the storage stands for one that was read, except a zero that
\* ends an argument at the end of the input, after which nothing is read.
CursorInv ==
  /\ phase = "arg" => cur =< pos
  /\ phase = "skip" => cur =< pos \/ (pos = Len(stdin) /\ cur = pos + 1)
  /\ phase # "undefined" => cur =< end

\* Every complete argument starts in the storage, and so will the one being read.
StartInv ==
  phase # "undefined" =>
    /\ \A j \in 1..arg_count : args[j] \in 1..cur
    /\ phase = "arg" => start \in 1..(cur + 1)

\* Batches are counted from the first argument on, and only a batch that fits is run.
BatchInv ==
  /\ p >= 1
  /\ phase = "wait" => n >= 0

\* What overruns something.
OverrunInv ==
  phase = "undefined" =>
    \/ Len(stdin) >= XARGS_BUFFER_SIZE
    \/ additional_argc + arg_count + 1 >= XARGS_MAX_ARGS
    \/ n < 0

\* The inductive invariant of the parser and of run().
XargsInv == TypeInv /\ CursorInv /\ StartInv /\ BatchInv /\ OverrunInv

\* The lengths are numbers.
LEMMA Lengths ==
  ASSUME TypeInv
  PROVE  /\ Len(stdin) \in Nat /\ pos \in Nat /\ pos =< Len(stdin)
         /\ cur \in Nat /\ arg_count \in Nat /\ end \in Nat /\ end > 0
         /\ XARGS_MAX_ARGS \in Nat
<1>1. XARGS_BUFFER_SIZE \in Nat \ {0} /\ XARGS_MAX_ARGS \in Nat \ {0}
  BY XargsAssumption
<1>2. Len(stdin) \in Nat /\ Len(storage) \in Nat /\ Len(args) \in Nat
  BY LenProperties DEF TypeInv
<1>3. pos \in 0..Len(stdin)
  BY DEF TypeInv
<1> QED
  BY <1>1, <1>2, <1>3 DEF cur, arg_count, end

\* A byte more in the storage.
LEMMA StorageGrows ==
  ASSUME TypeInv, NEW c \in Bytes, storage' = Append(storage, c)
  PROVE  storage' \in Seq(Bytes) /\ cur' = cur + 1
BY AppendProperties DEF TypeInv, cur

\* An argument more in the list.
LEMMA ArgsGrow ==
  ASSUME TypeInv, args' = Append(args, start)
  PROVE  /\ args' \in Seq(Nat) /\ arg_count' = arg_count + 1
         /\ \A j \in 1..arg_count : args'[j] = args[j]
         /\ args'[arg_count + 1] = start
BY AppendProperties DEF TypeInv, arg_count

\* A byte is consumed unless there is none.
LEMMA ByteConsumed ==
  ASSUME TypeInv, Consume
  PROVE  /\ pos' \in 0..Len(stdin)
         /\ ~AtEOF => pos' = pos + 1 /\ getchar \in Bytes
         /\ AtEOF => pos' = pos + 1 \/ (pos' = pos /\ pos = Len(stdin))
<1>1. Len(stdin) \in Nat /\ pos \in Nat /\ pos =< Len(stdin)
  BY Lengths
<1>2. pos' = IF pos < Len(stdin) THEN pos + 1 ELSE pos
  BY DEF Consume
<1>3. ASSUME ~AtEOF PROVE pos < Len(stdin) /\ getchar \in Bytes
  <2>1. pos < Len(stdin)
    BY <1>3 DEF AtEOF
  <2>2. pos + 1 \in 1..Len(stdin)
    BY <1>1, <2>1
  <2> QED
    BY <2>1, <2>2, ElementOfSeq DEF TypeInv, getchar
<1> QED
  BY <1>1, <1>2, <1>3

\* The next batch is no longer than the list.
LEMMA BatchInList ==
  ASSUME TypeInv, BatchInv, n >= 0, p =< arg_count
  PROVE  /\ Min({p + n - 1, arg_count}) = IF p + n - 1 =< arg_count THEN p + n - 1
                                          ELSE arg_count
         /\ Len(new_passed_args) \in Nat /\ Len(new_passed_args) =< arg_count
<1>1. /\ arg_count \in Nat /\ p \in Nat /\ n \in Int /\ p >= 1
  BY Lengths DEF TypeInv, BatchInv
<1>2. PICK a, b : a = p + n - 1 /\ b = arg_count
  OBVIOUS
<1>3. a \in Int /\ b \in Int
  BY <1>1, <1>2
<1>4. Min({a, b}) = IF a =< b THEN a ELSE b
  BY <1>3 DEF Min
<1>5. PICK last : last = Min({p + n - 1, arg_count})
  OBVIOUS
<1>6. last = IF a =< b THEN a ELSE b
  BY <1>2, <1>4, <1>5
<1>7. last \in Int /\ last =< arg_count
  BY <1>2, <1>3, <1>6
<1>8. \A j \in p..last : args[j] \in Nat
  <2>1. \A j \in p..last : j \in 1..Len(args)
    BY <1>1, <1>7 DEF arg_count
  <2> QED
    BY <2>1, ElementOfSeq DEF TypeInv
<1>9. Len(SubSeq(args, p, last)) = IF p =< last THEN last - p + 1 ELSE 0
  BY <1>1, <1>7, <1>8, SubSeqProperties
<1>10. new_passed_args = SubSeq(args, p, last)
  BY <1>5 DEF new_passed_args
<1>11. PICK length : length = Len(new_passed_args)
  OBVIOUS
<1>12. length \in Nat /\ length =< arg_count
  BY <1>1, <1>7, <1>9, <1>10, <1>11
<1> QED
  BY <1>2, <1>5, <1>6, <1>11, <1>12

\* The invariant holds initially.
LEMMA InitXargsInv == Init => XargsInv
<1> SUFFICES ASSUME Init PROVE XargsInv
  OBVIOUS
<1>1. /\ stdin \in Seq(Bytes) /\ n \in Int /\ additional_argc \in Nat
  BY XargsAssumption DEF Init
<1>2. /\ pos = 0 /\ phase = "skip" /\ storage = <<>> /\ start = 1 /\ args = <<>> /\ p = 1
  BY DEF Init
<1>3. /\ storage \in Seq(Bytes) /\ args \in Seq(Nat) /\ cur = 0 /\ arg_count = 0
  BY <1>2, EmptySeq DEF cur, arg_count
<1>4. Len(stdin) \in Nat
  BY <1>1, LenProperties
<1>5. TypeInv
  BY <1>1, <1>2, <1>3, <1>4 DEF TypeInv
<1>6. end \in Nat
  BY <1>5, Lengths
<1> QED
  BY <1>2, <1>3, <1>5, <1>6 DEF XargsInv, CursorInv, StartInv, BatchInv, OverrunInv

\* Every step of the parser keeps it.
LEMMA ParseXargsInv == XargsInv /\ parse_args_from_stdin => XargsInv'
<1> SUFFICES ASSUME XargsInv, parse_args_from_stdin PROVE XargsInv'
  OBVIOUS
<1>type. TypeInv
  BY DEF XargsInv
<1>num. /\ Len(stdin) \in Nat /\ pos \in Nat /\ pos =< Len(stdin)
        /\ cur \in Nat /\ arg_count \in Nat /\ end \in Nat /\ end > 0
  BY <1>type, Lengths
<1>same. stdin' = stdin /\ n' = n /\ additional_argc' = additional_argc /\ p' = p
  BY DEF parse_args_from_stdin, SkipSpace, StopParsing, StartArg, AddByte,
         UnexpectedQuotationMark, CompleteArg, CutArg, input_vars
<1>end. end' = end
  BY DEF end
<1>batch. phase' # "wait" /\ phase' \in {"skip", "arg", "run", "exit", "undefined"}
  BY <1>type DEF parse_args_from_stdin, SkipSpace, StopParsing, StartArg, AddByte,
         UnexpectedQuotationMark, CompleteArg, CutArg
<1>inv. /\ CursorInv /\ StartInv /\ BatchInv
  BY DEF XargsInv
<1>goal. ASSUME pos' \in 0..Len(stdin), storage' \in Seq(Bytes), start' \in Nat,
                args' \in Seq(Nat), CursorInv', StartInv', OverrunInv'
         PROVE  XargsInv'
  <2>1. TypeInv'
    BY <1>goal, <1>type, <1>same, <1>batch DEF TypeInv
  <2>2. BatchInv'
    BY <1>inv, <1>same, <1>batch DEF BatchInv
  <2> QED
    BY <1>goal, <2>1, <2>2 DEF XargsInv
<1>1. CASE SkipSpace
  <2>1. /\ phase = "skip" /\ phase' = "skip" /\ ~AtEOF /\ Consume
        /\ storage' = storage /\ start' = start /\ args' = args
    BY <1>1 DEF SkipSpace
  <2>2. pos' \in 0..Len(stdin) /\ pos' = pos + 1
    BY <1>type, <2>1, ByteConsumed
  <2>3. cur' = cur /\ arg_count' = arg_count
    BY <2>1 DEF cur, arg_count
  <2>4. CursorInv'
    BY <1>num, <1>same, <1>inv, <1>end, <2>1, <2>2, <2>3 DEF CursorInv
  <2>5. StartInv' /\ OverrunInv'
    BY <1>inv, <2>1, <2>3 DEF StartInv, OverrunInv
  <2> QED
    BY <1>goal, <1>type, <2>1, <2>2, <2>4, <2>5 DEF TypeInv
<1>2. CASE StopParsing
  <2>1. /\ phase = "skip" /\ phase' = (IF CommandFits THEN "run" ELSE "undefined") /\ pos' = pos
        /\ storage' = storage /\ start' = start /\ args' = args
    BY <1>2 DEF StopParsing
  <2>2. cur' = cur /\ arg_count' = arg_count
    BY <2>1 DEF cur, arg_count
  <2>3. CursorInv' /\ StartInv'
    BY <1>inv, <1>end, <2>1, <2>2 DEF CursorInv, StartInv
  <2>4. OverrunInv'
    <3>1. SUFFICES ASSUME phase' = "undefined" PROVE additional_argc + arg_count + 1 >= XARGS_MAX_ARGS
      BY <1>same, <2>2 DEF OverrunInv
    <3>2. /\ ~(additional_argc + 1 =< XARGS_MAX_ARGS)
          /\ additional_argc \in Nat /\ XARGS_MAX_ARGS \in Nat
      BY <1>type, <2>1, <3>1, XargsAssumption DEF CommandFits, TypeInv
    <3> QED
      BY <1>num, <3>2
  <2> QED
    BY <1>goal, <1>type, <2>1, <2>3, <2>4 DEF TypeInv
<1>3. CASE StartArg
  <2>1. /\ phase = "skip" /\ phase' = "arg" /\ ~AtEOF /\ Consume /\ cur # end
        /\ start' = cur + 1 /\ args' = args
        /\ storage' = storage \/ storage' = Append(storage, getchar)
    BY <1>3 DEF StartArg
  <2>2. pos' \in 0..Len(stdin) /\ pos' = pos + 1 /\ getchar \in Bytes
    BY <1>type, <2>1, ByteConsumed
  <2>3. storage' \in Seq(Bytes) /\ cur' \in {cur, cur + 1}
    <3>1. CASE storage' = storage
      BY <1>type, <3>1 DEF TypeInv, cur
    <3>2. CASE storage' = Append(storage, getchar)
      BY <1>type, <2>2, <3>2, StorageGrows
    <3> QED
      BY <2>1, <3>1, <3>2
  <2>4. arg_count' = arg_count
    BY <2>1 DEF arg_count
  <2>5. cur =< pos /\ cur =< end
    BY <1>num, <1>inv, <2>1, <2>2 DEF CursorInv
  <2>6. CursorInv'
    BY <1>num, <1>end, <2>1, <2>2, <2>3, <2>5 DEF CursorInv
  <2>7. StartInv'
    <3>1. \A j \in 1..arg_count : args[j] \in 1..cur
      BY <1>inv, <2>1 DEF StartInv
    <3>2. 1..cur \subseteq 1..cur' /\ start' \in 1..(cur' + 1)
      <4>1. PICK a, b : a = cur /\ b = cur'
        OBVIOUS
      <4>2. a \in Nat /\ b \in {a, a + 1} /\ start' = a + 1
        BY <1>num, <2>1, <2>3, <4>1
      <4>3. 1..a \subseteq 1..b /\ a + 1 \in 1..(b + 1)
        BY <4>2
      <4> QED
        BY <4>1, <4>2, <4>3
    <3> QED
      BY <2>1, <2>4, <3>1, <3>2 DEF StartInv
  <2>8. OverrunInv'
    BY <2>1 DEF OverrunInv
  <2>9. start' \in Nat /\ args' \in Seq(Nat)
    BY <1>num, <1>type, <2>1 DEF TypeInv
  <2> QED
    BY <1>goal, <2>2, <2>3, <2>6, <2>7, <2>8, <2>9
<1>4. CASE AddByte
  <2>1. /\ phase = "arg" /\ phase' = "arg" /\ ~AtEOF /\ Consume /\ cur # end
        /\ start' = start /\ args' = args /\ storage' = Append(storage, getchar)
    BY <1>4 DEF AddByte
  <2>2. pos' \in 0..Len(stdin) /\ pos' = pos + 1 /\ getchar \in Bytes
    BY <1>type, <2>1, ByteConsumed
  <2>3. storage' \in Seq(Bytes) /\ cur' = cur + 1
    BY <1>type, <2>1, <2>2, StorageGrows
  <2>4. arg_count' = arg_count
    BY <2>1 DEF arg_count
  <2>5. cur =< pos /\ cur =< end
    BY <1>inv, <2>1 DEF CursorInv
  <2>6. CursorInv'
    BY <1>num, <1>end, <2>1, <2>2, <2>3, <2>5 DEF CursorInv
  <2>7. StartInv'
    <3>1. (\A j \in 1..arg_count : args[j] \in 1..cur) /\ start \in 1..(cur + 1)
      BY <1>inv, <2>1 DEF StartInv
    <3>2. 1..cur \subseteq 1..cur' /\ 1..(cur + 1) \subseteq 1..(cur' + 1)
      BY <1>num, <2>3
    <3> QED
      BY <2>1, <2>4, <3>1, <3>2 DEF StartInv
  <2>8. OverrunInv'
    BY <2>1 DEF OverrunInv
  <2> QED
    BY <1>goal, <1>type, <2>1, <2>2, <2>3, <2>6, <2>7, <2>8 DEF TypeInv
<1>5. CASE UnexpectedQuotationMark
  <2>1. /\ phase = "arg" /\ phase' = "exit" /\ ~AtEOF /\ Consume
        /\ start' = start /\ args' = args /\ storage' = storage
    BY <1>5 DEF UnexpectedQuotationMark
  <2>2. pos' \in 0..Len(stdin)
    BY <1>type, <2>1, ByteConsumed
  <2>3. cur' = cur /\ arg_count' = arg_count
    BY <2>1 DEF cur, arg_count
  <2>4. CursorInv' /\ StartInv' /\ OverrunInv'
    BY <1>inv, <1>end, <2>1, <2>3 DEF CursorInv, StartInv, OverrunInv
  <2> QED
    BY <1>goal, <1>type, <2>1, <2>2, <2>4 DEF TypeInv
<1>nul. NUL \in Bytes
  BY DEF Bytes
<1>6. CASE CompleteArg
  <2>1. /\ phase = "arg" /\ phase' = "skip" /\ ~AtEOF /\ Consume /\ cur # end
        /\ start' = start /\ args' = Append(args, start) /\ storage' = Append(storage, NUL)
    BY <1>6 DEF CompleteArg
  <2>2. pos' \in 0..Len(stdin) /\ pos' = pos + 1
    BY <1>type, <2>1, ByteConsumed
  <2>3. storage' \in Seq(Bytes) /\ cur' = cur + 1
    BY <1>type, <1>nul, <2>1, StorageGrows
  <2>4. /\ args' \in Seq(Nat) /\ arg_count' = arg_count + 1
        /\ \A j \in 1..arg_count : args'[j] = args[j]
        /\ args'[arg_count + 1] = start
    BY <1>type, <2>1, ArgsGrow
  <2>5. cur =< pos /\ cur =< end
    BY <1>inv, <2>1 DEF CursorInv
  <2>6. CursorInv'
    BY <1>num, <1>end, <2>1, <2>2, <2>3, <2>5 DEF CursorInv
  <2>7. StartInv'
    <3>1. (\A j \in 1..arg_count : args[j] \in 1..cur) /\ start \in 1..(cur + 1)
      BY <1>inv, <2>1 DEF StartInv
    <3>2. 1..cur \subseteq 1..cur' /\ 1..(cur + 1) = 1..cur'
      BY <1>num, <2>3
    <3>3. \A j \in 1..arg_count' : j \in 1..arg_count \/ j = arg_count + 1
      BY <1>num, <2>4
    <3>4. \A j \in 1..arg_count' : args'[j] \in 1..cur'
      BY <2>4, <3>1, <3>2, <3>3
    <3> QED
      BY <2>1, <3>4 DEF StartInv
  <2>8. OverrunInv'
    BY <2>1 DEF OverrunInv
  <2> QED
    BY <1>goal, <1>type, <2>1, <2>2, <2>3, <2>4, <2>6, <2>7, <2>8 DEF TypeInv
<1>7. CASE CutArg
  <2>1. /\ phase = "arg" /\ (AtEOF \/ cur = end) /\ Consume
        /\ start' = start /\ storage' = Append(storage, NUL)
        /\ IF quote = "none" THEN args' = Append(args, start) ELSE args' = args
        /\ phase' = IF cur = end THEN "undefined" ELSE IF quote = "none" THEN "skip" ELSE "exit"
    BY <1>7 DEF CutArg
  <2>2. /\ pos' \in 0..Len(stdin)
        /\ AtEOF => pos' = pos + 1 \/ (pos' = pos /\ pos = Len(stdin))
    BY <1>type, <2>1, ByteConsumed
  <2>3. storage' \in Seq(Bytes) /\ cur' = cur + 1
    BY <1>type, <1>nul, <2>1, StorageGrows
  <2>4. /\ args' \in Seq(Nat)
        /\ \/ args' = args /\ arg_count' = arg_count
           \/ /\ arg_count' = arg_count + 1
              /\ \A j \in 1..arg_count : args'[j] = args[j]
              /\ args'[arg_count + 1] = start
    <3>1. CASE quote = "none"
      BY <1>type, <2>1, <3>1, ArgsGrow
    <3>2. CASE quote # "none"
      BY <1>type, <2>1, <3>2 DEF TypeInv, arg_count
    <3> QED
      BY <3>1, <3>2
  <2>5. cur =< pos /\ cur =< end
    BY <1>inv, <2>1 DEF CursorInv
  <2>6. CursorInv'
    <3>1. phase' # "arg"
      BY <2>1
    <3>2. phase' # "undefined" => cur' =< end'
      BY <1>num, <1>end, <2>1, <2>3, <2>5
    <3>3. phase' = "skip" => cur' =< pos' \/ (pos' = Len(stdin') /\ cur' = pos' + 1)
      <4>1. SUFFICES ASSUME phase' = "skip"
                     PROVE  cur' =< pos' \/ (pos' = Len(stdin') /\ cur' = pos' + 1)
        OBVIOUS
      <4>2. AtEOF
        BY <2>1, <4>1
      <4>3. PICK length : length = Len(stdin)
        OBVIOUS
      <4>4. CASE pos' = pos + 1
        BY <1>num, <2>3, <2>5, <4>4
      <4>5. CASE pos' = pos /\ pos = length
        <5>1. cur + 1 =< pos \/ cur + 1 = pos + 1
          BY <1>num, <2>5
        <5>2. cur' =< pos' \/ (pos' = length /\ cur' = pos' + 1)
          BY <2>3, <4>5, <5>1
        <5> QED
          BY <1>same, <4>3, <5>2
      <4> QED
        BY <2>2, <4>2, <4>3, <4>4, <4>5
    <3> QED
      BY <3>1, <3>2, <3>3 DEF CursorInv
  <2>7. StartInv'
    <3>1. (\A j \in 1..arg_count : args[j] \in 1..cur) /\ start \in 1..(cur + 1)
      BY <1>inv, <2>1 DEF StartInv
    <3>2. 1..cur \subseteq 1..cur' /\ 1..(cur + 1) = 1..cur'
      BY <1>num, <2>3
    <3>3. \A j \in 1..(arg_count + 1) : j \in 1..arg_count \/ j = arg_count + 1
      BY <1>num
    <3>4. \A j \in 1..arg_count' : args'[j] \in 1..cur'
      BY <2>4, <3>1, <3>2, <3>3
    <3>5. phase' # "arg"
      BY <2>1
    <3> QED
      BY <3>4, <3>5 DEF StartInv
  <2>8. OverrunInv'
    <3>1. SUFFICES ASSUME phase' = "undefined" PROVE Len(stdin) >= XARGS_BUFFER_SIZE
      BY <1>same DEF OverrunInv
    <3>2. cur = end
      BY <2>1, <3>1
    <3> QED
      BY <1>num, <2>5, <3>2 DEF end
  <2> QED
    BY <1>goal, <1>type, <2>1, <2>2, <2>3, <2>4, <2>6, <2>7, <2>8 DEF TypeInv
<1> QED
  BY <1>1, <1>2, <1>3, <1>4, <1>5, <1>6, <1>7 DEF parse_args_from_stdin

\* Every step of run() keeps it.
LEMMA RunXargsInv == XargsInv /\ run => XargsInv'
<1> SUFFICES ASSUME XargsInv, run PROVE XargsInv'
  OBVIOUS
<1>type. TypeInv /\ CursorInv /\ StartInv /\ BatchInv
  BY DEF XargsInv
<1>num. arg_count \in Nat /\ p \in Nat /\ n \in Int /\ XARGS_MAX_ARGS \in Nat
        /\ additional_argc \in Nat
  BY <1>type, Lengths DEF TypeInv
<1>same. /\ stdin' = stdin /\ n' = n /\ additional_argc' = additional_argc /\ pos' = pos
         /\ storage' = storage /\ start' = start /\ args' = args
         /\ cur' = cur /\ arg_count' = arg_count /\ end' = end
         /\ phase \in {"run", "wait"} /\ phase' \in {"run", "wait", "exit", "undefined"}
  BY DEF run, RunBatch, OverrunPassedArgs, ForkFails, ChildEnds, Finish, input_vars,
         cur, arg_count, end
<1>1. CursorInv' /\ StartInv'
  BY <1>type, <1>same DEF CursorInv, StartInv
<1>2. p' \in Nat /\ BatchInv'
  <2>1. CASE RunBatch
    BY <1>type, <1>same, <2>1 DEF RunBatch, PassedArgsFit, BatchInv, TypeInv
  <2>2. CASE OverrunPassedArgs \/ ForkFails \/ Finish
    BY <1>type, <2>2 DEF OverrunPassedArgs, ForkFails, Finish, BatchInv, TypeInv
  <2>3. CASE ChildEnds
    <3>1. phase = "wait" /\ phase' = "run" /\ p' = p + n
      BY <2>3 DEF ChildEnds
    <3>2. n >= 0 /\ p >= 1
      BY <1>type, <3>1 DEF BatchInv
    <3>3. p' \in Nat /\ p' >= 1
      BY <1>num, <3>1, <3>2
    <3> QED
      BY <3>1, <3>3 DEF BatchInv
  <2> QED
    BY <2>1, <2>2, <2>3 DEF run
<1>3. OverrunInv'
  <2>1. SUFFICES ASSUME phase' = "undefined", n >= 0
                 PROVE  additional_argc + arg_count + 1 >= XARGS_MAX_ARGS
    BY <1>num, <1>same DEF OverrunInv
  <2>2. p =< arg_count /\ ~PassedArgsFit
    BY <2>1 DEF run, RunBatch, OverrunPassedArgs, ForkFails, ChildEnds, Finish
  <2>3. Len(new_passed_args) \in Nat /\ Len(new_passed_args) =< arg_count
    BY <1>type, <2>1, <2>2, BatchInList
  <2>4. ~(additional_argc + Len(new_passed_args) + 1 < XARGS_MAX_ARGS)
    BY <2>1, <2>2 DEF PassedArgsFit
  <2>5. PICK length : length = Len(new_passed_args)
    OBVIOUS
  <2> QED
    BY <1>num, <2>3, <2>4, <2>5
<1>4. TypeInv'
  BY <1>type, <1>same, <1>2 DEF TypeInv
<1> QED
  BY <1>1, <1>2, <1>3, <1>4 DEF XargsInv

\* Every step keeps it.
LEMMA NextXargsInv == XargsInv /\ [Next]_vars => XargsInv'
<1> SUFFICES ASSUME XargsInv, [Next]_vars PROVE XargsInv'
  OBVIOUS
<1>1. CASE UNCHANGED vars
  <2>1. /\ stdin' = stdin /\ n' = n /\ additional_argc' = additional_argc /\ pos' = pos
        /\ storage' = storage /\ start' = start /\ args' = args /\ p' = p /\ phase' = phase
    BY <1>1 DEF vars, input_vars
  <2>2. cur' = cur /\ arg_count' = arg_count /\ end' = end
    BY <2>1 DEF cur, arg_count, end
  <2> QED
    BY <2>1, <2>2 DEF XargsInv, TypeInv, CursorInv, StartInv, BatchInv, OverrunInv
<1> QED
  BY <1>1, ParseXargsInv, RunXargsInv DEF Next, Terminated

\* It holds of every behaviour.
LEMMA XargsInvAlways == Spec => []XargsInv
BY InitXargsInv, NextXargsInv, PTL DEF Spec

\* The storage and the list for a child are overrun only by an input that fills the
\* storage, by as many arguments as the list holds or by a negative -n, for any sizes of
\* the two; as long as nothing is overrun every argument starts in the storage.
THEOREM OverrunsNeedLongInput == Spec => []OverrunNeedsLongInput
<1>1. XargsInv => OverrunNeedsLongInput
  <2> SUFFICES ASSUME XargsInv PROVE OverrunNeedsLongInput
    OBVIOUS
  <2>1. phase # "undefined" => ToSet(args) \subseteq 1..cur
    <3>1. DOMAIN args = 1..arg_count
      BY LenProperties DEF XargsInv, TypeInv, arg_count
    <3> QED
      BY <3>1 DEF XargsInv, StartInv, ToSet
  <2>2. phase # "undefined" => cur =< end
    BY DEF XargsInv, CursorInv
  <2> QED
    BY <2>1, <2>2 DEF OverrunNeedsLongInput, XargsInv, OverrunInv
<1> QED
  BY <1>1, XargsInvAlways, PTL

-----------------------------------------------------------------------------
(* Induction, and the folds of the community modules.                      *)

-----------------------------------------------------------------------------
(* The batches.                                                            *)

\* What the k-th child should get: n arguments, or those that are left.
Batch(k) ==
  Strings(SubSeq(args, n * (k - 1) + 1, IF n * k =< arg_count THEN n * k ELSE arg_count))

\* What a child may get.
Batches == {Batch(k) : k \in Nat}

\* Where run() is, in terms of the children it has run.
ChildrenInv ==
  /\ phase \in {"skip", "arg"} => children = <<>> /\ p = 1
  /\ children \in Seq(Batches)
  /\ \A k \in 1..Len(children) : children[k] = Batch(k)
  /\ Len(children) > 0 => n > 0 /\ n * (Len(children) - 1) < arg_count
  /\ n > 0 /\ phase = "run" => p = n * Len(children) + 1
  /\ n > 0 /\ phase = "wait" => Len(children) > 0 /\ p = n * (Len(children) - 1) + 1
  /\ n =< 0 => p = 1
  /\ code = "success" => phase = "exit" /\ arg_count =< n * Len(children)

\* Nothing has been run.
LEMMA InitChildrenInv == Init => ChildrenInv
<1> SUFFICES ASSUME Init PROVE ChildrenInv
  OBVIOUS
<1>1. phase = "skip" /\ children = <<>> /\ p = 1 /\ code = "none"
  BY DEF Init
<1>2. children \in Seq(Batches) /\ Len(children) = 0
  BY <1>1, EmptySeq
<1> QED
  BY <1>1, <1>2 DEF ChildrenInv

\* The parser runs nothing.
LEMMA ParseChildrenInv == TypeInv /\ ChildrenInv /\ parse_args_from_stdin => ChildrenInv'
<1> SUFFICES ASSUME TypeInv, ChildrenInv, parse_args_from_stdin PROVE ChildrenInv'
  OBVIOUS
<1>1. phase \in {"skip", "arg"} /\ children' = children /\ p' = p /\ n' = n /\ n \in Int
  BY DEF TypeInv, parse_args_from_stdin, SkipSpace, StopParsing, StartArg, AddByte,
         UnexpectedQuotationMark, CompleteArg, CutArg, input_vars
<1>2. phase' # "wait"
  BY DEF parse_args_from_stdin, SkipSpace, StopParsing, StartArg, AddByte,
         UnexpectedQuotationMark, CompleteArg, CutArg
<1>3. code' # "success"
  <2>1. code # "success"
    BY <1>1 DEF ChildrenInv
  <2>2. code' \in {code, "unexpected_quotation_mark", "missing_quotation_mark"}
    BY DEF parse_args_from_stdin, SkipSpace, StopParsing, StartArg, AddByte,
           UnexpectedQuotationMark, CompleteArg, CutArg
  <2> QED
    BY <2>1, <2>2
<1>4. children' = <<>> /\ p' = 1 /\ Len(children') = 0
  BY <1>1, EmptySeq DEF ChildrenInv
<1>5. children' \in Seq(Batches')
  BY <1>4, EmptySeq
<1>6. p' = n' * Len(children') + 1
  <2>1. n * 0 + 1 = 1
    BY <1>1
  <2> QED
    BY <1>1, <1>4, <2>1
<1> QED
  BY <1>2, <1>3, <1>4, <1>5, <1>6 DEF ChildrenInv

\* The child that is run next gets the next batch.
LEMMA RunBatchEffect ==
  ASSUME TypeInv, BatchInv, ChildrenInv, RunBatch, n > 0
  PROVE  /\ children' = Append(children, Batch(Len(children) + 1))
         /\ n * Len(children) < arg_count
<1>1. /\ arg_count \in Nat /\ p \in Nat /\ n \in Nat /\ n > 0 /\ p =< arg_count /\ n >= 0
  BY Lengths DEF TypeInv, RunBatch
<1>2. Len(children) \in Nat /\ p = n * Len(children) + 1
  BY LenProperties DEF ChildrenInv, RunBatch
<1>3. PICK m : m = Len(children)
  OBVIOUS
<1>4. m \in Nat /\ p = n * m + 1 /\ n * m \in Nat /\ n * (m + 1) = n * m + n
      /\ n * ((m + 1) - 1) = n * m /\ m =< n * m
  <2>1. m \in Nat /\ n * m \in Nat /\ n * (m + 1) = n * m + n /\ n * ((m + 1) - 1) = n * m
    BY <1>1, <1>2, <1>3
  <2>2. m =< n * m
    BY <1>1, <2>1
  <2> QED
    BY <1>2, <1>3, <2>1, <2>2
<1>5. PICK last : last = IF n * (m + 1) =< arg_count THEN n * (m + 1) ELSE arg_count
  OBVIOUS
<1>6. Min({p + n - 1, arg_count}) = last
  <2>1. Min({p + n - 1, arg_count}) = IF p + n - 1 =< arg_count THEN p + n - 1 ELSE arg_count
    BY <1>1, BatchInList
  <2>2. p + n - 1 = n * (m + 1)
    BY <1>1, <1>4
  <2> QED
    BY <1>5, <2>1, <2>2
<1>7. new_passed_args = SubSeq(args, n * m + 1, last)
  BY <1>4, <1>6 DEF new_passed_args
<1>8. new_passed_args # <<>>
  <2>1. p =< last /\ last \in Int /\ last =< arg_count
    BY <1>1, <1>4, <1>5
  <2>2. \A j \in p..last : args[j] \in Nat
    <3>1. \A j \in p..last : j \in 1..Len(args)
      BY <1>1, <1>4, <2>1 DEF arg_count
    <3> QED
      BY <3>1, ElementOfSeq DEF TypeInv
  <2>3. Len(SubSeq(args, p, last)) = last - p + 1
    BY <1>1, <2>1, <2>2, SubSeqProperties
  <2>4. last - p + 1 # 0
    BY <1>1, <2>1
  <2>5. new_passed_args = SubSeq(args, p, last)
    BY <1>6 DEF new_passed_args
  <2> QED
    BY <2>3, <2>4, <2>5, EmptySeq
<1>9. ~(Len(children) > arg_count)
  BY <1>1, <1>3, <1>4
<1>10. Strings(new_passed_args) = Batch(m + 1)
  <2>1. Batch(m + 1) = Strings(SubSeq(args, n * m + 1, last))
    BY <1>4, <1>5 DEF Batch
  <2> QED
    BY <1>7, <2>1
<1>11. children' = Append(children, Strings(new_passed_args))
  BY <1>8, <1>9 DEF RunBatch
<1> QED
  BY <1>1, <1>3, <1>4, <1>10, <1>11

\* run() hands out one batch after the other.
LEMMA RunChildrenInv == TypeInv /\ BatchInv /\ ChildrenInv /\ run => ChildrenInv'
<1> SUFFICES ASSUME TypeInv, BatchInv, ChildrenInv, run PROVE ChildrenInv'
  OBVIOUS
<1>same. /\ n' = n /\ arg_count' = arg_count
         /\ storage' = storage /\ args' = args /\ cur' = cur
         /\ phase \in {"run", "wait"} /\ phase' \in {"run", "wait", "exit", "undefined"}
  BY DEF run, RunBatch, OverrunPassedArgs, ForkFails, ChildEnds, Finish, input_vars,
         cur, arg_count
<1>batch. (\A k : Batch(k)' = Batch(k)) /\ Batches' = Batches
  <2>1. \A k : Batch(k)' = Batch(k)
    BY <1>same DEF Batch, Strings, StringAt
  <2> QED
    BY <2>1, Zenon DEF Batches
<1>num. /\ arg_count \in Nat /\ p \in Nat /\ n \in Int /\ p >= 1
        /\ Len(children) \in Nat /\ code # "success"
  BY <1>same, Lengths, LenProperties DEF TypeInv, BatchInv, ChildrenInv
<1>goal. ASSUME children' \in Seq(Batches),
                \A k \in 1..Len(children') : children'[k] = Batch(k),
                Len(children') > 0 => n > 0 /\ n * (Len(children') - 1) < arg_count,
                n > 0 /\ phase' = "run" => p' = n * Len(children') + 1,
                n > 0 /\ phase' = "wait" =>
                  Len(children') > 0 /\ p' = n * (Len(children') - 1) + 1,
                n =< 0 => p' = 1,
                code' = "success" => phase' = "exit" /\ arg_count =< n * Len(children')
         PROVE  ChildrenInv'
  <2>1. phase' \notin {"skip", "arg"}
    BY <1>same
  <2> QED
    BY <1>goal, <1>same, <1>batch, <2>1 DEF ChildrenInv
<1>now. /\ children \in Seq(Batches)
        /\ \A k \in 1..Len(children) : children[k] = Batch(k)
        /\ Len(children) > 0 => n > 0 /\ n * (Len(children) - 1) < arg_count
        /\ n > 0 /\ phase = "run" => p = n * Len(children) + 1
        /\ n > 0 /\ phase = "wait" => Len(children) > 0 /\ p = n * (Len(children) - 1) + 1
        /\ n =< 0 => p = 1
  BY DEF ChildrenInv
<1>1. CASE RunBatch
  <2>1. phase' = "wait" /\ p' = p /\ code' = code /\ p =< arg_count /\ n >= 0 /\ phase = "run"
    BY <1>1 DEF RunBatch, PassedArgsFit
  <2>2. CASE n > 0
    <3>1. PICK m : m = Len(children)
      OBVIOUS
    <3>2. children' = Append(children, Batch(m + 1)) /\ n * m < arg_count
      BY <1>1, <2>2, <3>1, RunBatchEffect
    <3>3. m \in Nat /\ m + 1 \in Nat /\ (m + 1) - 1 = m /\ p = n * m + 1
      BY <1>num, <1>now, <2>1, <2>2, <3>1
    <3>4. Batch(m + 1) \in Batches
      BY <3>3, Zenon DEF Batches
    <3>5. /\ children' \in Seq(Batches) /\ Len(children') = m + 1
          /\ \A k \in 1..m : children'[k] = children[k]
          /\ children'[m + 1] = Batch(m + 1)
      BY <1>now, <3>1, <3>2, <3>4, AppendProperties
    <3>6. \A k \in 1..(m + 1) : k \in 1..m \/ k = m + 1
      BY <3>3
    <3>7. \A k \in 1..Len(children') : children'[k] = Batch(k)
      BY <1>now, <3>1, <3>5, <3>6
    <3>8. Len(children') > 0 /\ n * (Len(children') - 1) < arg_count
          /\ p' = n * (Len(children') - 1) + 1
      BY <2>1, <3>2, <3>3, <3>5
    <3> QED
      BY <1>goal, <1>num, <2>1, <2>2, <3>5, <3>7, <3>8
  <2>3. CASE n = 0
    <3>1. p = 1
      BY <1>now, <2>3
    <3>2. Min({p + n - 1, arg_count}) = p + n - 1
      <4>1. p + n - 1 =< arg_count
        BY <1>num, <2>1, <2>3
      <4> QED
        BY <2>1, <4>1, BatchInList
    <3>3. new_passed_args = <<>>
      <4>1. p + n - 1 \in Int /\ p + n - 1 < p /\ p \in Int
        BY <1>num, <2>3
      <4>2. SubSeq(args, p, p + n - 1) = <<>>
        BY <4>1, SubSeqEmpty
      <4> QED
        BY <3>2, <4>2 DEF new_passed_args
    <3>4. children' = children
      BY <1>1, <3>3 DEF RunBatch
    <3> QED
      BY <1>goal, <1>num, <1>now, <2>1, <2>3, <3>4
  <2> QED
    BY <1>num, <2>1, <2>2, <2>3
<1>2. CASE OverrunPassedArgs
  <2>1. phase' = "undefined" /\ p' = p /\ code' = code /\ children' = children
    BY <1>2 DEF OverrunPassedArgs
  <2> QED
    BY <1>goal, <1>num, <1>now, <2>1
<1>3. CASE ForkFails
  <2>1. phase' = "exit" /\ p' = p /\ code' = "fork_failed" /\ children' = children
    BY <1>3 DEF ForkFails
  <2> QED
    BY <1>goal, <1>num, <1>now, <2>1
<1>4. CASE ChildEnds
  <2>1. phase = "wait" /\ phase' = "run" /\ p' = p + n /\ code' = code /\ children' = children
    BY <1>4 DEF ChildEnds
  <2>2. n >= 0
    BY <2>1 DEF BatchInv
  <2>3. ASSUME n > 0 PROVE p' = n * Len(children') + 1
    <3>1. PICK m : m = Len(children)
      OBVIOUS
    <3>2. m \in Nat /\ p = n * (m - 1) + 1
      BY <1>num, <1>now, <2>1, <2>3, <3>1
    <3>3. n * (m - 1) + n = n * m /\ n * (m - 1) \in Int
      BY <1>num, <3>2
    <3> QED
      BY <1>num, <2>1, <3>1, <3>2, <3>3
  <2>4. n =< 0 => p' = 1
    BY <1>num, <1>now, <2>1, <2>2
  <2> QED
    BY <1>goal, <1>num, <1>now, <2>1, <2>3, <2>4
<1>5. CASE Finish
  <2>1. /\ phase = "run" /\ phase' = "exit" /\ p' = p /\ children' = children
        /\ p > arg_count
    BY <1>5 DEF Finish
  <2>2. arg_count =< n * Len(children)
    <3>1. PICK m : m = Len(children)
      OBVIOUS
    <3>2. CASE n > 0
      <4>1. p = n * m + 1 /\ n * m \in Int
        BY <1>num, <1>now, <2>1, <3>1, <3>2
      <4> QED
        BY <1>num, <2>1, <3>1, <4>1
    <3>3. CASE n =< 0
      <4>1. p = 1 /\ m = 0
        BY <1>num, <1>now, <3>1, <3>3
      <4>2. n * 0 = 0
        BY <1>num
      <4> QED
        BY <1>num, <2>1, <3>1, <4>1, <4>2
    <3> QED
      BY <1>num, <3>2, <3>3
  <2> QED
    BY <1>goal, <1>num, <1>now, <2>1, <2>2
<1> QED
  BY <1>1, <1>2, <1>3, <1>4, <1>5 DEF run

\* Every step keeps it.
LEMMA NextChildrenInv == XargsInv /\ ChildrenInv /\ [Next]_vars => ChildrenInv'
<1> SUFFICES ASSUME XargsInv, ChildrenInv, [Next]_vars PROVE ChildrenInv'
  OBVIOUS
<1>1. CASE UNCHANGED vars
  <2>1. /\ n' = n /\ storage' = storage /\ args' = args /\ p' = p /\ phase' = phase
        /\ children' = children /\ code' = code
    BY <1>1 DEF vars, input_vars
  <2>2. cur' = cur /\ arg_count' = arg_count
    BY <2>1 DEF cur, arg_count
  <2>3. \A k : Batch(k)' = Batch(k)
    BY <2>1, <2>2 DEF Batch, Strings, StringAt
  <2>4. Batches' = Batches
    BY <2>3, Zenon DEF Batches
  <2> QED
    BY <2>1, <2>2, <2>3, <2>4 DEF ChildrenInv
<1> QED
  BY <1>1, ParseChildrenInv, RunChildrenInv DEF Next, Terminated, XargsInv

\* What an argument may be read as.
Readings == {StringAt(a) : a \in Nat}

\* The arguments are one for one those of the list.
LEMMA StringsOfArgs ==
  ASSUME TypeInv
  PROVE  /\ Strings(args) \in Seq(Readings) /\ Len(Strings(args)) = arg_count
         /\ \A j \in 1..arg_count : Strings(args)[j] = StringAt(args[j])
<1>1. arg_count \in Nat /\ DOMAIN args = 1..arg_count /\ arg_count = Len(args)
  BY LenProperties DEF TypeInv, arg_count
<1>2. \A j \in 1..arg_count : StringAt(args[j]) \in Readings
  <2>1. ASSUME NEW j \in 1..arg_count PROVE StringAt(args[j]) \in Readings
    <3>1. args[j] \in Nat
      BY <1>1, ElementOfSeq DEF TypeInv
    <3> QED
      BY <3>1, Zenon DEF Readings
  <2> QED
    BY <2>1
<1>3. Strings(args) = [j \in 1..arg_count |-> StringAt(args[j])]
  BY <1>1, Zenon DEF Strings
<1> QED
  BY <1>1, <1>2, <1>3

\* The batches are the arguments in pieces.
LEMMA StringsOfPart ==
  ASSUME TypeInv, NEW a \in Nat, NEW b \in Nat, a >= 1, b =< arg_count
  PROVE  Strings(SubSeq(args, a, b)) = SubSeq(Strings(args), a, b)
<1>1. PICK W : W = Strings(args)
  OBVIOUS
<1>2. /\ W \in Seq(Readings) /\ Len(W) = arg_count /\ arg_count \in Nat
      /\ \A j \in 1..arg_count : W[j] = StringAt(args[j])
  BY <1>1, StringsOfArgs, Lengths
<1>3. \A j \in a..b : j \in 1..arg_count
  BY <1>2
<1>4. PICK part : part = SubSeq(args, a, b)
  OBVIOUS
<1>5. /\ part \in Seq(Nat) /\ Len(part) = IF a =< b THEN b - a + 1 ELSE 0
      /\ \A j \in 1..(b - a + 1) : part[j] = args[a + j - 1]
  <2>1. \A j \in a..b : args[j] \in Nat
    BY <1>3, ElementOfSeq DEF TypeInv, arg_count
  <2> QED
    BY <1>4, <2>1, SubSeqProperties
<1>6. PICK piece : piece = SubSeq(W, a, b)
  OBVIOUS
<1>7. /\ piece \in Seq(Readings) /\ Len(piece) = IF a =< b THEN b - a + 1 ELSE 0
      /\ \A j \in 1..(b - a + 1) : piece[j] = W[a + j - 1]
  <2>1. \A j \in a..b : W[j] \in Readings
    BY <1>2, <1>3, ElementOfSeq
  <2> QED
    BY <1>6, <2>1, SubSeqProperties
<1>8. PICK m : m = IF a =< b THEN b - a + 1 ELSE 0
  OBVIOUS
<1>9. m \in Nat /\ DOMAIN part = 1..m /\ DOMAIN piece = 1..m
  BY <1>5, <1>7, <1>8, LenProperties
<1>10. \A j \in 1..m : /\ j \in 1..(b - a + 1) /\ a + j - 1 \in 1..arg_count
  BY <1>2, <1>8
<1>11. \A j \in 1..m : StringAt(part[j]) = piece[j]
  BY <1>2, <1>5, <1>7, <1>10
<1>12. piece = [j \in 1..m |-> piece[j]]
  BY <1>7, <1>9, LenProperties
<1>13. Strings(part) = [j \in 1..m |-> StringAt(part[j])]
  BY <1>9, Zenon DEF Strings
<1>14. Strings(part) = piece
  BY <1>11, <1>12, <1>13
<1> QED
  BY <1>1, <1>4, <1>6, <1>14

\* What the children of ChildrenInv got, put together.
LEMMA BatchesTogether ==
  ASSUME TypeInv, NEW m \in Nat, m # 0, Len(children) = m,
         \A k \in 1..m : children[k] = Batch(k),
         n > 0, n * (m - 1) < arg_count
  PROVE  FlattenSeq(children) =
           SubSeq(Strings(args), 1, IF n * m =< arg_count THEN n * m ELSE arg_count)
<1> DEFINE upto(k) == IF n * k =< arg_count THEN n * k ELSE arg_count
<1>1. PICK W : W = Strings(args)
  OBVIOUS
<1> DEFINE f == [k \in 1..m |-> SubSeq(W, 1, upto(k))]
<1>2. W \in Seq(Readings) /\ Len(W) = arg_count /\ arg_count \in Nat /\ n \in Nat
  BY <1>1, StringsOfArgs, Lengths DEF TypeInv
<1>3. \A k \in 1..m : /\ n * (k - 1) \in Nat /\ n * (k - 1) < arg_count
                      /\ upto(k) \in Nat /\ n * (k - 1) =< upto(k) /\ upto(k) =< arg_count
  <2>1. SUFFICES ASSUME NEW k \in 1..m
                 PROVE  /\ n * (k - 1) \in Nat /\ n * (k - 1) < arg_count
                        /\ upto(k) \in Nat /\ n * (k - 1) =< upto(k) /\ upto(k) =< arg_count
    OBVIOUS
  <2>2. n * (k - 1) =< n * (m - 1) /\ n * (m - 1) \in Int /\ n * (k - 1) \in Nat
    BY <1>2
  <2>3. n * k = n * (k - 1) + n /\ n * k \in Nat
    BY <1>2
  <2> QED
    BY <1>2, <2>2, <2>3
<1>4. \A k \in 1..m : children[k] = SubSeq(W, n * (k - 1) + 1, upto(k))
  <2>1. SUFFICES ASSUME NEW k \in 1..m
                 PROVE  children[k] = SubSeq(W, n * (k - 1) + 1, upto(k))
    OBVIOUS
  <2>2. PICK a, b : a = n * (k - 1) + 1 /\ b = upto(k)
    OBVIOUS
  <2>3. a \in Nat /\ b \in Nat /\ a >= 1 /\ b =< arg_count
    <3> HIDE DEF upto
    <3> QED
      BY <1>3, <2>2
  <2>4. children[k] = Strings(SubSeq(args, a, b))
    BY <2>2, Zenon DEF Batch
  <2>5. Strings(SubSeq(args, a, b)) = SubSeq(W, a, b)
    BY <1>1, <2>3, StringsOfPart
  <2> HIDE DEF upto
  <2> QED
    BY <2>2, <2>4, <2>5
<1>5. children[1] = SubSeq(W, 1, upto(1))
  <2>1. 1 \in 1..m /\ n * (1 - 1) + 1 = 1
    BY <1>2
  <2> HIDE DEF upto
  <2>2. children[1] = SubSeq(W, n * (1 - 1) + 1, upto(1))
    BY <1>4, <2>1
  <2> QED
    BY <2>1, <2>2
<1>6. ASSUME NEW k \in 1..m, k # 1
      PROVE  SubSeq(W, 1, upto(k)) = SubSeq(W, 1, upto(k - 1)) \o children[k]
  <2>1. n * (k - 1) < arg_count /\ n * (k - 1) \in Nat
    <3> HIDE DEF upto
    <3> QED
      BY <1>3, <1>6
  <2>2. upto(k - 1) = n * (k - 1)
    BY <1>2, <2>1
  <2>3. PICK a, b : a = n * (k - 1) /\ b = upto(k)
    OBVIOUS
  <2>4. a \in 0..Len(W) /\ b \in a..Len(W) /\ 1 \in 1..(Len(W) + 1)
    <3> HIDE DEF upto
    <3> QED
      BY <1>2, <1>3, <1>6, <2>1, <2>3
  <2>5. a \in (1 - 1)..Len(W)
    BY <2>4
  <2>6. SubSeq(W, 1, a) \o SubSeq(W, a + 1, b) = SubSeq(W, 1, b)
    BY <1>2, <2>4, <2>5, ConcatAdjacentSubSeq
  <2>7. children[k] = SubSeq(W, a + 1, b)
    <3> HIDE DEF upto
    <3> QED
      BY <1>4, <1>6, <2>3
  <2> HIDE DEF upto
  <2> QED
    BY <2>2, <2>3, <2>6, <2>7
<1>7. f = [k \in 1..Len(children) |->
             IF k = 1 THEN children[k] ELSE f[k - 1] \o children[k]]
  <2>1. ASSUME NEW k \in 1..m
        PROVE  f[k] = IF k = 1 THEN children[k] ELSE f[k - 1] \o children[k]
    <3> HIDE DEF upto
    <3>1. CASE k = 1
      BY <1>5, <3>1
    <3>2. CASE k # 1
      <4>1. k - 1 \in 1..m
        BY <3>2
      <4>2. f[k] = SubSeq(W, 1, upto(k)) /\ f[k - 1] = SubSeq(W, 1, upto(k - 1))
        BY <4>1
      <4> QED
        BY <1>6, <3>2, <4>2
    <3> QED
      BY <3>1, <3>2
  <2>2. f = [k \in 1..m |-> f[k]]
    OBVIOUS
  <2> HIDE DEF f
  <2>3. f = [k \in 1..m |-> IF k = 1 THEN children[k] ELSE f[k - 1] \o children[k]]
    BY <2>1, <2>2
  <2> QED
    BY <2>3
<1>8. FlattenSeq(children) = f[m]
  <2> HIDE DEF f
  <2>1. Len(children) \in Nat /\ Len(children) # 0
    OBVIOUS
  <2> QED
    BY <1>7, <2>1, FlattenIs
<1>9. f[m] = SubSeq(W, 1, upto(m))
  <2>1. m \in 1..m
    OBVIOUS
  <2> HIDE DEF upto
  <2> QED
    BY <2>1
<1> QED
  BY <1>1, <1>8, <1>9

\* Whatever -n is, and however many arguments there are, the children together get a
\* beginning of the arguments, in order and each once, in batches of n of which only the
\* last may be short; and all of them when main() succeeds.
THEOREM ChildrenGetTheArguments == Spec => []BatchesCoverArguments
<1>1. XargsInv /\ ChildrenInv => BatchesCoverArguments
  <2> SUFFICES ASSUME XargsInv, ChildrenInv PROVE BatchesCoverArguments
    OBVIOUS
  <2>1. PICK W, m, passed : W = Strings(args) /\ m = Len(children)
                            /\ passed = FlattenSeq(children)
    OBVIOUS
  <2>2. /\ TypeInv /\ W \in Seq(Readings) /\ Len(W) = arg_count /\ arg_count \in Nat
        /\ m \in Nat /\ DOMAIN children = 1..m /\ n \in Int
    BY <2>1, StringsOfArgs, Lengths, LenProperties DEF XargsInv, ChildrenInv, TypeInv
  <2>3. PICK last : last = IF m = 0 THEN 0 ELSE IF n * m =< arg_count THEN n * m ELSE arg_count
    OBVIOUS
  <2>4. /\ m # 0 => n > 0 /\ n * (m - 1) < arg_count
        /\ \A k \in 1..m : children[k] = Batch(k)
        /\ code = "success" => arg_count =< n * m
    BY <2>1, <2>2 DEF ChildrenInv
  <2>5. last \in Nat /\ last =< arg_count
    <3>1. m # 0 => n * m \in Nat
      BY <2>2, <2>4
    <3> QED
      BY <2>2, <2>3, <3>1
  <2>6. passed = SubSeq(W, 1, last)
    <3>1. CASE m = 0
      <4>1. children = <<>>
        BY <2>1, <3>1, EmptySeq DEF ChildrenInv
      <4>2. passed = <<>>
        <5>1. Len(children) = 0
          BY <2>1, <3>1
        <5>2. passed = children
          BY <2>1, <5>1, Zenon DEF FlattenSeq
        <5> QED
          BY <4>1, <5>2
      <4>3. SubSeq(W, 1, 0) = <<>>
        BY SubSeqEmpty
      <4> QED
        BY <2>3, <3>1, <4>2, <4>3
    <3>2. CASE m # 0
      BY <2>1, <2>2, <2>3, <2>4, <3>2, BatchesTogether
    <3> QED
      BY <3>1, <3>2
  <2>7. passed \in Seq(Readings) /\ Len(passed) = last
    <3>1. \A j \in 1..last : W[j] \in Readings
      BY <2>2, <2>5, ElementOfSeq
    <3> QED
      BY <2>5, <2>6, <3>1, SubSeqProperties
  <2>8. IsPrefix(passed, W)
    <3>1. SubSeq(passed, 1, Len(passed)) = passed
      BY <2>7, SubSeqFull
    <3> QED
      BY <2>2, <2>5, <2>6, <2>7, <3>1 DEF IsPrefix
  <2>9. ASSUME code = "success" PROVE passed = W
    <3>1. last = arg_count
      <4>1. m = 0 => arg_count = 0
        <5>1. n * 0 = 0
          BY <2>2
        <5> QED
          BY <2>2, <2>4, <2>9, <5>1
      <4>2. m # 0 => n * m \in Nat
        BY <2>2, <2>4
      <4> QED
        BY <2>2, <2>3, <2>4, <2>9, <4>1, <4>2
    <3> QED
      BY <2>2, <2>6, <3>1, SubSeqFull
  <2>10. ASSUME NEW i \in 1..m, i < m PROVE Len(children[i]) = n
    <3>1. PICK a, b : a = n * (i - 1) + 1 /\ b = n * i
      OBVIOUS
    <3>2. n * i =< n * (m - 1) /\ n > 0 /\ n * (m - 1) < arg_count /\ n * (m - 1) \in Int
      <4>1. i =< m - 1 /\ n > 0 /\ n * (m - 1) < arg_count
        BY <2>2, <2>4, <2>10
      <4> QED
        BY <2>2, <4>1
    <3>3. a \in Nat /\ b \in Nat /\ a >= 1 /\ b =< arg_count /\ b - a + 1 = n /\ a =< b
      <4>1. n * (i - 1) \in Nat /\ n * i = n * (i - 1) + n
        BY <2>2, <3>2
      <4> QED
        BY <2>2, <3>1, <3>2, <4>1
    <3>4. children[i] = Strings(SubSeq(args, a, b))
      <4>1. n * i =< arg_count
        BY <3>1, <3>3
      <4>2. children[i] = Strings(SubSeq(args, n * (i - 1) + 1, n * i))
        BY <2>4, <4>1 DEF Batch
      <4> QED
        BY <3>1, <4>2
    <3>5. children[i] = SubSeq(W, a, b)
      BY <2>1, <2>2, <3>3, <3>4, StringsOfPart
    <3>6. \A j \in a..b : W[j] \in Readings
      BY <2>2, <3>3, ElementOfSeq
    <3>7. Len(SubSeq(W, a, b)) = n
      BY <3>3, <3>6, SubSeqProperties
    <3> QED
      BY <3>5, <3>7
  <2> QED
    BY <2>1, <2>2, <2>8, <2>9, <2>10 DEF BatchesCoverArguments
<1> QED
  BY <1>1, InitChildrenInv, NextChildrenInv, XargsInvAlways, PTL DEF Spec

-----------------------------------------------------------------------------
(* The tokenizer on paper, byte by byte.                                   *)

\* FoldLeft() takes the bytes from the last to the first, set by set.
Fold(text) ==
  CHOOSE f : f = [s \in SUBSET DOMAIN text |->
                    IF s = {} THEN RefStart ELSE RefStep(f[s \ {Max(s)}], text[Max(s)])]

\* The state of the tokenizer on paper after the first k bytes of a text.
After(text, k) == Fold(text)[1..k]

\* What Reference makes of the last state.
Result(s) ==
  [words |-> IF s.in = "word" THEN Append(s.words, s.word) ELSE s.words,
   error |-> s.error \/ s.in \in Quotes]

\* Reference is the result of all of the input.
LEMMA ReferenceIs ==
  ASSUME TypeInv
  PROVE  Reference = Result(After(stdin, Len(stdin)))
<1>1. DOMAIN stdin = 1..Len(stdin)
  BY LenProperties DEF TypeInv
<1>2. FoldLeft(RefStep, RefStart, stdin) = Fold(stdin)[DOMAIN stdin]
  BY DEF FoldLeft, MapThenFoldSet, Fold
<1>3. FoldLeft(RefStep, RefStart, stdin) = After(stdin, Len(stdin))
  BY <1>1, <1>2 DEF After
<1> QED
  BY <1>3 DEF Reference, Result

\* The states of the tokenizer on paper.
RefStates ==
  [in : {"space", "word"} \union Quotes, word : Seq(Bytes), words : Seq(Seq(Bytes)),
   error : BOOLEAN]

\* A byte between arguments: nothing, or the start of one.
LEMMA StepBetween ==
  ASSUME NEW r \in RefStates, ~r.error, r.in = "space", NEW c \in Bytes
  PROVE  /\ c = " " => RefStep(r, c) = r
         /\ c \in Quotes => RefStep(r, c) = [r EXCEPT !.in = c, !.word = <<>>]
         /\ c # " " /\ c \notin Quotes =>
              RefStep(r, c) = [r EXCEPT !.in = "word", !.word = <<c>>]
BY DEF RefStep, Quotes

\* A byte within an argument: the end of it, an error, or one more byte of it.
LEMMA StepWithin ==
  ASSUME NEW r \in RefStates, ~r.error, r.in # "space", NEW c \in Bytes
  PROVE  /\ r.in = c \/ (r.in = "word" /\ c = " ") =>
              RefStep(r, c) = [r EXCEPT !.in = "space", !.words = Append(r.words, r.word)]
         /\ r.in = "word" /\ c \in Quotes => RefStep(r, c) = [r EXCEPT !.error = TRUE]
         /\ r.in # c /\ ~(r.in = "word" /\ c \in Quotes \union {" "}) =>
              RefStep(r, c) = [r EXCEPT !.word = Append(r.word, c)]
<1>1. r.in = "word" => r.in # c
  BY DEF Bytes, Quotes, NUL, FF
<1>2. r.in = "word" /\ c \in Quotes => c # " "
  BY DEF Quotes
<1>3. CASE r.in = c \/ (r.in = "word" /\ c = " ")
  <2>1. RefStep(r, c) = [r EXCEPT !.in = "space", !.words = Append(@, r.word)]
    BY <1>3 DEF RefStep
  <2> QED
    BY <1>1, <1>2, <1>3, <2>1
<1>4. CASE ~(r.in = c \/ (r.in = "word" /\ c = " ")) /\ r.in = "word" /\ c \in Quotes
  BY <1>1, <1>2, <1>4 DEF RefStep
<1>5. CASE ~(r.in = c \/ (r.in = "word" /\ c = " ")) /\ ~(r.in = "word" /\ c \in Quotes)
  BY <1>5 DEF RefStep
<1> QED
  BY <1>3, <1>4, <1>5

\* Its states keep their types, what it has found stays found, and an error is final.
LEMMA StepKeeps ==
  ASSUME NEW r \in RefStates, NEW c \in Bytes
  PROVE  /\ RefStep(r, c) \in RefStates
         /\ r.error => RefStep(r, c) = r
         /\ Len(r.words) \in Nat /\ Len(r.words) =< Len(RefStep(r, c).words)
         /\ \A j \in 1..Len(r.words) : RefStep(r, c).words[j] = r.words[j]
<1>1. /\ r.in \in {"space", "word"} \union Quotes /\ r.word \in Seq(Bytes)
      /\ r.words \in Seq(Seq(Bytes)) /\ r.error \in BOOLEAN /\ Len(r.words) \in Nat
  BY LenProperties DEF RefStates
<1>2. PICK t, w, ws : t = RefStep(r, c) /\ w = Append(r.word, c) /\ ws = Append(r.words, r.word)
  OBVIOUS
<1>3. /\ w \in Seq(Bytes) /\ ws \in Seq(Seq(Bytes)) /\ Len(ws) = Len(r.words) + 1
      /\ \A j \in 1..Len(r.words) : ws[j] = r.words[j]
  BY <1>1, <1>2, AppendProperties
<1>4. PICK one, none : one = <<c>> /\ none = <<>>
  OBVIOUS
<1>typed. one \in Seq(Bytes) /\ none \in Seq(Bytes)
  BY <1>4
<1>5. \/ t = r
      \/ c \in Quotes /\ t = [r EXCEPT !.in = c, !.word = none]
      \/ t = [r EXCEPT !.in = "word", !.word = one]
      \/ t = [r EXCEPT !.in = "space", !.words = ws]
      \/ t = [r EXCEPT !.error = TRUE]
      \/ t = [r EXCEPT !.word = w]
  <2>1. CASE r.error
    BY <1>2, <2>1 DEF RefStep
  <2>2. CASE ~r.error /\ r.in = "space"
    BY <1>2, <1>4, <2>2, StepBetween
  <2>3. CASE ~r.error /\ r.in # "space"
    BY <1>2, <2>3, StepWithin
  <2> QED
    BY <2>1, <2>2, <2>3
<1>6. t \in RefStates /\ (t.words = r.words \/ t.words = ws)
  <2>1. CASE t = r
    BY <2>1
  <2>2. CASE c \in Quotes /\ t = [r EXCEPT !.in = c, !.word = none]
    BY <1>1, <1>typed, <2>2 DEF RefStates
  <2>3. CASE t = [r EXCEPT !.in = "word", !.word = one]
    BY <1>1, <1>typed, <2>3 DEF RefStates
  <2>4. CASE t = [r EXCEPT !.in = "space", !.words = ws]
    BY <1>1, <1>3, <2>4 DEF RefStates
  <2>5. CASE t = [r EXCEPT !.error = TRUE]
    BY <1>1, <2>5 DEF RefStates
  <2>6. CASE t = [r EXCEPT !.word = w]
    BY <1>1, <1>3, <2>6 DEF RefStates
  <2> QED
    BY <1>5, <2>1, <2>2, <2>3, <2>4, <2>5, <2>6
<1>7. Len(r.words) =< Len(t.words) /\ \A j \in 1..Len(r.words) : t.words[j] = r.words[j]
  <2>1. CASE t.words = r.words
    BY <1>1, <2>1
  <2>2. CASE t.words = ws
    BY <1>1, <1>3, <2>2
  <2> QED
    BY <1>6, <2>1, <2>2
<1>8. r.error => t = r
  BY <1>2 DEF RefStep
<1> QED
  BY <1>1, <1>2, <1>6, <1>7, <1>8

\* The recursion of Fold() has a solution.
LEMMA FoldIs ==
  ASSUME NEW text \in Seq(Bytes)
  PROVE  Fold(text) = [s \in SUBSET DOMAIN text |->
           IF s = {} THEN RefStart ELSE RefStep(Fold(text)[s \ {Max(s)}], text[Max(s)])]
<1> DEFINE D == DOMAIN text
           h == [r \in RefStates |-> [c \in Bytes |-> RefStep(r, c)]]
           solves(g) == g = [s \in SUBSET D |->
             IF s = {} THEN RefStart ELSE RefStep(g[s \ {Max(s)}], text[Max(s)])]
<1>1. RefStart \in RefStates /\ h \in [RefStates -> [Bytes -> RefStates]]
  <2>1. RefStart \in RefStates
    BY EmptySeq DEF RefStart, RefStates
  <2>2. \A r \in RefStates, c \in Bytes : RefStep(r, c) \in RefStates
    BY StepKeeps
  <2> QED
    BY <2>1, <2>2
<1>2. PICK f \in [SUBSET D -> RefStates] : \A s \in SUBSET D :
        /\ s = {} => f[s] = RefStart
        /\ s # {} => Max(s) \in s /\ f[s] = h[f[s \ {Max(s)}]][text[Max(s)]]
  <2> HIDE DEF h
  <2>1. \E f \in [SUBSET DOMAIN text -> RefStates] : Folds(f, RefStart, h, text)
    BY <1>1, FoldsExist, Zenon
  <2> QED
    BY <2>1 DEF Folds
<1>3. solves(f)
  <2>1. ASSUME NEW s \in SUBSET D
        PROVE  f[s] = IF s = {} THEN RefStart ELSE RefStep(f[s \ {Max(s)}], text[Max(s)])
    <3>1. CASE s = {}
      BY <1>2, <3>1
    <3>2. CASE s # {}
      <4>1. PICK j, r : j = Max(s) /\ r = s \ {Max(s)}
        OBVIOUS
      <4>2. j \in D /\ r \in SUBSET D /\ f[s] = h[f[r]][text[j]]
        BY <1>2, <3>2, <4>1
      <4>3. text[j] \in Bytes /\ f[r] \in RefStates
        BY <1>2, <4>2, ElementOfSeq, LenProperties
      <4>4. h[f[r]][text[j]] = RefStep(f[r], text[j])
        BY <4>3
      <4> HIDE DEF h
      <4> QED
        BY <3>2, <4>1, <4>2, <4>4
    <3> QED
      BY <3>1, <3>2
  <2>2. f = [s \in SUBSET D |-> f[s]]
    BY <1>2
  <2> HIDE DEF D
  <2> QED
    BY <2>1, <2>2
<1>4. Fold(text) = CHOOSE g : solves(g)
  BY DEF Fold
<1>5. solves(Fold(text))
  <2> HIDE DEF solves
  <2> QED
    BY <1>3, <1>4
<1> QED
  BY <1>5

\* It starts with nothing, and a byte is one step.
LEMMA AfterSteps ==
  ASSUME NEW text \in Seq(Bytes)
  PROVE  /\ After(text, 0) = RefStart
         /\ \A k \in 0..(Len(text) - 1) :
              After(text, k + 1) = RefStep(After(text, k), text[k + 1])
<1>1. PICK m, f : m = Len(text) /\ f = Fold(text)
  OBVIOUS
<1>2. m \in Nat /\ DOMAIN text = 1..m
  BY <1>1, LenProperties
<1>3. f = [s \in SUBSET (1..m) |->
             IF s = {} THEN RefStart ELSE RefStep(f[s \ {Max(s)}], text[Max(s)])]
  BY <1>1, <1>2, FoldIs
<1>4. After(text, 0) = RefStart
  <2>1. 1..0 = {} /\ {} \in SUBSET (1..m)
    OBVIOUS
  <2>2. f[{}] = RefStart
    BY <1>3, <2>1
  <2> QED
    BY <1>1, <2>1, <2>2 DEF After
<1>5. ASSUME NEW k \in 0..(m - 1)
      PROVE  After(text, k + 1) = RefStep(After(text, k), text[k + 1])
  <2>1. PICK j, s : j = k + 1 /\ s = 1..(k + 1)
    OBVIOUS
  <2>2. k \in Nat /\ s \in SUBSET (1..m)
    BY <1>2, <1>5, <2>1
  <2>3. s # {} /\ Max(s) = j /\ s \ {j} = 1..k
    BY <2>1, <2>2, FirstNumbers
  <2>4. f[s] = RefStep(f[s \ {Max(s)}], text[Max(s)])
    BY <1>3, <2>2, <2>3
  <2>5. f[s] = RefStep(f[1..k], text[j])
    BY <2>3, <2>4
  <2> QED
    BY <1>1, <2>1, <2>5, Zenon DEF After
<1> QED
  BY <1>1, <1>4, <1>5

\* They are the states it is in after any beginning of a text.
LEMMA AfterType ==
  ASSUME NEW text \in Seq(Bytes)
  PROVE  \A k \in 0..Len(text) : After(text, k) \in RefStates
<1>1. PICK m : m = Len(text)
  OBVIOUS
<1>2. m \in Nat
  BY <1>1, LenProperties
<1> DEFINE S == {k \in Nat : k =< m => After(text, k) \in RefStates}
<1>3. 0 \in S
  <2>1. RefStart \in RefStates
    <3>1. <<>> \in Seq(Bytes) /\ <<>> \in Seq(Seq(Bytes))
      OBVIOUS
    <3> QED
      BY <3>1 DEF RefStart, RefStates
  <2> QED
    BY <2>1, AfterSteps
<1>4. ASSUME NEW k \in Nat, k \in S PROVE k + 1 \in S
  <2>1. SUFFICES ASSUME k + 1 =< m PROVE After(text, k + 1) \in RefStates
    OBVIOUS
  <2>2. k \in 0..(m - 1) /\ k + 1 \in 1..m /\ After(text, k) \in RefStates
    BY <1>2, <1>4, <2>1
  <2>3. text[k + 1] \in Bytes
    BY <1>1, <2>2, ElementOfSeq
  <2>4. After(text, k + 1) = RefStep(After(text, k), text[k + 1])
    BY <1>1, <2>2, AfterSteps
  <2> QED
    BY <2>2, <2>3, <2>4, StepKeeps
<1>5. \A k \in Nat : k \in S
  <2>1. \A k \in Nat : k \in S => k + 1 \in S
    BY <1>4
  <2> HIDE DEF S
  <2> QED
    BY <1>3, <2>1, Induction
<1> QED
  BY <1>1, <1>2, <1>5

\* What is found in the beginning of a text is found in the whole, and so is an error.
LEMMA AfterGrows ==
  ASSUME NEW text \in Seq(Bytes), NEW k \in 0..Len(text)
  PROVE  LET r == After(text, k)  last == After(text, Len(text)) IN
         /\ r.error => last.error
         /\ Len(r.words) =< Len(last.words)
         /\ \A j \in 1..Len(r.words) : last.words[j] = r.words[j]
<1>1. PICK m, r : m = Len(text) /\ r = After(text, k)
  OBVIOUS
<1>2. m \in Nat /\ k \in Nat /\ k =< m /\ r \in RefStates
  BY <1>1, LenProperties, AfterType
<1>3. Len(r.words) \in Nat
  BY <1>2, LenProperties DEF RefStates
<1> DEFINE grown(s) == /\ r.error => s.error
                       /\ Len(r.words) =< Len(s.words)
                       /\ \A j \in 1..Len(r.words) : s.words[j] = r.words[j]
           S == {d \in Nat : k + d =< m => grown(After(text, k + d))}
<1>4. 0 \in S
  <2>1. k + 0 = k
    BY <1>2
  <2>2. grown(r)
    BY <1>3
  <2> HIDE DEF grown
  <2> QED
    BY <1>1, <2>1, <2>2
<1>5. ASSUME NEW d \in Nat, d \in S PROVE d + 1 \in S
  <2>1. SUFFICES ASSUME k + (d + 1) =< m PROVE grown(After(text, k + (d + 1)))
    OBVIOUS
  <2>2. PICK j, s, t : j = k + d /\ s = After(text, j) /\ t = After(text, j + 1)
    OBVIOUS
  <2>3. j \in 0..(m - 1) /\ j + 1 \in 1..m /\ j \in 0..m /\ k + (d + 1) = j + 1 /\ k + d =< m
    BY <1>2, <2>1, <2>2
  <2>4. s \in RefStates /\ text[j + 1] \in Bytes
    BY <1>1, <2>2, <2>3, AfterType, ElementOfSeq
  <2>5. t = RefStep(s, text[j + 1])
    BY <1>1, <2>2, <2>3, AfterSteps
  <2>6. grown(s)
    <3> HIDE DEF grown
    <3> QED
      BY <1>5, <2>2, <2>3
  <2>7. /\ s.error => t.error
        /\ Len(s.words) \in Nat /\ Len(s.words) =< Len(t.words)
        /\ \A i \in 1..Len(s.words) : t.words[i] = s.words[i]
    BY <2>4, <2>5, StepKeeps
  <2>8. Len(t.words) \in Nat
    BY <2>4, <2>5, StepKeeps, LenProperties DEF RefStates
  <2>9. \A i \in 1..Len(r.words) : i \in 1..Len(s.words)
    BY <1>3, <2>6, <2>7
  <2>10. grown(t)
    BY <1>3, <2>6, <2>7, <2>8, <2>9
  <2> HIDE DEF grown
  <2> QED
    BY <2>2, <2>3, <2>10
<1>6. \A d \in Nat : d \in S
  <2>1. \A d \in Nat : d \in S => d + 1 \in S
    BY <1>5
  <2> HIDE DEF S
  <2> QED
    BY <1>4, <2>1, Induction
<1>7. grown(After(text, m))
  <2>1. m - k \in Nat /\ k + (m - k) = m
    BY <1>2
  <2> HIDE DEF grown
  <2>2. k + (m - k) =< m => grown(After(text, k + (m - k)))
    BY <1>6, <2>1
  <2> QED
    BY <1>2, <2>1, <2>2
<1> QED
  BY <1>1, <1>7

-----------------------------------------------------------------------------
(* The text of an argument in the storage.                                 *)

\* A byte behind a sequence leaves alone what is in it.
LEMMA PartKept ==
  ASSUME NEW s \in Seq(Bytes), NEW c \in Bytes, NEW a \in Nat, NEW b \in Int,
         a >= 1, b =< Len(s)
  PROVE  SubSeq(Append(s, c), a, b) = SubSeq(s, a, b)
<1>1. PICK m, t : m = Len(s) /\ t = Append(s, c)
  OBVIOUS
<1>2. m \in Nat /\ Len(t) = m + 1 /\ (\A j \in 1..m : t[j] = s[j] /\ s[j] \in Bytes)
  BY <1>1, LenProperties, AppendProperties, ElementOfSeq
<1>3. \A j \in a..b : j \in 1..m
  BY <1>1, <1>2
<1>4. PICK p1, p2 : p1 = SubSeq(s, a, b) /\ p2 = SubSeq(t, a, b)
  OBVIOUS
<1>5. /\ p1 \in Seq(Bytes) /\ Len(p1) = IF a =< b THEN b - a + 1 ELSE 0
      /\ \A j \in 1..(b - a + 1) : p1[j] = s[a + j - 1]
  <2>1. \A j \in a..b : s[j] \in Bytes
    BY <1>2, <1>3
  <2> QED
    BY <1>4, <2>1, SubSeqProperties
<1>6. /\ p2 \in Seq(Bytes) /\ Len(p2) = IF a =< b THEN b - a + 1 ELSE 0
      /\ \A j \in 1..(b - a + 1) : p2[j] = t[a + j - 1]
  <2>1. \A j \in a..b : t[j] \in Bytes
    BY <1>2, <1>3
  <2>2. a \in Int /\ b \in Int
    OBVIOUS
  <2> QED
    BY <1>4, <2>1, <2>2, SubSeqProperties
<1>7. PICK len : len = IF a =< b THEN b - a + 1 ELSE 0
  OBVIOUS
<1>8. \A j \in 1..len : p1[j] = p2[j]
  <2>1. SUFFICES ASSUME NEW j \in 1..len PROVE p1[j] = p2[j]
    OBVIOUS
  <2>2. j \in 1..(b - a + 1) /\ a + j - 1 \in a..b
    BY <1>7
  <2> QED
    BY <1>2, <1>3, <1>5, <1>6, <2>2
<1> QED
  BY <1>1, <1>4, <1>5, <1>6, <1>7, <1>8, SeqEqual

\* An argument is read up to the zero that ends it, whatever is stored behind.
LEMMA StringAtKept ==
  ASSUME TypeInv, NEW c \in Bytes, storage' = Append(storage, c),
         NEW a \in Nat, a >= 1, NEW z \in a..cur, storage[z] = NUL
  PROVE  StringAt(a)' = StringAt(a)
<1>1. PICK m, S, T : /\ m = cur /\ S = {j \in a..cur : storage[j] = NUL}
                     /\ T = {j \in a..(cur + 1) : storage'[j] = NUL}
  OBVIOUS
<1>2. m \in Nat /\ cur' = m + 1 /\ storage \in Seq(Bytes) /\ m = Len(storage)
  BY <1>1, Lengths, StorageGrows DEF TypeInv, cur
<1>3. \A j \in 1..m : storage'[j] = storage[j]
  BY <1>2, AppendProperties
<1>4. z \in S /\ S \subseteq Nat /\ S \subseteq Int
  BY <1>1, <1>2
<1>5. PICK x \in S : \A y \in S : x =< y
  BY <1>4, LeastExists
<1>6. x \in a..m /\ x =< z
  BY <1>1, <1>4, <1>5
<1>7. x \in T /\ T \subseteq Int
  BY <1>1, <1>2, <1>3, <1>5, <1>6
<1>8. \A y \in T : x =< y
  <2>1. SUFFICES ASSUME NEW y \in T, y < x PROVE FALSE
    BY <1>6, <1>7
  <2>2. y \in a..m /\ storage[y] = NUL
    BY <1>1, <1>2, <1>3, <1>6, <2>1
  <2> QED
    BY <1>1, <1>5, <2>1, <2>2
<1>9. Min(S) = x
  BY <1>4, <1>5, LeastIs
<1>10. Min(T) = x
  BY <1>7, <1>8, LeastIs
<1>11. StringAt(a) = SubSeq(storage, a, x - 1)
  BY <1>1, <1>9 DEF StringAt
<1>12. StringAt(a)' = SubSeq(storage', a, x - 1)
  <2>1. T = {j \in a..cur' : storage'[j] = NUL}
    BY <1>1, <1>2
  <2> QED
    BY <1>10, <2>1 DEF StringAt
<1>13. SubSeq(storage', a, x - 1) = SubSeq(storage, a, x - 1)
  <2>1. x - 1 \in Int /\ x - 1 =< Len(storage)
    BY <1>2, <1>6
  <2> QED
    BY <1>2, <2>1, PartKept
<1> QED
  BY <1>11, <1>12, <1>13

\* The zero that ends an argument makes it what has been stored of it.
LEMMA StringAtEnded ==
  ASSUME TypeInv, storage' = Append(storage, NUL), NEW a \in 1..(cur + 1),
         \A j \in a..cur : storage[j] # NUL
  PROVE  StringAt(a)' = SubSeq(storage, a, cur)
<1>1. PICK m, T : m = cur /\ T = {j \in a..(cur + 1) : storage'[j] = NUL}
  OBVIOUS
<1>2. /\ m \in Nat /\ cur' = m + 1 /\ storage \in Seq(Bytes) /\ m = Len(storage) /\ NUL \in Bytes
  BY <1>1, Lengths, StorageGrows DEF TypeInv, cur, Bytes
<1>3. storage'[m + 1] = NUL /\ \A j \in 1..m : storage'[j] = storage[j]
  BY <1>2, AppendProperties
<1>4. m + 1 \in T /\ T \subseteq Int
  BY <1>1, <1>2, <1>3
<1>5. \A y \in T : m + 1 =< y
  <2>1. SUFFICES ASSUME NEW y \in T, y < m + 1 PROVE FALSE
    BY <1>2, <1>4
  <2>2. y \in a..m /\ y \in 1..m /\ storage'[y] = NUL
    BY <1>1, <1>2, <2>1
  <2> QED
    BY <1>1, <1>3, <2>2
<1>6. Min(T) = m + 1
  BY <1>4, <1>5, LeastIs
<1>7. StringAt(a)' = SubSeq(storage', a, (m + 1) - 1)
  <2>1. T = {j \in a..cur' : storage'[j] = NUL}
    BY <1>1, <1>2
  <2> QED
    BY <1>6, <2>1 DEF StringAt
<1>8. SubSeq(storage', a, m) = SubSeq(storage, a, m)
  BY <1>1, <1>2, PartKept
<1> QED
  BY <1>1, <1>2, <1>7, <1>8

\* Every complete argument is ended by a zero.
EndedInv == \A j \in 1..arg_count : \E z \in args[j]..cur : storage[z] = NUL

\* The arguments, as text, stay what they are while more is stored.
LEMMA StringsKept ==
  ASSUME TypeInv, StartInv, EndedInv, phase # "undefined",
         NEW c \in Bytes, storage' = Append(storage, c), args' = args
  PROVE  Strings(args)' = Strings(args)
<1>1. arg_count \in Nat /\ DOMAIN args = 1..arg_count /\ cur \in Nat
  BY LenProperties, Lengths DEF TypeInv, arg_count
<1>2. ASSUME NEW j \in 1..arg_count PROVE StringAt(args[j])' = StringAt(args[j])
  <2>1. PICK a : a = args[j]
    OBVIOUS
  <2>2. a \in 1..cur /\ \E z \in a..cur : storage[z] = NUL
    BY <1>2, <2>1 DEF StartInv, EndedInv
  <2>3. StringAt(a)' = StringAt(a)
    BY <1>1, <2>2, StringAtKept
  <2>4. args'[j] = a
    BY <2>1
  <2>5. StringAt(args[j])' = StringAt(a)'
    BY <2>4 DEF StringAt
  <2> QED
    BY <2>1, <2>3, <2>5
<1>3. Strings(args) = [j \in 1..arg_count |-> StringAt(args[j])]
  BY <1>1, Zenon DEF Strings
<1>4. Strings(args)' = [j \in 1..arg_count |-> StringAt(args[j])']
  BY <1>1 DEF Strings
<1> QED
  BY <1>2, <1>3, <1>4

\* The list gets one more, the others stay what they were.
LEMMA StringsGrow ==
  ASSUME TypeInv, StartInv, EndedInv, phase = "arg",
         storage' = Append(storage, NUL), args' = Append(args, start),
         \A j \in start..cur : storage[j] # NUL
  PROVE  Strings(args)' = Append(Strings(args), SubSeq(storage, start, cur))
<1>1. PICK m, a, word : m = arg_count /\ a = start /\ word = SubSeq(storage, start, cur)
  OBVIOUS
<1>2. /\ m \in Nat /\ cur \in Nat /\ a \in 1..(cur + 1) /\ DOMAIN args = 1..m /\ m = Len(args)
      /\ NUL \in Bytes
  BY <1>1, LenProperties, Lengths DEF TypeInv, arg_count, StartInv, Bytes
<1>3. /\ args' \in Seq(Nat) /\ Len(args') = m + 1
      /\ \A j \in 1..m : args'[j] = args[j]
      /\ args'[m + 1] = a
  BY <1>1, <1>2, ArgsGrow DEF arg_count
<1>4. DOMAIN args' = 1..(m + 1)
  BY <1>3, LenProperties
<1>5. ASSUME NEW j \in 1..m PROVE StringAt(args[j])' = StringAt(args[j])
  <2>1. PICK b : b = args[j]
    OBVIOUS
  <2>2. b \in 1..cur /\ \E z \in b..cur : storage[z] = NUL
    BY <1>1, <1>5, <2>1 DEF StartInv, EndedInv
  <2>3. StringAt(b)' = StringAt(b)
    BY <1>2, <2>2, StringAtKept
  <2>4. args'[j] = b
    BY <1>3, <2>1
  <2>5. StringAt(args[j])' = StringAt(b)'
    BY <2>4 DEF StringAt
  <2> QED
    BY <2>1, <2>3, <2>5
<1>6. StringAt(args[m + 1])' = word
  <2>1. StringAt(a)' = word
    BY <1>1, <1>2, StringAtEnded
  <2>2. StringAt(args[m + 1])' = StringAt(a)'
    BY <1>3 DEF StringAt
  <2> QED
    BY <2>1, <2>2
<1>7. PICK W : W = Strings(args)
  OBVIOUS
<1>8. /\ W \in Seq(Readings) /\ Len(W) = m
      /\ \A j \in 1..m : W[j] = StringAt(args[j])
  BY <1>1, <1>7, StringsOfArgs
<1>9. PICK t : t = Append(W, word)
  OBVIOUS
<1>10. /\ t[m + 1] = word /\ \A j \in 1..m : t[j] = W[j]
       /\ t = [j \in 1..(m + 1) |-> t[j]]
  <2>1. W \in Seq(Readings \union {word}) /\ word \in Readings \union {word}
    BY <1>8, SeqMonotonic
  <2>2. /\ t \in Seq(Readings \union {word}) /\ Len(t) = m + 1
        /\ t[m + 1] = word
        /\ \A j \in 1..m : t[j] = W[j]
    BY <1>8, <1>9, <2>1, AppendProperties
  <2> QED
    BY <2>2, LenProperties
<1>11. Strings(args)' = [j \in 1..(m + 1) |-> StringAt(args[j])']
  BY <1>4 DEF Strings
<1>12. \A j \in 1..(m + 1) : StringAt(args[j])' = t[j]
  <2>1. \A j \in 1..(m + 1) : j \in 1..m \/ j = m + 1
    BY <1>2
  <2> QED
    BY <1>5, <1>6, <1>8, <1>10, <2>1
<1>13. Strings(args)' = t
  BY <1>10, <1>11, <1>12
<1> QED
  BY <1>1, <1>7, <1>9, <1>13

-----------------------------------------------------------------------------
(* The tokenizer and the one on paper, side by side.                       *)

\* No bytes that the code takes for something else, and room in the storage.
Clean ==
  /\ \A j \in DOMAIN stdin : stdin[j] \notin {NUL, FF}
  /\ Len(stdin) < XARGS_BUFFER_SIZE

\* Reference and FittingText in terms of After().
RefResult == Result(After(stdin, Len(stdin)))

\* FittingText: room in the list too, for one more where an error follows the arguments.
Fits ==
  /\ Clean
  /\ Len(RefResult.words) =< XARGS_MAX_ARGS
  /\ RefResult.error => Len(RefResult.words) < XARGS_MAX_ARGS

\* Between two arguments the two agree on those found, at the end of the input maybe
\* but for the last, which the code has ended.
BetweenInv(r) ==
  /\ ~r.error /\ quote = "none"
  /\ \/ r.in = "space" /\ r.words = Strings(args)
     \/ pos = Len(stdin) /\ r.in = "word" /\ Append(r.words, r.word) = Strings(args)

\* Within one they also agree on what has been read of it, and on the quotation mark.
WithinInv(r) ==
  /\ ~r.error /\ quote \in {"none"} \union Quotes
  /\ r.in = IF quote = "none" THEN "word" ELSE quote
  /\ r.words = Strings(args)
  /\ r.word = SubSeq(storage, start, cur)
  /\ \A j \in start..cur : storage[j] # NUL

\* What the parser has found of a text without mistakable bytes that fits the storage
\* is what the tokenizer on paper has found of as many bytes; and, in a text that also
\* fits the list, what is run is the result, and an error that it finds is reported.
TextInv ==
  /\ Clean /\ phase = "skip" => BetweenInv(After(stdin, pos))
  /\ Clean /\ phase = "arg" => WithinInv(After(stdin, pos))
  /\ Fits /\ phase \in {"run", "wait"} => ~RefResult.error /\ Strings(args) = RefResult.words
  /\ Fits /\ Over /\ RefResult.error =>
       /\ code \in {"unexpected_quotation_mark", "missing_quotation_mark"}
       /\ children = <<>>

\* Nothing read, nothing found.
LEMMA InitTextInv == Init => EndedInv /\ TextInv
<1> SUFFICES ASSUME Init PROVE EndedInv /\ TextInv
  OBVIOUS
<1>1. /\ stdin \in Seq(Bytes) /\ pos = 0 /\ phase = "skip" /\ args = <<>> /\ quote = "none"
  BY XargsAssumption DEF Init
<1>2. EndedInv
  <2>1. arg_count = 0
    BY <1>1 DEF arg_count
  <2> QED
    BY <2>1 DEF EndedInv
<1>3. BetweenInv(After(stdin, pos))
  <2>1. After(stdin, pos) = RefStart
    BY <1>1, AfterSteps
  <2>2. Strings(args) = <<>>
    BY <1>1 DEF Strings
  <2> QED
    BY <1>1, <2>1, <2>2 DEF BetweenInv, RefStart
<1> QED
  BY <1>1, <1>2, <1>3 DEF TextInv, Over

\* What has ended stays so.
LEMMA EndedKept ==
  ASSUME TypeInv, StartInv, EndedInv, phase # "undefined",
         NEW c \in Bytes, storage' = Append(storage, c)
  PROVE  \A j \in 1..arg_count : \E z \in args[j]..cur' : storage'[z] = NUL
<1>1. /\ cur \in Nat /\ cur' = cur + 1 /\ storage \in Seq(Bytes) /\ cur = Len(storage)
  BY Lengths, StorageGrows DEF TypeInv, cur
<1>2. \A j \in 1..cur : storage'[j] = storage[j]
  BY <1>1, AppendProperties
<1> SUFFICES ASSUME NEW j \in 1..arg_count PROVE \E z \in args[j]..cur' : storage'[z] = NUL
  OBVIOUS
<1>3. PICK z \in args[j]..cur : storage[z] = NUL
  BY DEF EndedInv
<1>4. args[j] \in 1..cur
  BY DEF StartInv
<1>5. z \in args[j]..cur' /\ z \in 1..cur
  BY <1>1, <1>4
<1>6. storage'[z] = NUL
  BY <1>2, <1>3, <1>5
<1> QED
  BY <1>5, <1>6

\* An argument is added to the list only after the zero that ends it.
LEMMA ParseEndedInv == XargsInv /\ EndedInv /\ parse_args_from_stdin => EndedInv'
<1> SUFFICES ASSUME XargsInv, EndedInv, parse_args_from_stdin PROVE EndedInv'
  OBVIOUS
<1>1. TypeInv /\ StartInv /\ arg_count \in Nat /\ arg_count = Len(args) /\ cur \in Nat
  BY Lengths DEF XargsInv, arg_count
<1>2. CASE storage' = storage /\ args' = args
  BY <1>2 DEF EndedInv, cur, arg_count
<1>3. ASSUME NEW c \in Bytes, storage' = Append(storage, c), args' = args,
             phase # "undefined"
      PROVE  EndedInv'
  <2>1. \A j \in 1..arg_count : \E z \in args[j]..cur' : storage'[z] = NUL
    BY <1>1, <1>3, EndedKept
  <2> QED
    BY <1>3, <2>1 DEF EndedInv, arg_count
<1>4. ASSUME storage' = Append(storage, NUL), args' = Append(args, start), phase = "arg"
      PROVE  EndedInv'
  <2>1. NUL \in Bytes
    BY DEF Bytes
  <2>2. \A j \in 1..arg_count : \E z \in args[j]..cur' : storage'[z] = NUL
    BY <1>1, <1>4, <2>1, EndedKept
  <2>3. /\ arg_count' = arg_count + 1 /\ \A j \in 1..arg_count : args'[j] = args[j]
        /\ args'[arg_count + 1] = start
    BY <1>1, <1>4, ArgsGrow
  <2>4. cur' = cur + 1 /\ storage'[cur + 1] = NUL
    BY <1>1, <1>4, <2>1, AppendProperties DEF TypeInv, cur
  <2>5. start \in 1..(cur + 1)
    BY <1>1, <1>4 DEF StartInv
  <2>6. cur + 1 \in start..cur'
    BY <1>1, <2>4, <2>5
  <2>7. \A j \in 1..arg_count' : j \in 1..arg_count \/ j = arg_count + 1
    BY <1>1, <2>3
  <2>8. ASSUME NEW j \in 1..arg_count' PROVE \E z \in args'[j]..cur' : storage'[z] = NUL
    <3>1. CASE j \in 1..arg_count
      BY <2>2, <2>3, <3>1
    <3>2. CASE j = arg_count + 1
      BY <2>3, <2>4, <2>6, <3>2
    <3> QED
      BY <2>7, <3>1, <3>2
  <2> QED
    BY <2>8 DEF EndedInv
<1>5. ASSUME ~AtEOF, Consume PROVE getchar \in Bytes
  BY <1>1, <1>5, ByteConsumed
<1>6. NUL \in Bytes
  BY DEF Bytes
<1>7. \/ storage' = storage /\ args' = args
      \/ phase # "undefined" /\ args' = args /\ \E c \in Bytes : storage' = Append(storage, c)
      \/ phase = "arg" /\ storage' = Append(storage, NUL) /\ args' = Append(args, start)
  <2>1. CASE SkipSpace \/ StopParsing \/ UnexpectedQuotationMark
    BY <2>1 DEF SkipSpace, StopParsing, UnexpectedQuotationMark
  <2>2. CASE StartArg
    BY <1>5, <2>2 DEF StartArg
  <2>3. CASE AddByte
    BY <1>5, <2>3 DEF AddByte
  <2>4. CASE CompleteArg
    BY <2>4 DEF CompleteArg
  <2>5. CASE CutArg
    BY <1>6, <2>5 DEF CutArg
  <2> QED
    BY <2>1, <2>2, <2>3, <2>4, <2>5 DEF parse_args_from_stdin
<1> QED
  BY <1>2, <1>3, <1>4, <1>7

\* A byte of a clean text is one step of the tokenizer on paper.
LEMMA NextByte ==
  ASSUME TypeInv, Clean, ~AtEOF, Consume, stdin' = stdin
  PROVE  /\ pos < Len(stdin) /\ pos' = pos + 1
         /\ getchar \in Bytes /\ getchar \notin {NUL, FF}
         /\ After(stdin, pos) \in RefStates
         /\ After(stdin', pos') = RefStep(After(stdin, pos), getchar)
<1>1. Len(stdin) \in Nat /\ pos \in Nat /\ pos =< Len(stdin) /\ stdin \in Seq(Bytes)
      /\ DOMAIN stdin = 1..Len(stdin)
  BY Lengths, LenProperties DEF TypeInv
<1>2. pos' = pos + 1 /\ getchar \in Bytes
  BY ByteConsumed
<1>3. pos < Len(stdin)
  BY DEF AtEOF
<1>4. pos \in 0..Len(stdin) /\ pos \in 0..(Len(stdin) - 1) /\ pos + 1 \in 1..Len(stdin)
  BY <1>1, <1>3
<1>5. getchar \notin {NUL, FF}
  BY <1>1, <1>4 DEF Clean, getchar
<1>6. After(stdin, pos) \in RefStates
  BY <1>1, <1>4, AfterType
<1>7. After(stdin, pos + 1) = RefStep(After(stdin, pos), stdin[pos + 1])
  BY <1>1, <1>4, AfterSteps
<1> QED
  BY <1>2, <1>3, <1>5, <1>6, <1>7 DEF getchar

\* The end of a clean text is the end of the input.
LEMMA CleanEnd ==
  ASSUME TypeInv, Clean, AtEOF
  PROVE  pos = Len(stdin)
<1>1. PICK len : len = Len(stdin)
  OBVIOUS
<1>2. len \in Nat /\ pos \in Nat /\ pos =< len
  BY <1>1, Lengths
<1>3. ASSUME pos < len PROVE FALSE
  <2>1. pos + 1 \in 1..len
    BY <1>2, <1>3
  <2>2. pos + 1 \in DOMAIN stdin
    BY <1>1, <2>1, LenProperties DEF TypeInv
  <2>3. stdin[pos + 1] = FF
    BY <1>1, <1>3 DEF AtEOF
  <2> QED
    BY <2>2, <2>3 DEF Clean
<1>4. pos = len
  BY <1>2, <1>3
<1> QED
  BY <1>1, <1>4

\* The input is what it was, and with it all that is said of it alone.
LEMMA SameText ==
  ASSUME stdin' = stdin
  PROVE  Clean' = Clean /\ RefResult' = RefResult /\ Fits' = Fits
<1>1. Clean' = Clean
  BY DEF Clean
<1>2. RefResult' = RefResult
  BY DEF RefResult
<1> QED
  BY <1>1, <1>2 DEF Fits

\* The first byte of an argument, or its quotation mark.
LEMMA StartArgText ==
  XargsInv /\ EndedInv /\ TextInv /\ Clean /\ StartArg => WithinInv(After(stdin, pos))'
<1> SUFFICES ASSUME XargsInv, EndedInv, TextInv, Clean, StartArg
             PROVE  WithinInv(After(stdin, pos))'
  OBVIOUS
<1>1. /\ phase = "skip" /\ ~AtEOF /\ getchar # " " /\ Consume /\ stdin' = stdin
      /\ start' = cur + 1 /\ args' = args
      /\ IF getchar \in Quotes THEN quote' = getchar /\ storage' = storage
         ELSE storage' = Append(storage, getchar) /\ quote' = quote
  BY DEF StartArg, input_vars
<1>2. PICK c, r, s : c = getchar /\ r = After(stdin, pos) /\ s = After(stdin', pos')
  OBVIOUS
<1>3. /\ pos < Len(stdin) /\ c \in Bytes /\ c \notin {NUL, FF} /\ r \in RefStates
      /\ s = RefStep(r, c)
  BY <1>1, <1>2, NextByte DEF XargsInv
<1>4. /\ ~r.error /\ r.in = "space" /\ r.words = Strings(args) /\ quote = "none"
  <2>1. BetweenInv(r)
    BY <1>1, <1>2 DEF TextInv
  <2>2. pos # Len(stdin)
    BY <1>3, Lengths DEF XargsInv
  <2> QED
    BY <2>1, <2>2 DEF BetweenInv
<1>5. cur \in Nat /\ TypeInv /\ StartInv /\ storage \in Seq(Bytes) /\ cur = Len(storage)
  BY Lengths DEF XargsInv, TypeInv, cur
<1>6. CASE c \in Quotes
  <2>1. s = [r EXCEPT !.in = c, !.word = <<>>]
    BY <1>1, <1>2, <1>3, <1>4, <1>6, StepBetween
  <2>2. s.in = c /\ s.word = <<>> /\ s.words = r.words /\ s.error = r.error
    BY <1>3, <2>1 DEF RefStates
  <2>3. quote' = c /\ storage' = storage /\ cur' = cur
    BY <1>1, <1>2, <1>6 DEF cur
  <2>4. Strings(args)' = Strings(args)
    BY <1>1, <2>3 DEF Strings, StringAt
  <2>5. SubSeq(storage', start', cur') = <<>> /\ \A j \in start'..cur' : FALSE
    <3>1. cur + 1 \in Int /\ cur \in Int /\ cur < cur + 1
      BY <1>5
    <3>2. SubSeq(storage', cur + 1, cur) = <<>>
      BY <3>1, SubSeqEmpty
    <3>3. \A j \in (cur + 1)..cur : FALSE
      BY <3>1
    <3> QED
      BY <1>1, <2>3, <3>2, <3>3
  <2>6. c # "none"
    BY <1>6 DEF Quotes
  <2> QED
    BY <1>2, <1>4, <1>6, <2>2, <2>3, <2>4, <2>5, <2>6 DEF WithinInv
<1>7. CASE c \notin Quotes
  <2>1. s = [r EXCEPT !.in = "word", !.word = <<c>>]
    BY <1>1, <1>2, <1>3, <1>4, <1>7, StepBetween
  <2>2. s.in = "word" /\ s.word = <<c>> /\ s.words = r.words /\ s.error = r.error
    BY <1>3, <2>1 DEF RefStates
  <2>3. quote' = "none" /\ storage' = Append(storage, c)
    BY <1>1, <1>2, <1>4, <1>7
  <2>4. cur' = cur + 1 /\ storage'[cur + 1] = c
    BY <1>3, <1>5, <2>3, AppendProperties DEF cur
  <2>5. Strings(args)' = Strings(args)
    BY <1>1, <1>3, <1>5, <2>3, StringsKept
  <2>6. SubSeq(storage', start', cur') = <<c>>
    <3>1. PICK piece : piece = SubSeq(storage', cur + 1, cur + 1)
      OBVIOUS
    <3>2. \A j \in (cur + 1)..(cur + 1) : storage'[j] \in Bytes
      BY <1>3, <1>5, <2>4
    <3>3. piece \in Seq(Bytes) /\ Len(piece) = 1 /\ piece[1] = c
      <4>1. /\ piece \in Seq(Bytes) /\ Len(piece) = (cur + 1) - (cur + 1) + 1
            /\ \A i \in 1..((cur + 1) - (cur + 1) + 1) : piece[i] = storage'[cur + 1 + i - 1]
        BY <1>5, <3>1, <3>2, SubSeqProperties
      <4>2. (cur + 1) - (cur + 1) + 1 = 1 /\ cur + 1 + 1 - 1 = cur + 1 /\ 1 \in 1..1
        BY <1>5
      <4> QED
        BY <2>4, <4>1, <4>2
    <3>4. piece = <<c>>
      BY <1>3, <3>3
    <3> QED
      BY <1>1, <2>4, <3>1, <3>4
  <2>7. \A j \in start'..cur' : storage'[j] # NUL
    <3>1. \A j \in (cur + 1)..(cur + 1) : j = cur + 1
      BY <1>5
    <3> QED
      BY <1>1, <1>3, <2>4, <3>1
  <2> QED
    BY <1>2, <1>4, <2>2, <2>3, <2>5, <2>6, <2>7 DEF WithinInv
<1> QED
  BY <1>6, <1>7

\* One more byte of an argument.
LEMMA AddByteText ==
  XargsInv /\ EndedInv /\ TextInv /\ Clean /\ AddByte => WithinInv(After(stdin, pos))'
<1> SUFFICES ASSUME XargsInv, EndedInv, TextInv, Clean, AddByte
             PROVE  WithinInv(After(stdin, pos))'
  OBVIOUS
<1>1. /\ phase = "arg" /\ ~AtEOF /\ Consume /\ stdin' = stdin
      /\ ~EndsArg /\ ~(quote = "none" /\ getchar \in Quotes)
      /\ storage' = Append(storage, getchar)
      /\ start' = start /\ args' = args /\ quote' = quote
  BY DEF AddByte, input_vars
<1>2. PICK c, r, s, word : /\ c = getchar /\ r = After(stdin, pos) /\ s = After(stdin', pos')
                           /\ word = SubSeq(storage, start, cur)
  OBVIOUS
<1>3. /\ c \in Bytes /\ c \notin {NUL, FF} /\ r \in RefStates /\ s = RefStep(r, c)
  BY <1>1, <1>2, NextByte DEF XargsInv
<1>4. /\ ~r.error /\ quote \in {"none"} \union Quotes
      /\ r.in = IF quote = "none" THEN "word" ELSE quote
      /\ r.words = Strings(args) /\ r.word = word
      /\ \A j \in start..cur : storage[j] # NUL
  BY <1>1, <1>2 DEF TextInv, WithinInv
<1>5. /\ cur \in Nat /\ TypeInv /\ StartInv /\ storage \in Seq(Bytes) /\ cur = Len(storage)
      /\ start \in 1..(cur + 1)
  BY <1>1, Lengths DEF XargsInv, TypeInv, cur, StartInv
<1>6. c # quote /\ (quote = "none" => c \notin {" ", NUL} /\ c \notin Quotes)
  BY <1>1, <1>2 DEF EndsArg
<1>7. s = [r EXCEPT !.word = Append(r.word, c)]
  <2>1. r.in # "space"
    BY <1>4 DEF Quotes
  <2>2. r.in # c
    BY <1>3, <1>4, <1>6 DEF Bytes, Quotes, NUL, FF
  <2>3. r.in = "word" => quote = "none"
    BY <1>4 DEF Quotes
  <2>4. ~(r.in = "word" /\ c \in Quotes \union {" "})
    BY <1>6, <2>3
  <2> QED
    BY <1>3, <1>4, <2>1, <2>2, <2>4, StepWithin
<1>8. s.in = r.in /\ s.word = Append(word, c) /\ s.words = r.words /\ s.error = r.error
  BY <1>3, <1>4, <1>7 DEF RefStates
<1>9. cur' = cur + 1 /\ storage'[cur + 1] = c /\ (\A j \in 1..cur : storage'[j] = storage[j])
      /\ storage' \in Seq(Bytes) /\ Len(storage') = cur + 1
  BY <1>1, <1>2, <1>3, <1>5, AppendProperties DEF cur
<1>10. Strings(args)' = Strings(args)
  BY <1>1, <1>2, <1>3, <1>5, StringsKept
<1>11. SubSeq(storage', start', cur') = Append(word, c)
  <2>1. PICK a, m, t : a = start /\ m = cur + 1 /\ t = storage'
    OBVIOUS
  <2>2. /\ t \in Seq(Bytes) /\ Len(t) = m /\ t[m] = c /\ m \in 1..Len(t) /\ a \in 1..Len(t)
        /\ m \in a..Len(t) /\ m - 1 = cur /\ a \in Nat /\ a >= 1
    BY <1>5, <1>9, <2>1
  <2>3. SubSeq(t, a, m) = SubSeq(t, a, m - 1) \o <<t[m]>>
    BY <2>2, SubSeqRecursiveSecond
  <2>4. SubSeq(t, a, cur) = word
    <3>1. t = Append(storage, c) /\ cur \in Int /\ cur =< Len(storage)
      BY <1>1, <1>2, <1>5, <2>1
    <3>2. SubSeq(Append(storage, c), a, cur) = SubSeq(storage, a, cur)
      BY <1>3, <1>5, <2>2, <3>1, PartKept
    <3> QED
      BY <1>2, <2>1, <3>1, <3>2
  <2>5. word \in Seq(Bytes)
    BY <1>3, <1>4 DEF RefStates
  <2>6. Append(word, c) = word \o <<c>>
    BY <1>3, <2>5, AppendIsConcat
  <2> QED
    BY <1>1, <1>9, <2>1, <2>2, <2>3, <2>4, <2>6
<1>12. \A j \in start'..cur' : storage'[j] # NUL
  <2>1. SUFFICES ASSUME NEW j \in start..(cur + 1) PROVE storage'[j] # NUL
    BY <1>1, <1>9
  <2>2. (j \in start..cur /\ j \in 1..cur) \/ j = cur + 1
    BY <1>5
  <2> QED
    BY <1>3, <1>4, <1>9, <2>2
<1> QED
  BY <1>1, <1>2, <1>4, <1>8, <1>10, <1>11, <1>12 DEF WithinInv

\* A space or the second quotation mark: the argument is complete on both sides.
LEMMA CompleteArgText ==
  XargsInv /\ EndedInv /\ TextInv /\ Clean /\ CompleteArg => BetweenInv(After(stdin, pos))'
<1> SUFFICES ASSUME XargsInv, EndedInv, TextInv, Clean, CompleteArg
             PROVE  BetweenInv(After(stdin, pos))'
  OBVIOUS
<1>1. /\ phase = "arg" /\ ~AtEOF /\ Consume /\ stdin' = stdin /\ EndsArg
      /\ storage' = Append(storage, NUL) /\ args' = Append(args, start) /\ quote' = "none"
  BY DEF CompleteArg, input_vars
<1>2. PICK c, r, s : c = getchar /\ r = After(stdin, pos) /\ s = After(stdin', pos')
  OBVIOUS
<1>3. c \in Bytes /\ c \notin {NUL, FF} /\ r \in RefStates /\ s = RefStep(r, c)
  BY <1>1, <1>2, NextByte DEF XargsInv
<1>4. /\ ~r.error /\ quote \in {"none"} \union Quotes
      /\ r.in = IF quote = "none" THEN "word" ELSE quote
      /\ r.words = Strings(args) /\ r.word = SubSeq(storage, start, cur)
      /\ \A j \in start..cur : storage[j] # NUL
  BY <1>1, <1>2 DEF TextInv, WithinInv
<1>5. s = [r EXCEPT !.in = "space", !.words = Append(r.words, r.word)]
  <2>1. c = quote \/ (quote = "none" /\ c = " ")
    BY <1>1, <1>2, <1>3 DEF EndsArg
  <2>2. c # "none"
    BY <1>3 DEF Bytes, Quotes, NUL, FF
  <2>3. r.in = c \/ (r.in = "word" /\ c = " ")
    BY <1>4, <2>1, <2>2
  <2>4. r.in # "space"
    BY <1>4 DEF Quotes
  <2> QED
    BY <1>3, <1>4, <2>3, <2>4, StepWithin
<1>6. s.in = "space" /\ s.words = Append(r.words, r.word) /\ s.error = r.error
  BY <1>3, <1>5 DEF RefStates
<1>7. Strings(args)' = Append(r.words, r.word)
  BY <1>1, <1>4, StringsGrow DEF XargsInv
<1> QED
  BY <1>1, <1>2, <1>4, <1>6, <1>7 DEF BetweenInv

\* An argument that the end of a clean text cuts.
LEMMA CutArgText ==
  XargsInv /\ EndedInv /\ TextInv /\ Clean /\ CutArg =>
    \/ phase' = "skip" /\ BetweenInv(After(stdin, pos))'
    \/ phase' = "exit" /\ code' = "missing_quotation_mark"
<1> SUFFICES ASSUME XargsInv, EndedInv, TextInv, Clean, CutArg
             PROVE  \/ phase' = "skip" /\ BetweenInv(After(stdin, pos))'
                    \/ phase' = "exit" /\ code' = "missing_quotation_mark"
  OBVIOUS
<1>1. /\ phase = "arg" /\ (AtEOF \/ cur = end) /\ Consume /\ stdin' = stdin
      /\ storage' = Append(storage, NUL) /\ quote' = quote
      /\ IF quote = "none" THEN args' = Append(args, start) /\ code' = code
         ELSE code' = "missing_quotation_mark" /\ args' = args
      /\ phase' = IF cur = end THEN "undefined" ELSE IF quote = "none" THEN "skip" ELSE "exit"
  BY DEF CutArg, input_vars
<1>2. TypeInv /\ cur =< pos /\ cur \in Nat /\ pos \in Nat /\ pos =< Len(stdin)
      /\ Len(stdin) \in Nat /\ end \in Nat /\ Len(stdin) < end
  BY <1>1, Lengths DEF XargsInv, CursorInv, Clean, end
<1>3. cur # end /\ AtEOF
  BY <1>1, <1>2
<1>4. pos = Len(stdin) /\ pos' = pos
  <2>1. pos = Len(stdin)
    BY <1>2, <1>3, CleanEnd
  <2> QED
    BY <1>1, <1>2, <2>1 DEF Consume
<1>5. CASE quote # "none"
  BY <1>1, <1>3, <1>5
<1>6. CASE quote = "none"
  <2>1. PICK r : r = After(stdin, pos)
    OBVIOUS
  <2>2. /\ ~r.error /\ r.in = "word"
        /\ r.words = Strings(args) /\ r.word = SubSeq(storage, start, cur)
        /\ \A j \in start..cur : storage[j] # NUL
    BY <1>1, <1>6, <2>1 DEF TextInv, WithinInv
  <2>3. Strings(args)' = Append(r.words, r.word)
    BY <1>1, <1>6, <2>2, StringsGrow DEF XargsInv
  <2>4. After(stdin', pos') = r /\ pos' = Len(stdin') /\ quote' = "none"
    BY <1>1, <1>4, <1>6, <2>1
  <2> QED
    BY <1>1, <1>3, <1>6, <2>2, <2>3, <2>4 DEF BetweenInv
<1> QED
  BY <1>5, <1>6

\* Where the parser stops in a text that fits, nothing is left.
LEMMA StopText ==
  XargsInv /\ TextInv /\ Fits /\ StopParsing =>
    ~RefResult.error /\ Strings(args) = RefResult.words
<1> SUFFICES ASSUME XargsInv, TextInv, Fits, StopParsing
             PROVE  ~RefResult.error /\ Strings(args) = RefResult.words
  OBVIOUS
<1>1. PICK r, last, len : r = After(stdin, pos) /\ last = After(stdin, len) /\ len = Len(stdin)
  OBVIOUS
<1>2. /\ TypeInv /\ stdin \in Seq(Bytes) /\ len \in Nat /\ pos \in 0..len /\ len \in 0..len
      /\ cur \in Nat /\ arg_count \in Nat /\ end \in Nat /\ XARGS_MAX_ARGS \in Nat
      /\ Clean /\ len < end
  BY <1>1, Lengths DEF XargsInv, TypeInv, Fits, Clean, end
<1>3. r \in RefStates /\ last \in RefStates
  BY <1>1, <1>2, AfterType
<1>4. BetweenInv(r) /\ phase = "skip" /\ (arg_count = XARGS_MAX_ARGS \/ cur = end \/ AtEOF)
  BY <1>1, <1>2 DEF StopParsing, TextInv
<1>5. /\ RefResult.words = IF last.in = "word" THEN Append(last.words, last.word) ELSE last.words
      /\ RefResult.error <=> last.error \/ last.in \in Quotes
  BY <1>1 DEF RefResult, Result
<1>6. CASE pos = len
  <2>1. r = last
    BY <1>1, <1>6
  <2>2. r.in = "space" \/ r.in = "word"
    BY <1>4 DEF BetweenInv
  <2>3. r.in \notin Quotes /\ "space" # "word"
    BY <2>2 DEF Quotes
  <2> QED
    BY <1>4, <1>5, <2>1, <2>2, <2>3 DEF BetweenInv
<1>7. CASE pos # len
  <2>1. ~AtEOF
    BY <1>1, <1>2, <1>7, CleanEnd
  <2>2. cur # end
    BY <1>1, <1>2, <1>4, <1>7 DEF XargsInv, CursorInv
  <2>3. r.words = Strings(args) /\ Len(r.words) = XARGS_MAX_ARGS
    BY <1>1, <1>2, <1>4, <1>7, <2>1, <2>2, StringsOfArgs DEF BetweenInv
  <2>4. /\ Len(r.words) =< Len(last.words)
        /\ \A j \in 1..Len(r.words) : last.words[j] = r.words[j]
    BY <1>1, <1>2, AfterGrows
  <2>5. /\ last.words \in Seq(Seq(Bytes)) /\ last.word \in Seq(Bytes) /\ Len(last.words) \in Nat
        /\ r.words \in Seq(Seq(Bytes)) /\ last.in \in {"space", "word"} \union Quotes
    BY <1>3, LenProperties DEF RefStates
  <2>6. Len(RefResult.words) =< XARGS_MAX_ARGS
        /\ (RefResult.error => Len(RefResult.words) < XARGS_MAX_ARGS)
    BY DEF Fits
  <2>7. last.in # "word"
    <3>1. Len(Append(last.words, last.word)) = Len(last.words) + 1
      BY <2>5, AppendProperties
    <3> QED
      BY <1>2, <1>5, <2>3, <2>4, <2>5, <2>6, <3>1
  <2>8. RefResult.words = last.words
    BY <1>5, <2>7
  <2>9. Len(last.words) = Len(r.words) /\ ~RefResult.error
    BY <1>2, <2>3, <2>4, <2>5, <2>6, <2>8
  <2>10. last.words = r.words
    BY <2>4, <2>5, <2>9, SeqEqual
  <2> QED
    BY <2>3, <2>8, <2>9, <2>10
<1> QED
  BY <1>6, <1>7

\* A space between arguments.
LEMMA SkipSpaceText ==
  XargsInv /\ TextInv /\ Clean /\ SkipSpace => BetweenInv(After(stdin, pos))'
<1> SUFFICES ASSUME XargsInv, TextInv, Clean, SkipSpace
             PROVE  BetweenInv(After(stdin, pos))'
  OBVIOUS
<1>1. /\ phase = "skip" /\ ~AtEOF /\ getchar = " " /\ Consume /\ stdin' = stdin
      /\ args' = args /\ quote' = quote /\ storage' = storage
  BY DEF SkipSpace, input_vars
<1>2. PICK c, r : c = getchar /\ r = After(stdin, pos)
  OBVIOUS
<1>3. /\ pos < Len(stdin) /\ c \in Bytes /\ r \in RefStates
      /\ After(stdin', pos') = RefStep(r, c)
  BY <1>1, <1>2, NextByte DEF XargsInv
<1>4. ~r.error /\ r.in = "space" /\ r.words = Strings(args) /\ quote = "none"
  <2>1. BetweenInv(r)
    BY <1>1, <1>2 DEF TextInv
  <2>2. pos # Len(stdin)
    BY <1>3, Lengths DEF XargsInv
  <2> QED
    BY <2>1, <2>2 DEF BetweenInv
<1>5. After(stdin', pos') = r
  BY <1>1, <1>2, <1>3, <1>4, StepBetween
<1>6. Strings(args)' = Strings(args)
  BY <1>1 DEF Strings, StringAt, cur
<1> QED
  BY <1>1, <1>4, <1>5, <1>6 DEF BetweenInv

\* One step of the parser.
LEMMA ParseTextInv ==
  XargsInv /\ ChildrenInv /\ EndedInv /\ TextInv /\ parse_args_from_stdin => TextInv'
<1> SUFFICES ASSUME XargsInv, ChildrenInv, EndedInv, TextInv, parse_args_from_stdin
             PROVE  TextInv'
  OBVIOUS
<1>1. stdin' = stdin /\ children' = children /\ phase \in {"skip", "arg"}
  BY DEF parse_args_from_stdin, SkipSpace, StopParsing, StartArg, AddByte,
         UnexpectedQuotationMark, CompleteArg, CutArg, input_vars
<1>2. Clean' = Clean /\ RefResult' = RefResult /\ Fits' = Fits /\ (Fits => Clean)
  BY <1>1, SameText DEF Fits
<1>3. children' = <<>>
  BY <1>1 DEF ChildrenInv
<1>4. ASSUME phase' = "skip", Clean => BetweenInv(After(stdin, pos))' PROVE TextInv'
  BY <1>2, <1>4 DEF TextInv, Over
<1>5. ASSUME phase' = "arg", Clean => WithinInv(After(stdin, pos))' PROVE TextInv'
  BY <1>2, <1>5 DEF TextInv, Over
<1>6. ASSUME phase' = "exit", code' \in {"unexpected_quotation_mark", "missing_quotation_mark"}
      PROVE  TextInv'
  BY <1>3, <1>6 DEF TextInv, Over
<1>7. CASE SkipSpace
  BY <1>1, <1>4, <1>7, SkipSpaceText DEF SkipSpace
<1>8. CASE StopParsing
  <2>1. phase' \in {"run", "undefined"} /\ args' = args /\ storage' = storage
    BY <1>8 DEF StopParsing
  <2>2. Strings(args)' = Strings(args)
    BY <2>1 DEF Strings, StringAt, cur
  <2>3. Fits => ~RefResult.error /\ Strings(args) = RefResult.words
    BY <1>8, StopText
  <2> QED
    BY <1>2, <2>1, <2>2, <2>3 DEF TextInv, Over
<1>9. CASE StartArg
  <2>1. phase' = "arg"
    BY <1>9 DEF StartArg
  <2> QED
    BY <1>5, <1>9, <2>1, StartArgText
<1>10. CASE AddByte
  <2>1. phase' = "arg"
    BY <1>10 DEF AddByte
  <2> QED
    BY <1>5, <1>10, <2>1, AddByteText
<1>11. CASE UnexpectedQuotationMark
  BY <1>6, <1>11 DEF UnexpectedQuotationMark
<1>12. CASE CompleteArg
  <2>1. phase' = "skip"
    BY <1>12 DEF CompleteArg
  <2> QED
    BY <1>4, <1>12, <2>1, CompleteArgText
<1>13. CASE CutArg
  <2>1. CASE Clean
    BY <1>4, <1>6, <1>13, <2>1, CutArgText
  <2>2. CASE ~Clean
    BY <1>2, <2>2 DEF TextInv
  <2> QED
    BY <2>1, <2>2
<1> QED
  BY <1>7, <1>8, <1>9, <1>10, <1>11, <1>12, <1>13 DEF parse_args_from_stdin

\* Every step: run() changes neither the input nor the list.
LEMMA NextTextInv ==
  XargsInv /\ ChildrenInv /\ EndedInv /\ TextInv /\ [Next]_vars => EndedInv' /\ TextInv'
<1> SUFFICES ASSUME XargsInv, ChildrenInv, EndedInv, TextInv, [Next]_vars
             PROVE  EndedInv' /\ TextInv'
  OBVIOUS
<1>1. ASSUME stdin' = stdin, storage' = storage, args' = args
      PROVE  EndedInv' /\ Strings(args)' = Strings(args)
             /\ Clean' = Clean /\ RefResult' = RefResult /\ Fits' = Fits
  <2>1. cur' = cur /\ arg_count' = arg_count
    BY <1>1 DEF cur, arg_count
  <2>2. EndedInv'
    BY <1>1, <2>1 DEF EndedInv
  <2>3. Strings(args)' = Strings(args)
    BY <1>1, <2>1 DEF Strings, StringAt
  <2> QED
    BY <1>1, <2>2, <2>3, SameText
<1>2. CASE run
  <2>1. /\ stdin' = stdin /\ storage' = storage /\ args' = args
        /\ phase \in {"run", "wait"} /\ phase' \in {"run", "wait", "exit", "undefined"}
    BY <1>2 DEF run, RunBatch, OverrunPassedArgs, ForkFails, ChildEnds, Finish, input_vars
  <2>2. Fits => ~RefResult.error /\ Strings(args) = RefResult.words
    BY <2>1 DEF TextInv
  <2>3. EndedInv' /\ Strings(args)' = Strings(args) /\ RefResult' = RefResult /\ Fits' = Fits
    BY <1>1, <2>1
  <2> QED
    BY <2>1, <2>2, <2>3 DEF TextInv
<1>3. CASE UNCHANGED vars
  <2>1. /\ stdin' = stdin /\ storage' = storage /\ args' = args /\ pos' = pos /\ phase' = phase
        /\ code' = code /\ children' = children /\ quote' = quote /\ start' = start
    BY <1>3 DEF vars, input_vars
  <2>2. EndedInv' /\ Strings(args)' = Strings(args)
        /\ Clean' = Clean /\ RefResult' = RefResult /\ Fits' = Fits
    BY <1>1, <2>1
  <2>3. PICK r : r = After(stdin, pos)
    OBVIOUS
  <2>4. After(stdin', pos') = r /\ cur' = cur
    BY <2>1, <2>3 DEF cur
  <2>5. BetweenInv(r) => BetweenInv(After(stdin, pos))'
    BY <2>1, <2>2, <2>4 DEF BetweenInv
  <2>6. WithinInv(r) => WithinInv(After(stdin, pos))'
    BY <2>1, <2>2, <2>4 DEF WithinInv
  <2> QED
    BY <2>1, <2>2, <2>3, <2>5, <2>6 DEF TextInv, Over
<1> QED
  BY <1>2, <1>3, ParseEndedInv, ParseTextInv DEF Next, Terminated

\* For any input of other bytes than the two the code mistakes, that fits the storage and
\* the list: the arguments are those of the tokenizer on paper, an input it refuses is
\* refused, and nothing of it is run.
THEOREM ArgumentsAreFound == Spec => []ArgumentsAreThoseOfTheText
<1>1. XargsInv /\ TextInv => ArgumentsAreThoseOfTheText
  <2> SUFFICES ASSUME XargsInv, TextInv PROVE ArgumentsAreThoseOfTheText
    OBVIOUS
  <2>1. Reference = RefResult
    BY ReferenceIs DEF XargsInv, RefResult
  <2>2. FittingText => Fits
    BY <2>1 DEF FittingText, Fits, Clean
  <2> QED
    BY <2>1, <2>2 DEF ArgumentsAreThoseOfTheText, TextInv
<1>2. Spec => [](XargsInv /\ ChildrenInv)
  BY InitChildrenInv, NextChildrenInv, XargsInvAlways, PTL DEF Spec
<1>3. Spec => [](EndedInv /\ TextInv)
  BY <1>2, InitTextInv, NextTextInv, PTL DEF Spec
<1> QED
  BY <1>1, <1>3, XargsInvAlways, PTL

================================================================================
