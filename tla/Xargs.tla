--------------------------------- MODULE Xargs ---------------------------------
(***************************************************************************)
(* xargs/: splits the standard input into arguments, which it keeps one    *)
(* after the other in a fixed storage, and runs a command on batches of    *)
(* them, one child at a time.                                              *)
(***************************************************************************)
EXTENDS Integers, Sequences, SequencesExt, FiniteSetsExt

CONSTANTS
  Inputs,             \* what the standard input may hold
  FlagsN,             \* what -n may be given, 0 for what is not a number
  ArgCounts,          \* how many arguments the command may come with
  XARGS_BUFFER_SIZE,
  XARGS_MAX_ARGS

NUL == "nul"
FF == "0xff"  \* as a char it equals EOF
Quotes == {"'", "\""}
Bytes == {"a", " ", NUL, FF} \union Quotes

ASSUME XargsAssumption ==
  /\ Inputs \subseteq Seq(Bytes)
  /\ FlagsN \subseteq Int
  /\ ArgCounts \subseteq Nat
  /\ XARGS_BUFFER_SIZE \in Nat \ {0} /\ XARGS_MAX_ARGS \in Nat \ {0}

VARIABLES
  stdin, pos,       \* the input and how many bytes of it have been read
  n,                \* flags.n
  additional_argc,  \* arguments of the command itself
  phase,            \* where main() is
  code,             \* what main() returns
  storage,          \* the bytes written; cur is its length
  start,            \* where the argument being read begins
  quote,            \* current_quotation_symbol
  args,             \* where the complete arguments begin
  p,                \* index of the first argument of the next batch
  children          \* the batches passed to children: empty ones left out, and
                    \* no more of them than arguments, and one

input_vars == <<stdin, n, additional_argc>>
vars == <<input_vars, pos, phase, code, storage, start, quote, args, p, children>>

cur == Len(storage)
end == XARGS_BUFFER_SIZE
arg_count == Len(args)

\* The string that starts at an index of the storage.
StringAt(i) ==
  LET stop == Min({j \in i..cur : storage[j] = NUL})
  IN  SubSeq(storage, i, stop - 1)

Strings(starts) == [i \in DOMAIN starts |-> StringAt(starts[i])]

Init ==
  /\ stdin \in Inputs /\ n \in FlagsN /\ additional_argc \in ArgCounts
  /\ pos = 0
  /\ phase = "skip" /\ code = "none"
  /\ storage = <<>> /\ start = 1 /\ quote = "none"
  /\ args = <<>>
  /\ p = 1 /\ children = <<>>

-----------------------------------------------------------------------------
(* parse_arg_from_stdin() and parse_args_from_stdin().                     *)

AtEOF == pos < Len(stdin) => stdin[pos + 1] = FF
getchar == stdin[pos + 1]

\* Consumes a byte if there is one.
Consume == pos' = IF pos < Len(stdin) THEN pos + 1 ELSE pos

SkipSpace ==
  /\ phase = "skip" /\ arg_count # XARGS_MAX_ARGS /\ cur # end
  /\ ~AtEOF /\ getchar = " "
  /\ Consume
  /\ UNCHANGED <<input_vars, phase, code, storage, start, quote, args, p, children>>

\* run() copies the command and its own arguments to passed_args before anything else.
CommandFits == additional_argc + 1 =< XARGS_MAX_ARGS

\* No more arguments: the storage or the list is full, or the input ends.
StopParsing ==
  /\ phase = "skip"
  /\ arg_count = XARGS_MAX_ARGS \/ cur = end \/ AtEOF
  /\ phase' = IF CommandFits THEN "run" ELSE "undefined"
  /\ UNCHANGED <<input_vars, pos, code, storage, start, quote, args, p, children>>

StartArg ==
  /\ phase = "skip" /\ arg_count # XARGS_MAX_ARGS /\ cur # end
  /\ ~AtEOF /\ getchar # " "
  /\ Consume
  /\ phase' = "arg" /\ start' = cur + 1
  /\ IF getchar \in Quotes
       THEN quote' = getchar /\ UNCHANGED storage
       ELSE storage' = Append(storage, getchar) /\ UNCHANGED quote
  /\ UNCHANGED <<input_vars, code, args, p, children>>

\* A slip in parse_arg_from_stdin: the quotation mark at hand is not remembered.
AnyQuoteEnds == getchar \in Quotes \/ (getchar = " " /\ quote = "none")

\* With no quotation mark current_quotation_symbol is 0: a zero byte ends the
\* argument as well.
EndsArg == getchar = quote \/ (quote = "none" /\ getchar \in {" ", NUL})

AddByte ==
  /\ phase = "arg" /\ ~AtEOF /\ cur # end
  /\ ~EndsArg /\ ~(quote = "none" /\ getchar \in Quotes)
  /\ Consume
  /\ storage' = Append(storage, getchar)
  /\ UNCHANGED <<input_vars, phase, code, start, quote, args, p, children>>

UnexpectedQuotationMark ==
  /\ phase = "arg" /\ ~AtEOF /\ cur # end
  /\ quote = "none" /\ getchar \in Quotes
  /\ Consume
  /\ phase' = "exit" /\ code' = "unexpected_quotation_mark"
  /\ UNCHANGED <<input_vars, storage, start, quote, args, p, children>>

\* A slip in parse_arg_from_stdin: the byte is stored before it is looked at.
CompleteStored ==
  /\ phase = "arg" /\ ~AtEOF /\ cur # end /\ EndsArg
  /\ Consume
  /\ storage' = storage \o <<getchar, NUL>>
  /\ args' = Append(args, start)
  /\ phase' = IF cur + 1 = end THEN "undefined" ELSE "skip"
  /\ quote' = "none"
  /\ UNCHANGED <<input_vars, code, start, p, children>>

\* The byte after the argument has been read.
CompleteArg ==
  /\ phase = "arg" /\ ~AtEOF /\ cur # end /\ EndsArg
  /\ Consume
  /\ storage' = Append(storage, NUL)
  /\ args' = Append(args, start)
  /\ phase' = "skip" /\ quote' = "none"
  /\ UNCHANGED <<input_vars, code, start, p, children>>

\* The input has ended, or the storage is full and a byte has been read for
\* nothing.  The terminating zero is written all the same.
CutArg ==
  /\ phase = "arg" /\ (AtEOF \/ cur = end)
  /\ Consume
  /\ storage' = Append(storage, NUL)
  /\ IF quote = "none"
       THEN args' = Append(args, start) /\ code' = code
       ELSE code' = "missing_quotation_mark" /\ args' = args
  /\ phase' = IF cur = end THEN "undefined" ELSE IF quote = "none" THEN "skip" ELSE "exit"
  /\ UNCHANGED <<input_vars, start, quote, p, children>>

parse_args_from_stdin ==
  \/ SkipSpace \/ StopParsing \/ StartArg
  \/ AddByte \/ UnexpectedQuotationMark \/ CompleteArg \/ CutArg

-----------------------------------------------------------------------------
(* run().                                                                  *)

\* A slip in run: the last batch is as long as the others.
FullBatches == IF p + n - 1 =< arg_count THEN SubSeq(args, p, p + n - 1) ELSE <<>>

new_passed_args == SubSeq(args, p, Min({p + n - 1, arg_count}))

\* A negative count is a huge number for memcpy, and the zero pointer after
\* the last argument must lie in passed_args.
PassedArgsFit ==
  n >= 0 /\ additional_argc + Len(new_passed_args) + 1 < XARGS_MAX_ARGS

RunBatch ==
  /\ phase = "run" /\ p =< arg_count /\ PassedArgsFit
  /\ children' = IF new_passed_args = <<>> \/ Len(children) > arg_count THEN children
                 ELSE Append(children, Strings(new_passed_args))
  /\ phase' = "wait"
  /\ UNCHANGED <<input_vars, pos, code, storage, start, quote, args, p>>

OverrunPassedArgs ==
  /\ phase = "run" /\ p =< arg_count /\ ~PassedArgsFit
  /\ phase' = "undefined"
  /\ UNCHANGED <<input_vars, pos, code, storage, start, quote, args, p, children>>

ForkFails ==
  /\ phase = "run" /\ p =< arg_count /\ PassedArgsFit
  /\ phase' = "exit" /\ code' = "fork_failed"
  /\ UNCHANGED <<input_vars, pos, storage, start, quote, args, p, children>>

\* A slip in run: the loop counts what was passed, not where it is.
RepeatShortBatch ==
  /\ phase = "wait"
  /\ p' = IF p + n > arg_count + 1 THEN p ELSE p + n
  /\ phase' = "run"
  /\ UNCHANGED <<input_vars, pos, code, storage, start, quote, args, children>>

\* waitpid() returns, whatever became of the child.
ChildEnds ==
  /\ phase = "wait"
  /\ p' = p + n
  /\ phase' = "run"
  /\ UNCHANGED <<input_vars, pos, code, storage, start, quote, args, children>>

Finish ==
  /\ phase = "run" /\ p > arg_count
  /\ phase' = "exit" /\ code' = "success"
  /\ UNCHANGED <<input_vars, pos, storage, start, quote, args, p, children>>

run == RunBatch \/ OverrunPassedArgs \/ ForkFails \/ ChildEnds \/ Finish

Over == phase \in {"exit", "undefined"}
Terminated == Over /\ UNCHANGED vars

Next == parse_args_from_stdin \/ run \/ Terminated

Spec == Init /\ [][Next]_vars

\* main() runs, and every child ends some day.
FairSpec == Spec /\ WF_vars(parse_args_from_stdin \/ run)

-----------------------------------------------------------------------------
(* Properties.                                                             *)

\* The arguments of a text, read with three states and no storage.
RefStart == [in |-> "space", word |-> <<>>, words |-> <<>>, error |-> FALSE]

RefStep(s, c) ==
  IF s.error \/ (s.in = "space" /\ c = " ") THEN s
  ELSE IF s.in = "space" THEN
    IF c \in Quotes THEN [s EXCEPT !.in = c, !.word = <<>>]
                    ELSE [s EXCEPT !.in = "word", !.word = <<c>>]
  ELSE IF s.in = c \/ (s.in = "word" /\ c = " ") THEN
    [s EXCEPT !.in = "space", !.words = Append(@, s.word)]
  ELSE IF s.in = "word" /\ c \in Quotes THEN [s EXCEPT !.error = TRUE]
  ELSE [s EXCEPT !.word = Append(@, c)]

Reference ==
  LET last == FoldLeft(RefStep, RefStart, stdin)
  IN  [words |-> IF last.in = "word" THEN Append(last.words, last.word) ELSE last.words,
       error |-> last.error \/ last.in \in Quotes]

\* No bytes that the code takes for something else, and room for everything: what
\* follows the last argument that the list can hold is not looked at, nor is an
\* error there.
FittingText ==
  /\ \A i \in DOMAIN stdin : stdin[i] \notin {NUL, FF}
  /\ Len(stdin) < XARGS_BUFFER_SIZE
  /\ Len(Reference.words) =< XARGS_MAX_ARGS
  /\ Reference.error => Len(Reference.words) < XARGS_MAX_ARGS

\* Quotes inside and around arguments, empty arguments and the last one before
\* the end of the input: the loops with their shared cursor find the arguments
\* of the text, refuse a wrong one, and run nothing of what they refuse.
ArgumentsAreThoseOfTheText ==
  FittingText =>
    /\ phase \in {"run", "wait"} => ~Reference.error /\ Strings(args) = Reference.words
    /\ Over /\ Reference.error =>
         /\ code \in {"unexpected_quotation_mark", "missing_quotation_mark"}
         /\ children = <<>>

\* The storage, and the list passed to a child, are overrun only by an input
\* that fills the storage, by as many arguments as the list holds, those of the
\* command included, or by a negative -n; without an overrun every argument lies
\* in the storage.
OverrunNeedsLongInput ==
  /\ phase = "undefined" =>
       \/ Len(stdin) >= XARGS_BUFFER_SIZE
       \/ additional_argc + arg_count + 1 >= XARGS_MAX_ARGS
       \/ n < 0
  /\ phase # "undefined" => cur =< end /\ ToSet(args) \subseteq 1..cur

\* Batch by batch every argument is passed once and in order; when main()
\* succeeds, all of them are, and only the last batch is short.
BatchesCoverArguments ==
  LET passed == FlattenSeq(children) IN
  /\ IsPrefix(passed, Strings(args))
  /\ code = "success" => passed = Strings(args)
  /\ \A i \in DOMAIN children : i < Len(children) => Len(children[i]) = n

\* xargs ends, unless -n 0 makes it run the bare command for ever.
EndsUnlessZero == <>(Over \/ n = 0)

================================================================================
