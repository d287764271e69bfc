-------------------------------- MODULE Options --------------------------------
(***************************************************************************)
(* How the programs read their command lines: a loop over getopt() that    *)
(* stops at the first error, safe_parse_ulong_option(), and                *)
(* process_error(), which turns a code into a message.  Every program has  *)
(* its own copy of them, its own options and its own numbers for the       *)
(* errors; in gwgd, safe_parse_ulong_option() moved to a library with      *)
(* numbers of its own.                                                     *)
(***************************************************************************)
EXTENDS Integers, Sequences, SequencesExt, FiniteSetsExt

CONSTANTS
  Numbers,    \* the numbers given for options
  ULONG_MAX,  \* the largest number; the defaults are kept as they are
  MAX_PORT,   \* 65535
  MaxTokens   \* bound on the length of a command line

ASSUME OptionsAssumption ==
  /\ ULONG_MAX \in Nat /\ MAX_PORT \in 0..ULONG_MAX
  /\ Numbers \subseteq 0..ULONG_MAX
  /\ MaxTokens \in Nat

\* Each program: options with a number and their defaults, plain options, and
\* the errors in the order of their codes, from 1.
energy_drinks ==
  [ulong |-> [n |-> 2, c |-> 4, p |-> 5], plain |-> {},
   errors |-> <<"INVALID_ARGUMENT_VALUE", "ARGUMENT_OUT_OF_RANGE", "INVALID_OPTION",
                "UNEXPECTED_ARGUMENT">>]

prisoners ==
  [ulong |-> [n |-> 100, s |-> 0], plain |-> {},
   errors |-> <<"INVALID_ARGUMENT_VALUE", "ARGUMENT_OUT_OF_RANGE", "INVALID_OPTION",
                "UNEXPECTED_ARGUMENT">>]

dpnum ==
  [ulong |-> [s |-> 1, e |-> 10000, t |-> 1], plain |-> {"v"},
   errors |-> <<"INVALID_OPTION", "ARGUMENT_OUT_OF_RANGE", "INVALID_ARGUMENT_VALUE",
                "INVALID_RANGE", "UNEXPECTED_ARGUMENT">>]

gwgd ==
  [ulong |-> [p |-> 8888], plain |-> {"t", "f"},
   errors |-> <<"INVALID_OPTION", "ARGUMENT_OUT_OF_RANGE", "INVALID_ARGUMENT_VALUE",
                "CONFLICTING_OPTIONS", "UNEXPECTED_ARGUMENT">>]

Programs == {energy_drinks, prisoners, dpnum, gwgd}

\* What stands after an option with a number, or as an operand: its text, and
\* what strtoul makes of it.
Number(k) == [text |-> ToString(k), value |-> k]
Junk == [text |-> "junk", value |-> 0]
Huge == [text |-> "huge", value |-> ULONG_MAX]
NoArg == [text |-> "", value |-> 0]

Tokens(program) ==
  [option : DOMAIN program.ulong, arg : {Number(k) : k \in Numbers} \union {Junk, Huge}]
    \union [option : program.plain \union {"?"}, arg : {NoArg}]
    \union {[option |-> "operand", arg |-> Junk]}

VARIABLES
  program,
  argv, i,       \* the tokens, and the one being read
  values, mode,  \* the fields of config
  error_option, error_arg,
  code,          \* what parse_flags() returns: 0 is SUCCESS
  phase,         \* where main() is
  message        \* what process_error() prints

vars == <<program, argv, i, values, mode, error_option, error_arg, code, phase, message>>

Code(name) == SelectInSeq(program.errors, LAMBDA e : e = name)

\* The numbers that lib.c of gwgd gives to the errors it returns.
LibCode(name) ==
  [INVALID_ARGUMENT_VALUE |-> 1, ARGUMENT_OUT_OF_RANGE |-> 2][name]

Init ==
  /\ program \in Programs
  /\ argv \in SeqOf(Tokens(program), MaxTokens)
  /\ i = 1
  /\ values = program.ulong /\ mode = "BLOCKING"
  /\ error_option = "" /\ error_arg = ""
  /\ code = 0 /\ phase = "options" /\ message = <<>>

-----------------------------------------------------------------------------
(* parse_flags(): one option of the loop.                                  *)

token == argv[i]
Reading == phase = "options" /\ i =< Len(argv)
NextToken == i' = i + 1

\* Returns an error, after the loop has recorded what it was about.
Fail(error_code, option, arg) ==
  /\ code' = error_code
  /\ error_option' = option /\ error_arg' = arg
  /\ phase' = "parsed"
  /\ UNCHANGED <<program, argv, mode, message>>

\* getopt() moves the operands behind the options.
SkipOperand ==
  /\ Reading /\ token.option = "operand"
  /\ NextToken
  /\ UNCHANGED <<program, argv, values, mode, error_option, error_arg, code, phase, message>>

UnknownOption ==
  /\ Reading /\ token.option = "?"
  /\ NextToken
  /\ Fail(Code("INVALID_OPTION"), error_option, error_arg)
  /\ UNCHANGED values

safe_parse_ulong_option ==
  CASE token.arg = Junk -> "INVALID_ARGUMENT_VALUE"
    [] token.arg = Huge -> "ARGUMENT_OUT_OF_RANGE"
    [] OTHER -> "SUCCESS"

\* -e of dpnum is one past the end.
Stored ==
  IF program = dpnum /\ token.option = "e"
    THEN (token.arg.value + 1) % (ULONG_MAX + 1)
    ELSE token.arg.value

\* A slip in parse_flags: the code is kept and the loop goes on.
BadNumberGoesOn ==
  /\ Reading /\ token.option \in DOMAIN values
  /\ safe_parse_ulong_option # "SUCCESS"
  /\ NextToken
  /\ values' = [values EXCEPT ![token.option] = Stored]
  /\ code' = Code(safe_parse_ulong_option)
  /\ error_option' = token.option /\ error_arg' = token.arg.text
  /\ UNCHANGED <<program, argv, mode, phase, message>>

BadNumber ==
  /\ Reading /\ token.option \in DOMAIN values
  /\ safe_parse_ulong_option # "SUCCESS"
  /\ NextToken
  /\ values' = [values EXCEPT ![token.option] = Stored]
  /\ Fail(IF program = gwgd THEN LibCode(safe_parse_ulong_option)
          ELSE Code(safe_parse_ulong_option), token.option, token.arg.text)

PortTooLarge == program = gwgd /\ token.arg.value > MAX_PORT

BadPort ==
  /\ Reading /\ token.option \in DOMAIN values
  /\ safe_parse_ulong_option = "SUCCESS" /\ PortTooLarge
  /\ NextToken
  /\ values' = [values EXCEPT ![token.option] = Stored]
  /\ Fail(Code("ARGUMENT_OUT_OF_RANGE"), token.option, token.arg.text)

\* A slip in parse_flags: the first value counts.
NumberOnce ==
  /\ Reading /\ token.option \in DOMAIN values
  /\ safe_parse_ulong_option = "SUCCESS" /\ ~PortTooLarge
  /\ NextToken
  /\ values' = [values EXCEPT ![token.option] =
                  IF @ = program.ulong[token.option] THEN Stored ELSE @]
  /\ UNCHANGED <<program, argv, mode, error_option, error_arg, code, phase, message>>

GoodNumber ==
  /\ Reading /\ token.option \in DOMAIN values
  /\ safe_parse_ulong_option = "SUCCESS" /\ ~PortTooLarge
  /\ NextToken
  /\ values' = [values EXCEPT ![token.option] = Stored]
  /\ UNCHANGED <<program, argv, mode, error_option, error_arg, code, phase, message>>

\* -v of dpnum only logs.
Verbose ==
  /\ Reading /\ token.option = "v"
  /\ NextToken
  /\ UNCHANGED <<program, argv, values, mode, error_option, error_arg, code, phase, message>>

\* -t is accepted after -f.
ThreadMode ==
  /\ Reading /\ program = gwgd /\ token.option = "t"
  /\ NextToken
  /\ mode' = "THREAD"
  /\ UNCHANGED <<program, argv, values, error_option, error_arg, code, phase, message>>

ForkingMode ==
  /\ Reading /\ token.option = "f" /\ mode # "THREAD"
  /\ NextToken
  /\ mode' = "FORKING"
  /\ UNCHANGED <<program, argv, values, error_option, error_arg, code, phase, message>>

Conflict ==
  /\ Reading /\ token.option = "f" /\ mode = "THREAD"
  /\ NextToken
  /\ Fail(Code("CONFLICTING_OPTIONS"), "f", "t")
  /\ UNCHANGED values

-----------------------------------------------------------------------------
(* parse_flags() after the loop, and process_error().                      *)

Operands == {k \in DOMAIN argv : argv[k].option = "operand"}
InvalidRange == program = dpnum /\ values["s"] > values["e"]

CheckRange ==
  /\ phase = "options" /\ i > Len(argv) /\ InvalidRange
  /\ Fail(Code("INVALID_RANGE"), error_option, error_arg)
  /\ UNCHANGED <<i, values>>

UnexpectedOperand ==
  /\ phase = "options" /\ i > Len(argv) /\ ~InvalidRange
  /\ Operands # {}
  /\ Fail(Code("UNEXPECTED_ARGUMENT"), error_option, argv[Min(Operands)].arg.text)
  /\ UNCHANGED <<i, values>>

Parsed ==
  /\ phase = "options" /\ i > Len(argv) /\ ~InvalidRange
  /\ Operands = {}
  /\ phase' = "parsed"
  /\ UNCHANGED <<program, argv, i, values, mode, error_option, error_arg, code, message>>

\* The handler of INVALID_OPTION prints nothing, for getopt() has done so.
process_error ==
  /\ phase = "parsed"
  /\ IF code = 0
       THEN phase' = "run" /\ UNCHANGED message
       ELSE /\ phase' = "exit"
            /\ message' = IF program.errors[code] = "INVALID_OPTION" THEN <<>>
                          ELSE <<program.errors[code], error_option, error_arg>>
  /\ UNCHANGED <<program, argv, i, values, mode, error_option, error_arg, code>>

parse_flags ==
  \/ SkipOperand \/ UnknownOption \/ BadNumber \/ BadPort \/ GoodNumber \/ Verbose
  \/ ThreadMode \/ ForkingMode \/ Conflict
  \/ CheckRange \/ UnexpectedOperand \/ Parsed

Terminated == phase \in {"run", "exit"} /\ UNCHANGED vars

Next == parse_flags \/ process_error \/ Terminated

Spec == Init /\ [][Next]_vars

-----------------------------------------------------------------------------
(* Properties.                                                             *)

\* The errors that the tokens read so far, taken one by one, have.
Wrong(k) ==
  LET t == argv[k] IN
  \/ t.option = "?"
  \/ t.arg \in {Junk, Huge} /\ t.option # "operand"
  \/ program = gwgd /\ t.option = "p" /\ t.arg.value > MAX_PORT
  \/ t.option = "f" /\ \E j \in 1..(k - 1) : argv[j].option = "t"

FirstWrong == Min({k \in DOMAIN argv : Wrong(k)})
AllRight == \A k \in DOMAIN argv : ~Wrong(k)

\* The last value a command line gives for an option.
LastGiven(option) ==
  LET given == {k \in DOMAIN argv : argv[k].option = option} IN
  IF given = {} THEN program.ulong[option]
  ELSE LET value == argv[Max(given)].arg.value IN
       IF program = dpnum /\ option = "e" THEN (value + 1) % (ULONG_MAX + 1) ELSE value

Given(option) == \E k \in DOMAIN argv : argv[k].option = option

\* A program starts exactly with a command line in which no token is wrong by
\* itself or after those before it, wherever the operands stand, and with the
\* last value given for every option.  "option conflicting with": threads and
\* processes may both be asked for if -t comes last, and threads are what is had.
StartsWithWhatWasGiven ==
  phase \in {"run", "exit"} =>
    LET right == /\ AllRight /\ Operands = {}
                 /\ program = dpnum => LastGiven("s") =< LastGiven("e")
    IN  /\ phase = "run" <=> right
        /\ right => \A option \in DOMAIN values : values[option] = LastGiven(option)
        /\ right /\ program = gwgd =>
             mode = CASE Given("t") -> "THREAD"
                      [] Given("f") /\ ~Given("t") -> "FORKING"
                      [] OTHER -> "BLOCKING"

\* The error of a token that is wrong.
FaultKind(t) ==
  CASE t.option = "?"  -> "INVALID_OPTION"
    [] t.option = "f"  -> "CONFLICTING_OPTIONS"
    [] t.arg = Junk    -> "INVALID_ARGUMENT_VALUE"
    [] OTHER           -> "ARGUMENT_OUT_OF_RANGE"

\* getopt() itself reports an unknown option.  In gwgd a number that is none
\* goes unreported: what the library calls INVALID_ARGUMENT_VALUE is the
\* INVALID_OPTION of the program.
Silent(kind) ==
  kind = "INVALID_OPTION" \/ (program = gwgd /\ kind = "INVALID_ARGUMENT_VALUE")

\* A message names the error of the first token that is wrong, its option and
\* its argument: nothing of another token gets into it.
ReportsTheFirstFault ==
  phase = "exit" /\ ~AllRight =>
    LET t == argv[FirstWrong]
        kind == FaultKind(t)
    IN  message = IF Silent(kind) THEN <<>>
                  ELSE <<kind, t.option, IF t.option = "f" THEN "t" ELSE t.arg.text>>

================================================================================
