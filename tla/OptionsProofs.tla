----------------------------- MODULE OptionsProofs -----------------------------
(* Proofs about the option loops of the four programs, for command lines   *)
(* of any length and any numbers in them.                                  *)
EXTENDS Options, SequenceTheorems, TLAPS

-----------------------------------------------------------------------------
(* The programs, their tokens and their codes.                             *)

Errors == {"INVALID_OPTION", "ARGUMENT_OUT_OF_RANGE", "INVALID_ARGUMENT_VALUE",
           "INVALID_RANGE", "CONFLICTING_OPTIONS", "UNEXPECTED_ARGUMENT"}

\* Which options a program has: no name stands for two things.
LEMMA OptionNames ==
  ASSUME program \in Programs
  PROVE  /\ "?" \notin DOMAIN program.ulong /\ "operand" \notin DOMAIN program.ulong
         /\ "f" \notin DOMAIN program.ulong /\ "v" \notin DOMAIN program.ulong
         /\ "f" \in program.plain => program = gwgd
         /\ "operand" \notin program.plain /\ "?" \notin program.plain
         /\ program = gwgd => DOMAIN program.ulong = {"p"}
         /\ program = dpnum => "s" \in DOMAIN program.ulong /\ "e" \in DOMAIN program.ulong
         /\ \A option \in DOMAIN program.ulong : program.ulong[option] \in Nat
<1>1. CASE program = energy_drinks
  BY <1>1 DEF energy_drinks, dpnum, gwgd
<1>2. CASE program = prisoners
  BY <1>2 DEF prisoners, dpnum, gwgd
<1>3. CASE program = dpnum
  BY <1>3 DEF dpnum, gwgd
<1>4. CASE program = gwgd
  BY <1>4 DEF dpnum, gwgd
<1> QED
  BY <1>1, <1>2, <1>3, <1>4 DEF Programs

\* The errors of a program, in the order of their codes.
LEMMA ErrorLists ==
  ASSUME program \in Programs
  PROVE  /\ Len(program.errors) \in 4..5
         /\ \A name \in {"INVALID_OPTION", "ARGUMENT_OUT_OF_RANGE", "INVALID_ARGUMENT_VALUE",
                         "UNEXPECTED_ARGUMENT"} :
              \E k \in 1..Len(program.errors) : program.errors[k] = name
         /\ program = dpnum =>
              \E k \in 1..Len(program.errors) : program.errors[k] = "INVALID_RANGE"
         /\ program = gwgd =>
              /\ \E k \in 1..Len(program.errors) : program.errors[k] = "CONFLICTING_OPTIONS"
              /\ program.errors[1] = "INVALID_OPTION"
              /\ program.errors[2] = "ARGUMENT_OUT_OF_RANGE"
<1>1. CASE program = energy_drinks \/ program = prisoners
  <2>1. program.errors = <<"INVALID_ARGUMENT_VALUE", "ARGUMENT_OUT_OF_RANGE",
                           "INVALID_OPTION", "UNEXPECTED_ARGUMENT">>
    BY <1>1 DEF energy_drinks, prisoners
  <2>2. /\ Len(program.errors) = 4
        /\ program.errors[1] = "INVALID_ARGUMENT_VALUE"
        /\ program.errors[2] = "ARGUMENT_OUT_OF_RANGE"
        /\ program.errors[3] = "INVALID_OPTION"
        /\ program.errors[4] = "UNEXPECTED_ARGUMENT"
    BY <2>1
  <2>3. program # dpnum /\ program # gwgd
    BY <1>1 DEF energy_drinks, prisoners, dpnum, gwgd
  <2>4. 1 \in 1..4 /\ 2 \in 1..4 /\ 3 \in 1..4 /\ 4 \in 1..4
    OBVIOUS
  <2> QED
    BY <2>2, <2>3, <2>4
<1>2. CASE program = dpnum
  <2>1. /\ Len(program.errors) = 5
        /\ program.errors[1] = "INVALID_OPTION"
        /\ program.errors[2] = "ARGUMENT_OUT_OF_RANGE"
        /\ program.errors[3] = "INVALID_ARGUMENT_VALUE"
        /\ program.errors[4] = "INVALID_RANGE"
        /\ program.errors[5] = "UNEXPECTED_ARGUMENT"
    BY <1>2 DEF dpnum
  <2>2. program # gwgd
    BY <1>2 DEF dpnum, gwgd
  <2>3. 1 \in 1..5 /\ 2 \in 1..5 /\ 3 \in 1..5 /\ 4 \in 1..5 /\ 5 \in 1..5
    OBVIOUS
  <2> QED
    BY <2>1, <2>2, <2>3
<1>3. CASE program = gwgd
  <2>1. /\ Len(program.errors) = 5
        /\ program.errors[1] = "INVALID_OPTION"
        /\ program.errors[2] = "ARGUMENT_OUT_OF_RANGE"
        /\ program.errors[3] = "INVALID_ARGUMENT_VALUE"
        /\ program.errors[4] = "CONFLICTING_OPTIONS"
        /\ program.errors[5] = "UNEXPECTED_ARGUMENT"
    BY <1>3 DEF gwgd
  <2>2. program # dpnum
    BY <1>3 DEF dpnum, gwgd
  <2>3. 1 \in 1..5 /\ 2 \in 1..5 /\ 3 \in 1..5 /\ 4 \in 1..5 /\ 5 \in 1..5
    OBVIOUS
  <2> QED
    BY <2>1, <2>2, <2>3
<1> QED
  BY <1>1, <1>2, <1>3 DEF Programs

\* The code of an error that a program can have is not 0, and stands for that error.
LEMMA CodeOfError ==
  ASSUME program \in Programs, NEW name,
         \E k \in 1..Len(program.errors) : program.errors[k] = name
  PROVE  Code(name) \in Nat /\ Code(name) # 0 /\ program.errors[Code(name)] = name
<1>1. PICK I : I = {j \in 1..Len(program.errors) : program.errors[j] = name}
  OBVIOUS
<1>2. PICK l \in 4..5 : l = Len(program.errors)
  BY ErrorLists
<1>3. Code(name) = IF I # {} THEN Min(I) ELSE 0
  BY <1>1 DEF Code, SelectInSeq
<1>4. I # {} /\ I \subseteq 1..5
  BY <1>1, <1>2
<1>5. \E x \in I : \A y \in I : x =< y
  <2>1. \A y \in I : y \in {1, 2, 3, 4, 5}
    BY <1>4
  <2>2. CASE 1 \in I
    BY <2>1, <2>2
  <2>3. CASE 1 \notin I /\ 2 \in I
    BY <2>1, <2>3
  <2>4. CASE 1 \notin I /\ 2 \notin I /\ 3 \in I
    BY <2>1, <2>4
  <2>5. CASE 1 \notin I /\ 2 \notin I /\ 3 \notin I /\ 4 \in I
    BY <2>1, <2>5
  <2>6. CASE 1 \notin I /\ 2 \notin I /\ 3 \notin I /\ 4 \notin I
    <3>1. \A y \in I : y = 5
      BY <2>1, <2>6
    <3>2. 5 \in I
      BY <1>4, <3>1
    <3>3. \A y \in I : 5 =< y
      BY <3>1
    <3> QED
      BY <3>2, <3>3
  <2> QED
    BY <2>2, <2>3, <2>4, <2>5, <2>6
<1>6. Min(I) \in I
  BY <1>5 DEF Min
<1> QED
  BY <1>1, <1>2, <1>3, <1>4, <1>6

\* What a token can be: an option with a number, one without, or an operand.
LEMMA TokenShapes ==
  ASSUME program \in Programs, NEW t \in Tokens(program)
  PROVE  /\ t.arg.value \in 0..ULONG_MAX
         /\ \/ t.option \in DOMAIN program.ulong
            \/ t.option \in program.plain \union {"?"} /\ t.arg = NoArg
            \/ t.option = "operand" /\ t.arg = Junk
         /\ NoArg # Junk /\ NoArg # Huge /\ Junk # Huge
<1>1. ULONG_MAX \in Nat /\ Numbers \subseteq 0..ULONG_MAX
  BY OptionsAssumption
<1>2. NoArg.value \in 0..ULONG_MAX /\ Junk.value \in 0..ULONG_MAX /\ Huge.value \in 0..ULONG_MAX
  BY <1>1 DEF NoArg, Junk, Huge
<1>3. \A k \in Numbers : Number(k).value \in 0..ULONG_MAX
  BY <1>1 DEF Number
<1>4. \/ /\ t.option \in DOMAIN program.ulong
         /\ t.arg \in {Number(k) : k \in Numbers} \union {Junk, Huge}
      \/ t.option \in program.plain \union {"?"} /\ t.arg = NoArg
      \/ t.option = "operand" /\ t.arg = Junk
  BY DEF Tokens
<1>5. NoArg # Junk /\ NoArg # Huge /\ Junk # Huge
  BY DEF NoArg, Junk, Huge
<1> QED
  BY <1>2, <1>3, <1>4, <1>5

-----------------------------------------------------------------------------
(* The inductive invariant.                                                *)

\* What a value read from a token is kept as.
Kept(option, value) ==
  IF program = dpnum /\ option = "e" THEN (value + 1) % (ULONG_MAX + 1) ELSE value

\* The value of an option is the one that the last of the tokens read has given, or
\* the default.
LastOf(option) ==
  \/ /\ \A k \in 1..(i - 1) : argv[k].option # option
     /\ values[option] = program.ulong[option]
  \/ \E k \in 1..(i - 1) :
       /\ argv[k].option = option
       /\ \A j \in (k + 1)..(i - 1) : argv[j].option # option
       /\ values[option] = Kept(option, argv[k].arg.value)

HasRead(option) == \E k \in 1..(i - 1) : argv[k].option = option

\* What the loop has found, as long as nothing was wrong.
ReadInv ==
  /\ \A k \in 1..(i - 1) : ~Wrong(k)
  /\ \A option \in DOMAIN values : LastOf(option)
  /\ program = gwgd =>
       mode = IF HasRead("t") THEN "THREAD" ELSE IF HasRead("f") THEN "FORKING" ELSE "BLOCKING"

\* What is recorded of a wrong token.
Recorded(k) ==
  LET kind == FaultKind(argv[k]) IN
  IF Silent(kind) THEN program.errors[code] = "INVALID_OPTION"
  ELSE /\ program.errors[code] = kind
       /\ error_option = argv[k].option
       /\ error_arg = IF argv[k].option = "f" THEN "t" ELSE argv[k].arg.text

\* An error is about the first wrong token, or about a line of right ones.
FaultInv ==
  \/ \E k \in DOMAIN argv : Wrong(k) /\ (\A j \in 1..(k - 1) : ~Wrong(j)) /\ Recorded(k)
  \/ i = Len(argv) + 1 /\ ReadInv /\ (InvalidRange \/ Operands # {})

TypeInv ==
  /\ program \in Programs /\ argv \in Seq(Tokens(program)) /\ i \in 1..(Len(argv) + 1)
  /\ values \in [DOMAIN program.ulong -> Nat] /\ code \in Nat
  /\ phase \in {"options", "parsed", "run", "exit"}

OptionsInv ==
  /\ TypeInv
  /\ phase = "options" => code = 0 /\ ReadInv
  /\ phase # "options" /\ code = 0 =>
       i = Len(argv) + 1 /\ ReadInv /\ Operands = {} /\ ~InvalidRange
  /\ phase # "options" /\ code # 0 => FaultInv
  /\ phase = "run" => code = 0
  /\ phase = "exit" =>
       /\ code # 0
       /\ message = IF program.errors[code] = "INVALID_OPTION" THEN <<>>
                    ELSE <<program.errors[code], error_option, error_arg>>

\* Nothing is read at first.
LEMMA InitOptionsInv == Init => OptionsInv
<1> SUFFICES ASSUME Init PROVE OptionsInv
  OBVIOUS
<1>1. /\ program \in Programs /\ i = 1 /\ values = program.ulong /\ mode = "BLOCKING"
      /\ code = 0 /\ phase = "options"
  BY DEF Init
<1>2. argv \in Seq(Tokens(program))
  <2>1. MaxTokens \in Nat
    BY OptionsAssumption
  <2>2. argv \in UNION {[1..m -> Tokens(program)] : m \in 0..MaxTokens}
    BY DEF Init, SeqOf
  <2>3. \A m \in 0..MaxTokens : m \in Nat
    BY <2>1
  <2>4. argv \in UNION {[1..m -> Tokens(program)] : m \in Nat}
    BY <2>2, <2>3
  <2> QED
    BY <2>4, SeqDef
<1>3. Len(argv) \in Nat
  BY <1>2, LenProperties
<1>4. values \in [DOMAIN program.ulong -> Nat]
  <2>1. \A option \in DOMAIN program.ulong : program.ulong[option] \in Nat
    BY <1>1, OptionNames
  <2>2. program.ulong = [option \in DOMAIN program.ulong |-> program.ulong[option]]
    BY <1>1 DEF Programs, energy_drinks, prisoners, dpnum, gwgd
  <2> QED
    BY <1>1, <2>1, <2>2
<1>5. TypeInv
  BY <1>1, <1>2, <1>3, <1>4 DEF TypeInv
<1>6. ReadInv
  <2>1. \A k \in 1..(i - 1) : FALSE
    BY <1>1
  <2> QED
    BY <1>1, <2>1 DEF ReadInv, LastOf, HasRead
<1> QED
  BY <1>1, <1>5, <1>6 DEF OptionsInv

\* What does not change what was read and found.
LEMMA ReadKept ==
  ASSUME UNCHANGED <<program, argv, i, values, mode>>
  PROVE  /\ ReadInv => ReadInv'
         /\ UNCHANGED <<error_option, error_arg, code>> /\ FaultInv => FaultInv'
         /\ InvalidRange' = InvalidRange /\ Operands' = Operands
<1>1. \A k : Wrong(k)' <=> Wrong(k)
  BY DEF Wrong
<1>2. (\A option : LastOf(option)' <=> LastOf(option)) /\ HasRead("t")' = HasRead("t")
      /\ HasRead("f")' = HasRead("f")
  BY DEF LastOf, Kept, HasRead
<1>3. InvalidRange' = InvalidRange /\ Operands' = Operands
  BY DEF InvalidRange, Operands
<1>4. ReadInv => ReadInv'
  BY <1>1, <1>2 DEF ReadInv
<1>5. ASSUME UNCHANGED <<error_option, error_arg, code>>, FaultInv PROVE FaultInv'
  <2>1. \A k : Recorded(k)' <=> Recorded(k)
    BY <1>5 DEF Recorded, FaultKind, Silent
  <2> QED
    BY <1>1, <1>3, <1>4, <1>5, <2>1 DEF FaultInv
<1> QED
  BY <1>3, <1>4, <1>5

\* The token that is read is one of the line.
LEMMA TokenRead ==
  ASSUME TypeInv, Reading
  PROVE  /\ i \in DOMAIN argv /\ i \in Nat /\ i >= 1 /\ i + 1 \in 1..(Len(argv) + 1)
         /\ token \in Tokens(program) /\ program \in Programs
         /\ DOMAIN values = DOMAIN program.ulong
<1>1. Len(argv) \in Nat /\ DOMAIN argv = 1..Len(argv)
  BY LenProperties DEF TypeInv
<1>2. i \in 1..Len(argv)
  BY <1>1 DEF TypeInv, Reading
<1>3. token \in Tokens(program)
  BY <1>2, ElementOfSeq DEF TypeInv, token
<1> QED
  BY <1>1, <1>2, <1>3 DEF TypeInv

\* A token that is right is read: what was found of those before it stays true.
LEMMA RightTokenRead ==
  ASSUME TypeInv, ReadInv, Reading, NextToken, ~Wrong(i),
         UNCHANGED <<program, argv>>, DOMAIN values' = DOMAIN values,
         \A option \in DOMAIN values :
           values'[option] = IF token.option = option THEN Kept(option, token.arg.value)
                             ELSE values[option],
         program = gwgd =>
           mode' = IF token.option = "t" THEN "THREAD"
                   ELSE IF token.option = "f" THEN "FORKING" ELSE mode
  PROVE  ReadInv'
<1>1. i \in Nat /\ i >= 1 /\ i' = i + 1 /\ token = argv[i]
  BY TokenRead DEF NextToken, token
<1>2. i' - 1 = i /\ \A k \in 1..(i' - 1) : k \in 1..(i - 1) \/ k = i
  BY <1>1
<1>3. i \in 1..(i' - 1) /\ \A k \in 1..(i - 1) : k \in 1..(i' - 1)
  BY <1>1
<1>4. \A k : Wrong(k)' <=> Wrong(k)
  BY DEF Wrong
<1>5. \A k \in 1..(i' - 1) : ~Wrong(k)'
  BY <1>2, <1>4 DEF ReadInv
<1>6. ASSUME NEW option \in DOMAIN values PROVE LastOf(option)'
  <2>1. CASE token.option = option
    <3>1. values'[option] = Kept(option, argv[i].arg.value) /\ argv[i].option = option
      BY <1>1, <2>1
    <3>2. \A j \in (i + 1)..(i' - 1) : FALSE
      BY <1>1
    <3>3. \E k \in 1..(i' - 1) :
            /\ argv'[k].option = option
            /\ \A j \in (k + 1)..(i' - 1) : argv'[j].option # option
            /\ values'[option] = Kept(option, argv[k].arg.value)
      BY <1>3, <3>1, <3>2
    <3> QED
      BY <3>3 DEF LastOf, Kept
  <2>2. CASE token.option # option
    <3>1. values'[option] = values[option] /\ argv[i].option # option
      BY <1>1, <2>2
    <3>2. CASE /\ \A k \in 1..(i - 1) : argv[k].option # option
               /\ values[option] = program.ulong[option]
      BY <1>2, <3>1, <3>2 DEF LastOf
    <3>3. ASSUME NEW k \in 1..(i - 1), argv[k].option = option,
                 \A j \in (k + 1)..(i - 1) : argv[j].option # option,
                 values[option] = Kept(option, argv[k].arg.value)
          PROVE  LastOf(option)'
      <4>1. \A j \in (k + 1)..(i' - 1) : j \in (k + 1)..(i - 1) \/ j = i
        BY <1>1
      <4>2. \A j \in (k + 1)..(i' - 1) : argv'[j].option # option
        BY <3>1, <3>3, <4>1
      <4>3. k \in 1..(i' - 1) /\ argv'[k].option = option
            /\ values'[option] = Kept(option, argv[k].arg.value)
        BY <1>3, <3>1, <3>3
      <4> QED
        BY <4>2, <4>3 DEF LastOf, Kept
    <3> QED
      BY <3>2, <3>3 DEF ReadInv, LastOf
  <2> QED
    BY <2>1, <2>2
<1>7. ASSUME program = gwgd
      PROVE  mode' = IF HasRead("t")' THEN "THREAD"
                     ELSE IF HasRead("f")' THEN "FORKING" ELSE "BLOCKING"
  <2>1. \A option : HasRead(option)' <=> HasRead(option) \/ token.option = option
    BY <1>1, <1>2, <1>3 DEF HasRead
  <2>2. mode = IF HasRead("t") THEN "THREAD"
               ELSE IF HasRead("f") THEN "FORKING" ELSE "BLOCKING"
    BY <1>7 DEF ReadInv
  <2>3. ~(token.option = "f" /\ HasRead("t"))
    BY <1>1 DEF Wrong, HasRead
  <2> QED
    BY <1>7, <2>1, <2>2, <2>3
<1> QED
  BY <1>5, <1>6, <1>7 DEF ReadInv

\* A wrong token is recorded.
LEMMA WrongTokenRead ==
  ASSUME TypeInv, ReadInv, Reading, NEW k, k = i, Wrong(k),
         UNCHANGED <<program, argv>>, Recorded(k)'
  PROVE  FaultInv'
<1>1. i \in DOMAIN argv
  BY TokenRead
<1>2. \A l : Wrong(l)' <=> Wrong(l)
  BY DEF Wrong
<1>3. \A j \in 1..(k - 1) : ~Wrong(j)
  BY DEF ReadInv
<1> QED
  BY <1>1, <1>2, <1>3 DEF FaultInv

\* The loop goes on after a right token, and ends at a wrong one.
LEMMA LoopGoesOn ==
  ASSUME OptionsInv, Reading, ReadInv', i' = i + 1, UNCHANGED <<program, argv, code, phase>>,
         values' \in [DOMAIN program.ulong -> Nat]
  PROVE  OptionsInv'
<1>1. TypeInv /\ phase = "options" /\ code = 0
  BY DEF OptionsInv, Reading
<1>2. i' \in 1..(Len(argv) + 1)
  BY <1>1, TokenRead
<1>3. TypeInv'
  BY <1>1, <1>2 DEF TypeInv
<1> QED
  BY <1>1, <1>3 DEF OptionsInv

LEMMA LoopEnds ==
  ASSUME OptionsInv, Reading, FaultInv', i' = i + 1, UNCHANGED <<program, argv>>,
         values' \in [DOMAIN program.ulong -> Nat], code' \in Nat \ {0}, phase' = "parsed"
  PROVE  OptionsInv'
<1>1. TypeInv
  BY DEF OptionsInv
<1>2. i' \in 1..(Len(argv) + 1)
  BY <1>1, TokenRead
<1>3. TypeInv'
  BY <1>1, <1>2 DEF TypeInv
<1> QED
  BY <1>3 DEF OptionsInv

\* The value of a token, as it is kept.
LEMMA StoredIsKept ==
  ASSUME TypeInv, Reading, token.option \in DOMAIN values,
         values' = [values EXCEPT ![token.option] = Stored]
  PROVE  /\ values' \in [DOMAIN program.ulong -> Nat]
         /\ \A option \in DOMAIN values :
              values'[option] = IF token.option = option THEN Kept(option, token.arg.value)
                                ELSE values[option]
<1>1. token \in Tokens(program) /\ program \in Programs
  BY TokenRead
<1>2. token.arg.value \in 0..ULONG_MAX /\ ULONG_MAX \in Nat
  BY <1>1, TokenShapes, OptionsAssumption
<1>3. token.arg.value \in Nat /\ (token.arg.value + 1) % (ULONG_MAX + 1) \in Nat
  BY <1>2
<1>4. Stored \in Nat /\ Stored = Kept(token.option, token.arg.value)
  BY <1>3 DEF Stored, Kept
<1>5. values \in [DOMAIN program.ulong -> Nat]
  BY DEF TypeInv
<1> QED
  BY <1>4, <1>5

\* Every step of the loop keeps the invariant.
LEMMA LoopOptionsInv ==
  OptionsInv /\ Reading /\ (SkipOperand \/ UnknownOption \/ BadNumber \/ BadPort \/ GoodNumber
                              \/ Verbose \/ ThreadMode \/ ForkingMode \/ Conflict)
    => OptionsInv'
<1> SUFFICES ASSUME OptionsInv, Reading,
                    SkipOperand \/ UnknownOption \/ BadNumber \/ BadPort \/ GoodNumber
                      \/ Verbose \/ ThreadMode \/ ForkingMode \/ Conflict
             PROVE  OptionsInv'
  OBVIOUS
<1>inv. TypeInv /\ ReadInv /\ code = 0 /\ values \in [DOMAIN program.ulong -> Nat]
  BY DEF OptionsInv, TypeInv, Reading
<1>token. /\ token \in Tokens(program) /\ program \in Programs /\ i \in Nat
          /\ DOMAIN values = DOMAIN program.ulong /\ token = argv[i]
  BY <1>inv, TokenRead DEF token
<1>shape. /\ \/ token.option \in DOMAIN program.ulong
             \/ token.option \in program.plain \union {"?"} /\ token.arg = NoArg
             \/ token.option = "operand" /\ token.arg = Junk
          /\ NoArg # Junk /\ NoArg # Huge /\ Junk # Huge
  BY <1>token, TokenShapes
<1>names. /\ "?" \notin DOMAIN program.ulong /\ "operand" \notin DOMAIN program.ulong
          /\ "f" \notin DOMAIN program.ulong /\ "v" \notin DOMAIN program.ulong
          /\ "f" \in program.plain => program = gwgd
          /\ program = gwgd => DOMAIN program.ulong = {"p"}
          /\ "operand" \notin program.plain /\ "?" \notin program.plain
  BY <1>token, OptionNames
<1>errors. /\ \A name \in {"INVALID_OPTION", "ARGUMENT_OUT_OF_RANGE", "INVALID_ARGUMENT_VALUE"} :
                Code(name) \in Nat /\ Code(name) # 0 /\ program.errors[Code(name)] = name
           /\ program = gwgd =>
                /\ Code("CONFLICTING_OPTIONS") \in Nat /\ Code("CONFLICTING_OPTIONS") # 0
                /\ program.errors[Code("CONFLICTING_OPTIONS")] = "CONFLICTING_OPTIONS"
                /\ program.errors[1] = "INVALID_OPTION"
                /\ program.errors[2] = "ARGUMENT_OUT_OF_RANGE"
  BY <1>token, ErrorLists, CodeOfError
<1>k. PICK k : k = i
  OBVIOUS
<1>right. ASSUME ~Wrong(i), NextToken, UNCHANGED <<program, argv, values, code, phase>>,
                 token.option \notin DOMAIN values,
                 program = gwgd =>
                   mode' = IF token.option = "t" THEN "THREAD"
                           ELSE IF token.option = "f" THEN "FORKING" ELSE mode
          PROVE  OptionsInv'
  <2>1. \A option \in DOMAIN values :
          values'[option] = IF token.option = option THEN Kept(option, token.arg.value)
                            ELSE values[option]
    BY <1>right
  <2>2. ReadInv'
    BY <1>inv, <1>right, <2>1, RightTokenRead
  <2> QED
    BY <1>inv, <1>right, <2>2, LoopGoesOn DEF NextToken
<1>wrong. ASSUME Wrong(k), Recorded(k)', NextToken, UNCHANGED <<program, argv>>,
                 values' \in [DOMAIN program.ulong -> Nat], code' \in Nat \ {0},
                 phase' = "parsed"
          PROVE  OptionsInv'
  <2>1. FaultInv'
    BY <1>inv, <1>k, <1>wrong, WrongTokenRead
  <2> QED
    BY <1>wrong, <2>1, LoopEnds DEF NextToken
<1>1. CASE SkipOperand
  <2>1. /\ token.option = "operand" /\ NextToken
        /\ UNCHANGED <<program, argv, values, mode, code, phase>>
    BY <1>1 DEF SkipOperand
  <2>2. ~Wrong(i)
    BY <1>token, <2>1 DEF Wrong
  <2> QED
    BY <1>right, <1>token, <1>names, <2>1, <2>2
<1>2. CASE UnknownOption
  <2>1. /\ token.option = "?" /\ NextToken /\ code' = Code("INVALID_OPTION")
        /\ phase' = "parsed" /\ UNCHANGED <<program, argv, values>>
    BY <1>2 DEF UnknownOption, Fail
  <2>2. Wrong(k) /\ FaultKind(argv[k]) = "INVALID_OPTION"
    <3>1. argv[k].option = "?" /\ argv[k].arg # Junk
      BY <1>token, <1>k, <1>shape, <1>names, <2>1
    <3> QED
      BY <3>1 DEF Wrong, FaultKind
  <2>3. Recorded(k)'
    BY <1>errors, <2>1, <2>2 DEF Recorded, Silent, FaultKind
  <2> QED
    BY <1>wrong, <1>inv, <1>errors, <2>1, <2>2, <2>3
<1>3. CASE BadNumber
  <2>1. /\ token.option \in DOMAIN values /\ safe_parse_ulong_option # "SUCCESS" /\ NextToken
        /\ values' = [values EXCEPT ![token.option] = Stored]
        /\ code' = IF program = gwgd THEN LibCode(safe_parse_ulong_option)
                   ELSE Code(safe_parse_ulong_option)
        /\ error_option' = token.option /\ error_arg' = token.arg.text
        /\ phase' = "parsed" /\ UNCHANGED <<program, argv>>
    BY <1>3 DEF BadNumber, Fail
  <2>2. token.option \notin {"?", "operand", "f"}
    BY <1>token, <1>names, <2>1
  <2>3. \/ token.arg = Junk /\ safe_parse_ulong_option = "INVALID_ARGUMENT_VALUE"
        \/ token.arg = Huge /\ safe_parse_ulong_option = "ARGUMENT_OUT_OF_RANGE"
    BY <2>1 DEF safe_parse_ulong_option
  <2>4. Wrong(k) /\ FaultKind(argv[k]) = safe_parse_ulong_option
    BY <1>token, <1>shape, <1>k, <2>2, <2>3 DEF Wrong, FaultKind
  <2>5. LibCode("INVALID_ARGUMENT_VALUE") = 1 /\ LibCode("ARGUMENT_OUT_OF_RANGE") = 2
    BY DEF LibCode
  <2>6. PICK kind : kind = safe_parse_ulong_option
    OBVIOUS
  <2>7. kind \in {"INVALID_ARGUMENT_VALUE", "ARGUMENT_OUT_OF_RANGE"}
    BY <2>3, <2>6
  <2>8. /\ code' \in Nat \ {0}
        /\ IF Silent(kind) THEN program.errors[code'] = "INVALID_OPTION"
           ELSE program.errors[code'] = kind
    BY <1>errors, <2>1, <2>5, <2>6, <2>7 DEF Silent
  <2>9. Recorded(k)'
    <3>1. FaultKind(argv'[k]) = kind /\ Silent(kind)' = Silent(kind)
      BY <2>1, <2>4, <2>6 DEF Silent
    <3>2. program' = program /\ argv'[k] = token /\ token.option # "f"
      BY <1>token, <1>k, <2>1, <2>2
    <3>3. FaultKind(argv[k])' = FaultKind(argv'[k])
      BY DEF FaultKind
    <3> QED
      BY <2>1, <2>8, <3>1, <3>2, <3>3 DEF Recorded
  <2>10. values' \in [DOMAIN program.ulong -> Nat]
    BY <1>inv, <2>1, StoredIsKept
  <2> QED
    BY <1>wrong, <2>1, <2>4, <2>8, <2>9, <2>10
<1>4. CASE BadPort
  <2>1. /\ token.option \in DOMAIN values /\ safe_parse_ulong_option = "SUCCESS" /\ NextToken
        /\ program = gwgd /\ token.arg.value > MAX_PORT
        /\ values' = [values EXCEPT ![token.option] = Stored]
        /\ code' = Code("ARGUMENT_OUT_OF_RANGE")
        /\ error_option' = token.option /\ error_arg' = token.arg.text
        /\ phase' = "parsed" /\ UNCHANGED <<program, argv>>
    BY <1>4 DEF BadPort, PortTooLarge, Fail
  <2>2. token.option = "p" /\ token.arg # Junk
    <3>1. token.option = "p"
      BY <1>token, <1>names, <2>1
    <3>2. token.arg # Junk
      BY <2>1 DEF safe_parse_ulong_option
    <3> QED
      BY <3>1, <3>2
  <2>3. Wrong(k) /\ FaultKind(argv[k]) = "ARGUMENT_OUT_OF_RANGE"
    BY <1>token, <1>k, <2>1, <2>2 DEF Wrong, FaultKind
  <2>4. Recorded(k)'
    <3>1. FaultKind(argv'[k]) = "ARGUMENT_OUT_OF_RANGE" /\ argv'[k] = token
      BY <1>token, <1>k, <2>1, <2>3
    <3> QED
      BY <1>errors, <2>1, <2>2, <3>1 DEF Recorded, Silent, FaultKind
  <2>5. values' \in [DOMAIN program.ulong -> Nat]
    BY <1>inv, <2>1, StoredIsKept
  <2> QED
    BY <1>wrong, <1>errors, <2>1, <2>3, <2>4, <2>5
<1>5. CASE GoodNumber
  <2>1. /\ token.option \in DOMAIN values /\ safe_parse_ulong_option = "SUCCESS" /\ NextToken
        /\ ~PortTooLarge /\ values' = [values EXCEPT ![token.option] = Stored]
        /\ UNCHANGED <<program, argv, mode, code, phase>>
    BY <1>5 DEF GoodNumber
  <2>2. token.option \notin {"?", "f"} /\ token.arg \notin {Junk, Huge}
    <3>1. token.option \notin {"?", "f"}
      BY <1>token, <1>names, <2>1
    <3>2. token.arg \notin {Junk, Huge}
      BY <2>1 DEF safe_parse_ulong_option
    <3> QED
      BY <3>1, <3>2
  <2>3. ~Wrong(i)
    BY <1>token, <2>1, <2>2 DEF Wrong, PortTooLarge
  <2>4. /\ values' \in [DOMAIN program.ulong -> Nat]
        /\ \A option \in DOMAIN values :
             values'[option] = IF token.option = option THEN Kept(option, token.arg.value)
                               ELSE values[option]
    BY <1>inv, <2>1, StoredIsKept
  <2>5. program = gwgd => token.option \notin {"t", "f"}
    BY <1>token, <1>names, <2>1
  <2>6. ReadInv'
    <3>1. DOMAIN values' = DOMAIN values
      BY <1>token, <2>4
    <3>2. program = gwgd =>
            mode' = IF token.option = "t" THEN "THREAD"
                    ELSE IF token.option = "f" THEN "FORKING" ELSE mode
      BY <2>1, <2>5
    <3> QED
      BY <1>inv, <2>1, <2>3, <2>4, <3>1, <3>2, RightTokenRead
  <2> QED
    BY <2>1, <2>4, <2>6, LoopGoesOn DEF NextToken
<1>plain. ASSUME token.option \in {"v", "t", "f"}, token.option \notin DOMAIN program.ulong
          PROVE  token.arg = NoArg /\ token.option \in program.plain
  BY <1>plain, <1>shape
<1>6. CASE Verbose
  <2>1. token.option = "v" /\ NextToken /\ UNCHANGED <<program, argv, values, mode, code, phase>>
    BY <1>6 DEF Verbose
  <2>2. token.arg = NoArg /\ token.option \notin DOMAIN values
    BY <1>plain, <1>names, <1>token, <2>1
  <2>3. ~Wrong(i)
    BY <1>token, <1>shape, <2>1, <2>2 DEF Wrong
  <2> QED
    BY <1>right, <2>1, <2>2, <2>3
<1>7. CASE ThreadMode
  <2>1. /\ token.option = "t" /\ program = gwgd /\ NextToken /\ mode' = "THREAD"
        /\ UNCHANGED <<program, argv, values, code, phase>>
    BY <1>7 DEF ThreadMode
  <2>2. token.arg = NoArg /\ token.option \notin DOMAIN values
    BY <1>plain, <1>names, <1>token, <2>1
  <2>3. ~Wrong(i)
    BY <1>token, <1>shape, <2>1, <2>2 DEF Wrong
  <2> QED
    BY <1>right, <2>1, <2>2, <2>3
<1>8. CASE ForkingMode
  <2>1. /\ token.option = "f" /\ mode # "THREAD" /\ NextToken /\ mode' = "FORKING"
        /\ UNCHANGED <<program, argv, values, code, phase>>
    BY <1>8 DEF ForkingMode
  <2>2. token.arg = NoArg /\ token.option \notin DOMAIN values /\ program = gwgd
    BY <1>plain, <1>names, <1>token, <2>1
  <2>3. ~HasRead("t")
    BY <1>inv, <2>1, <2>2 DEF ReadInv
  <2>4. ~Wrong(i)
    BY <1>token, <1>shape, <2>1, <2>2, <2>3 DEF Wrong, HasRead
  <2> QED
    BY <1>right, <2>1, <2>2, <2>4
<1>9. CASE Conflict
  <2>1. /\ token.option = "f" /\ mode = "THREAD" /\ NextToken
        /\ code' = Code("CONFLICTING_OPTIONS") /\ error_option' = "f" /\ error_arg' = "t"
        /\ phase' = "parsed" /\ UNCHANGED <<program, argv, values>>
    BY <1>9 DEF Conflict, Fail
  <2>2. program = gwgd
    BY <1>plain, <1>names, <1>token, <2>1
  <2>3. HasRead("t")
    BY <1>inv, <2>1, <2>2 DEF ReadInv
  <2>4. Wrong(k) /\ FaultKind(argv[k]) = "CONFLICTING_OPTIONS"
    <3>1. argv[k] = token /\ \E j \in 1..(k - 1) : argv[j].option = "t"
      BY <1>token, <1>k, <2>3 DEF HasRead
    <3>2. Wrong(k)
      BY <2>1, <3>1, Zenon DEF Wrong
    <3>3. FaultKind(token) = "CONFLICTING_OPTIONS"
      <4>1. token.arg # Junk
        BY <1>plain, <1>shape, <1>names, <2>1
      <4> QED
        BY <2>1, <4>1 DEF FaultKind
    <3> QED
      BY <3>1, <3>2, <3>3
  <2>5. Recorded(k)'
    <3>1. argv'[k] = token /\ FaultKind(argv'[k]) = "CONFLICTING_OPTIONS"
      BY <1>token, <1>k, <2>1, <2>4
    <3>2. FaultKind(argv[k])' = FaultKind(argv'[k])
      BY DEF FaultKind
    <3>3. program.errors[code'] = "CONFLICTING_OPTIONS"
      BY <1>errors, <2>1, <2>2
    <3> QED
      BY <2>1, <3>1, <3>2, <3>3 DEF Recorded, Silent
  <2> QED
    BY <1>wrong, <1>inv, <1>errors, <2>1, <2>2, <2>4, <2>5
<1> QED
  BY <1>1, <1>2, <1>3, <1>4, <1>5, <1>6, <1>7, <1>8, <1>9

\* Every step after the loop keeps it.
LEMMA AfterLoopOptionsInv ==
  OptionsInv /\ (CheckRange \/ UnexpectedOperand \/ Parsed) => OptionsInv'
<1> SUFFICES ASSUME OptionsInv, CheckRange \/ UnexpectedOperand \/ Parsed
             PROVE  OptionsInv'
  OBVIOUS
<1>1. /\ phase = "options" /\ i > Len(argv) /\ phase' = "parsed"
      /\ UNCHANGED <<program, argv, i, values, mode>>
  BY DEF CheckRange, UnexpectedOperand, Parsed, Fail
<1>2. TypeInv /\ ReadInv /\ code = 0
  BY <1>1 DEF OptionsInv
<1>3. i = Len(argv) + 1
  <2>1. Len(argv) \in Nat /\ i \in 1..(Len(argv) + 1)
    BY <1>2, LenProperties DEF TypeInv
  <2> QED
    BY <1>1, <2>1
<1>4. ReadInv' /\ InvalidRange' = InvalidRange /\ Operands' = Operands
  BY <1>1, <1>2, ReadKept
<1>5. ASSUME code' \in Nat PROVE TypeInv'
  BY <1>1, <1>2, <1>5 DEF TypeInv
<1>6. CASE CheckRange \/ UnexpectedOperand
  <2>1. \/ InvalidRange /\ code' = Code("INVALID_RANGE")
        \/ Operands # {} /\ code' = Code("UNEXPECTED_ARGUMENT")
    BY <1>6 DEF CheckRange, UnexpectedOperand, Fail
  <2>2. code' \in Nat /\ code' # 0
    <3>1. CASE InvalidRange /\ code' = Code("INVALID_RANGE")
      <4>1. program = dpnum /\ program \in Programs
        BY <1>2, <3>1 DEF InvalidRange, TypeInv
      <4>2. \E k \in 1..Len(program.errors) : program.errors[k] = "INVALID_RANGE"
        BY <4>1, ErrorLists
      <4> QED
        BY <3>1, <4>1, <4>2, CodeOfError
    <3>2. CASE code' = Code("UNEXPECTED_ARGUMENT")
      <4>1. \E k \in 1..Len(program.errors) : program.errors[k] = "UNEXPECTED_ARGUMENT"
        BY <1>2, ErrorLists DEF TypeInv
      <4> QED
        BY <1>2, <3>2, <4>1, CodeOfError DEF TypeInv
    <3> QED
      BY <2>1, <3>1, <3>2
  <2>3. FaultInv'
    BY <1>1, <1>3, <1>4, <2>1 DEF FaultInv
  <2> QED
    BY <1>1, <1>5, <2>2, <2>3 DEF OptionsInv
<1>7. CASE Parsed
  <2>1. ~InvalidRange /\ Operands = {} /\ code' = code
    BY <1>7 DEF Parsed
  <2>2. code' \in Nat
    BY <1>2, <2>1
  <2> QED
    BY <1>1, <1>2, <1>3, <1>4, <1>5, <2>1, <2>2 DEF OptionsInv
<1> QED
  BY <1>6, <1>7

LEMMA ErrorOptionsInv == OptionsInv /\ process_error => OptionsInv'
<1> SUFFICES ASSUME OptionsInv, process_error PROVE OptionsInv'
  OBVIOUS
<1>1. /\ phase = "parsed" /\ phase' = IF code = 0 THEN "run" ELSE "exit"
      /\ UNCHANGED <<program, argv, i, values, mode, error_option, error_arg, code>>
      /\ code # 0 => message' = IF program.errors[code] = "INVALID_OPTION" THEN <<>>
                                ELSE <<program.errors[code], error_option, error_arg>>
  BY DEF process_error
<1>2. TypeInv'
  BY <1>1 DEF OptionsInv, TypeInv
<1>3. /\ ReadInv => ReadInv'
      /\ FaultInv => FaultInv'
      /\ InvalidRange' = InvalidRange /\ Operands' = Operands
  BY <1>1, ReadKept
<1>4. CASE code = 0
  BY <1>1, <1>2, <1>3, <1>4 DEF OptionsInv
<1>5. CASE code # 0
  <2>1. phase' = "exit" /\ code' # 0 /\ FaultInv'
    BY <1>1, <1>3, <1>5 DEF OptionsInv
  <2>2. message' = IF program'.errors[code'] = "INVALID_OPTION" THEN <<>>
                   ELSE <<program'.errors[code'], error_option', error_arg'>>
    BY <1>1, <1>5
  <2> QED
    BY <1>2, <2>1, <2>2 DEF OptionsInv
<1> QED
  BY <1>4, <1>5

LEMMA NextOptionsInv == OptionsInv /\ [Next]_vars => OptionsInv'
<1> SUFFICES ASSUME OptionsInv, [Next]_vars PROVE OptionsInv'
  OBVIOUS
<1>1. CASE UNCHANGED vars
  <2>1. UNCHANGED <<program, argv, i, values, mode, error_option, error_arg, code, phase,
                    message>>
    BY <1>1 DEF vars
  <2>2. /\ ReadInv => ReadInv'
        /\ FaultInv => FaultInv'
        /\ InvalidRange' = InvalidRange /\ Operands' = Operands
    BY <2>1, ReadKept
  <2>3. TypeInv'
    BY <2>1 DEF OptionsInv, TypeInv
  <2> QED
    BY <2>1, <2>2, <2>3 DEF OptionsInv
<1>2. CASE SkipOperand \/ UnknownOption \/ BadNumber \/ BadPort \/ GoodNumber
             \/ Verbose \/ ThreadMode \/ ForkingMode \/ Conflict
  <2>1. Reading
    BY <1>2 DEF SkipOperand, UnknownOption, BadNumber, BadPort, GoodNumber, Verbose,
                ThreadMode, ForkingMode, Conflict
  <2> QED
    BY <1>2, <2>1, LoopOptionsInv
<1> QED
  BY <1>1, <1>2, AfterLoopOptionsInv, ErrorOptionsInv DEF Next, parse_flags, Terminated

LEMMA OptionsInvAlways == Spec => []OptionsInv
BY InitOptionsInv, NextOptionsInv, PTL DEF Spec

-----------------------------------------------------------------------------
(* The theorems.                                                           *)

\* The least and the largest of a set of numbers.
LEMMA LeastIs ==
  ASSUME NEW S, S \subseteq Int, NEW x \in S, \A y \in S : x =< y
  PROVE  Min(S) = x
<1>1. \A z \in S : (\A y \in S : z =< y) => z = x
  OBVIOUS
<1> QED
  BY <1>1 DEF Min

LEMMA LargestIs ==
  ASSUME NEW S, S \subseteq Int, NEW x \in S, \A y \in S : x >= y
  PROVE  Max(S) = x
<1>1. \A z \in S : (\A y \in S : z >= y) => z = x
  OBVIOUS
<1> QED
  BY <1>1 DEF Max

\* When all has been read, the value of an option is the last one given.
LEMMA LastIsLastGiven ==
  ASSUME TypeInv, i = Len(argv) + 1, NEW option, LastOf(option)
  PROVE  values[option] = LastGiven(option)
<1>1. Len(argv) \in Nat /\ DOMAIN argv = 1..Len(argv) /\ i - 1 = Len(argv)
  BY LenProperties DEF TypeInv
<1>2. PICK given : given = {k \in DOMAIN argv : argv[k].option = option}
  OBVIOUS
<1>3. CASE /\ \A k \in 1..(i - 1) : argv[k].option # option
           /\ values[option] = program.ulong[option]
  <2>1. given = {}
    BY <1>1, <1>2, <1>3
  <2> QED
    BY <1>2, <1>3, <2>1 DEF LastGiven
<1>4. ASSUME NEW k \in 1..(i - 1), argv[k].option = option,
             \A j \in (k + 1)..(i - 1) : argv[j].option # option,
             values[option] = Kept(option, argv[k].arg.value)
      PROVE  values[option] = LastGiven(option)
  <2>1. k \in given /\ given \subseteq Int
    BY <1>1, <1>2, <1>4
  <2>2. \A j \in given : k >= j
    <3>1. SUFFICES ASSUME NEW j \in 1..Len(argv), argv[j].option = option, j > k PROVE FALSE
      BY <1>1, <1>2
    <3>2. j \in (k + 1)..(i - 1)
      BY <1>1, <3>1
    <3> QED
      BY <1>4, <3>1, <3>2
  <2>3. Max(given) = k
    BY <2>1, <2>2, LargestIs
  <2> QED
    BY <1>2, <1>4, <2>1, <2>3 DEF LastGiven, Kept
<1> QED
  BY <1>3, <1>4 DEF LastOf

\* When all has been read, nothing of it was wrong, the values are those last given, and
\* the mode is the one asked for.
LEMMA AllRead ==
  ASSUME TypeInv, i = Len(argv) + 1, ReadInv
  PROVE  /\ AllRight
         /\ \A option \in DOMAIN values : values[option] = LastGiven(option)
         /\ program = dpnum => (InvalidRange <=> ~(LastGiven("s") =< LastGiven("e")))
         /\ program = gwgd =>
              mode = IF Given("t") THEN "THREAD" ELSE IF Given("f") THEN "FORKING" ELSE "BLOCKING"
<1>1. Len(argv) \in Nat /\ DOMAIN argv = 1..Len(argv) /\ i - 1 = Len(argv)
  BY LenProperties DEF TypeInv
<1>2. AllRight
  BY <1>1 DEF ReadInv, AllRight
<1>3. \A option \in DOMAIN values : values[option] = LastGiven(option)
  BY LastIsLastGiven DEF ReadInv
<1>4. ASSUME program = dpnum PROVE InvalidRange <=> ~(LastGiven("s") =< LastGiven("e"))
  <2>1. "s" \in DOMAIN values /\ "e" \in DOMAIN values
    BY <1>4, OptionNames DEF TypeInv
  <2>2. values["s"] \in Nat /\ values["e"] \in Nat
    BY <2>1 DEF TypeInv
  <2>3. values["s"] = LastGiven("s") /\ values["e"] = LastGiven("e")
    BY <1>3, <2>1
  <2> QED
    BY <1>4, <2>2, <2>3 DEF InvalidRange
<1>5. \A option : HasRead(option) <=> Given(option)
  BY <1>1 DEF HasRead, Given
<1> QED
  BY <1>2, <1>3, <1>4, <1>5 DEF ReadInv

\* For command lines of any length: a program starts exactly with one in which no token
\* is wrong, with the last value given for every option and the mode asked for.
THEOREM ProgramsStartWithWhatWasGiven == Spec => []StartsWithWhatWasGiven
<1>1. OptionsInv => StartsWithWhatWasGiven
  <2> SUFFICES ASSUME OptionsInv, phase \in {"run", "exit"} PROVE StartsWithWhatWasGiven
    BY DEF StartsWithWhatWasGiven
  <2> DEFINE right == /\ AllRight /\ Operands = {}
                      /\ program = dpnum => LastGiven("s") =< LastGiven("e")
             asked == CASE Given("t") -> "THREAD"
                        [] Given("f") /\ ~Given("t") -> "FORKING"
                        [] OTHER -> "BLOCKING"
             valuesAreLast == \A option \in DOMAIN values : values[option] = LastGiven(option)
  <2>1. TypeInv
    BY DEF OptionsInv
  <2>2. ASSUME phase = "run"
        PROVE  right /\ valuesAreLast /\ (program = gwgd => mode = asked)
    <3>1. i = Len(argv) + 1 /\ ReadInv /\ Operands = {} /\ ~InvalidRange
      BY <2>2 DEF OptionsInv
    <3>2. /\ AllRight
          /\ \A option \in DOMAIN values : values[option] = LastGiven(option)
          /\ program = dpnum => (InvalidRange <=> ~(LastGiven("s") =< LastGiven("e")))
          /\ program = gwgd =>
               mode = IF Given("t") THEN "THREAD"
                      ELSE IF Given("f") THEN "FORKING" ELSE "BLOCKING"
      BY <2>1, <3>1, AllRead
    <3>3. right
      BY <3>1, <3>2
    <3>4. program = gwgd => mode = asked
      BY <3>2
    <3> QED
      BY <3>2, <3>3, <3>4
  <2>3. ASSUME phase = "exit" PROVE ~right
    <3>1. FaultInv
      BY <2>3 DEF OptionsInv
    <3>2. ASSUME NEW k \in DOMAIN argv, Wrong(k) PROVE ~right
      BY <3>2 DEF AllRight
    <3>3. ASSUME i = Len(argv) + 1, ReadInv, InvalidRange \/ Operands # {} PROVE ~right
      <4>1. program = dpnum => (InvalidRange <=> ~(LastGiven("s") =< LastGiven("e")))
        BY <2>1, <3>3, AllRead
      <4>2. InvalidRange => program = dpnum
        BY DEF InvalidRange
      <4> QED
        BY <3>3, <4>1, <4>2
    <3> QED
      BY <3>1, <3>2, <3>3 DEF FaultInv
  <2>4. phase = "run" <=> right
    <3> HIDE DEF right
    <3> QED
      BY <2>2, <2>3
  <2>5. /\ right => valuesAreLast
        /\ right /\ program = gwgd => mode = asked
    <3> HIDE DEF right, asked, valuesAreLast
    <3> QED
      BY <2>2, <2>4
  <2>6. /\ phase \in {"run", "exit"} =>
             /\ phase = "run" <=> right
             /\ right => valuesAreLast
             /\ right /\ program = gwgd => mode = asked
    <3> HIDE DEF right, asked, valuesAreLast
    <3> QED
      BY <2>4, <2>5
  <2> QED
    BY <2>6, Zenon DEF StartsWithWhatWasGiven
<1> QED
  BY <1>1, OptionsInvAlways, PTL

\* For command lines of any length: the message is about the first wrong token, its
\* option and its argument, and there is none where getopt() reports it or where gwgd
\* takes the code of its library for another error.
THEOREM FirstFaultsAreReported == Spec => []ReportsTheFirstFault
<1>1. OptionsInv => ReportsTheFirstFault
  <2> SUFFICES ASSUME OptionsInv, phase = "exit", ~AllRight PROVE ReportsTheFirstFault
    BY DEF ReportsTheFirstFault
  <2>1. /\ TypeInv /\ FaultInv
        /\ message = IF program.errors[code] = "INVALID_OPTION" THEN <<>>
                     ELSE <<program.errors[code], error_option, error_arg>>
    BY DEF OptionsInv
  <2>2. PICK k \in DOMAIN argv : Wrong(k) /\ (\A j \in 1..(k - 1) : ~Wrong(j)) /\ Recorded(k)
    <3>1. ~(i = Len(argv) + 1 /\ ReadInv)
      BY <2>1, AllRead
    <3> QED
      BY <2>1, <3>1 DEF FaultInv
  <2>3. FirstWrong = k
    <3>1. PICK S : S = {j \in DOMAIN argv : Wrong(j)}
      OBVIOUS
    <3>2. Len(argv) \in Nat /\ DOMAIN argv = 1..Len(argv)
      BY <2>1, LenProperties DEF TypeInv
    <3>3. k \in S /\ S \subseteq Int
      BY <2>2, <3>1, <3>2
    <3>4. \A j \in S : k =< j
      <4>1. SUFFICES ASSUME NEW j \in 1..Len(argv), Wrong(j), j < k PROVE FALSE
        BY <2>2, <3>1, <3>2
      <4>2. j \in 1..(k - 1)
        BY <2>2, <3>2, <4>1
      <4> QED
        BY <2>2, <4>1, <4>2
    <3>5. Min(S) = k
      BY <3>3, <3>4, LeastIs
    <3> QED
      BY <3>1, <3>5 DEF FirstWrong
  <2>4. PICK kind : kind = FaultKind(argv[k])
    OBVIOUS
  <2>5. kind # "INVALID_OPTION" \/ Silent(kind)
    BY DEF Silent
  <2>6. message = IF Silent(kind) THEN <<>>
                  ELSE <<kind, argv[k].option,
                         IF argv[k].option = "f" THEN "t" ELSE argv[k].arg.text>>
    BY <2>1, <2>2, <2>4, <2>5 DEF Recorded
  <2> QED
    BY <2>3, <2>4, <2>6 DEF ReportsTheFirstFault
<1> QED
  BY <1>1, OptionsInvAlways, PTL

================================================================================
