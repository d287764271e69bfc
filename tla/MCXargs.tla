-------------------------------- MODULE MCXargs --------------------------------
(* Every input of up to four bytes, and longer ones of the bytes that end    *)
(* an argument in different ways: short, just about as long as the storage,  *)
(* and behind as many arguments as the list holds.                           *)
EXTENDS Xargs

ShortInputs == BoundedSeq(Bytes, 4)
LongInputs == SeqOf({"a", " ", "'"}, 5)
Behind(prefix, inputs) == {prefix \o input : input \in inputs}

FiveBytes == [i \in 1..5 |-> "a"]
FourArgs == <<"a", " ", "a", " ", "a", " ", "a">>

AllInputs ==
  ShortInputs \union LongInputs
    \union Behind(FiveBytes, LongInputs)
    \union Behind(FiveBytes \o <<"a", "a">>, BoundedSeq(Bytes, 3))
    \union Behind(FourArgs, BoundedSeq(Bytes, 2))

\* Not a number, small counts, and the default, which exceeds every count.
CountsN == {-1, 0, 1, 2, 100}
================================================================================
