------------------------------ MODULE MCGwgdGame -------------------------------
(* Fortunes and lines for GwgdGame. *)
EXTENDS GwgdGame

\* One word, two words, no words, nothing at all, and more than the buffer holds.
SomeOutputs ==
  {<<"a">>, <<"a", "b", " ", "a">>, <<"!">>, <<>>, [i \in 1..5 |-> "b"]}

SomeTexts == {<<"b">>}
SomeWords == {<<"b">>}

\* Empty, "R:", "R: a", "R: ab", "Q:", and a line that is neither but holds a word.
SomeLines ==
  {[begin |-> "", rest |-> None], [begin |-> "R:", rest |-> None],
   [begin |-> "R:", rest |-> <<"a">>], [begin |-> "R:", rest |-> <<"a", "b">>],
   [begin |-> "Q:", rest |-> None], [begin |-> "other", rest |-> <<"a">>]}

================================================================================
