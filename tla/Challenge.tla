------------------------------- MODULE Challenge -------------------------------
(***************************************************************************)
(* gwgd/util/chlng.c: a challenge is a text with one word hidden.  Texts   *)
(* and words are sequences of characters, as short as the hiding of words  *)
(* allows.                                                                 *)
(***************************************************************************)
EXTENDS Integers, Sequences, SequencesExt

CONSTANTS
  Letters,      \* the characters that isalpha() accepts
  BUFFER_SIZE   \* 1024

GAP == "_"

ASSUME ChallengeAssumption ==
  /\ GAP \in STRING \ Letters
  /\ BUFFER_SIZE \in Nat \ {0}

IsLetter(text, i) == i \in DOMAIN text /\ text[i] \in Letters

\* A slip in chlng_hide_word: prev_is_alpha is not looked at.
AnyLetter(text) == {i \in DOMAIN text : IsLetter(text, i)}

\* word_start_indexes: the letters with no letter before them.
WordStarts(text) ==
  {i \in DOMAIN text : IsLetter(text, i) /\ ~IsLetter(text, i - 1)}

\* The positions of the word that starts at i.
WordFrom(text, i) ==
  {j \in i..Len(text) : \A k \in i..j : IsLetter(text, k)}

WordAt(text, i) == SubSeq(text, i, i + Cardinality(WordFrom(text, i)) - 1)

HideWord(text, i) ==
  [j \in DOMAIN text |-> IF j \in WordFrom(text, i) THEN GAP ELSE text[j]]

\* What the text is after fortune has written its output: all of it, or, if
\* there is none, what it was.
Fetched(text, output) == IF output = <<>> THEN text ELSE output

\* fgets() with room for the terminator alone reads nothing and succeeds, so
\* that the loop that reads the output never ends.
NeverEnds(output) == Len(output) >= BUFFER_SIZE - 1

\* The challenges that may be made of a text: pairs of a text and a word.  A
\* text without words is left alone, and so is the word of the challenge before.
Challenges(text, word) ==
  IF WordStarts(text) = {} THEN {<<text, word>>}
  ELSE {<<HideWord(text, i), WordAt(text, i)>> : i \in WordStarts(text)}

-----------------------------------------------------------------------------
(* What a challenge promises.                                              *)

\* Filling one gap of the text with the word gives back the source, where the word
\* is a whole one.
Fills(word, text, source) ==
  \E i \in DOMAIN text :
    LET last == i + Len(word) - 1 IN
    /\ last \in i..Len(text)
    /\ \A j \in i..last : text[j] = GAP
    /\ source = SubSeq(text, 1, i - 1) \o word \o SubSeq(text, last + 1, Len(text))
    /\ ~IsLetter(source, i - 1) /\ ~IsLetter(source, last + 1)

================================================================================
