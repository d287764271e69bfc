---------------------------- MODULE GwgdGameProofs -----------------------------
(* Proofs about run_game() for any fortunes, any lines from the client and *)
(* any number of them.                                                     *)
EXTENDS GwgdGame, FiniteSetTheorems, SequenceTheorems, TLAPS

-----------------------------------------------------------------------------
(* The hiding of words, in texts of any length.                            *)

\* A set of positions that holds, with a position, all those from i to it, is the
\* interval of its size that starts at i.
LEMMA IntervalByCardinality ==
  ASSUME NEW i \in Int, NEW m \in Int, NEW W \in SUBSET (i..m), i \in W,
         \A j \in W : i..j \subseteq W,
         NEW n, n = Cardinality(W)
  PROVE  n \in Nat /\ n # 0 /\ i + n - 1 =< m /\ W = i..(i + n - 1)
<1>1. IsFiniteSet(W)
  BY FS_Interval, FS_Subset
<1>2. n \in Nat /\ n # 0
  BY <1>1, FS_CardinalityType, FS_EmptySet
<1>3. ASSUME NEW j \in W
      PROVE  j \in i..(i + n - 1)
  <2>1. j \in Int /\ i =< j
    OBVIOUS
  <2>2. Cardinality(i..j) = j - i + 1
    BY <2>1, FS_Interval
  <2>3. i..j \in SUBSET W
    OBVIOUS
  <2>4. Cardinality(i..j) =< n
    BY <1>1, <2>3, FS_Subset
  <2> QED
    BY <1>2, <2>1, <2>2, <2>4
<1>4. W = i..(i + n - 1)
  <2> DEFINE all == i..(i + n - 1)
  <2>1. IsFiniteSet(all)
    BY <1>2, FS_Interval
  <2>2. Cardinality(all) = n
    BY <1>2, FS_Interval
  <2>3. W \in SUBSET all
    BY <1>3
  <2> HIDE DEF all
  <2>4. W = all
    BY <2>1, <2>2, <2>3, FS_Subset
  <2> QED
    BY <2>4 DEF all
<1>5. i + n - 1 \in W
  <2>1. n >= 1
    BY <1>2
  <2>2. i + n - 1 \in i..(i + n - 1)
    BY <1>2, <2>1
  <2> QED
    BY <1>4, <2>2
<1>6. i + n - 1 =< m
  BY <1>2, <1>5
<1> QED
  BY <1>2, <1>4, <1>6

\* The word that starts at a word start is a non-empty interval of positions, and
\* ends at the end of the text or before something that is no letter.
LEMMA WordIsInterval ==
  ASSUME NEW fortune \in Seq(STRING), NEW i \in WordStarts(fortune),
         NEW n, n = Cardinality(WordFrom(fortune, i))
  PROVE  /\ n \in Nat /\ n # 0 /\ i \in 1..Len(fortune) /\ i + n - 1 =< Len(fortune)
         /\ WordFrom(fortune, i) = i..(i + n - 1)
         /\ ~IsLetter(fortune, i + n)
<1>1. Len(fortune) \in Nat /\ DOMAIN fortune = 1..Len(fortune)
  BY LenProperties
<1>2. i \in 1..Len(fortune) /\ IsLetter(fortune, i)
  BY <1>1 DEF WordStarts
<1>3. WordFrom(fortune, i) \in SUBSET (i..Len(fortune)) /\ i \in WordFrom(fortune, i)
  BY <1>1, <1>2 DEF WordFrom
<1>4. ASSUME NEW j \in WordFrom(fortune, i)
      PROVE  i..j \subseteq WordFrom(fortune, i)
  <2>1. j \in i..Len(fortune) /\ \A k \in i..j : IsLetter(fortune, k)
    BY DEF WordFrom
  <2>2. SUFFICES ASSUME NEW k \in i..j PROVE k \in WordFrom(fortune, i)
    OBVIOUS
  <2>3. k \in i..Len(fortune)
    BY <1>1, <1>2, <2>1
  <2>4. \A l \in i..k : l \in i..j
    BY <1>1, <1>2, <2>1
  <2> QED
    BY <2>1, <2>3, <2>4 DEF WordFrom
<1>5. n \in Nat /\ n # 0 /\ i + n - 1 =< Len(fortune) /\ WordFrom(fortune, i) = i..(i + n - 1)
  <2>1. i \in Int /\ Len(fortune) \in Int
    BY <1>1, <1>2
  <2>2. \A j \in WordFrom(fortune, i) : i..j \subseteq WordFrom(fortune, i)
    BY <1>4
  <2> QED
    BY <1>3, <2>1, <2>2, IntervalByCardinality, Zenon
<1>6. ~IsLetter(fortune, i + n)
  <2> SUFFICES ASSUME IsLetter(fortune, i + n) PROVE FALSE
    OBVIOUS
  <2>1. \A k \in i..(i + n - 1) : IsLetter(fortune, k)
    BY <1>2, <1>5 DEF WordFrom
  <2>2. i + n \in i..Len(fortune)
    BY <1>1, <1>2, <1>5 DEF IsLetter
  <2>3. \A k \in i..(i + n) : k = i + n \/ k \in i..(i + n - 1)
    BY <1>2, <1>5
  <2>4. \A k \in i..(i + n) : IsLetter(fortune, k)
    BY <2>1, <2>3
  <2>5. i + n \in WordFrom(fortune, i)
    BY <2>2, <2>4 DEF WordFrom
  <2>6. i + n \notin i..(i + n - 1)
    BY <1>2, <1>5
  <2> QED
    BY <1>5, <2>5, <2>6
<1> QED
  BY <1>2, <1>5, <1>6

\* Hiding keeps the length of the text.
LEMMA HideWordIsText ==
  ASSUME NEW fortune \in Seq(STRING), NEW i \in WordStarts(fortune)
  PROVE  /\ HideWord(fortune, i) \in Seq(STRING)
         /\ Len(HideWord(fortune, i)) = Len(fortune)
         /\ \A j \in 1..Len(fortune) :
              HideWord(fortune, i)[j] = IF j \in WordFrom(fortune, i) THEN GAP ELSE fortune[j]
<1>1. Len(fortune) \in Nat /\ DOMAIN fortune = 1..Len(fortune)
  BY LenProperties
<1>2. HideWord(fortune, i) \in [1..Len(fortune) -> STRING]
  <2>1. \A j \in 1..Len(fortune) : fortune[j] \in STRING
    BY ElementOfSeq
  <2>2. GAP \in STRING
    BY ChallengeAssumption
  <2>3. \A j \in 1..Len(fortune) :
          (IF j \in WordFrom(fortune, i) THEN GAP ELSE fortune[j]) \in STRING
    BY <2>1, <2>2
  <2> QED
    BY <1>1, <2>3, Zenon DEF HideWord
<1>3. HideWord(fortune, i) \in Seq(STRING)
  BY <1>1, <1>2, SeqDef
<1>4. Len(HideWord(fortune, i)) = Len(fortune)
  BY <1>1, <1>2, <1>3, LenProperties
<1> QED
  BY <1>1, <1>3, <1>4 DEF HideWord

\* The hidden word is not empty and has only letters.
LEMMA WordAtIsWord ==
  ASSUME NEW fortune \in Seq(STRING), NEW i \in WordStarts(fortune),
         NEW n, n = Cardinality(WordFrom(fortune, i))
  PROVE  /\ WordAt(fortune, i) \in Seq(STRING)
         /\ Len(WordAt(fortune, i)) = n
         /\ \A j \in 1..n : WordAt(fortune, i)[j] = fortune[i + j - 1]
         /\ \A j \in 1..n : WordAt(fortune, i)[j] \in Letters
<1>1. Len(fortune) \in Nat /\ DOMAIN fortune = 1..Len(fortune)
  BY LenProperties
<1>2. /\ n \in Nat /\ n # 0 /\ i \in 1..Len(fortune) /\ i + n - 1 =< Len(fortune)
      /\ WordFrom(fortune, i) = i..(i + n - 1)
  BY WordIsInterval
<1>3. \A k \in i..(i + n - 1) : fortune[k] \in STRING
  BY <1>1, <1>2, ElementOfSeq
<1>4. WordAt(fortune, i) = SubSeq(fortune, i, i + n - 1)
  BY DEF WordAt
<1>5. i \in Int /\ i + n - 1 \in Int /\ i =< i + n - 1 /\ (i + n - 1) - i + 1 = n
  BY <1>1, <1>2
<1>6. /\ WordAt(fortune, i) \in Seq(STRING)
      /\ Len(WordAt(fortune, i)) = n
      /\ \A j \in 1..n : WordAt(fortune, i)[j] = fortune[i + j - 1]
  BY <1>3, <1>4, <1>5, SubSeqProperties
<1>7. \A k \in i..(i + n - 1) : fortune[k] \in Letters
  <2>1. SUFFICES ASSUME NEW k \in i..(i + n - 1) PROVE fortune[k] \in Letters
    OBVIOUS
  <2>2. k \in WordFrom(fortune, i)
    BY <1>2
  <2>3. k \in i..Len(fortune) /\ \A l \in i..k : IsLetter(fortune, l)
    BY <2>2 DEF WordFrom
  <2>4. k \in i..k
    BY <1>2, <2>3
  <2> QED
    BY <2>3, <2>4 DEF IsLetter
<1>8. \A j \in 1..n : i + j - 1 \in i..(i + n - 1)
  BY <1>1, <1>2
<1> QED
  BY <1>6, <1>7, <1>8

\* Three pieces that agree with a sequence make it up.
LEMMA PiecesMakeSequence ==
  ASSUME NEW S, NEW s \in Seq(S), NEW a \in Seq(S), NEW b \in Seq(S), NEW c \in Seq(S),
         Len(a) + Len(b) + Len(c) = Len(s),
         \A j \in 1..Len(a) : a[j] = s[j],
         \A j \in 1..Len(b) : b[j] = s[Len(a) + j],
         \A j \in 1..Len(c) : c[j] = s[Len(a) + Len(b) + j]
  PROVE  s = a \o b \o c
<1> DEFINE ab == a \o b
           abc == ab \o c
<1>1. Len(a) \in Nat /\ Len(b) \in Nat /\ Len(c) \in Nat
  BY LenProperties
<1>2. /\ ab \in Seq(S) /\ Len(ab) = Len(a) + Len(b)
      /\ \A j \in 1..Len(a) + Len(b) : ab[j] = IF j =< Len(a) THEN a[j] ELSE b[j - Len(a)]
  BY ConcatProperties
<1>3. \A j \in 1..Len(ab) : ab[j] = s[j]
  <2>1. SUFFICES ASSUME NEW j \in 1..Len(ab) PROVE ab[j] = s[j]
    OBVIOUS
  <2> HIDE DEF ab
  <2>2. CASE j =< Len(a)
    <3>1. j \in 1..Len(a) /\ j \in 1..Len(a) + Len(b)
      BY <1>1, <1>2, <2>2
    <3> QED
      BY <1>2, <2>2, <3>1
  <2>3. CASE j > Len(a)
    <3>1. j - Len(a) \in 1..Len(b) /\ Len(a) + (j - Len(a)) = j
      BY <1>1, <1>2, <2>3
    <3>2. b[j - Len(a)] = s[Len(a) + (j - Len(a))]
      BY <3>1
    <3> QED
      BY <1>1, <1>2, <2>3, <3>1, <3>2
  <2> QED
    BY <1>1, <1>2, <2>2, <2>3
<1> HIDE DEF ab
<1>4. /\ abc \in Seq(S) /\ Len(abc) = Len(ab) + Len(c)
      /\ \A j \in 1..Len(ab) + Len(c) : abc[j] = IF j =< Len(ab) THEN ab[j] ELSE c[j - Len(ab)]
  <2>1. \A t \in Seq(S) :
          /\ t \o c \in Seq(S) /\ Len(t \o c) = Len(t) + Len(c)
          /\ \A j \in 1..Len(t) + Len(c) :
               (t \o c)[j] = IF j =< Len(t) THEN t[j] ELSE c[j - Len(t)]
    BY ConcatProperties
  <2> QED
    BY <1>2, <2>1
<1>5. Len(s) = Len(abc)
  BY <1>1, <1>2, <1>4
<1>6. \A j \in 1..Len(s) : s[j] = abc[j]
  <2>1. SUFFICES ASSUME NEW j \in 1..Len(s) PROVE s[j] = abc[j]
    OBVIOUS
  <2> HIDE DEF abc
  <2>2. CASE j =< Len(ab)
    BY <1>1, <1>2, <1>3, <1>4, <1>5, <2>2
  <2>3. CASE j > Len(ab)
    <3>1. j - Len(ab) \in 1..Len(c) /\ Len(a) + Len(b) + (j - Len(ab)) = j
      BY <1>1, <1>2, <1>4, <1>5, <2>3
    <3>2. c[j - Len(ab)] = s[Len(a) + Len(b) + (j - Len(ab))]
      BY <3>1
    <3> QED
      BY <1>1, <1>2, <1>4, <1>5, <2>3, <3>1, <3>2
  <2> QED
    BY <1>1, <1>2, <1>5, <2>2, <2>3
<1> HIDE DEF abc
<1>7. s = abc
  BY <1>4, <1>5, <1>6, SeqEqual
<1> QED
  BY <1>7 DEF abc, ab

\* The word that chlng_hide_word() hides fills the gap it leaves, in a text of any
\* length and for any of its words.
THEOREM HiddenWordFills ==
  ASSUME NEW fortune \in Seq(STRING), NEW i \in WordStarts(fortune)
  PROVE  Fills(WordAt(fortune, i), HideWord(fortune, i), fortune)
<1>1. PICK n : n = Cardinality(WordFrom(fortune, i))
  OBVIOUS
<1>2. PICK hidden : hidden = WordAt(fortune, i)
  OBVIOUS
<1>3. PICK gapped : gapped = HideWord(fortune, i)
  OBVIOUS
<1>4. PICK last : last = i + n - 1
  OBVIOUS
<1>5. /\ n \in Nat /\ n # 0 /\ i \in 1..Len(fortune) /\ last =< Len(fortune)
      /\ WordFrom(fortune, i) = i..last /\ ~IsLetter(fortune, i + n)
  BY <1>1, <1>4, WordIsInterval
<1>6. /\ hidden \in Seq(STRING) /\ Len(hidden) = n
      /\ \A j \in 1..n : hidden[j] = fortune[i + j - 1]
  BY <1>1, <1>2, WordAtIsWord
<1>7. /\ gapped \in Seq(STRING) /\ Len(gapped) = Len(fortune)
      /\ \A j \in 1..Len(fortune) : gapped[j] = IF j \in i..last THEN GAP ELSE fortune[j]
  BY <1>3, <1>5, HideWordIsText
<1>8. Len(fortune) \in Nat /\ DOMAIN gapped = 1..Len(fortune) /\ last \in i..Len(fortune)
  <2>1. Len(fortune) \in Nat /\ DOMAIN gapped = 1..Len(gapped)
    BY <1>7, LenProperties
  <2>2. last \in i..Len(fortune)
    BY <1>4, <1>5, <2>1
  <2> QED
    BY <1>7, <2>1, <2>2
<1>9. \A j \in i..last : gapped[j] = GAP
  <2>1. \A j \in i..last : j \in 1..Len(fortune)
    BY <1>5, <1>8
  <2> QED
    BY <1>7, <2>1
<1>10. fortune = SubSeq(gapped, 1, i - 1) \o hidden \o SubSeq(gapped, last + 1, Len(gapped))
  <2>1. PICK a : a = SubSeq(gapped, 1, i - 1)
    OBVIOUS
  <2>2. PICK c : c = SubSeq(gapped, last + 1, Len(fortune))
    OBVIOUS
  <2>3. \A j \in 1..Len(fortune) : gapped[j] \in STRING
    BY <1>7, ElementOfSeq
  <2>4. /\ a \in Seq(STRING) /\ Len(a) = i - 1
        /\ \A j \in 1..(i - 1) : a[j] = gapped[j]
    <3>1. i - 1 \in Int /\ 1 \in Int /\ \A j \in 1..(i - 1) : gapped[j] \in STRING
      BY <1>5, <1>8, <2>3
    <3>2. /\ a \in Seq(STRING)
          /\ Len(a) = IF 1 =< i - 1 THEN (i - 1) - 1 + 1 ELSE 0
          /\ \A j \in 1..((i - 1) - 1 + 1) : a[j] = gapped[1 + j - 1]
      BY <2>1, <3>1, SubSeqProperties
    <3> QED
      BY <1>5, <1>8, <3>2
  <2>5. /\ c \in Seq(STRING) /\ Len(c) = Len(fortune) - last
        /\ \A j \in 1..(Len(fortune) - last) : c[j] = gapped[last + j]
    <3>1. /\ last + 1 \in Int /\ Len(fortune) \in Int
          /\ \A j \in (last + 1)..Len(fortune) : gapped[j] \in STRING
      BY <1>5, <1>8, <2>3
    <3>2. /\ c \in Seq(STRING)
          /\ Len(c) = IF last + 1 =< Len(fortune) THEN Len(fortune) - (last + 1) + 1 ELSE 0
          /\ \A j \in 1..(Len(fortune) - (last + 1) + 1) : c[j] = gapped[(last + 1) + j - 1]
      BY <2>2, <3>1, SubSeqProperties
    <3> QED
      BY <1>5, <1>8, <3>2
  <2>6. Len(a) + Len(hidden) + Len(c) = Len(fortune)
    BY <1>4, <1>5, <1>6, <1>8, <2>4, <2>5
  <2>7. \A j \in 1..Len(a) : a[j] = fortune[j]
    BY <1>4, <1>5, <1>7, <1>8, <2>4
  <2>8. \A j \in 1..Len(hidden) : hidden[j] = fortune[Len(a) + j]
    BY <1>5, <1>6, <1>8, <2>4
  <2>9. \A j \in 1..Len(c) : c[j] = fortune[Len(a) + Len(hidden) + j]
    <3>1. Len(a) + Len(hidden) = last
      BY <1>4, <1>5, <1>6, <1>8, <2>4
    <3>2. SUFFICES ASSUME NEW j \in 1..Len(c) PROVE c[j] = fortune[last + j]
      BY <3>1
    <3>3. last + j \in 1..Len(fortune) /\ last + j \notin i..last
      BY <1>5, <1>8, <2>5
    <3>4. c[j] = gapped[last + j]
      BY <2>5
    <3> QED
      BY <1>7, <3>3, <3>4
  <2>10. fortune = a \o hidden \o c
    <3>1. a \in Seq(STRING) /\ hidden \in Seq(STRING) /\ c \in Seq(STRING)
      BY <1>6, <2>4, <2>5
    <3> QED
      BY <2>6, <2>7, <2>8, <2>9, <3>1, PiecesMakeSequence, Zenon
  <2> QED
    BY <1>7, <2>1, <2>2, <2>10
<1>11. ~IsLetter(fortune, i - 1) /\ ~IsLetter(fortune, last + 1)
  BY <1>4, <1>5, <1>8 DEF WordStarts
<1>12. last = i + Len(hidden) - 1 /\ i \in DOMAIN gapped
  BY <1>4, <1>5, <1>6, <1>8
<1>13. Fills(hidden, gapped, fortune)
  BY <1>7, <1>8, <1>9, <1>10, <1>11, <1>12 DEF Fills
<1> QED
  BY <1>2, <1>3, <1>13

-----------------------------------------------------------------------------
(* The inductive invariant.                                                *)

\* What may stand at read_buf + 3.
Strings == OldWords \union {line.rest : line \in Lines}

Messages ==
  [kind : {"greeting", "invalid", "passed"}]
    \union [kind : {"C"}, text : Seq(STRING)]
    \union [kind : {"wrong"}, guess : Strings, expected : Seq(STRING)]
    \union [kind : {"goodbye"}, wins : Nat, total : Nat]

\* What TypeOK needs: a line is counted as sent before it counts as a challenge.
DataInv ==
  /\ pc \in {"greet", "next", "read", "over", "hung", "killed"}
  /\ text \in Seq(STRING) /\ source \in Seq(STRING) /\ Len(text) = Len(source)
  /\ word \in Seq(STRING)
  /\ word \in OldWords \/ (word # <<>> /\ ToSet(word) \subseteq Letters)
  /\ keep_challenge \in BOOLEAN /\ closed \in BOOLEAN
  /\ win_count \in Nat /\ challenge_count \in Nat /\ lines \in Nat
  /\ win_count =< challenge_count
  /\ inbox \in Seq(Lines) /\ challenge_count + Len(inbox) =< lines
  /\ lines =< MaxLines
  /\ tail \in Strings
  /\ sent \in Seq(Messages)

\* A challenge is kept only from an invalid line to the next time it is shown.
KeptInv == keep_challenge => pc \notin {"greet", "read"}

\* What is allocated at each point of run_game().
HeldInv ==
  /\ outcome \in Outcomes \union {"none"}
  /\ pc = "over" <=> outcome # "none"
  /\ pc = "greet" => held = {"connfd", "args"}
  /\ pc \in {"next", "read"} => held = Resources
  /\ pc = "over" => held = Kept(outcome)
  /\ held \subseteq Resources

\* A challenge that is kept is still the one that was made of the source.
SolvableInv ==
  pc = "read" \/ keep_challenge =>
    WordStarts(source) = {} \/ Fills(word, text, source)

\* While the client is there the counters are what it was told; a goodbye is the
\* end of the game.
ScoreInv ==
  /\ ~closed => /\ win_count = Number({"passed"}, sent)
                /\ challenge_count = Number({"passed", "wrong"}, sent)
  /\ Goodbyes # {} => pc = "over"
  /\ ScoreIsWhatWasTold

GameInv == DataInv /\ KeptInv /\ HeldInv /\ SolvableInv /\ ScoreInv

\* The invariant holds initially.
LEMMA InitGameInv == Init => GameInv
<1> SUFFICES ASSUME Init PROVE GameInv
  OBVIOUS
<1>1. sent = <<>> /\ inbox = <<>> /\ win_count = 0 /\ challenge_count = 0 /\ lines = 0
  BY DEF Init
<1>2. sent \in Seq(Messages) /\ inbox \in Seq(Lines) /\ Len(inbox) = 0
  BY <1>1, EmptySeq
<1>3. DOMAIN sent = {}
  BY <1>1, <1>2, EmptySeq, LenProperties
<1>4. DataInv
  <2>1. text \in Seq(STRING) /\ word \in Seq(STRING) /\ word \in OldWords /\ source = text
    BY GameAssumption DEF Init
  <2>2. tail \in Strings
    BY DEF Init, Strings
  <2>3. /\ pc = "greet" /\ keep_challenge = FALSE /\ closed = FALSE
    BY DEF Init
  <2>4. /\ win_count \in Nat /\ challenge_count \in Nat /\ lines \in Nat
        /\ win_count =< challenge_count /\ challenge_count + Len(inbox) =< lines
        /\ lines =< MaxLines
    <3>1. MaxLines \in Nat
      BY GameAssumption
    <3> QED
      BY <1>1, <1>2, <3>1
  <2>5. pc \in {"greet", "next", "read", "over", "hung", "killed"}
    BY <2>3
  <2>6. Len(text) = Len(source) /\ source \in Seq(STRING)
    BY <2>1
  <2> QED
    BY <1>2, <2>1, <2>2, <2>3, <2>4, <2>5, <2>6, Zenon DEF DataInv
<1>5. KeptInv /\ SolvableInv
  BY DEF Init, KeptInv, SolvableInv
<1>6. HeldInv
  BY DEF Init, HeldInv, Resources, Outcomes
<1>7. ScoreInv
  <2>1. Goodbyes = {}
    BY <1>3 DEF Goodbyes
  <2>2. \A kinds : Number(kinds, sent) = 0
    <3>1. \A kinds : {k \in DOMAIN sent : sent[k].kind \in kinds} = {}
      BY <1>3
    <3> QED
      BY <3>1, FS_EmptySet DEF Number
  <2> QED
    BY <1>1, <1>3, <2>1, <2>2 DEF ScoreInv, ScoreIsWhatWasTold
<1> QED
  BY <1>4, <1>5, <1>6, <1>7 DEF GameInv

-----------------------------------------------------------------------------
(* What the actions have in common.                                        *)

\* A message is added at the end, if there is somebody to read it.
LEMMA WriteEffect ==
  ASSUME sent \in Seq(Messages), NEW m \in Messages, Write(m)
  PROVE  /\ sent' \in Seq(Messages)
         /\ closed => sent' = sent
         /\ ~closed => sent' = Append(sent, m)
<1>1. Append(sent, m) \in Seq(Messages)
  BY AppendProperties
<1> QED
  BY <1>1 DEF Write

\* A line read is one of the lines sent, and leaves fewer on their way; read_buf
\* holds a line of the client or what it held before.
LEMMA ReadLineEffect ==
  ASSUME DataInv, ReadLine
  PROVE  /\ inbox' \in Seq(Lines) /\ Len(inbox) \in Nat /\ Len(inbox') + 1 = Len(inbox)
         /\ tail' \in Strings
         /\ lines' = lines /\ closed' = closed
<1>1. inbox \in Seq(Lines) /\ inbox # <<>> /\ inbox' = Tail(inbox)
  BY DEF DataInv, ReadLine
<1>2. /\ Head(inbox) \in Lines /\ Tail(inbox) \in Seq(Lines)
      /\ Len(Tail(inbox)) = Len(inbox) - 1
  BY <1>1, HeadTailProperties
<1>3. Len(inbox) \in Nat
  BY <1>1, LenProperties
<1>4. Head(inbox).rest \in Strings /\ tail \in Strings
  BY <1>2 DEF Strings, DataInv
<1>5. tail' \in Strings
  BY <1>4 DEF ReadLine
<1>6. lines' = lines /\ closed' = closed
  BY DEF ReadLine
<1> QED
  BY <1>1, <1>2, <1>3, <1>4, <1>5, <1>6

\* A new challenge is the text of its source with a word of it hidden, or as it is
\* if the source has none.
LEMMA NewChallengeEffect ==
  ASSUME DataInv, NewChallenge
  PROVE  /\ text' \in Seq(STRING) /\ source' \in Seq(STRING) /\ Len(text') = Len(source')
         /\ word' \in Seq(STRING)
         /\ word' \in OldWords \/ (word' # <<>> /\ ToSet(word') \subseteq Letters)
         /\ WordStarts(source') = {} \/ Fills(word', text', source')
<1>1. PICK output \in Outputs : source' = Fetched(text, output)
  BY DEF NewChallenge
<1>2. source' \in Seq(STRING)
  BY <1>1, GameAssumption DEF Fetched, DataInv
<1>3. PICK c \in Challenges(source', word) : text' = c[1] /\ word' = c[2]
  BY DEF NewChallenge
<1>4. CASE WordStarts(source') = {}
  <2>1. c = <<source', word>>
    BY <1>3, <1>4 DEF Challenges
  <2>2. text' = source' /\ word' = word
    BY <1>3, <2>1
  <2> QED
    BY <1>2, <1>4, <2>2 DEF DataInv
<1>5. CASE WordStarts(source') # {}
  <2>1. PICK i \in WordStarts(source') : c = <<HideWord(source', i), WordAt(source', i)>>
    BY <1>3, <1>5 DEF Challenges
  <2>2. text' = HideWord(source', i) /\ word' = WordAt(source', i)
    BY <1>3, <2>1
  <2>3. text' \in Seq(STRING) /\ Len(text') = Len(source')
    BY <1>2, <2>2, HideWordIsText
  <2>4. PICK n : n = Cardinality(WordFrom(source', i))
    OBVIOUS
  <2>5. n \in Nat /\ n # 0
    BY <1>2, <2>4, WordIsInterval
  <2>6. word' \in Seq(STRING) /\ Len(word') = n /\ \A j \in 1..n : word'[j] \in Letters
    BY <1>2, <2>2, <2>4, WordAtIsWord
  <2>7. word' # <<>>
    BY <2>5, <2>6, EmptySeq
  <2>8. DOMAIN word' = 1..n
    BY <2>6, LenProperties
  <2>9. ToSet(word') \subseteq Letters
    BY <2>6, <2>8 DEF ToSet
  <2>10. Fills(word', text', source')
    BY <1>2, <2>2, HiddenWordFills
  <2> QED
    BY <1>2, <2>3, <2>6, <2>7, <2>9, <2>10
<1> QED
  BY <1>4, <1>5

-----------------------------------------------------------------------------
(* The invariant holds after every step: one lemma for each part of it.    *)

\* The counters, the lines and the texts stay what they should be.
LEMMA NextDataInv == DataInv /\ [Next]_vars => DataInv'
<1> SUFFICES ASSUME DataInv, [Next]_vars PROVE DataInv'
  OBVIOUS
<1>type. /\ win_count \in Nat /\ challenge_count \in Nat /\ lines \in Nat
         /\ win_count =< challenge_count /\ challenge_count + Len(inbox) =< lines
         /\ lines =< MaxLines /\ MaxLines \in Nat
         /\ inbox \in Seq(Lines) /\ Len(inbox) \in Nat
  <2>1. inbox \in Seq(Lines)
    BY DEF DataInv
  <2> QED
    BY <2>1, LenProperties, GameAssumption DEF DataInv
<1>sent. sent \in Seq(Messages)
  BY DEF DataInv
<1>text. /\ text \in Seq(STRING) /\ source \in Seq(STRING) /\ Len(text) = Len(source)
         /\ word \in Seq(STRING)
         /\ word \in OldWords \/ (word # <<>> /\ ToSet(word) \subseteq Letters)
  BY DEF DataInv
<1>tail. tail \in Strings
  BY DEF DataInv
<1>bool. keep_challenge \in BOOLEAN /\ closed \in BOOLEAN
  BY DEF DataInv
<1>pc. pc \in {"greet", "next", "read", "over", "hung", "killed"}
  BY DEF DataInv
\* What has to be shown of an action, by what it is about.
<1> DEFINE TextPart == /\ text \in Seq(STRING) /\ source \in Seq(STRING)
                       /\ Len(text) = Len(source) /\ word \in Seq(STRING)
                       /\ word \in OldWords \/ (word # <<>> /\ ToSet(word) \subseteq Letters)
           CountPart == /\ win_count \in Nat /\ challenge_count \in Nat /\ lines \in Nat
                        /\ win_count =< challenge_count
                        /\ challenge_count + Len(inbox) =< lines /\ lines =< MaxLines
           LinePart == inbox \in Seq(Lines) /\ tail \in Strings
           RestPart == /\ pc \in {"greet", "next", "read", "over", "hung", "killed"}
                       /\ keep_challenge \in BOOLEAN /\ closed \in BOOLEAN
<1>all. TextPart' /\ CountPart' /\ LinePart' /\ RestPart' /\ (sent \in Seq(Messages))'
        => DataInv'
  BY DEF DataInv
<1>same. UNCHANGED challenge_vars => TextPart'
  BY <1>text DEF challenge_vars
<1>1. CASE Greet \/ SameChallenge
  <2>1. PICK m \in Messages : Write(m)
    BY <1>1, <1>text DEF Greet, SameChallenge, Messages
  <2>2. (sent \in Seq(Messages))'
    BY <1>sent, <2>1, WriteEffect
  <2>3. TextPart'
    BY <1>1, <1>same DEF Greet, SameChallenge
  <2>4. CountPart' /\ LinePart' /\ RestPart'
    BY <1>1, <1>type, <1>tail, <1>bool
    DEF Greet, SameChallenge, score_vars, client_vars
  <2> QED
    BY <1>all, <2>2, <2>3, <2>4
<1>2. CASE NewChallenge
  <2>1. TextPart'
    BY <1>2, NewChallengeEffect
  <2>2. PICK m : m = [kind |-> "C", text |-> text']
    OBVIOUS
  <2>3. m \in Messages
    BY <2>1, <2>2 DEF Messages
  <2>4. (sent \in Seq(Messages))'
    BY <1>2, <1>sent, <2>2, <2>3, WriteEffect DEF NewChallenge
  <2>5. CountPart' /\ LinePart' /\ RestPart'
    BY <1>2, <1>type, <1>tail, <1>bool DEF NewChallenge, score_vars, client_vars
  <2> QED
    BY <1>all, <2>1, <2>4, <2>5
<1>3. CASE FetchHangs \/ FetchFails \/ Disconnect \/ Killed
  <2>1. TextPart'
    BY <1>3, <1>same DEF FetchHangs, FetchFails, Disconnect, Killed
  <2>2. CountPart' /\ LinePart' /\ RestPart' /\ sent' = sent
    BY <1>3, <1>type, <1>tail, <1>bool
    DEF FetchHangs, FetchFails, Disconnect, Killed, score_vars, client_vars
  <2> QED
    BY <1>all, <1>sent, <2>1, <2>2
<1>4. CASE TooShort \/ NoCommand \/ Quit \/ RightGuess \/ WrongGuess
  <2>1. ReadLine
    BY <1>4 DEF TooShort, NoCommand, AskAgain, Quit, RightGuess, WrongGuess
  <2>2. /\ inbox' \in Seq(Lines) /\ Len(inbox') + 1 = Len(inbox)
        /\ tail' \in Strings
        /\ lines' = lines /\ closed' = closed
    BY <2>1, ReadLineEffect
  <2>3. Len(inbox') \in Nat
    BY <2>2, LenProperties
  <2>4. TextPart'
    BY <1>4, <1>same DEF TooShort, NoCommand, AskAgain, Quit, RightGuess, WrongGuess
  <2>5. /\ challenge_count' \in {challenge_count, challenge_count + 1}
        /\ \/ win_count' = win_count
           \/ win_count' = win_count + 1 /\ challenge_count' = challenge_count + 1
    BY <1>4 DEF TooShort, NoCommand, AskAgain, Quit, RightGuess, WrongGuess, score_vars
  <2>6. CountPart'
    BY <1>type, <2>2, <2>3, <2>5
  <2>7. pc' \in {"next", "over"} /\ keep_challenge' \in BOOLEAN
    BY <1>4, <1>bool DEF TooShort, NoCommand, AskAgain, Quit, RightGuess, WrongGuess
  <2>8. LinePart' /\ RestPart'
    BY <1>bool, <2>2, <2>7
  <2>9. PICK m \in Messages : Write(m)
    BY <1>4, <1>type, <1>text, <2>2 DEF TooShort, NoCommand, AskAgain, Quit, RightGuess, WrongGuess, Messages
  <2>10. (sent \in Seq(Messages))'
    BY <1>sent, <2>9, WriteEffect
  <2> QED
    BY <1>all, <2>4, <2>6, <2>8, <2>10
<1>5. CASE SendLine
  <2>1. PICK line \in Lines : inbox' = Append(inbox, line)
    BY <1>5 DEF SendLine
  <2>2. inbox' \in Seq(Lines) /\ Len(inbox') = Len(inbox) + 1
    BY <1>type, <2>1, AppendProperties
  <2>3. TextPart'
    BY <1>5, <1>same DEF SendLine
  <2>4. CountPart'
    BY <1>5, <1>type, <2>2 DEF SendLine, score_vars
  <2>5. LinePart' /\ RestPart' /\ sent' = sent
    BY <1>5, <1>tail, <1>bool, <1>pc, <2>2 DEF SendLine
  <2> QED
    BY <1>all, <1>sent, <2>3, <2>4, <2>5
<1>6. CASE CloseConnection \/ UNCHANGED vars
  <2>1. TextPart'
    BY <1>6, <1>same DEF CloseConnection, vars
  <2>2. CountPart' /\ LinePart' /\ RestPart' /\ sent' = sent
    BY <1>6, <1>type, <1>tail, <1>bool, <1>pc
    DEF CloseConnection, vars, score_vars, client_vars
  <2> QED
    BY <1>all, <1>sent, <2>1, <2>2
<1> QED
  BY <1>1, <1>2, <1>3, <1>4, <1>5, <1>6 DEF Next, run_game

\* A challenge is kept by an invalid line alone, and forgotten when it is shown.
LEMMA NextKeptInv == DataInv /\ KeptInv /\ [Next]_vars => KeptInv'
<1> SUFFICES ASSUME DataInv, KeptInv, [Next]_vars PROVE KeptInv'
  OBVIOUS
<1> USE DEF KeptInv
<1>1. CASE Greet \/ NewChallenge \/ SameChallenge
  BY <1>1 DEF Greet, NewChallenge, SameChallenge
<1>2. CASE FetchHangs \/ FetchFails \/ Disconnect \/ Killed
  BY <1>2 DEF FetchHangs, FetchFails, Disconnect, Killed
<1>3. CASE TooShort \/ NoCommand \/ Quit \/ RightGuess \/ WrongGuess
  BY <1>3 DEF TooShort, NoCommand, AskAgain, Quit, RightGuess, WrongGuess
<1>4. CASE SendLine \/ CloseConnection \/ UNCHANGED vars
  BY <1>4 DEF SendLine, CloseConnection, vars
<1> QED
  BY <1>1, <1>2, <1>3, <1>4 DEF Next, run_game

\* Each way to end a game leaves what GameEnds says of it.
LEMMA NextHeldInv == HeldInv /\ [Next]_vars => HeldInv'
<1> SUFFICES ASSUME HeldInv, [Next]_vars PROVE HeldInv'
  OBVIOUS
<1> USE DEF HeldInv
<1>1. CASE Greet
  BY <1>1 DEF Greet
<1>2. CASE NewChallenge \/ SameChallenge \/ TooShort \/ NoCommand \/ RightGuess \/ WrongGuess
  <2>1. pc \in {"next", "read"} /\ pc' \in {"next", "read"} /\ held' = held /\ outcome' = outcome
    BY <1>2 DEF NewChallenge, SameChallenge, TooShort, NoCommand, AskAgain, RightGuess, WrongGuess, ReadLine
  <2> QED
    BY <2>1
<1>3. CASE FetchHangs \/ Killed
  <2>1. /\ pc # "over" /\ pc' \in {"hung", "killed"} /\ held' = held /\ outcome' = outcome
    BY <1>3 DEF FetchHangs, Killed
  <2> QED
    BY <2>1
<1>4. CASE FetchFails
  BY <1>4 DEF FetchFails, Kept, Outcomes
<1>5. CASE Disconnect
  BY <1>5 DEF Disconnect, Kept, Outcomes, Resources
<1>6. CASE Quit
  BY <1>6 DEF Quit, ReadLine, Kept, Outcomes, Resources
<1>7. CASE SendLine \/ CloseConnection \/ UNCHANGED vars
  BY <1>7 DEF SendLine, CloseConnection, vars
<1> QED
  BY <1>1, <1>2, <1>3, <1>4, <1>5, <1>6, <1>7 DEF Next, run_game

\* The challenge that is shown is new, and then it can be solved, or was shown before.
LEMMA NextSolvableInv == DataInv /\ KeptInv /\ SolvableInv /\ [Next]_vars => SolvableInv'
<1> SUFFICES ASSUME DataInv, KeptInv, SolvableInv, [Next]_vars PROVE SolvableInv'
  OBVIOUS
<1> USE DEF SolvableInv
<1>1. CASE Greet
  BY <1>1 DEF Greet, KeptInv, challenge_vars
<1>2. CASE NewChallenge
  BY <1>2, NewChallengeEffect
<1>3. CASE SameChallenge
  BY <1>3 DEF SameChallenge, challenge_vars
<1>4. CASE FetchHangs \/ FetchFails \/ Disconnect \/ Killed
  <2>1. pc' # "read" /\ keep_challenge' = keep_challenge /\ UNCHANGED challenge_vars
    BY <1>4 DEF FetchHangs, FetchFails, Disconnect, Killed
  <2> QED
    BY <2>1 DEF challenge_vars
<1>5. CASE TooShort \/ NoCommand \/ Quit \/ RightGuess \/ WrongGuess
  <2>1. pc = "read" /\ UNCHANGED challenge_vars
    BY <1>5 DEF TooShort, NoCommand, AskAgain, Quit, RightGuess, WrongGuess, ReadLine
  <2> QED
    BY <2>1 DEF challenge_vars
<1>6. CASE SendLine \/ CloseConnection \/ UNCHANGED vars
  <2>1. pc' = pc /\ keep_challenge' = keep_challenge /\ UNCHANGED challenge_vars
    BY <1>6 DEF SendLine, CloseConnection, vars
  <2> QED
    BY <2>1 DEF challenge_vars
<1> QED
  BY <1>1, <1>2, <1>3, <1>4, <1>5, <1>6 DEF Next, run_game

\* A message more: the number of messages of its kind grows by one, that of the
\* others does not.
LEMMA NumberOfAppend ==
  ASSUME NEW messages \in Seq(Messages), NEW m \in Messages, NEW kinds
  PROVE  /\ Number(kinds, messages) \in Nat
         /\ Number(kinds, Append(messages, m)) =
              Number(kinds, messages) + IF m.kind \in kinds THEN 1 ELSE 0
<1>1. PICK longer : longer = Append(messages, m)
  OBVIOUS
<1>2. PICK n : n = Len(messages)
  OBVIOUS
<1>3. n \in Nat /\ DOMAIN messages = 1..n
  BY <1>2, LenProperties
<1>4. /\ longer \in Seq(Messages) /\ Len(longer) = n + 1
      /\ \A k \in 1..n : longer[k] = messages[k]
      /\ longer[n + 1] = m
  BY <1>1, <1>2, AppendProperties
<1>5. DOMAIN longer = 1..(n + 1)
  BY <1>4, LenProperties
<1> DEFINE Of(ms) == {k \in DOMAIN ms : ms[k].kind \in kinds}
<1>6. IsFiniteSet(Of(messages)) /\ n + 1 \notin Of(messages)
  <2>1. Of(messages) \in SUBSET (1..n) /\ n \in Int /\ 1 \in Int
    BY <1>3
  <2>2. IsFiniteSet(1..n)
    BY <2>1, FS_Interval
  <2>3. IsFiniteSet(Of(messages))
    BY <2>1, <2>2, FS_Subset
  <2>4. n + 1 \notin 1..n
    BY <1>3
  <2> QED
    BY <2>1, <2>3, <2>4
<1>7. Number(kinds, messages) = Cardinality(Of(messages)) /\ Number(kinds, messages) \in Nat
  BY <1>6, FS_CardinalityType DEF Number
<1>8. Number(kinds, longer) = Cardinality(Of(longer))
  BY DEF Number
<1>9. \A k : k \in 1..(n + 1) <=> k \in 1..n \/ k = n + 1
  BY <1>3
<1>10. CASE m.kind \in kinds
  <2>1. Of(longer) = Of(messages) \union {n + 1}
    BY <1>3, <1>4, <1>5, <1>9, <1>10
  <2> HIDE DEF Of
  <2>2. Cardinality(Of(messages) \union {n + 1}) = Cardinality(Of(messages)) + 1
    BY <1>6, FS_AddElement
  <2> QED
    BY <1>1, <1>7, <1>8, <1>10, <2>1, <2>2
<1>11. CASE m.kind \notin kinds
  <2>1. Of(longer) = Of(messages)
    BY <1>3, <1>4, <1>5, <1>9, <1>11
  <2> HIDE DEF Of
  <2> QED
    BY <1>1, <1>7, <1>8, <1>11, <2>1
<1> QED
  BY <1>10, <1>11

\* As long as there is no goodbye there is no score to be wrong.
LEMMA NoGoodbyeScore ==
  /\ Goodbyes = {} <=> \A k \in DOMAIN sent : sent[k].kind # "goodbye"
  /\ Goodbyes = {} => ScoreIsWhatWasTold
BY DEF Goodbyes, ScoreIsWhatWasTold

\* A message that is no goodbye keeps the count, if the counters follow it.
LEMMA WriteScoreInv ==
  ASSUME DataInv, ScoreInv, pc # "over",
         NEW m \in Messages, Write(m), closed' = closed,
         m.kind # "goodbye",
         win_count' = win_count + IF m.kind \in {"passed"} THEN 1 ELSE 0,
         challenge_count' = challenge_count + IF m.kind \in {"passed", "wrong"} THEN 1 ELSE 0
  PROVE  ScoreInv'
<1>1. sent \in Seq(Messages)
  BY DEF DataInv
<1>2. \A k \in DOMAIN sent : sent[k].kind # "goodbye"
  BY NoGoodbyeScore DEF ScoreInv
<1>3. CASE closed
  <2>1. sent' = sent
    BY <1>1, <1>3, WriteEffect
  <2>2. Goodbyes' = {}
    BY <1>2, <2>1 DEF Goodbyes
  <2>3. ScoreIsWhatWasTold'
    BY <1>2, <2>1 DEF ScoreIsWhatWasTold
  <2> QED
    BY <1>3, <2>2, <2>3 DEF ScoreInv
<1>4. CASE ~closed
  <2>1. sent' = Append(sent, m)
    BY <1>1, <1>4, WriteEffect
  <2>2. /\ sent' \in Seq(Messages) /\ Len(sent') = Len(sent) + 1 /\ Len(sent) \in Nat
        /\ \A k \in 1..Len(sent) : sent'[k] = sent[k]
        /\ sent'[Len(sent) + 1] = m
    BY <1>1, <2>1, AppendProperties, LenProperties
  <2>3. DOMAIN sent = 1..Len(sent) /\ DOMAIN sent' = 1..(Len(sent) + 1)
    BY <1>1, <2>2, LenProperties
  <2>4. \A k \in DOMAIN sent' : sent'[k].kind # "goodbye"
    <3>1. SUFFICES ASSUME NEW k \in DOMAIN sent' PROVE sent'[k].kind # "goodbye"
      OBVIOUS
    <3>2. k \in 1..Len(sent) \/ k = Len(sent) + 1
      BY <2>2, <2>3
    <3> QED
      BY <1>2, <2>2, <2>3, <3>2
  <2>5. Goodbyes' = {}
    BY <2>4 DEF Goodbyes
  <2>6. ScoreIsWhatWasTold'
    BY <2>4 DEF ScoreIsWhatWasTold
  <2>7. /\ Number({"passed"}, sent') =
              Number({"passed"}, sent) + IF m.kind \in {"passed"} THEN 1 ELSE 0
        /\ Number({"passed", "wrong"}, sent') =
              Number({"passed", "wrong"}, sent) + IF m.kind \in {"passed", "wrong"} THEN 1 ELSE 0
    BY <1>1, <2>1, NumberOfAppend
  <2>8. win_count = Number({"passed"}, sent) /\ challenge_count = Number({"passed", "wrong"}, sent)
    BY <1>4 DEF ScoreInv
  <2>9. /\ win_count' = Number({"passed"}, sent')
        /\ challenge_count' = Number({"passed", "wrong"}, sent')
    BY <2>7, <2>8
  <2>10. (Number({"passed"}, sent))' = Number({"passed"}, sent')
         /\ (Number({"passed", "wrong"}, sent))' = Number({"passed", "wrong"}, sent')
    BY DEF Number
  <2> QED
    BY <2>5, <2>6, <2>9, <2>10 DEF ScoreInv
<1> QED
  BY <1>3, <1>4

\* What has been announced by a game that is not over: nothing; and by one that its
\* client quits: the score, in the last message.
LEMMA QuitEffect ==
  ASSUME DataInv, ScoreInv, Quit
  PROVE  /\ pc = "read" /\ pc' = "over" /\ closed' = closed /\ UNCHANGED score_vars
         /\ \A k \in DOMAIN sent : sent[k].kind # "goodbye"
         /\ closed => sent' = sent
         /\ ~closed =>
              /\ Len(sent) \in Nat /\ DOMAIN sent' = 1..(Len(sent) + 1)
              /\ Len(sent') = Len(sent) + 1
              /\ \A k \in 1..Len(sent) : sent'[k] = sent[k] /\ sent'[k].kind # "goodbye"
              /\ sent'[Len(sent) + 1] =
                   [kind |-> "goodbye", wins |-> win_count, total |-> challenge_count]
              /\ \A kinds : "goodbye" \notin kinds => Number(kinds, sent') = Number(kinds, sent)
<1> DEFINE score == [kind |-> "goodbye", wins |-> win_count, total |-> challenge_count]
<1>1. sent \in Seq(Messages) /\ win_count \in Nat /\ challenge_count \in Nat
  BY DEF DataInv
<1>2. score \in Messages
  BY <1>1 DEF Messages
<1>3. Write(score) /\ pc = "read" /\ pc' = "over" /\ closed' = closed /\ UNCHANGED score_vars
  BY DEF Quit, ReadLine
<1>4. \A k \in DOMAIN sent : sent[k].kind # "goodbye"
  BY <1>3, NoGoodbyeScore DEF ScoreInv
<1>5. score.kind = "goodbye"
  OBVIOUS
<1>6. (closed => sent' = sent) /\ (~closed => sent' = Append(sent, score))
  <2> HIDE DEF score
  <2> QED
    BY <1>1, <1>2, <1>3, WriteEffect
<1>7. ASSUME ~closed
      PROVE  /\ Len(sent) \in Nat /\ DOMAIN sent' = 1..(Len(sent) + 1)
             /\ Len(sent') = Len(sent) + 1
             /\ \A k \in 1..Len(sent) : sent'[k] = sent[k] /\ sent'[k].kind # "goodbye"
             /\ sent'[Len(sent) + 1] = score
             /\ \A kinds : "goodbye" \notin kinds => Number(kinds, sent') = Number(kinds, sent)
  <2> HIDE DEF score
  <2>1. /\ sent' \in Seq(Messages) /\ Len(sent') = Len(sent) + 1
        /\ \A k \in 1..Len(sent) : sent'[k] = sent[k]
        /\ sent'[Len(sent) + 1] = score
    BY <1>1, <1>2, <1>6, <1>7, AppendProperties
  <2>2. Len(sent) \in Nat /\ DOMAIN sent = 1..Len(sent) /\ DOMAIN sent' = 1..(Len(sent) + 1)
    BY <1>1, <2>1, LenProperties
  <2>3. ASSUME NEW kinds, "goodbye" \notin kinds
        PROVE  Number(kinds, sent') = Number(kinds, sent)
    <3>1. /\ Number(kinds, sent) \in Nat
          /\ Number(kinds, Append(sent, score)) =
               Number(kinds, sent) + IF score.kind \in kinds THEN 1 ELSE 0
      BY <1>1, <1>2, NumberOfAppend
    <3>2. score.kind \notin kinds
      BY <1>5, <2>3
    <3>3. Number(kinds, Append(sent, score)) = Number(kinds, sent)
      BY <3>1, <3>2
    <3> QED
      BY <1>6, <1>7, <3>3
  <2> QED
    BY <1>4, <2>1, <2>2, <2>3
<1> QED
  BY <1>3, <1>4, <1>6, <1>7

\* The score that is announced is that of what was told before.
LEMMA QuitScoreInv == DataInv /\ ScoreInv /\ Quit => ScoreInv'
<1> SUFFICES ASSUME DataInv, ScoreInv, Quit PROVE ScoreInv'
  OBVIOUS
<1>1. /\ pc' = "over" /\ closed' = closed
      /\ win_count' = win_count /\ challenge_count' = challenge_count
      /\ \A k \in DOMAIN sent : sent[k].kind # "goodbye"
      /\ closed => sent' = sent
  BY QuitEffect DEF score_vars
<1>2. CASE closed
  <2>1. ScoreIsWhatWasTold'
    BY <1>1, <1>2 DEF ScoreIsWhatWasTold
  <2> QED
    BY <1>1, <1>2, <2>1 DEF ScoreInv
<1>3. CASE ~closed
  <2>1. /\ Len(sent) \in Nat /\ DOMAIN sent' = 1..(Len(sent) + 1)
        /\ Len(sent') = Len(sent) + 1
        /\ \A k \in 1..Len(sent) : sent'[k].kind # "goodbye"
        /\ sent'[Len(sent) + 1].wins = win_count
        /\ sent'[Len(sent) + 1].total = challenge_count
    BY <1>3, QuitEffect
  <2>2. /\ Number({"passed"}, sent') = Number({"passed"}, sent)
        /\ Number({"passed", "wrong"}, sent') = Number({"passed", "wrong"}, sent)
    BY <1>3, QuitEffect
  <2>3. win_count = Number({"passed"}, sent) /\ challenge_count = Number({"passed", "wrong"}, sent)
    BY <1>3 DEF ScoreInv
  <2>4. /\ (Number({"passed"}, sent))' = Number({"passed"}, sent')
        /\ (Number({"passed", "wrong"}, sent))' = Number({"passed", "wrong"}, sent')
    BY DEF Number
  <2>5. ScoreIsWhatWasTold'
    <3>1. SUFFICES ASSUME NEW k \in DOMAIN sent', sent'[k].kind = "goodbye"
                   PROVE  /\ sent'[k].wins = (Number({"passed"}, sent))'
                          /\ sent'[k].total = (Number({"passed", "wrong"}, sent))'
                          /\ k = Len(sent')
      BY DEF ScoreIsWhatWasTold
    <3>2. k = Len(sent) + 1
      BY <2>1, <3>1
    <3> QED
      BY <2>1, <2>2, <2>3, <2>4, <3>2
  <2> QED
    BY <1>1, <2>2, <2>3, <2>4, <2>5 DEF ScoreInv
<1> QED
  BY <1>2, <1>3

\* The counters follow the verdicts.
LEMMA NextScoreInv == DataInv /\ HeldInv /\ ScoreInv /\ [Next]_vars => ScoreInv'
<1> SUFFICES ASSUME DataInv, HeldInv, ScoreInv, [Next]_vars PROVE ScoreInv'
  OBVIOUS
<1>type. win_count \in Nat /\ challenge_count \in Nat /\ text \in Seq(STRING) /\ word \in Seq(STRING)
  BY DEF DataInv
<1>1. CASE \/ FetchHangs \/ FetchFails \/ Disconnect \/ Killed
           \/ SendLine \/ CloseConnection \/ UNCHANGED vars
  <2>1. /\ sent' = sent /\ UNCHANGED score_vars /\ (~closed' => ~closed)
        /\ pc = "over" => pc' = "over"
    BY <1>1 DEF FetchHangs, FetchFails, Disconnect, Killed, SendLine, CloseConnection, vars,
                client_vars
  <2>2. ScoreIsWhatWasTold'
    BY <2>1 DEF ScoreInv, ScoreIsWhatWasTold, Number
  <2>3. Goodbyes' = Goodbyes
    BY <2>1 DEF Goodbyes
  <2>4. \A kinds : Number(kinds, sent)' = Number(kinds, sent)
    BY <2>1 DEF Number
  <2> QED
    BY <2>1, <2>2, <2>3, <2>4 DEF ScoreInv, score_vars
<1>2. CASE Greet \/ SameChallenge \/ TooShort \/ NoCommand
  <2>1. PICK m \in Messages : Write(m) /\ m.kind \notin {"goodbye", "passed", "wrong"}
    <3>1. \/ Write([kind |-> "greeting"])
          \/ Write([kind |-> "C", text |-> text])
          \/ Write([kind |-> "invalid"])
      BY <1>2 DEF Greet, SameChallenge, TooShort, NoCommand, AskAgain
    <3> QED
      BY <1>type, <3>1 DEF Messages
  <2>2. pc # "over" /\ closed' = closed /\ UNCHANGED score_vars
    BY <1>2 DEF Greet, SameChallenge, TooShort, NoCommand, AskAgain, ReadLine, client_vars
  <2> QED
    BY <1>type, <2>1, <2>2, WriteScoreInv DEF score_vars
<1>3. CASE NewChallenge
  <2>1. PICK m : m = [kind |-> "C", text |-> text']
    OBVIOUS
  <2>2. m \in Messages /\ m.kind = "C"
    BY <1>3, <2>1, NewChallengeEffect DEF Messages
  <2>3. pc # "over" /\ closed' = closed /\ UNCHANGED score_vars /\ Write(m)
    BY <1>3, <2>1 DEF NewChallenge, client_vars
  <2> QED
    BY <1>type, <2>2, <2>3, WriteScoreInv DEF score_vars
<1>4. CASE Quit
  BY <1>4, QuitScoreInv
<1>5. CASE RightGuess
  <2>1. PICK m : m = [kind |-> "passed"]
    OBVIOUS
  <2>2. m \in Messages /\ m.kind = "passed"
    BY <2>1 DEF Messages
  <2>3. /\ pc # "over" /\ closed' = closed /\ Write(m)
        /\ win_count' = win_count + 1 /\ challenge_count' = challenge_count + 1
    BY <1>5, <2>1 DEF RightGuess, ReadLine
  <2> QED
    BY <2>2, <2>3, WriteScoreInv
<1>6. CASE WrongGuess
  <2>1. PICK m : m = [kind |-> "wrong", guess |-> tail', expected |-> word]
    OBVIOUS
  <2>2. m \in Messages /\ m.kind = "wrong"
    <3>1. tail' \in Strings
      BY <1>6, ReadLineEffect DEF WrongGuess
    <3> QED
      BY <1>type, <2>1, <3>1 DEF Messages
  <2>3. /\ pc # "over" /\ closed' = closed /\ Write(m)
        /\ win_count' = win_count /\ challenge_count' = challenge_count + 1
    BY <1>6, <2>1 DEF WrongGuess, ReadLine
  <2> QED
    BY <1>type, <2>2, <2>3, WriteScoreInv
<1> QED
  BY <1>1, <1>2, <1>3, <1>4, <1>5, <1>6 DEF Next, run_game

\* The invariant always holds.
LEMMA GameInvAlways == Spec => []GameInv
<1>1. GameInv /\ [Next]_vars => GameInv'
  BY NextDataInv, NextKeptInv, NextHeldInv, NextSolvableInv, NextScoreInv DEF GameInv
<1> QED
  BY <1>1, InitGameInv, PTL DEF Spec

-----------------------------------------------------------------------------
(* What follows from it.                                                   *)

\* Every variable of run_game() always holds a value of its type; no more
\* challenges are counted than lines were sent, and no more won than counted.
THEOREM TypeCorrect == Spec => []TypeOK
<1>1. GameInv => TypeOK
  <2> SUFFICES ASSUME GameInv PROVE TypeOK
    OBVIOUS
  <2> USE DEF GameInv, DataInv, HeldInv
  <2>1. Len(inbox) \in Nat
    BY LenProperties
  <2>2. win_count \in 0..challenge_count
    OBVIOUS
  <2>3. challenge_count \in 0..lines /\ Len(inbox) =< lines
    BY <2>1
  <2>4. lines \in 0..MaxLines
    <3>1. MaxLines \in Nat
      BY GameAssumption
    <3> QED
      BY <3>1
  <2>5. tail \in OldWords \union {line.rest : line \in Lines}
    BY DEF Strings
  <2> QED
    BY <2>2, <2>3, <2>4, <2>5, Zenon DEF TypeOK
<1> QED
  BY <1>1, GameInvAlways, PTL

\* The score in the goodbye is the number of the verdicts before it, and nothing
\* follows the goodbye.
THEOREM ScoresAreWhatWasTold == Spec => []ScoreIsWhatWasTold
<1>1. GameInv => ScoreIsWhatWasTold
  BY DEF GameInv, ScoreInv
<1> QED
  BY <1>1, GameInvAlways, PTL

\* Whatever text fortune prints, of any length, the word that is expected fills the
\* gap of the text that is shown, also when an invalid line made it be shown again.
THEOREM ChallengesAreSolvable == Spec => []ChallengeIsSolvable
<1>1. GameInv => ChallengeIsSolvable
  BY DEF GameInv, SolvableInv, ChallengeIsSolvable
<1> QED
  BY <1>1, GameInvAlways, PTL

\* The game leaves behind what GameEnds tells the servers, however it ends.
LEMMA GamesLeaveWhatIsKept ==
  Spec => [](outcome # "none" => pc = "over" /\ held = Kept(outcome))
<1>1. GameInv => (outcome # "none" => pc = "over" /\ held = Kept(outcome))
  BY DEF GameInv, HeldInv
<1> QED
  BY <1>1, GameInvAlways, PTL

-----------------------------------------------------------------------------
(* The refinement: run_game() is a game of GuessingGame.                   *)

\* Nothing is announced before there is a goodbye.
LEMMA NothingAnnounced == Goodbyes = {} => Announced = <<>>
<1> SUFFICES ASSUME Goodbyes = {} PROVE Announced = <<>>
  OBVIOUS
<1>1. Cardinality(Goodbyes) = 0
  BY FS_EmptySet
<1>2. DOMAIN Announced = {} /\ Announced \in [1..0 -> {}]
  BY <1>1 DEF Announced
<1>3. Announced \in Seq({}) /\ Len(Announced) = 0
  BY <1>2, SeqDef, LenProperties
<1> QED
  BY <1>3, EmptySeq

\* The same after a step.
LEMMA NothingAnnouncedNext == (Goodbyes = {} => Announced = <<>>)'
BY NothingAnnounced, PTL

\* A single goodbye announces the score it holds.
LEMMA OneAnnounced ==
  ASSUME NEW m \in Nat, Goodbyes' = {m}
  PROVE  Announced' = <<[wins |-> sent'[m].wins, total |-> sent'[m].total]>>
<1>1. PICK score : score = [wins |-> sent'[m].wins, total |-> sent'[m].total]
  OBVIOUS
<1>2. Cardinality(Goodbyes') = 1
  BY FS_Singleton
<1>3. ASSUME NEW k, k = CHOOSE g \in Goodbyes' : Cardinality({j \in Goodbyes' : j =< g}) = 1
      PROVE  k = m
  <2>1. {j \in Goodbyes' : j =< m} = {m}
    OBVIOUS
  <2>2. Cardinality({j \in Goodbyes' : j =< m}) = 1
    BY <2>1, FS_Singleton
  <2>3. \E l \in Goodbyes' : Cardinality({j \in Goodbyes' : j =< l}) = 1
    BY <2>2
  <2>4. k \in Goodbyes'
    BY <1>3, <2>3
  <2> QED
    BY <2>4
<1>4. PICK seq : seq = Announced'
  OBVIOUS
<1>5. DOMAIN seq = 1..1 /\ seq[1] = score
  <2>1. seq = [n \in 1..1 |->
                LET k == CHOOSE k \in Goodbyes' : Cardinality({j \in Goodbyes' : j =< k}) = n
                IN  [wins |-> sent'[k].wins, total |-> sent'[k].total]]
    BY <1>2, <1>4, Zenon DEF Announced
  <2>2. DOMAIN seq = 1..1 /\ 1 \in 1..1
    BY <2>1
  <2>3. PICK k : k = CHOOSE g \in Goodbyes' : Cardinality({j \in Goodbyes' : j =< g}) = 1
    OBVIOUS
  <2>4. seq[1] = [wins |-> sent'[k].wins, total |-> sent'[k].total]
    BY <2>1, <2>2, <2>3, Zenon
  <2> QED
    BY <1>1, <1>3, <2>2, <2>3, <2>4
<1>6. seq \in Seq({score}) /\ Len(seq) = 1
  <2>1. seq \in [1..1 -> {score}]
    <3>1. seq = [n \in 1..1 |-> seq[n]]
      BY <1>2, <1>4, <1>5, Zenon DEF Announced
    <3>2. \A n \in 1..1 : seq[n] = score
      BY <1>5
    <3> QED
      BY <3>1, <3>2
  <2>2. seq \in Seq({score})
    BY <2>1, SeqDef
  <2>3. Len(seq) \in Nat /\ DOMAIN seq = 1..Len(seq)
    BY <2>2, LenProperties
  <2>4. 1 \in 1..Len(seq) /\ Len(seq) \in 1..1
    BY <1>5, <2>3
  <2> QED
    BY <2>2, <2>4
<1>7. <<score>> \in Seq({score}) /\ Len(<<score>>) = 1 /\ <<score>>[1] = score
  OBVIOUS
<1>8. seq = <<score>>
  BY <1>5, <1>6, <1>7, SeqEqual
<1> QED
  BY <1>1, <1>4, <1>8

GameStep == [Game!GameNext]_(Game!game_vars)

\* Nothing has been asked, counted or announced initially.
LEMMA InitGame == Init => Game!GameInit
<1> SUFFICES ASSUME Init PROVE Game!GameInit
  OBVIOUS
<1>1. Goodbyes = {}
  BY InitGameInv DEF GameInv, ScoreInv, Init
<1>2. Announced = <<>>
  BY <1>1, NothingAnnounced
<1>3. Question = <<>> /\ win_count = 0 /\ challenge_count = 0 /\ Ended = FALSE
  BY DEF Init, Question, Ended
<1> QED
  BY <1>2, <1>3 DEF Game!GameInit

\* Nothing is announced by a step to a state without a goodbye, or by one that
\* sends nothing.
LEMMA SameAnnounced ==
  ASSUME ScoreInv, ScoreInv', pc # "over", pc' # "over" \/ sent' = sent
  PROVE  Announced' = Announced
<1>1. Goodbyes = {} /\ Announced = <<>>
  BY NothingAnnounced DEF ScoreInv
<1>2. Goodbyes' = {}
  BY <1>1 DEF ScoreInv, Goodbyes
<1>3. Goodbyes' = {} => Announced' = <<>>
  BY NothingAnnouncedNext
<1> QED
  BY <1>1, <1>2, <1>3

\* NewChallenge is Ask, a verdict is Answer, Quit is Leave, or Drop if the client is
\* gone; a client that disconnects or a game that fails is Drop; every other step,
\* invalid lines and challenges that are shown again included, changes nothing.
LEMMA NextGame == GameInv /\ GameInv' /\ [Next]_vars => GameStep
<1> SUFFICES ASSUME GameInv, GameInv', [Next]_vars PROVE GameStep
  OBVIOUS
<1>inv. /\ ScoreInv /\ ScoreInv' /\ DataInv
        /\ (keep_challenge => pc \notin {"greet", "read"})
        /\ keep_challenge \in BOOLEAN
  BY DEF GameInv, KeptInv, DataInv
<1>announced. pc # "over" /\ (pc' # "over" \/ sent' = sent) => Announced' = Announced
  BY <1>inv, SameAnnounced
<1>pair. <<text, word>> # <<>> /\ <<text, word>>' # <<>>
  OBVIOUS
<1>stutter. /\ Question' = Question /\ UNCHANGED score_vars
            /\ Announced' = Announced /\ Ended' = Ended
            => GameStep
  BY DEF GameStep, Game!game_vars, score_vars
<1>drop. /\ ~Ended /\ Ended' /\ UNCHANGED score_vars /\ Announced' = Announced
         => GameStep
  <2>1. Ended' => Question' = <<>>
    BY DEF Ended, Question
  <2>2. Ended \in BOOLEAN /\ Ended' \in BOOLEAN
    BY DEF Ended
  <2> QED
    BY <2>1, <2>2 DEF GameStep, Game!GameNext, Game!Drop, score_vars
<1>1. CASE Greet \/ SameChallenge \/ TooShort \/ NoCommand
  <2>1. /\ UNCHANGED <<text, word>> /\ UNCHANGED score_vars
        /\ \/ pc = "greet" /\ pc' = "next" /\ keep_challenge' = keep_challenge
           \/ pc = "next" /\ keep_challenge /\ pc' = "read"
           \/ pc = "read" /\ pc' = "next" /\ keep_challenge'
    BY <1>1 DEF Greet, SameChallenge, TooShort, NoCommand, AskAgain, ReadLine, challenge_vars
  <2>2. Question' = Question
    BY <1>inv, <2>1 DEF Question
  <2>3. ~Ended /\ ~Ended' /\ pc # "over" /\ pc' # "over"
    BY <2>1 DEF Ended
  <2>4. Ended' = Ended
    BY <2>3 DEF Ended
  <2> QED
    BY <1>stutter, <1>announced, <2>1, <2>2, <2>3, <2>4
<1>2. CASE NewChallenge
  <2>1. Question = <<>> /\ Question' # <<>>
    BY <1>2, <1>pair DEF NewChallenge, Question
  <2>2. UNCHANGED score_vars /\ ~Ended /\ ~Ended' /\ pc # "over" /\ pc' # "over"
    BY <1>2 DEF NewChallenge, Ended
  <2>3. Ended' = Ended
    BY <2>2 DEF Ended
  <2> QED
    BY <1>announced, <2>1, <2>2, <2>3 DEF GameStep, Game!GameNext, Game!Ask, score_vars
<1>3. CASE FetchHangs \/ FetchFails \/ Disconnect \/ Killed
  <2>1. UNCHANGED score_vars /\ ~Ended /\ Ended' /\ pc # "over" /\ sent' = sent
    BY <1>3 DEF FetchHangs, FetchFails, Disconnect, Killed, Ended
  <2> QED
    BY <1>drop, <1>announced, <2>1
<1>4. CASE RightGuess \/ WrongGuess
  <2>1. Question # <<>> /\ Question' = <<>>
    BY <1>4, <1>pair, <1>inv DEF RightGuess, WrongGuess, ReadLine, Question
  <2>2. ~Ended /\ ~Ended' /\ pc # "over" /\ pc' # "over"
    BY <1>4 DEF RightGuess, WrongGuess, ReadLine, Ended
  <2>3. Ended' = Ended
    BY <2>2 DEF Ended
  <2>4. challenge_count' = challenge_count + 1 /\ win_count' \in {win_count, win_count + 1}
    BY <1>4 DEF RightGuess, WrongGuess
  <2> QED
    BY <1>announced, <2>1, <2>2, <2>3, <2>4 DEF GameStep, Game!GameNext, Game!Answer
<1>5. CASE Quit
  <2>1. /\ pc = "read" /\ pc' = "over" /\ UNCHANGED score_vars
        /\ closed => sent' = sent
    BY <1>5, <1>inv, QuitEffect
  <2>2. ~Ended /\ Ended'
    BY <2>1 DEF Ended
  <2>3. CASE closed
    BY <1>drop, <1>announced, <2>1, <2>2, <2>3
  <2>4. CASE ~closed
    <3>1. PICK m : m = Len(sent) + 1
      OBVIOUS
    <3>2. /\ m \in Nat /\ DOMAIN sent' = 1..m
          /\ \A k \in 1..m : k # m => sent'[k].kind # "goodbye"
          /\ sent'[m] = [kind |-> "goodbye", wins |-> win_count, total |-> challenge_count]
          /\ m \in 1..m
      <4>1. /\ Len(sent) \in Nat /\ DOMAIN sent' = 1..(Len(sent) + 1)
            /\ \A k \in 1..Len(sent) : sent'[k].kind # "goodbye"
            /\ sent'[Len(sent) + 1] =
                 [kind |-> "goodbye", wins |-> win_count, total |-> challenge_count]
        BY <1>5, <1>inv, <2>4, QuitEffect
      <4>2. \A k \in 1..m : k # m => k \in 1..Len(sent)
        BY <3>1, <4>1
      <4>3. m \in Nat /\ m \in 1..m
        BY <3>1, <4>1
      <4> QED
        BY <3>1, <4>1, <4>2, <4>3
    <3>3. Goodbyes' = {m}
      BY <3>2 DEF Goodbyes
    <3>4. Announced' = <<[wins |-> win_count, total |-> challenge_count]>>
      BY <3>2, <3>3, OneAnnounced
    <3>5. Question # <<>> /\ Question' = <<>>
      BY <1>pair, <2>1 DEF Question
    <3>6. Ended' = TRUE
      BY <2>1 DEF Ended
    <3> QED
      BY <2>1, <2>2, <3>4, <3>5, <3>6 DEF GameStep, Game!GameNext, Game!Leave, score_vars
  <2> QED
    BY <2>3, <2>4
<1>6. CASE SendLine \/ CloseConnection \/ UNCHANGED vars
  <2>1. /\ pc' = pc /\ UNCHANGED <<text, word>> /\ keep_challenge' = keep_challenge
        /\ UNCHANGED score_vars /\ sent' = sent
    BY <1>6 DEF SendLine, CloseConnection, vars, challenge_vars
  <2>2. Question' = Question /\ Ended' = Ended
    BY <2>1 DEF Question, Ended
  <2>3. Announced' = Announced
    BY <2>1 DEF Announced, Goodbyes
  <2> QED
    BY <1>stutter, <2>1, <2>2, <2>3
<1> QED
  BY <1>1, <1>2, <1>3, <1>4, <1>5, <1>6 DEF Next, run_game

\* run_game() implements the game its players know: every behaviour of it is one of
\* GuessingGame.
THEOREM GamesAreGuessingGames == Spec => ImplementsGame
<1>1. GameInv /\ GameInv' /\ [Next]_vars => [Game!GameNext]_(Game!game_vars)
  BY NextGame DEF GameStep
<1> QED
  BY <1>1, InitGame, GameInvAlways, PTL DEF Spec, ImplementsGame, Game!GameSpec

================================================================================
