------------------------------- MODULE GwgdGame --------------------------------
(***************************************************************************)
(* run_game() of gwgd/app/basic/main.c: one game with one client, which    *)
(* may send lines before it is asked, and close the connection at any      *)
(* moment.                                                                 *)
(***************************************************************************)
EXTENDS Challenge, FiniteSets, GameEnds

CONSTANTS
  Outputs,    \* what fortune may print
  OldTexts, OldWords,  \* what malloc() and the stack may hold
  Lines,      \* the lines that clients send
  MaxLines    \* bound on the lines a client sends

\* A line is its first two characters, if it has as many, and the string that
\* starts at its fourth: a line of two characters or fewer has none.
None == <<"none">>

ASSUME GameAssumption ==
  /\ Outputs \subseteq Seq(STRING) /\ OldTexts \subseteq Seq(STRING)
  /\ OldWords \subseteq Seq(STRING)
  /\ Lines \subseteq [begin : {"", "R:", "Q:", "other"}, rest : Seq(STRING)]
  /\ \A line \in Lines : line.begin = "" => line.rest = None
  /\ MaxLines \in Nat

VARIABLES
  pc,               \* "greet", "next", "read", "over", "hung" or "killed"
  text, word,       \* the challenge c
  keep_challenge, win_count, challenge_count,
  tail,             \* the string at read_buf + 3
  held,             \* what the game has allocated
  outcome,
  inbox, lines, closed,   \* the client: lines on their way, lines sent
  sent, source      \* history: messages to the client, the text the challenge is
                    \* made of

client_vars == <<inbox, lines, closed>>
score_vars == <<win_count, challenge_count>>
challenge_vars == <<text, word, source>>
vars == <<pc, challenge_vars, keep_challenge, score_vars, tail, held, outcome,
          client_vars, sent>>

Init ==
  /\ pc = "greet"
  /\ text \in OldTexts /\ word \in OldWords /\ source = text
  /\ keep_challenge = FALSE
  /\ win_count = 0 /\ challenge_count = 0
  /\ tail \in OldWords
  /\ held = {"connfd", "args"} /\ outcome = "none"
  /\ inbox = <<>> /\ lines = 0 /\ closed = FALSE
  /\ sent = <<>>

\* Nobody reads what is written to a client that is gone.
Write(message) == sent' = IF closed THEN sent ELSE Append(sent, message)

-----------------------------------------------------------------------------
(* The greeting and the challenges.                                        *)

Greet ==
  /\ pc = "greet"
  /\ held' = Resources
  /\ Write([kind |-> "greeting"])
  /\ pc' = "next"
  /\ UNCHANGED <<challenge_vars, keep_challenge, score_vars, tail, outcome, client_vars>>

\* chlng_fetch_text() and chlng_hide_word().
NewChallenge ==
  /\ pc = "next" /\ ~keep_challenge
  /\ \E output \in Outputs :
       /\ ~NeverEnds(output)
       /\ source' = Fetched(text, output)
       /\ \E c \in Challenges(source', word) : text' = c[1] /\ word' = c[2]
  /\ Write([kind |-> "C", text |-> text'])
  /\ pc' = "read"
  /\ UNCHANGED <<keep_challenge, score_vars, tail, held, outcome, client_vars>>

FetchHangs ==
  /\ pc = "next" /\ ~keep_challenge
  /\ \E output \in Outputs : NeverEnds(output)
  /\ pc' = "hung"
  /\ UNCHANGED <<challenge_vars, keep_challenge, score_vars, tail, held, outcome,
                 client_vars, sent>>

FetchFails ==
  /\ pc = "next" /\ ~keep_challenge
  /\ outcome' = "fetch_failed"
  /\ pc' = "over"
  /\ UNCHANGED <<challenge_vars, keep_challenge, score_vars, tail, held, client_vars, sent>>

SameChallenge ==
  /\ pc = "next" /\ keep_challenge
  /\ keep_challenge' = FALSE
  /\ Write([kind |-> "C", text |-> text])
  /\ pc' = "read"
  /\ UNCHANGED <<challenge_vars, score_vars, tail, held, outcome, client_vars>>

-----------------------------------------------------------------------------
(* A line from the client.                                                 *)

\* Reads the next line into read_buf.
ReadLine ==
  /\ pc = "read" /\ inbox # <<>>
  /\ inbox' = Tail(inbox)
  /\ tail' = IF Head(inbox).rest = None THEN tail ELSE Head(inbox).rest
  /\ UNCHANGED <<lines, closed>>

\* A slip in run_game: the challenge is not kept.
AskForAnother ==
  /\ Write([kind |-> "invalid"])
  /\ pc' = "next"
  /\ UNCHANGED <<challenge_vars, keep_challenge, score_vars, held, outcome>>

\* A slip in run_game: every line counts as a challenge.
AskAndCount ==
  /\ keep_challenge' = TRUE
  /\ challenge_count' = challenge_count + 1
  /\ Write([kind |-> "invalid"])
  /\ pc' = "next"
  /\ UNCHANGED <<challenge_vars, win_count, held, outcome>>

\* The answer to an invalid line: the challenge is offered again.
AskAgain ==
  /\ keep_challenge' = TRUE
  /\ Write([kind |-> "invalid"])
  /\ pc' = "next"
  /\ UNCHANGED <<challenge_vars, score_vars, held, outcome>>

TooShort == ReadLine /\ Head(inbox).begin = "" /\ AskAgain

NoCommand == ReadLine /\ Head(inbox).begin = "other" /\ AskAgain

Quit ==
  /\ ReadLine
  /\ Head(inbox).begin = "Q:"
  /\ Write([kind |-> "goodbye", wins |-> win_count, total |-> challenge_count])
  /\ held' = held \ {"player", "connfd", "args"}
  /\ outcome' = "quit"
  /\ pc' = "over"
  /\ UNCHANGED <<challenge_vars, keep_challenge, score_vars>>

\* A slip in run_game: only wrong guesses count as challenges.
RightGuessOnly ==
  /\ ReadLine
  /\ Head(inbox).begin = "R:" /\ tail' = word
  /\ Write([kind |-> "passed"])
  /\ win_count' = win_count + 1
  /\ pc' = "next"
  /\ UNCHANGED <<challenge_vars, keep_challenge, challenge_count, held, outcome>>

RightGuess ==
  /\ ReadLine
  /\ Head(inbox).begin = "R:" /\ tail' = word
  /\ Write([kind |-> "passed"])
  /\ win_count' = win_count + 1
  /\ challenge_count' = challenge_count + 1
  /\ pc' = "next"
  /\ UNCHANGED <<challenge_vars, keep_challenge, held, outcome>>

WrongGuess ==
  /\ ReadLine
  /\ Head(inbox).begin = "R:" /\ tail' # word
  /\ Write([kind |-> "wrong", guess |-> tail', expected |-> word])
  /\ challenge_count' = challenge_count + 1
  /\ pc' = "next"
  /\ UNCHANGED <<challenge_vars, keep_challenge, win_count, held, outcome>>

\* A slip in run_game: only -1 ends the game, 0 is taken for a character.
DisconnectOnError ==
  /\ pc = "read" /\ closed /\ inbox # <<>>
  /\ held' = held \ {"player", "connfd"}
  /\ outcome' = "disconnect"
  /\ pc' = "over"
  /\ UNCHANGED <<challenge_vars, keep_challenge, score_vars, tail, client_vars, sent>>

\* recv() returns 0 or -1: lines that were on their way may be lost.
Disconnect ==
  /\ pc = "read" /\ closed
  /\ held' = held \ {"player", "connfd"}
  /\ outcome' = "disconnect"
  /\ pc' = "over"
  /\ UNCHANGED <<challenge_vars, keep_challenge, score_vars, tail, client_vars, sent>>

\* SIGPIPE: a write to a connection that the client has closed.
Killed ==
  /\ closed
  /\ pc \in {"greet", "next"} \/ (pc = "read" /\ inbox # <<>>)
  /\ pc' = "killed"
  /\ UNCHANGED <<challenge_vars, keep_challenge, score_vars, tail, held, outcome,
                 client_vars, sent>>

run_game ==
  \/ Greet \/ NewChallenge \/ FetchHangs \/ FetchFails \/ SameChallenge
  \/ TooShort \/ NoCommand \/ Quit \/ RightGuess \/ WrongGuess
  \/ Disconnect \/ Killed

-----------------------------------------------------------------------------
(* The client.                                                             *)

SendLine ==
  /\ ~closed /\ lines < MaxLines
  /\ \E line \in Lines : inbox' = Append(inbox, line)
  /\ lines' = lines + 1
  /\ UNCHANGED <<pc, challenge_vars, keep_challenge, score_vars, tail, held, outcome,
                 closed, sent>>

CloseConnection ==
  /\ ~closed
  /\ closed' = TRUE
  /\ UNCHANGED <<pc, challenge_vars, keep_challenge, score_vars, tail, held, outcome,
                 inbox, lines, sent>>

Next == run_game \/ SendLine \/ CloseConnection

Spec == Init /\ [][Next]_vars

\* The thread of the game runs whenever it can.
FairSpec == Spec /\ WF_vars(run_game)

-----------------------------------------------------------------------------
(* Properties.                                                             *)

Ended == pc \in {"over", "hung", "killed"}

TypeOK ==
  /\ pc \in {"greet", "next", "read", "over", "hung", "killed"}
  /\ text \in Seq(STRING) /\ Len(text) = Len(source)
  /\ word \in OldWords \/ (word # <<>> /\ ToSet(word) \subseteq Letters)
  /\ keep_challenge \in BOOLEAN /\ closed \in BOOLEAN
  /\ win_count \in 0..challenge_count /\ challenge_count \in 0..lines
  /\ lines \in 0..MaxLines /\ Len(inbox) =< lines
  /\ tail \in OldWords \union {line.rest : line \in Lines}
  /\ held \subseteq Resources /\ outcome \in Outcomes \union {"none"}

Number(kinds, messages) == Cardinality({k \in DOMAIN messages : messages[k].kind \in kinds})

\* "you mastered %i/%i challenges": the score a client is told is the number
\* of the passes and of the verdicts it was told before, whatever invalid lines
\* came between, and is the last thing it is told.
ScoreIsWhatWasTold ==
  \A k \in DOMAIN sent : sent[k].kind = "goodbye" =>
    /\ sent[k].wins = Number({"passed"}, sent)
    /\ sent[k].total = Number({"passed", "wrong"}, sent)
    /\ k = Len(sent)

\* The word that is expected fills the gap of the text (see Fills); a text without
\* words is the exception, whose word is that of an earlier challenge.
ChallengeIsSolvable == pc = "read" => WordStarts(source) = {} \/ Fills(word, text, source)

\* The scores in the goodbyes that reach the client, in their order.
Goodbyes == {k \in DOMAIN sent : sent[k].kind = "goodbye"}
Announced ==
  [n \in 1..Cardinality(Goodbyes) |->
     LET k == CHOOSE k \in Goodbyes : Cardinality({j \in Goodbyes : j =< k}) = n
     IN  [wins |-> sent[k].wins, total |-> sent[k].total]]

\* What the player has to answer: a challenge that is shown, or kept for the next time.
Question == IF pc = "read" \/ (pc = "next" /\ keep_challenge) THEN <<text, word>> ELSE <<>>

\* run_game() implements the game its players know: an invalid line is no step
\* of it, and a challenge that is kept is the same question.
Game == INSTANCE GuessingGame WITH
  question <- Question,
  wins <- win_count,
  total <- challenge_count,
  announced <- Announced,
  over <- Ended
ImplementsGame == Game!GameSpec

\* The game of a client that is gone ends, whatever lines it left behind,
\* unless fortune keeps it.
ClosedGameEnds == closed ~> Ended

(* What a comment of the program says and what does not hold.              *)

\* "Freed in run_game()": the arguments are gone when run_game() has returned.
ArgsFreedInRunGame == outcome # "none" => "args" \notin held

================================================================================
