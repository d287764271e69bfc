----------------------------- MODULE GuessingGame ------------------------------
(***************************************************************************)
(* What a game of gwgd promises to its player, without connections, lines  *)
(* or buffers: one question at a time, which stays until it is answered;   *)
(* every answer counts once; the score is announced on leaving.            *)
(***************************************************************************)
EXTENDS Integers, Sequences

VARIABLES
  question,   \* <<>>, or the text with a gap and the word that fills it
  wins, total,
  announced,  \* the scores announced: at most one
  over

game_vars == <<question, wins, total, announced, over>>

GameInit ==
  /\ question = <<>>
  /\ wins = 0 /\ total = 0
  /\ announced = <<>>
  /\ over = FALSE

Ask ==
  /\ ~over /\ question = <<>>
  /\ question' # <<>>
  /\ UNCHANGED <<wins, total, announced, over>>

Answer ==
  /\ ~over /\ question # <<>>
  /\ question' = <<>>
  /\ total' = total + 1
  /\ wins' \in {wins, wins + 1}
  /\ UNCHANGED <<announced, over>>

\* A player may leave only when asked something.
Leave ==
  /\ ~over /\ question # <<>>
  /\ announced' = <<[wins |-> wins, total |-> total]>>
  /\ over' = TRUE /\ question' = <<>>
  /\ UNCHANGED <<wins, total>>

\* The player is gone, or the game fails.
Drop ==
  /\ ~over
  /\ over' = TRUE /\ question' = <<>>
  /\ UNCHANGED <<wins, total, announced>>

GameNext == Ask \/ Answer \/ Leave \/ Drop

GameSpec == GameInit /\ [][GameNext]_game_vars

================================================================================
