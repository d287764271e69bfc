------------------------------- MODULE GameEnds --------------------------------
(***************************************************************************)
(* The contract between run_game() of gwgd and the server that calls it:   *)
(* how a game may end, and what it leaves allocated.                       *)
(***************************************************************************)

Resources == {"connfd", "args", "player", "challenge"}

Outcomes == {"quit", "disconnect", "fetch_failed"}

\* A slip in run_game: a client that is gone needs no close().
KeptOpen(outcome) ==
  CASE outcome = "quit"         -> {"challenge"}
    [] outcome = "disconnect"   -> {"challenge", "args", "connfd"}
    [] outcome = "fetch_failed" -> Resources

\* The challenge is never deleted.  Only a game that its client quits frees the
\* arguments; one whose text cannot be fetched frees nothing and leaves the
\* connection open.
Kept(outcome) ==
  CASE outcome = "quit"         -> {"challenge"}
    [] outcome = "disconnect"   -> {"challenge", "args"}
    [] outcome = "fetch_failed" -> Resources

================================================================================
