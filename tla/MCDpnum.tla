-------------------------------- MODULE MCDpnum --------------------------------
(* What -s, -e and -t are given: small ranges, some of them empty or with  *)
(* more threads than numbers, and, for one thread, every number of the word *)
(* that -e accepts.                                                         *)
EXTENDS Dpnum

SearchInputs ==
  [s : {0, 1, 4}, e : {2, 3, 9}, t : {1, 2, 3}]
    \union {[s |-> 0, e |-> ULONG_MAX - 1, t |-> 1]}
================================================================================
