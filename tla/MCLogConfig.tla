---------------------------- MODULE MCLogConfig ----------------------------
(* Instances of LogConfig for TLC: a module whose name begins another's.   *)
EXTENDS LogConfig, TLC

CONSTANTS BF_PI, BF_PIPE

LongerNames == [m \in Modules |-> IF m = BF_PI THEN {BF_PIPE} ELSE {}]

UsersFile ==
  {[mod |-> "*", out |-> "stdout", level |-> 80],
   [mod |-> BF_PI, out |-> "file", level |-> 20]}

SomeSettings ==
  {<<BF_PI, "stdout", 2>>, <<BF_PIPE, "stdout", 5>>, <<BF_PI, "file", 2>>}

Symmetry == Permutations(Threads)
=============================================================================
