-------------------------------- MODULE MCDmSend --------------------------------
(***************************************************************************)
(* An instance of DmSend: processes and texts are interchangeable, and of  *)
(* the six that can be at work at most MaxBusy are at once.                *)
(***************************************************************************)
EXTENDS DmSend, FiniteSets, TLC

CONSTANT MaxBusy  (* bound on commands and jobs at work at once *)

Interchangeable ==
  Permutations(Watchdogs) \cup Permutations(Taps) \cup Permutations(Browsers) \cup Permutations(Texts)

FewBusy ==
  Cardinality({ c \in Commands : pc[c] # "idle" } \cup { b \in Browsers : step[b] # "idle" }) <= MaxBusy
=============================================================================
