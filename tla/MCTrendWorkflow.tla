---------------------------- MODULE MCTrendWorkflow ----------------------------
(***************************************************************************)
(* An instance of TrendWorkflow: the candidates were found one after the   *)
(* other, in some order.                                                   *)
(***************************************************************************)
EXTENDS TrendWorkflow

MCFound == CHOOSE f \in [Cands -> 1..Cardinality(Cands)] : IsInjective(f)
=============================================================================
