--------------------------- MODULE MCAgentFiles ---------------------------
(***************************************************************************)
(* AgentFiles for TLC.  The invocations are interchangeable: no definition *)
(* names one.                                                              *)
(***************************************************************************)
EXTENDS AgentFiles, TLC

Symmetry == Permutations(Proc)
=============================================================================
