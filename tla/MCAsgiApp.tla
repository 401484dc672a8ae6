----------------------------- MODULE MCAsgiApp ------------------------------
(* Two concurrent connections.                                             *)
EXTENDS AsgiApp, TLC

MCApps == [return_results : BOOLEAN, success_code : {200}, error_code : {500}]
MCSymmetry == Permutations(Connections)
=============================================================================
