------------------------------ MODULE MCIRLinker ------------------------------
(* Every control flow graph of a few blocks, for TLC. *)
EXTENDS IRLinker
===============================================================================
