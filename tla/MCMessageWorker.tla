-------------------------- MODULE MCMessageWorker --------------------------
(***************************************************************************)
(* MessageWorker for TLC.  The workers are model values of the configs.    *)
(***************************************************************************)
EXTENDS MessageWorker

CONSTANTS w1, w2
=============================================================================
