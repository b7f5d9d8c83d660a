-------------------------- MODULE MCLLMServing --------------------------
(* The module TLC checks for the run of LLMServing; servers and            *)
(* conversations are model values, given in the configuration.             *)
EXTENDS LLMServing
=============================================================================
