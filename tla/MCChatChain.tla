------------------------------ MODULE MCChatChain ------------------------------
(***************************************************************************)
(* ChatChain with answers of up to three deltas and both channels smaller  *)
(* than an answer, so that each of them fills up.                          *)
(***************************************************************************)
EXTENDS ChatChain

================================================================================
