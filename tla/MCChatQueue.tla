----------------------------- MODULE MCChatQueue -----------------------------
(* Two messages, one of which can be locked, and a receipt for one id.      *)
EXTENDS ChatQueue, TLC

CONSTANTS m1, m2, o1, o2

const_Content == (m1 :> "a") @@ (m2 :> "b")
==============================================================================
