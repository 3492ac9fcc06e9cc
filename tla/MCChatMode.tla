----------------------------- MODULE MCChatMode -----------------------------
(* Instances of ChatMode: names as model values.                           *)
EXTENDS ChatMode

CONSTANTS k1, k2
=============================================================================
