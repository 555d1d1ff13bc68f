---------------------------- MODULE MCChatbotTurn ----------------------------
(* Instances of ChatbotTurn for TLC. *)
EXTENDS ChatbotTurn, TLC

Symmetric == Permutations(Turns)
=============================================================================
