---------------------------- MODULE MCChatThread ----------------------------
(* Turns of one thread, with a history short enough to be cut. *)
EXTENDS ChatThread

CONSTANTS t1, t2, a

MCTurns == {t1, t2}
MCCallIds == {a}
=============================================================================
