--------------------------- MODULE MCConversation ---------------------------
(* Two messages, a thread that is there and as many new ones as they need. *)
EXTENDS Conversation

CONSTANTS s1, s2, t0, t1, t2

MCSends == {s1, s2}
MCThreads == {t0, t1, t2}
MCOldThreads == {t0}
=============================================================================
