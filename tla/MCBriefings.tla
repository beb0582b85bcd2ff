---------------------------- MODULE MCBriefings -----------------------------
(* Two briefing messages, one of which may be delivered again, and a chat *)
(* turn that asks for both tools, before and after the bar of D is curated. *)
EXTENDS Briefings

CONSTANTS b1, b2, u1

MCBriefs == {b1, b2}
MCChats == {u1}
MCDeliveries == [j \in MCBriefs |-> IF j = b1 THEN 2 ELSE 1]
=============================================================================
