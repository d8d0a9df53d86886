---------------------------- MODULE MC_CopilotChat ----------------------------
(* A small instance of CopilotChat: two chats and a briefing on one session,   *)
(* the briefing from the address of one of the chats.                        *)
EXTENDS CopilotChat, TLC

CONSTANTS a, b, c, i, j, s

TwoFromOne == [x \in Request |-> IF x = b THEN j ELSE i]
PlaceOf == [x \in Request |-> CASE x = a -> "city" [] x = b -> "national" [] OTHER -> "station"]
SomeTools == {{"focus_type", "city", "date"}}
OneSession == [x \in Request |-> s]
=============================================================================
