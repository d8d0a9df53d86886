-------------------------- MODULE MC_OpenAQStreams --------------------------
(* Small instances of OpenAQStreams.                                          *)
EXTENDS OpenAQStreams, TLC

CONSTANTS s1, s2

HourOne == [s \in Stream |-> {1}]
NoHours == [s \in Stream |-> {}]
=============================================================================
