-------------------------- MODULE MCLibaioContext --------------------------
(* Model values and bounds for checking LibaioContext with TLC.           *)
EXTENDS LibaioContext

CONSTANTS s1, s2, bp, p1, p2, del

MCSubmitters == {s1, s2}
MCBlockedPoller == {bp}
MCPollers == {p1}
MCTwoPollers == {p1, p2}
=============================================================================
