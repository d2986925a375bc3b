----------------------------- MODULE MCBREvent -----------------------------
(* Instances of BREvent for TLC. *)
EXTENDS BREvent

CONSTANTS c1, c2

(* The whole API, from two threads. *)
AllCalls == [c \in {c1, c2} |->
    IF c = c1 THEN {"start", "stop", "signal"} ELSE {"start", "signal", "timeout"}]

(* createLightNode starts the handler once; node threads signal events. *)
LightNodeCalls == [c \in {c1, c2} |->
    IF c = c1 THEN {"start", "signal"} ELSE {"signal"}]
=============================================================================
