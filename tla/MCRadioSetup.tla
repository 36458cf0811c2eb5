---------------------------- MODULE MCRadioSetup ----------------------------
(* Two boards: one starts as a node of the gateway's pipe 2, one as gateway. *)
EXTENDS RadioSetup

MCBoards == {"A", "B"}
MCNodeAddress == [b \in MCBoards |-> GatewayAddress(IF b = "A" THEN 2 ELSE 0)]
MCFirstRole == [b \in MCBoards |-> IF b = "A" THEN "node" ELSE "gateway"]
=============================================================================
