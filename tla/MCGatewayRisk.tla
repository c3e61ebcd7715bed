--------------------------- MODULE MCGatewayRisk ----------------------------
(* Two gateways and three signals: two purchases that fill the room of the *)
(* day exactly, though not that of the week, which began with a loss, and  *)
(* a sale.                                                                 *)
EXTENDS GatewayRisk

MCPeriods   == {"day", "week"}
MCSignals   == {"buy", "other", "sell"}
MCRisk      == [s \in MCSignals |-> IF s = "sell" THEN 0 ELSE 1]
MCLossLimit == [p \in MCPeriods |-> IF p = "day" THEN 2 ELSE 4]
MCStartPnl  == [p \in MCPeriods |-> IF p = "day" THEN 0 ELSE -1]
=============================================================================
