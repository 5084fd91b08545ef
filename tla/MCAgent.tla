------------------------------- MODULE MCAgent -------------------------------
(* The agent's runs on a small instance: reports of two periods.           *)
EXTENDS AgentRuns

MCScopes == <<"recent_3h", "recent_24h">>
=============================================================================
