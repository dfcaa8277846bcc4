--------------------------- MODULE MC_GateServer ---------------------------
(* The collectors of buildCollectors; see GateServer.cfg.                  *)
EXTENDS GateServer

MCSources == {"prometheus", "scaling", "logs", "deploys"}
=============================================================================
