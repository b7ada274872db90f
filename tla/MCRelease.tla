------------------------------ MODULE MCRelease ------------------------------
(* Instances of Release for TLC.                                           *)
EXTENDS Release

Variables == {"CODEX_MODEL_NAME", "DIGIBUDDY_GRAPH_CLIENT_SECRET"}
Secrets == {"DIGIBUDDY_GRAPH_CLIENT_SECRET"}
=============================================================================
