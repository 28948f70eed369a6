---------------------------- MODULE MCPanelOutbox ----------------------------
(* Small instances of PanelOutbox for TLC.                                  *)
EXTENDS PanelOutbox

EveryFault == AllFaultKinds
=============================================================================
