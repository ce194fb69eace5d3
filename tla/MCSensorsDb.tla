---------------------------- MODULE MCSensorsDb ----------------------------
(* Instance of SensorsDb for TLC.                                          *)
EXTENDS SensorsDb
=============================================================================
