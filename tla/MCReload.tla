------------------------------ MODULE MCReload ------------------------------
(* Instance of Reload for TLC: one database of each way of reading.        *)
EXTENDS Reload

MCOrder == <<"geoip", "nets", "engines", "macs">>
WorkerSymmetry == Permutations(Workers)
=============================================================================
