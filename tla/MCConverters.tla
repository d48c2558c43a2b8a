---------------------------- MODULE MCConverters ----------------------------
(* Converters for TLC.  DecoupleChain is one run of the converter that the   *)
(* documents describe; FullChain has both converters twice, so that a run on *)
(* an already converted configuration is covered.                            *)
EXTENDS Converters

DecoupleChain == <<"decoupleafterbatch">>
FullChain == <<"disablequeuedretry", "decoupleafterbatch", "disablequeuedretry",
               "decoupleafterbatch">>
=============================================================================
