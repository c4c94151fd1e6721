------------------------------ MODULE MCCivLink ------------------------------
(* Two bands, one or two transmissions, and a few faults at any moment.      *)
EXTENDS CivLink
Bands == {"20m", "40m"}
OneBand == {"20m"}
==============================================================================
