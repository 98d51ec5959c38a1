---------------------------- MODULE MCCoherence ----------------------------
(* Small arrays and sets of devices for TLC.                               *)
EXTENDS Coherence

AllDev == Dev
OnlyGPUs == GPU
NoDev == {}
=============================================================================
