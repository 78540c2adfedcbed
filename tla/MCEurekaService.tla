-------------------------- MODULE MCEurekaService --------------------------
(* Instances of EurekaService for TLC.                                     *)
EXTENDS EurekaService
=============================================================================
