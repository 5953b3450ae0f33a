----------------------------- MODULE MCAppliance -----------------------------
(* Instances of Appliance for TLC. *)
EXTENDS Appliance
================================================================================
