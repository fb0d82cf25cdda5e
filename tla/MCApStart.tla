----------------------------- MODULE MCApStart -----------------------------
(* Instance of ApStart: the BSP, three APs, an APIC device that is disabled  *)
(* and a device on the CPU bus without an APIC path.                       *)
EXTENDS ApStart

CONSTANTS bsp, ap1, ap2, ap3, disabled, other

MCChildren == <<bsp, ap1, disabled, other, ap2, ap3>>
MCApic == {bsp, ap1, disabled, ap2, ap3}
MCEnabled == {bsp, ap1, other, ap2, ap3}
=============================================================================
