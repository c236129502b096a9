------------------------------- MODULE MCHost ------------------------------
(* A small instance of MoonepHost.                                          *)
EXTENDS MoonepHost

CONSTANTS sa, sb, sc
=============================================================================
