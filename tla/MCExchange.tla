----------------------------- MODULE MCExchange ----------------------------
(* A small instance of MoonepExchange: steps closed by a rank barrier and   *)
(* steps closed by a local event, in every order.                           *)
EXTENDS MoonepExchange
=============================================================================
