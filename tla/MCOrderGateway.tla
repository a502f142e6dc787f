--------------------------- MODULE MCOrderGateway ---------------------------
(* Model checking of OrderGateway: two order/create calls, one after the     *)
(* other, on one symbol, with every loss and delay of request and reply.     *)
EXTENDS OrderGateway
=============================================================================
