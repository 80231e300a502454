------------------------------- MODULE MCNcpUart -------------------------------
(* A small instance of NcpUart: the three baud rates, a host that also     *)
(* asks for one the bridge does not accept, and queues of three and two    *)
(* entries.                                                                *)
EXTENDS NcpUart

CONSTANTS b57600, b115200, b1M, odd

MCAcceptable == <<b57600, b115200, b1M>>
=============================================================================
