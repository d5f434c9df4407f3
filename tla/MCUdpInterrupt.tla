--------------------------- MODULE MCUdpInterrupt ---------------------------
(* UdpInterrupt with one address and the datagrams of a regular session.     *)
EXTENDS UdpInterrupt

CONSTANTS welcome, alice

MCInputs ==
    [type : {"CONFIRM", "REPLY", "MSG"}, id : {0, 1}, ref : {0}, ok : {TRUE}, valid : {TRUE}, from : {welcome}]
=============================================================================
