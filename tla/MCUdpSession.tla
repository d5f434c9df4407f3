---------------------------- MODULE MCUdpSession ----------------------------
(* Small instances of UdpSession.                                            *)
EXTENDS UdpSession

CONSTANTS welcome, dynamic, unknown, alice

MCAddrs == {welcome, dynamic}
MCNames == {unknown, alice}

\* The datagrams come from the server of the session only.
MCInputs == {}
=============================================================================
