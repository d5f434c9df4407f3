---------------------------- MODULE MCUdpClient ----------------------------
(* UdpClient on a small instance, against every datagram a network can       *)
(* produce: any type, any id, valid or not, from the server or its new port. *)
EXTENDS UdpClient

CONSTANTS welcome, fresh, unknown, alice

MCAddrs == {welcome, fresh}
MCNames == {unknown, alice}

\* The fields a type does not use are fixed.
MCInputs ==
    {d \in Datagram : /\ d.type # "REPLY" => d.ref = 0 /\ d.ok /\ d.from = welcome
                      /\ ~d.valid => d.id = 0 /\ d.ref = 0 /\ d.ok /\ d.from = welcome
                      /\ d.type = "OTHER" => ~d.valid}
=============================================================================
