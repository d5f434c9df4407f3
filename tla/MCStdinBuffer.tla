--------------------------- MODULE MCStdinBuffer ---------------------------
(* StdinBuffer against every message of two names and one text.              *)
EXTENDS StdinBuffer

CONSTANTS unknown, alice, text

MCInputs ==
    [type : ServerMsgType, ok : BOOLEAN, valid : BOOLEAN, name : {alice}, text : {text}]
=============================================================================
