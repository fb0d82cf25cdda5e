------------------------------ MODULE MCSetup ------------------------------
(* Three of the board's seven devices.  The lines are shortened, keeping their
   order of length and their lengths modulo the word of four bytes (28, 31 and 21
   bytes in bootorder_def for an SD card, mSATA and the network boot ROM). *)
EXTENDS Setup

MCDevices == <<"a", "d", "g">>
MCLineLen == [d \in {"a", "d", "g"} |-> CASE d = "a" -> 8 [] d = "d" -> 11 [] OTHER -> 5]
=============================================================================
