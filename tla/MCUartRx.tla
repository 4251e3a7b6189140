------------------------------- MODULE MCUartRx -------------------------------
(***************************************************************************)
(* UartRx on small instances: buffers of 4 to 9 bytes stand for the code's *)
(* 256 and 5120; each configuration names the assumptions it makes.        *)
(***************************************************************************)
EXTENDS UartRx
=============================================================================
