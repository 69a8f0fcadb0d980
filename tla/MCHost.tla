------------------------------- MODULE MCHost -------------------------------
(***************************************************************************)
(* TLC instances of HostSession.                                           *)
(***************************************************************************)
EXTENDS HostSession, Firmware

BlankSram == {[a \in ByteAddr |-> 255]}

Session(is, calling, bytes, n) ==
  [images |-> is, script |-> calling, data |-> bytes, interrupts |-> n]

(* Images of up to three bytes: 24 is the high byte of a JMP, 0 of a NOP,  *)
(* none of which ever answers; the last one raises HOST_STATUS at once and *)
(* never lets go.  The first load may be abandoned; a call that fails is   *)
(* followed by another load.  An image that fills the memory cannot be     *)
(* loaded, see FullImage.                                                  *)
SmallImages ==
  UNION {[1..n -> {0, 24}] : n \in 1..2}
    \cup {<<0, 24, 0>>, to_bytes(<<set_pin(0, 5, 1)>>)}
Retry == Session(SmallImages, <<"send", "load">>, {0}, 1)

(* Three bytes through the echo firmware.                                  *)
Echo == Session({to_bytes(EchoFirmware)},
                <<"send", "recv", "send", "recv", "send", "recv">>, {0, 65}, 0)

RetryOrEcho == {Retry, Echo}

(* An image of exactly the size of the SRAM.                               *)
FullImage == {Session({[i \in 1..1024 |-> (37 * i) % 251]}, <<>>, {0}, 0)}
=============================================================================
