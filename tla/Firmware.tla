------------------------------ MODULE Firmware ------------------------------
(***************************************************************************)
(* Programs the repository runs on the chip, as word sequences.            *)
(***************************************************************************)
EXTENDS IsaAsm

GO_PIN == 4
STATUS_PIN == 5

EchoAcksFirst ==   \* fault: HOST_STATUS before OUT
  << wait(GO_PIN, 1, 0, 0), in(0), set_pin(0, STATUS_PIN, 1),
     wait(GO_PIN, 0, 0, 0), set_pin(0, STATUS_PIN, 0),
     wait(GO_PIN, 1, 0, 0), set_pin(0, STATUS_PIN, 1), out(0),
     wait(GO_PIN, 0, 0, 0), set_pin(0, STATUS_PIN, 0),
     jmp(0) >>

EchoNoInterlock ==   \* fault: does not wait for HOST_GO to fall
  << wait(GO_PIN, 1, 0, 0), in(0), set_pin(0, STATUS_PIN, 1),
     set_pin(0, STATUS_PIN, 0),
     wait(GO_PIN, 1, 0, 0), out(0), set_pin(0, STATUS_PIN, 1),
     wait(GO_PIN, 0, 0, 0), set_pin(0, STATUS_PIN, 0),
     jmp(0) >>

(* ECHO of test_host_loader.py: replies with the byte it was sent.         *)
EchoFirmware ==
  << wait(GO_PIN, 1, 0, 0), in(0), set_pin(0, STATUS_PIN, 1),
     wait(GO_PIN, 0, 0, 0), set_pin(0, STATUS_PIN, 0),
     wait(GO_PIN, 1, 0, 0), out(0), set_pin(0, STATUS_PIN, 1),
     wait(GO_PIN, 0, 0, 0), set_pin(0, STATUS_PIN, 0),
     jmp(0) >>
=============================================================================
