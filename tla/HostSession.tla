----------------------------- MODULE HostSession -----------------------------
(***************************************************************************)
(* What the host library and the chip achieve together, over the two wires *)
(* HOST_GO and HOST_STATUS and no shared clock: images arrive byte for     *)
(* byte, execution starts on the whole image, and a session with firmware  *)
(* that keeps the documented handshake moves every byte exactly once.      *)
(***************************************************************************)
EXTENDS PeHost

-----------------------------------------------------------------------------
(* Boot.                                                                   *)
Streaming == hpc \in {"set_ui", "go", "ack", "echo", "ungo", "clear"}
BeforeReset == {"release", "go_low", "start_low", "reset"}
Taken == IF boot_full THEN MemBytes ELSE boot_addr

Holds(n) == \A i \in 1..n : sram[i - 1] = image[i]

(* The host and the chip never disagree on the byte count by more than the *)
(* byte in flight, and everything the chip has counted is in memory, at    *)
(* its place (pe_host.py:60-68, core.v:367-380, pin_ctrl.v:136-139).       *)
BootInStep ==
  Streaming => /\ state = S_LOAD
               /\ Taken \in {k - 1, k}
               /\ Holds(Taken)

(* HOST_STATUS is only raised once the byte is written and its echo is on  *)
(* uo_out, so a host that waits for it never reads a stale echo            *)
(* (pe_host.py:63-66; docs/architecture.md, write-commit).                 *)
AckIsCommit ==
  hpc \in {"echo", "ungo"} =>
    Taken = k /\ Holds(k) /\ uo_out_reg = boot_addr % 256

(* Execution starts on the whole image, on nothing but it, with registers  *)
(* and pins as reset left them and no handshake half done.  (What the      *)
(* START of an abandoned load still starts is reset before the next.)      *)
WholeImage ==
  [][state = S_LOAD /\ state' = S_FETCH_LO /\ hpc \notin BeforeReset =>
       /\ hpc \in {"hold1", "unstart"}
       /\ Taken = Len(image) /\ Holds(Len(image))
       /\ sram' = sram
       /\ ~load_ack /\ HOST_GO \notin uio_in_ff2
       /\ uo_out_reg' = 0 /\ drv' = [p \in PinIndex |-> 0]]_allVars

(* Once the chip is reset, only the byte in flight is ever written, at its *)
(* place: a strobe of an abandoned load that reaches the chip late, a byte *)
(* written twice or past the end would break this (core.v:297-300,         *)
(* pe_host.py:56-59).                                                      *)
NothingBeyond ==
  [][state = S_LOAD /\ state' = S_LOAD /\ hpc \notin BeforeReset =>
       \A a \in ByteAddr : sram'[a] # sram[a] => Streaming /\ a = k - 1]_allVars

(* No load fails, whatever the firmware before it has left the wires like: *)
(* every wait is answered within Patience, every echo is the one expected. *)
NoHostError ==
  hpc = "error" => calls > 0 /\ Script[calls] \in {"send", "recv"}

(* Every load and every call completes, with the firmware running and the  *)
(* chip in charge of uio[6].                                               *)
SessionEnds ==
  <>[](/\ hpc = "idle" /\ calls = Len(Script)
       /\ state # S_LOAD /\ seen_start_fall)

-----------------------------------------------------------------------------
(* A session with the echo firmware of src/test/test_host_loader.py.       *)

(* recv() returns, in order, exactly the bytes send() gave: none lost,     *)
(* read twice or left over from boot.                                      *)
EchoesInOrder ==
  /\ Len(got) <= Len(sent)
  /\ \A i \in 1..Len(got) : got[i] = sent[i]

(* The firmware reads ui_in only while the host holds the byte on it, and  *)
(* changes uo_out only while the host is not about to read it              *)
(* (docs/architecture.md, Host handshake, timing contracts).               *)
InCommits == state = S_EXECUTE /\ ~halted /\ opcode = OP_IN
OutCommits == state = S_EXECUTE /\ ~halted /\ opcode = OP_OUT

HandshakeWindows ==
  /\ InCommits => hpc = "send_ack" /\ ui_in_sync = byte
  /\ OutCommits => hpc = "recv_ack"
=============================================================================
