----------------------------- MODULE EchoProofs -----------------------------
(***************************************************************************)
(* Proofs about a session with the echo firmware of test_host_loader.py,   *)
(* for every list of loads, sends and recvs, every byte, any number of     *)
(* abandoned loads and every relative speed of host and chip.              *)
(***************************************************************************)
EXTENDS HostProofs, Firmware

EchoImage == to_bytes(EchoFirmware)

(* The sessions the firmware is written for: it is the image of every      *)
(* load, and every byte sent is taken back before the next call.           *)
Echoing ==
  \A x \in Sessions :
    /\ x.images = {EchoImage}
    /\ \A i \in DOMAIN x.script :
         x.script[i] = "recv" <=> i > 1 /\ x.script[i - 1] = "send"

(* The library waits as long as the firmware may take to answer: 12 cycles *)
(* are enough and 11 are not (four instructions of three cycles each).     *)
Patient == HoldCycles >= 3 /\ Patience >= 12

-----------------------------------------------------------------------------
(* HOST_GO behind the first and the second flop of the synchronizer.       *)
GoAt1 == HOST_GO \in uio_in_ff1
GoAt2 == HOST_GO \in uio_in_ff2

(* Clock cycles from address 0 to where the core is.                       *)
Step == 3 * pc + (IF state = S_FETCH_LO THEN 0 ELSE IF state = S_FETCH_HI THEN 1 ELSE 2)

(* The firmware is in memory, and the core runs it and nothing else.       *)
Code == \A n \in 0..10 : WordAt(sram, n) = EchoFirmware[n + 1]

Running ==
  state # S_LOAD =>
    /\ state \in {S_FETCH_LO, S_FETCH_HI, S_EXECUTE}
    /\ ~halted /\ pc \in 0..10 /\ Code
    /\ state = S_FETCH_HI => mem_rdata = sram[2 * pc]
    /\ state = S_EXECUTE => word = EchoFirmware[pc + 1]

Registers ==
  /\ ~pending_lx_writeback
  /\ regs = [r \in RegIndex |-> regs[r]]
  /\ drv = [p \in PinIndex |-> drv[p]]

(* HOST_GO at rest, or on its way to the core for timer cycles.            *)
Low == GoLow /\ ~GoAt1 /\ ~GoAt2
Up == GoHigh /\ GoAt1 /\ GoAt2
Rises == GoHigh /\ (GoAt2 => GoAt1) /\ (~GoAt1 => timer = 0) /\ (~GoAt2 => timer <= 1)
Falls == GoLow /\ (GoAt1 => GoAt2) /\ (GoAt1 => timer = 0) /\ (GoAt2 => timer <= 1)

(* The byte is on ui_in at least as early as HOST_GO.                      *)
Presented ==
  /\ ui_pin = byte
  /\ GoAt1 => ui_in_ff1 = byte
  /\ GoAt2 => ui_in_ff2 = byte

Level(v) == drv[HOST_STATUS] = v

(* Where the host is while it loads, and while it asks for nothing.        *)
Loading == BeforeReset \cup {"set_ui", "go", "ack", "echo", "ungo", "clear", "start", "hold1",
              "unstart", "hold2", "free"}
Quiet == BeforeReset \cup
  {"hold1", "unstart", "hold2", "free", "idle", "send_ui", "send_go", "recv_clear"}

(* Six stretches of the firmware, what the host can be doing meanwhile and *)
(* how long it can have waited.  The WAIT for a byte, until HOST_GO rises. *)
AwaitsByte ==
  /\ Level(0) /\ sent = got
  /\ \/ hpc \in Quiet /\ Low /\ (hpc = "send_go" => ui_pin = byte)
     \/ hpc = "send_ack" /\ Rises /\ Presented
          /\ timer <= (IF pc = 10 THEN Step - 30 ELSE Step + 3)

(* IN and the SET that acknowledges.                                       *)
Reads ==
  /\ Level(0) /\ sent = got
  /\ hpc = "send_ack" /\ Up /\ Presented /\ timer <= Step + 3
  /\ pc = 2 => regs[0] = byte

(* The WAIT for HOST_GO to fall, and the SET that withdraws.               *)
Acks ==
  /\ Level(1) /\ sent = got /\ regs[0] = byte
  /\ \/ hpc \in {"send_ack", "send_ungo"} /\ Up /\ pc = 3
     \/ hpc = "send_clear" /\ Falls /\ timer <= Step - 9 /\ (pc = 4 => ~GoAt2)

(* The byte that was read has not been returned.                           *)
Owes == sent = Append(got, regs[0])

(* The WAIT for recv().                                                    *)
AwaitsRecv ==
  /\ Level(0)
  /\ \/ hpc = "send_clear" /\ Low /\ sent = got /\ regs[0] = byte
     \/ hpc \in {"idle", "recv_go"} /\ Low /\ Owes
     \/ hpc = "recv_ack" /\ Rises /\ Owes /\ timer <= Step - 15

(* OUT and the SET that acknowledges.                                      *)
Writes ==
  /\ Level(0) /\ hpc = "recv_ack" /\ Up /\ Owes /\ timer <= Step - 15
  /\ pc = 7 => uo_out_reg = regs[0]

(* The WAIT for HOST_GO to fall, and the SET that withdraws.               *)
Replied ==
  /\ Level(1)
  /\ \/ hpc \in {"recv_ack", "recv_uo"} /\ Up /\ pc = 8 /\ Owes /\ uo_out_reg = regs[0]
     \/ hpc = "recv_ungo" /\ Up /\ pc = 8 /\ sent = got
     \/ hpc = "recv_clear" /\ Falls /\ sent = got /\ timer <= Step - 24 /\ (pc = 9 => ~GoAt2)

Phase ==
  /\ pc \in {10, 0} => AwaitsByte
  /\ pc \in {1, 2} => Reads
  /\ pc \in {3, 4} => Acks
  /\ pc = 5 => AwaitsRecv
  /\ pc \in {6, 7} => Writes
  /\ pc \in {8, 9} => Replied

Exchange == state # S_LOAD => Phase

(* While the chip loads, no byte is owed; before the reset of a load it    *)
(* either cannot start or starts the image it has.                         *)
Boots ==
  state = S_LOAD =>
    /\ sent = got
    /\ hpc \in BeforeReset => (START \notin high /\ Starting(0)) \/ (GoLow /\ Ready)

(* The call the host is in, and what its pc says of it.                    *)
Said == IF calls = 0 THEN "load" ELSE Script[calls]
Called ==
  /\ calls \in 0..Len(Script)
  /\ hpc \in Loading => Said = "load"
  /\ hpc \in {"send_ui", "send_go", "send_ack", "send_ungo", "send_clear"} => Said = "send"
  /\ hpc \in {"recv_go", "recv_ack", "recv_uo", "recv_ungo", "recv_clear"} => Said = "recv"
  /\ hpc = "idle" => (Said = "send" <=> pc = 5)
  /\ hpc # "error"
  /\ sent \in Seq(Byte) /\ got \in Seq(Byte)

EchoInv == Running /\ Registers /\ Exchange /\ Boots /\ Called

-----------------------------------------------------------------------------
(* The firmware: its words, where they are and what they do.               *)

(* The words of the firmware and what the decoder makes of them.           *)
LEMMA EchoWords ==
  EchoFirmware = <<20768, 14336, 10592, 20736, 10560, 20768, 12288, 10592, 20736, 10560,
                   6144>>
<1>1. wait(4, 1, 0, 0) = 20768 /\ wait(4, 0, 0, 0) = 20736
  BY DEF wait, AsmWord, RdField, PinField, AuxField, OP_WAIT
<1>2. set_pin(0, 5, 1) = 10592 /\ set_pin(0, 5, 0) = 10560
  BY DEF set_pin, AsmWord, RdField, PinField, AuxField, OP_SET
<1>3. in(0) = 14336 /\ out(0) = 12288
  BY DEF in, out, AsmWord, RdField, OP_IN, OP_OUT
<1>4. jmp(0) = 6144
  BY DEF jmp, branch, AsmWord, AddrField, OP_BRANCH, COND_JMP
<1> QED
  BY <1>1, <1>2, <1>3, <1>4 DEF EchoFirmware, GO_PIN, STATUS_PIN

LEMMA EchoDecodes ==
  /\ \A w \in {20768, 20736} :
       Opcode(w) = OP_WAIT /\ WPinIndex(w) = HOST_GO /\ WWaitMant(w) = 0
  /\ WAuxBit(20768) = 1 /\ WAuxBit(20736) = 0
  /\ Opcode(14336) = OP_IN /\ WRd(14336) = 0
  /\ Opcode(12288) = OP_OUT /\ WRd(12288) = 0
  /\ \A w \in {10592, 10560} :
       Opcode(w) = OP_SET /\ WPinIndex(w) = HOST_STATUS /\ WRd(w) = SET_MODE_LEAVE
  /\ WAuxBit(10592) = 1 /\ WAuxBit(10560) = 0
  /\ Opcode(6144) = OP_BRANCH /\ WCond(6144) = COND_JMP /\ WAddr(6144) = 0
<1>1. Opcode(6144) = OP_BRANCH /\ WCond(6144) = COND_JMP
  BY DEF Opcode, WCond, OP_BRANCH, COND_JMP
<1>2. WAddr(6144) = 0
  <2>1. WAddr(6144) = 0 % Words
    BY DEF WAddr
  <2>2. 0 % Words = 0
    BY WordsAssumption
  <2> QED BY <2>1, <2>2
<1>3. \A w \in {20768, 20736} :
        Opcode(w) = OP_WAIT /\ WPinIndex(w) = HOST_GO /\ WWaitMant(w) = 0
  BY DEF Opcode, WPinIndex, WWaitMant, OP_WAIT, HOST_GO
<1>4. \A w \in {10592, 10560} :
       Opcode(w) = OP_SET /\ WPinIndex(w) = HOST_STATUS /\ WRd(w) = SET_MODE_LEAVE
  BY DEF Opcode, WPinIndex, WRd, OP_SET, HOST_STATUS, SET_MODE_LEAVE
<1>5. /\ WAuxBit(20768) = 1 /\ WAuxBit(20736) = 0
      /\ WAuxBit(10592) = 1 /\ WAuxBit(10560) = 0
  BY DEF WAuxBit
<1>6. /\ Opcode(14336) = OP_IN /\ WRd(14336) = 0
      /\ Opcode(12288) = OP_OUT /\ WRd(12288) = 0
  BY DEF Opcode, WRd, OP_IN, OP_OUT
<1> QED BY <1>1, <1>2, <1>3, <1>4, <1>5, <1>6


(* The words at the addresses.                                             *)
LEMMA EchoAt ==
  /\ EchoFirmware \in Seq(Word) /\ Len(EchoFirmware) = 11
  /\ EchoFirmware[1] = 20768 /\ EchoFirmware[6] = 20768
  /\ EchoFirmware[4] = 20736 /\ EchoFirmware[9] = 20736
  /\ EchoFirmware[3] = 10592 /\ EchoFirmware[8] = 10592
  /\ EchoFirmware[5] = 10560 /\ EchoFirmware[10] = 10560
  /\ EchoFirmware[2] = 14336 /\ EchoFirmware[7] = 12288 /\ EchoFirmware[11] = 6144
<1>1. /\ 20768 \in Word /\ 14336 \in Word /\ 10592 \in Word /\ 20736 \in Word
      /\ 10560 \in Word /\ 12288 \in Word /\ 6144 \in Word
  BY DEF Word
<1> QED BY <1>1, EchoWords

(* What was loaded is the program.                                         *)
LEMMA CodeHeld ==
  ASSUME image = EchoImage, Holds(Len(image))
  PROVE  Code /\ Len(image) = 22
<1>1. Len(image) = 22
  <2>1. EchoFirmware \in Seq(Word) /\ Len(EchoFirmware) = 11 /\ 0 \in 0..(11 - 1)
    BY EchoAt
  <2>2. Len(to_bytes(EchoFirmware)) = 2 * 11
    BY <2>1, ImageWord
  <2> QED BY <2>2 DEF EchoImage
<1>2. ASSUME NEW n \in 0..10
      PROVE  WordAt(sram, n) = EchoFirmware[n + 1]
  <2>1. 2 * n + 1 \in 1..22 /\ 2 * n + 2 \in 1..22 /\ n \in 0..(Len(EchoFirmware) - 1)
    <3>1. 2 * n + 1 \in 1..22 /\ 2 * n + 2 \in 1..22
      OBVIOUS
    <3>2. Len(EchoFirmware) = 11
      BY EchoAt
    <3> HIDE DEF EchoFirmware
    <3> QED BY <3>1, <3>2
  <2>2. /\ sram[2 * n + 1 - 1] = image[2 * n + 1] /\ 2 * n + 1 - 1 = 2 * n
        /\ sram[2 * n + 2 - 1] = image[2 * n + 2] /\ 2 * n + 2 - 1 = 2 * n + 1
    <3> DEFINE c == 2 * n + 1
               d == 2 * n + 2
    <3>1. c \in 1..Len(image) /\ d \in 1..Len(image)
      BY <1>1, <2>1
    <3>2. c - 1 = 2 * n /\ d - 1 = 2 * n + 1
      OBVIOUS
    <3> HIDE DEF c, d
    <3>3. sram[c - 1] = image[c] /\ sram[d - 1] = image[d]
      BY <3>1 DEF Holds
    <3> QED BY <3>2, <3>3 DEF c, d
  <2>3. 256 * image[2 * n + 2] + image[2 * n + 1] = EchoFirmware[n + 1]
    <3>1. EchoFirmware \in Seq(Word) /\ n \in 0..(Len(EchoFirmware) - 1)
      BY <2>1, EchoAt
    <3> QED BY <3>1, ImageWord DEF EchoImage
  <2> QED BY <2>2, <2>3 DEF WordAt
<1> QED BY <1>1, <1>2 DEF Code

(* What each instruction does to the pc, and when it is done.              *)
LEMMA EchoSteps ==
  ASSUME Words >= 12, pc \in 0..10, word = EchoFirmware[pc + 1]
  PROVE  /\ opcode \notin {OP_HALT, OP_DELAY, OP_LOAD, OP_LOADX, OP_STORE, OP_OUTB}
         /\ opcode = OP_IN <=> pc = 1
         /\ opcode = OP_OUT <=> pc = 6
         /\ opcode = OP_SET <=> pc \in {2, 4, 7, 9}
         /\ opcode = OP_WAIT <=> pc \in {0, 3, 5, 8}
         /\ next_pc = IF pc = 10 THEN 0 ELSE pc + 1
         /\ reg_w_en <=> pc = 1
         /\ pc \in {1, 6} => WRd(word) = 0
         /\ pc \in {2, 4, 7, 9} =>
              /\ WRd(word) = SET_MODE_LEAVE /\ WPinIndex(word) = HOST_STATUS
              /\ WAuxBit(word) = IF pc \in {2, 7} THEN 1 ELSE 0
         /\ pc \in {0, 3, 5, 8} =>
              /\ WPinIndex(word) = HOST_GO /\ WWaitMant(word) = 0
              /\ WAuxBit(word) = IF pc \in {0, 5} THEN 1 ELSE 0
<1>1. /\ pc = 0 \/ pc = 5 => word = 20768
      /\ pc = 3 \/ pc = 8 => word = 20736
      /\ pc = 2 \/ pc = 7 => word = 10592
      /\ pc = 4 \/ pc = 9 => word = 10560
      /\ pc = 1 => word = 14336
      /\ pc = 6 => word = 12288
      /\ pc = 10 => word = 6144
  <2>1. /\ pc = 0 => word = EchoFirmware[1]
        /\ pc = 1 => word = EchoFirmware[2]
        /\ pc = 2 => word = EchoFirmware[3]
        /\ pc = 3 => word = EchoFirmware[4]
        /\ pc = 4 => word = EchoFirmware[5]
        /\ pc = 5 => word = EchoFirmware[6]
        /\ pc = 6 => word = EchoFirmware[7]
        /\ pc = 7 => word = EchoFirmware[8]
        /\ pc = 8 => word = EchoFirmware[9]
        /\ pc = 9 => word = EchoFirmware[10]
        /\ pc = 10 => word = EchoFirmware[11]
    OBVIOUS
  <2> QED BY <2>1, EchoAt
<1> USE DEF OP_HALT, OP_DELAY, OP_LOAD, OP_LOADX, OP_STORE, OP_OUTB, OP_IN, OP_OUT, OP_SET,
            OP_WAIT, OP_BRANCH, OP_LOOP, OP_RET, OP_LDI, OP_SHIFT, OP_INB, OP_XOR, OP_ADD
<1>2. /\ pc \in {0, 3, 5, 8} => opcode = 10 /\ WPinIndex(word) = HOST_GO /\ WWaitMant(word) = 0
      /\ pc \in {2, 4, 7, 9} => opcode = 5 /\ WPinIndex(word) = HOST_STATUS
                                  /\ WRd(word) = SET_MODE_LEAVE
      /\ pc \in {0, 5} => WAuxBit(word) = 1
      /\ pc \in {3, 8} => WAuxBit(word) = 0
      /\ pc \in {2, 7} => WAuxBit(word) = 1
      /\ pc \in {4, 9} => WAuxBit(word) = 0
      /\ pc = 1 => opcode = 7 /\ WRd(word) = 0
      /\ pc = 6 => opcode = 6 /\ WRd(word) = 0
      /\ pc = 10 => opcode = 3 /\ WCond(word) = COND_JMP /\ WAddr(word) = 0
  BY <1>1, EchoDecodes DEF opcode
<1>3. pc \in {0, 3, 5, 8} \/ pc \in {2, 4, 7, 9} \/ pc = 1 \/ pc = 6 \/ pc = 10
  OBVIOUS
<1>4. pc # 10 => pc_plus_1 = pc + 1
  BY WordsAssumption DEF pc_plus_1
<1>5. next_pc = IF pc = 10 THEN 0 ELSE pc + 1
  <2>1. CASE pc = 10
    <3>1. branch_taken
      BY <2>1, <1>2 DEF branch_taken
    <3> QED BY <2>1, <3>1, <1>2 DEF next_pc
  <2>2. CASE pc # 10
    <3>1. opcode \in {5, 6, 7, 10}
      BY <2>2, <1>2, <1>3
    <3>2. ~branch_taken /\ ~loop_taken /\ ~is_ret
      BY <3>1 DEF branch_taken, loop_taken, is_ret
    <3> QED BY <2>2, <3>2, <1>4 DEF next_pc
  <2> QED BY <2>1, <2>2
<1>6. reg_w_en <=> pc = 1
  BY <1>2, <1>3 DEF reg_w_en
<1>7. /\ opcode \in {3, 5, 6, 7, 10}
      /\ opcode = 7 <=> pc = 1
      /\ opcode = 6 <=> pc = 6
      /\ opcode = 5 <=> pc \in {2, 4, 7, 9}
      /\ opcode = 10 <=> pc \in {0, 3, 5, 8}
  BY <1>2, <1>3
<1> QED BY <1>2, <1>5, <1>6, <1>7

-----------------------------------------------------------------------------
(* What an edge does to the firmware.                                      *)

(* A fetch: the word at pc comes in, nothing the program sees changes.     *)
Fetching ==
  /\ state # S_EXECUTE /\ pc' = pc /\ Step' = Step + 1
  /\ UNCHANGED <<regs, drv, uo_out_reg>>

(* A WAIT for HOST_GO that is not over.                                    *)
Holding ==
  /\ state = S_EXECUTE
  /\ (pc \in {0, 5} /\ ~GoAt2) \/ (pc \in {3, 8} /\ GoAt2)
  /\ UNCHANGED <<state, pc, regs, drv, uo_out_reg>>

(* An instruction that is over.                                            *)
Committing ==
  /\ state = S_EXECUTE /\ state' = S_FETCH_LO
  /\ pc \in {0, 5} => GoAt2
  /\ pc \in {3, 8} => ~GoAt2
  /\ pc' = IF pc = 10 THEN 0 ELSE pc + 1
  /\ regs' = IF pc = 1 THEN [regs EXCEPT ![0] = ui_in_ff2] ELSE regs
  /\ drv' = IF pc \in {2, 4, 7, 9}
              THEN [drv EXCEPT ![HOST_STATUS] = IF pc \in {2, 7} THEN 1 ELSE 0]
              ELSE drv
  /\ uo_out_reg' = IF pc = 6 THEN regs[0] ELSE uo_out_reg

(* The pin controller is asked for something only by the SETs.             *)
LEMMA EchoPins ==
  ASSUME Words >= 12, Running, Registers, state # S_LOAD,
         DrivePins(pin_request)
  PROVE  drv' = IF state = S_EXECUTE /\ pc \in {2, 4, 7, 9}
                  THEN [drv EXCEPT ![HOST_STATUS] = IF pc \in {2, 7} THEN 1 ELSE 0]
                  ELSE drv
<1>1. /\ ~mode_load /\ pc \in 0..10
      /\ state = S_EXECUTE => word = EchoFirmware[pc + 1]
  BY DEF mode_load, Running
<1>2. CASE state = S_EXECUTE
  <2>1. word = EchoFirmware[pc + 1]
    BY <1>1, <1>2
  <2>2. /\ opcode # OP_OUTB
        /\ opcode = OP_SET <=> pc \in {2, 4, 7, 9}
        /\ pc \in {2, 4, 7, 9} =>
              /\ WRd(word) = SET_MODE_LEAVE /\ WPinIndex(word) = HOST_STATUS
              /\ WAuxBit(word) = IF pc \in {2, 7} THEN 1 ELSE 0
    BY <1>1, <2>1, EchoSteps
  <2>3. ~pin_request.outb_en
    BY <2>2 DEF pin_request
  <2>4. pin_request.set_en <=> (exec_commit /\ pc \in {2, 4, 7, 9})
    BY <1>1, <2>2 DEF pin_request
  <2>5. pc \in {2, 4, 7, 9} => exec_commit
    BY <1>2, <2>2 DEF exec_commit, exec_done, delay_pending, wait_pending, OP_SET,
       OP_DELAY, OP_WAIT
  <2>6. pc \in {2, 4, 7, 9} =>
          /\ pin_request.pin_index = HOST_STATUS
          /\ pin_request.set_value = IF pc \in {2, 7} THEN 1 ELSE 0
    BY <1>1, <2>2 DEF pin_request, pin_index
  <2> QED BY <1>2, <2>3, <2>4, <2>5, <2>6 DEF DrivePins
<1>3. CASE state # S_EXECUTE
  <2>1. ~exec_commit
    BY <1>3 DEF exec_commit
  <2>2. ~pin_request.outb_en /\ ~pin_request.set_en
    BY <1>1, <2>1 DEF pin_request
  <2> QED BY <1>3, <2>2 DEF DrivePins
<1> QED BY <1>2, <1>3

(* When the instruction in EXECUTE is over.                                *)
LEMMA EchoDone ==
  ASSUME Words >= 12, Running, state = S_EXECUTE
  PROVE  ~exec_done <=> (pc \in {0, 5} /\ ~GoAt2) \/ (pc \in {3, 8} /\ GoAt2)
<1>1. /\ pc \in 0..10 /\ word = EchoFirmware[pc + 1]
  BY DEF Running, S_LOAD, S_EXECUTE
<1>2. /\ opcode # OP_DELAY
      /\ opcode = OP_WAIT <=> pc \in {0, 3, 5, 8}
      /\ pc \in {0, 3, 5, 8} =>
              /\ WPinIndex(word) = HOST_GO /\ WWaitMant(word) = 0
              /\ WAuxBit(word) = IF pc \in {0, 5} THEN 1 ELSE 0
  BY <1>1, EchoSteps
<1>3. ~exec_done <=> pc \in {0, 3, 5, 8} /\ ~wait_condition_met
  BY <1>2 DEF exec_done, delay_pending, wait_pending, wait_has_timeout
<1>4. pc \in {0, 3, 5, 8} =>
        (wait_condition_met <=> (IF GoAt2 THEN 1 ELSE 0) = IF pc \in {0, 5} THEN 1 ELSE 0)
  BY <1>2 DEF wait_condition_met, pin_read, pin_index, PinRead, mode_load, GoAt2,
     S_LOAD, S_EXECUTE
<1> QED BY <1>3, <1>4

(* An edge while the core fetches.                                         *)
LEMMA EchoFetches ==
  ASSUME Words >= 12, Running, Registers, state \notin {S_LOAD, S_EXECUTE},
         NEW ui, NEW uio, Clock(ui, uio)
  PROVE  /\ state' # S_LOAD /\ Running' /\ Registers' /\ Fetching
         /\ state' # S_FETCH_LO
<1> USE DEF S_LOAD, S_FETCH_LO, S_FETCH_HI, S_EXECUTE
<1>1. Fsm /\ RegfileClock /\ MemClock /\ DrivePins(pin_request)
  BY DEF Clock, PinClock
<1>2. ~halted /\ pc \in 0..10 /\ Code /\ state \in {S_FETCH_LO, S_FETCH_HI}
  BY DEF Running
<1>3. drv' = drv
  BY <1>1, EchoPins
<1>4. regs' = regs
  BY <1>1 DEF RegfileClock, Registers
<1>5. sram' = sram /\ mem_rdata' = sram[mem_addr]
  BY <1>1, PortReads
<1>6. Code'
  BY <1>2, <1>5 DEF Code, WordAt
<1>7. CASE state = S_FETCH_LO
  <2>1. FetchLo
    BY <1>1, <1>2, <1>7 DEF Fsm, Frozen, LoadStart, LoadAcked, LoadByte, LoadIdle, FetchHi,
       ExecuteHold, ExecuteHalt, ExecuteCommit
  <2>2. /\ state' = S_FETCH_HI /\ pc' = pc /\ ~halted' /\ ~pending_lx_writeback'
        /\ uo_out_reg' = uo_out_reg
    BY <1>2, <2>1 DEF FetchLo
  <2>3. mem_rdata' = sram'[2 * pc']
    BY <1>5, <1>7, <2>2 DEF mem_addr
  <2>4. Running'
    BY <1>2, <1>6, <2>2, <2>3 DEF Running
  <2>5. Registers'
    BY <1>3, <1>4, <2>2 DEF Registers
  <2>6. Step' = Step + 1
    BY <1>2, <1>7, <2>2 DEF Step
  <2> QED BY <1>3, <1>4, <1>7, <2>2, <2>4, <2>5, <2>6 DEF Fetching
<1>8. CASE state = S_FETCH_HI
  <2>1. FetchHi
    BY <1>1, <1>2, <1>8 DEF Fsm, Frozen, LoadStart, LoadAcked, LoadByte, LoadIdle, FetchLo,
       ExecuteHold, ExecuteHalt, ExecuteCommit
  <2>2. /\ state' = S_EXECUTE /\ pc' = pc /\ ~halted' /\ ~pending_lx_writeback'
        /\ uo_out_reg' = uo_out_reg /\ ir_lo' = mem_rdata /\ entering_execute'
    BY <1>2, <2>1 DEF FetchHi, lxVars, Registers
  <2>3. mem_rdata' = sram[2 * pc + 1] /\ mem_rdata = sram[2 * pc]
    BY <1>5, <1>8 DEF mem_addr, Running
  <2>4. word' = EchoFirmware[pc + 1]
    <3>1. word' = WordAt(sram, pc)
      BY <2>2, <2>3 DEF word, WordAt
    <3> QED BY <3>1, <1>2 DEF Code
  <2>5. Running'
    BY <1>2, <1>6, <2>2, <2>4 DEF Running
  <2>6. Registers'
    BY <1>3, <1>4, <2>2 DEF Registers
  <2>7. Step' = Step + 1
    BY <1>2, <1>8, <2>2 DEF Step
  <2> QED BY <1>3, <1>4, <1>8, <2>2, <2>5, <2>6, <2>7 DEF Fetching
<1> QED BY <1>2, <1>7, <1>8

(* An edge while it executes.                                              *)
LEMMA EchoExecutes ==
  ASSUME Words >= 12, Running, Registers, state = S_EXECUTE,
         NEW ui, NEW uio, Clock(ui, uio)
  PROVE  /\ state' # S_LOAD /\ Running' /\ Registers' /\ (Holding \/ Committing)
<1> USE DEF S_LOAD, S_FETCH_LO, S_FETCH_HI, S_EXECUTE
<1>1. Fsm /\ RegfileClock /\ MemClock /\ DrivePins(pin_request)
  BY DEF Clock, PinClock
<1>2. ~halted /\ pc \in 0..10 /\ Code /\ word = EchoFirmware[pc + 1]
  BY DEF Running
<1>3. /\ opcode \notin {OP_HALT, OP_DELAY, OP_LOAD, OP_LOADX, OP_STORE, OP_OUTB}
      /\ opcode = OP_IN <=> pc = 1
      /\ opcode = OP_OUT <=> pc = 6
      /\ next_pc = IF pc = 10 THEN 0 ELSE pc + 1
      /\ reg_w_en <=> pc = 1
      /\ pc \in {1, 6} => WRd(word) = 0
  BY <1>2, EchoSteps
<1>4. drv' = IF pc \in {2, 4, 7, 9}
               THEN [drv EXCEPT ![HOST_STATUS] = IF pc \in {2, 7} THEN 1 ELSE 0]
               ELSE drv
  BY <1>1, EchoPins
<1>5. regs' = IF pc = 1 THEN [regs EXCEPT ![0] = ui_in_ff2] ELSE regs
  <2>1. pc = 1 => exec_done
    BY EchoDone
  <2>2. pc = 1 => reg_w_sel = 0 /\ reg_w_data = ui_in_ff2
    BY <1>3 DEF reg_w_sel, reg_w_data, ui_in_sync, OP_IN, OP_LOOP, OP_LDI,
       OP_SHIFT, OP_INB, OP_XOR, OP_ADD
  <2> QED BY <1>1, <1>3, <2>1, <2>2 DEF RegfileClock
<1>6. sram' = sram
  BY <1>1, <1>3, PortReads
<1>7. Code'
  BY <1>2, <1>6 DEF Code, WordAt
<1>8. /\ regs' = [r \in RegIndex |-> regs'[r]]
      /\ drv' = [p \in PinIndex |-> drv'[p]]
  <2>1. regs = [r \in RegIndex |-> regs[r]] /\ drv = [p \in PinIndex |-> drv[p]]
    BY DEF Registers
  <2> QED BY <1>4, <1>5, <2>1, Replaced
<1>9. CASE ~exec_done
  <2>1. ExecuteHold
    BY <1>1, <1>2, <1>9 DEF Fsm, Frozen, LoadStart, LoadAcked, LoadByte, LoadIdle, FetchLo,
       FetchHi, ExecuteHalt, ExecuteCommit
  <2>2. /\ state' = state /\ pc' = pc /\ ~halted' /\ ~pending_lx_writeback'
        /\ uo_out_reg' = uo_out_reg /\ ir' = word /\ entering_execute' = FALSE
    BY <1>2, <2>1 DEF ExecuteHold, lxVars, Registers
  <2>3. word' = word
    BY <2>2 DEF word
  <2>4. (pc \in {0, 5} /\ ~GoAt2) \/ (pc \in {3, 8} /\ GoAt2)
    BY <1>9, EchoDone
  <2>5. Running'
    BY <1>2, <1>7, <2>2, <2>3 DEF Running
  <2>6. Registers'
    BY <1>8, <2>2 DEF Registers
  <2> QED BY <1>4, <1>5, <2>2, <2>4, <2>5, <2>6 DEF Holding
<1>10. CASE exec_done
  <2>1. ExecuteCommit
    BY <1>1, <1>2, <1>3, <1>10 DEF Fsm, Frozen, LoadStart, LoadAcked, LoadByte, LoadIdle,
       FetchLo, FetchHi, ExecuteHalt, ExecuteHold
  <2>2. /\ state' = S_FETCH_LO /\ pc' = next_pc /\ ~halted' /\ ~pending_lx_writeback'
        /\ uo_out_reg' = IF pc = 6 THEN regs[0] ELSE uo_out_reg
    <3>1. pc = 6 => ra_data = regs[0]
      BY <1>3 DEF ra_data, OP_OUT, OP_LOOP
    <3>2. /\ state' = S_FETCH_LO /\ pc' = next_pc /\ halted' = halted
          /\ pending_lx_writeback' =
               (pending_lx_writeback \/ opcode \in {OP_LOAD, OP_LOADX})
          /\ uo_out_reg' = IF opcode = OP_OUT THEN ra_data ELSE uo_out_reg
      BY <2>1 DEF ExecuteCommit
    <3> QED BY <1>2, <1>3, <3>1, <3>2 DEF Registers
  <2>3. /\ pc \in {0, 5} => GoAt2
        /\ pc \in {3, 8} => ~GoAt2
    BY <1>10, EchoDone
  <2>4. pc' \in 0..10
    BY <1>2, <1>3, <2>2
  <2>5. Running'
    BY <1>7, <2>2, <2>4 DEF Running
  <2>6. Registers'
    BY <1>8, <2>2 DEF Registers
  <2> QED BY <1>3, <1>4, <1>5, <2>2, <2>3, <2>5, <2>6 DEF Committing
<1> QED BY <1>9, <1>10

-----------------------------------------------------------------------------
(* What an edge does to the wires.                                         *)

(* What an edge does to the wires, and what it leaves of the host.         *)
EdgeSeen ==
  /\ UNCHANGED <<hpc, sent, got, byte, ui_pin, image>>
  /\ GoLow' <=> GoLow
  /\ GoHigh' <=> GoHigh
  /\ GoAt1' <=> GoHigh
  /\ GoAt2' <=> GoAt1
  /\ ui_in_ff1' = ui_pin /\ ui_in_ff2' = ui_in_ff1
  /\ timer \in Nat /\ timer' \in Nat /\ timer' <= timer + 1

(* HOST_GO is the host's alone, also while a program runs.                 *)
LEMMA RunPads ==
  ASSUME ClockEdge
  PROVE  \E uio : Clock(ui_pin, uio) /\ (HOST_GO \in uio <=> GoHigh)
<1>1. HOST_GO \notin ChipDrives
  BY DEF ChipDrives, UioOe, ProtocolPins, HOST_GO, HOST_STATUS, START
<1>2. PICK undefined \in SUBSET Fought :
        Clock(ui_pin, (PadsHigh \ Fought) \cup undefined)
  BY DEF ClockEdge
<1>3. HOST_GO \notin Fought /\ HOST_GO \notin undefined
  BY <1>1 DEF Fought
<1>4. HOST_GO \in PadsHigh <=> GoHigh
  BY <1>1 DEF PadsHigh, GoHigh
<1> QED BY <1>2, <1>3, <1>4

(* What every edge does to them.                                           *)
LEMMA TickSeen ==
  ASSUME ChipTick, timer \in Nat
  PROVE  EdgeSeen
<1>1. PICK uio : Clock(ui_pin, uio) /\ (HOST_GO \in uio <=> GoHigh)
  BY RunPads DEF ChipTick
<1>2. Synchronize(ui_pin, uio)
  BY <1>1 DEF Clock, PinClock
<1>3. UNCHANGED <<hpc, sent, got, byte, ui_pin, image, driven, high>>
  BY DEF ChipTick, driverVars, hostPins
<1>4. timer' \in Nat /\ timer' <= timer + 1
  BY TickTimer
<1>5. GoAt1' = (HOST_GO \in uio) /\ (GoAt2' <=> GoAt1)
  BY <1>2 DEF Synchronize, GoAt1, GoAt2
<1>6. (GoLow' <=> GoLow) /\ (GoHigh' <=> GoHigh)
  BY <1>3 DEF GoLow, GoHigh
<1>7. ui_in_ff1' = ui_pin /\ ui_in_ff2' = ui_in_ff1
  BY <1>2 DEF Synchronize
<1> QED BY <1>1, <1>3, <1>4, <1>5, <1>6, <1>7 DEF EdgeSeen

(* A wire on its way stays on its way, a wire at rest at rest.             *)
LEMMA EdgeWires ==
  ASSUME EdgeSeen
  PROVE  /\ Low => Low'
         /\ Up => Up'
         /\ Rises => Rises' /\ (GoAt2 => Up')
         /\ Falls => Falls' /\ (~GoAt2 => Low')
         /\ GoLow /\ GoHigh => FALSE
         /\ Presented => Presented'
<1>1. GoLow /\ GoHigh => FALSE
  BY DEF GoLow, GoHigh
<1>2. Low => Low'
  BY <1>1 DEF EdgeSeen, Low
<1>3. Up => Up'
  BY DEF EdgeSeen, Up
<1>4. Rises => Rises' /\ (GoAt2 => Up')
  BY DEF EdgeSeen, Rises, Up
<1>5. Falls => Falls' /\ (~GoAt2 => Low')
  BY <1>1 DEF EdgeSeen, Falls, Low
<1>6. Presented => Presented'
  BY DEF EdgeSeen, Presented
<1> QED BY <1>1, <1>2, <1>3, <1>4, <1>5, <1>6

(* How far the firmware is, before and after an edge.                      *)
LEMMA Steps ==
  ASSUME pc \in 0..10
  PROVE  /\ Step \in Int
         /\ state = S_EXECUTE => Step = 3 * pc + 2
         /\ Fetching => pc' = pc /\ Step' = Step + 1
         /\ Holding => pc' = pc /\ Step' = Step
         /\ Committing => pc' \in 0..10 /\ Step' = 3 * pc'
<1> USE DEF S_FETCH_LO, S_FETCH_HI, S_EXECUTE
<1>1. Step \in Int /\ (state = S_EXECUTE => Step = 3 * pc + 2)
  BY DEF Step
<1>2. Fetching => pc' = pc /\ Step' = Step + 1
  BY DEF Fetching
<1>3. Holding => pc' = pc /\ Step' = Step
  BY DEF Holding, Step
<1>4. Committing => pc' \in 0..10 /\ Step' = 3 * pc'
  <2> SUFFICES ASSUME Committing PROVE pc' \in 0..10 /\ Step' = 3 * pc'
    OBVIOUS
  <2>1. pc' \in 0..10 /\ state' = S_FETCH_LO
    BY DEF Committing
  <2> QED BY <2>1 DEF Step
<1> QED BY <1>1, <1>2, <1>3, <1>4

(* HOST_STATUS changes with the SETs.                                      *)
LEMMA EdgeLevel ==
  ASSUME Registers
  PROVE  /\ Fetching \/ Holding => \A v : Level(v) => Level(v)'
         /\ Committing => /\ pc \in {2, 7} => Level(1)'
                          /\ pc \in {4, 9} => Level(0)'
                          /\ pc \notin {2, 4, 7, 9} => \A v : Level(v) => Level(v)'
<1>1. HOST_STATUS \in PinIndex /\ drv = [p \in PinIndex |-> drv[p]]
  BY DEF Registers, HOST_STATUS, PinIndex
<1> QED BY <1>1 DEF Level, Fetching, Holding, Committing

-----------------------------------------------------------------------------
(* What an edge does to the exchange.                                      *)

(* An edge in each of the six stretches.                                   *)
LEMMA TickAwaitsByte ==
  ASSUME EdgeSeen, Registers, pc \in {10, 0}, AwaitsByte, Fetching \/ Holding \/ Committing
  PROVE  Phase'
<1>1. /\ Low => Low'
      /\ Rises => Rises' /\ (GoAt2 => Up')
      /\ Presented => Presented'
  BY EdgeWires
<1>2. /\ UNCHANGED <<hpc, sent, got, byte, ui_pin>>
      /\ timer \in Nat /\ timer' \in Nat /\ timer' <= timer + 1
  BY DEF EdgeSeen
<1>3. pc \in 0..10 /\ Step \in Int
  BY Steps
<1>4. Level(0)'
  BY <1>3, EdgeLevel DEF AwaitsByte
<1>5. ASSUME Fetching PROVE Phase'
  <2>1. pc' = pc /\ Step' = Step + 1
    BY <1>3, <1>5, Steps
  <2>2. AwaitsByte'
    BY <1>1, <1>2, <1>3, <1>4, <2>1 DEF AwaitsByte
  <2> QED BY <2>1, <2>2 DEF Phase
<1>6. ASSUME Holding PROVE Phase'
  <2>1. pc' = pc /\ Step' = Step /\ Step = 3 * pc + 2 /\ pc = 0 /\ ~GoAt2
    BY <1>3, <1>6, Steps DEF Holding
  <2>2. Rises => timer <= 1
    BY <2>1 DEF Rises
  <2>3. AwaitsByte'
    BY <1>1, <1>2, <1>3, <1>4, <2>1, <2>2 DEF AwaitsByte
  <2> QED BY <2>1, <2>3 DEF Phase
<1>7. ASSUME Committing PROVE Phase'
  <2>1. Step' = 3 * pc' /\ Step = 3 * pc + 2 /\ pc' = IF pc = 10 THEN 0 ELSE pc + 1
    BY <1>3, <1>7, Steps DEF Committing
  <2>2. CASE pc = 10
    <3>1. pc' = 0 /\ Step' = 0 /\ Step = 32
      BY <2>1, <2>2
    <3>2. AwaitsByte'
      BY <1>1, <1>2, <1>4, <2>2, <3>1 DEF AwaitsByte
    <3> QED BY <3>1, <3>2 DEF Phase
  <2>3. CASE pc = 0
    <3>1. pc' = 1 /\ Step' = 3 /\ Step = 2 /\ GoAt2
      BY <1>7, <2>1, <2>3 DEF Committing
    <3>2. ~Low
      BY <3>1 DEF Low
    <3>3. Reads'
      BY <1>1, <1>2, <1>4, <2>3, <3>1, <3>2 DEF AwaitsByte, Reads
    <3> QED BY <3>1, <3>3 DEF Phase
  <2> QED BY <2>2, <2>3
<1> QED BY <1>5, <1>6, <1>7

LEMMA TickReads ==
  ASSUME EdgeSeen, Registers, pc \in {1, 2}, Reads, Fetching \/ Holding \/ Committing
  PROVE  Phase'
<1>1. Up' /\ Presented'
  BY EdgeWires DEF Reads
<1>2. /\ UNCHANGED <<hpc, sent, got, byte, ui_pin>>
      /\ timer \in Nat /\ timer' \in Nat /\ timer' <= timer + 1
  BY DEF EdgeSeen
<1>3. pc \in 0..10 /\ Step \in Int /\ ~Holding
  BY Steps DEF Holding
<1>4. CASE Fetching
  <2>1. pc' = pc /\ Step' = Step + 1 /\ regs' = regs /\ Level(0)'
    BY <1>3, <1>4, Steps, EdgeLevel DEF Fetching, Reads
  <2>2. Reads'
    BY <1>1, <1>2, <1>3, <2>1 DEF Reads
  <2> QED BY <2>1, <2>2 DEF Phase
<1>5. CASE Committing
  <2>1. Step' = 3 * pc' /\ Step = 3 * pc + 2 /\ pc' = pc + 1
    BY <1>3, <1>5, Steps DEF Committing
  <2>2. CASE pc = 1
    <3>1. pc' = 2 /\ Step' = 6 /\ Step = 5
      BY <2>1, <2>2
    <3>2. regs'[0] = byte'
      <4>1. ui_in_ff2 = byte
        BY DEF Reads, Up, Presented
      <4>2. regs' = [regs EXCEPT ![0] = ui_in_ff2]
        BY <1>5, <2>2 DEF Committing
      <4>3. regs = [r \in RegIndex |-> regs[r]] /\ 0 \in RegIndex
        BY DEF Registers, RegIndex
      <4> QED BY <1>2, <4>1, <4>2, <4>3
    <3>3. Level(0)'
      BY <1>5, <2>2, EdgeLevel DEF Reads
    <3>4. Reads'
      BY <1>1, <1>2, <3>1, <3>2, <3>3 DEF Reads
    <3> QED BY <3>1, <3>4 DEF Phase
  <2>3. CASE pc = 2
    <3>1. pc' = 3 /\ regs' = regs
      BY <1>5, <2>3 DEF Committing
    <3>2. Level(1)'
      BY <1>5, <2>3, EdgeLevel
    <3>3. Acks'
      BY <1>1, <1>2, <2>3, <3>1, <3>2 DEF Acks, Reads
    <3> QED BY <3>1, <3>3 DEF Phase
  <2> QED BY <2>2, <2>3
<1> QED BY <1>3, <1>4, <1>5

LEMMA TickAcks ==
  ASSUME EdgeSeen, Registers, pc \in {3, 4}, Acks, Fetching \/ Holding \/ Committing
  PROVE  Phase'
<1>1. /\ Up => Up'
      /\ Falls => Falls' /\ (~GoAt2 => Low')
  BY EdgeWires
<1>2. /\ UNCHANGED <<hpc, sent, got, byte, ui_pin>>
      /\ timer \in Nat /\ timer' \in Nat /\ timer' <= timer + 1
      /\ GoAt2' <=> GoAt1
  BY DEF EdgeSeen
<1>3. pc \in 0..10 /\ Step \in Int
  BY Steps
<1>4. regs' = regs
  BY DEF Fetching, Holding, Committing
<1>5. ASSUME Fetching PROVE Phase'
  <2>1. pc' = pc /\ Step' = Step + 1 /\ Level(1)'
    BY <1>3, <1>5, Steps, EdgeLevel DEF Acks
  <2>2. Falls /\ ~GoAt2 => ~GoAt2'
    BY <1>2 DEF Falls
  <2>3. Acks'
    <3>1. Level(1)' /\ sent' = got' /\ regs'[0] = byte'
      BY <1>2, <1>4, <2>1 DEF Acks
    <3>2. CASE hpc \in {"send_ack", "send_ungo"} /\ Up /\ pc = 3
      BY <1>1, <1>2, <2>1, <3>1, <3>2 DEF Acks
    <3>3. CASE /\ hpc = "send_clear" /\ Falls
               /\ timer <= Step - 9 /\ (pc = 4 => ~GoAt2)
      BY <1>1, <1>2, <1>3, <2>1, <2>2, <3>1, <3>3 DEF Acks
    <3> QED BY <3>2, <3>3 DEF Acks
  <2> QED BY <2>1, <2>3 DEF Phase
<1>6. ASSUME Holding PROVE Phase'
  <2>1. pc' = pc /\ Step' = Step /\ Step = 3 * pc + 2 /\ pc = 3 /\ GoAt2 /\ Level(1)'
    BY <1>3, <1>6, Steps, EdgeLevel DEF Holding, Acks
  <2>2. Falls => timer <= 1
    BY <2>1 DEF Falls
  <2>3. Acks'
    BY <1>1, <1>2, <1>4, <2>1, <2>2 DEF Acks
  <2> QED BY <2>1, <2>3 DEF Phase
<1>7. ASSUME Committing PROVE Phase'
  <2>1. Step' = 3 * pc' /\ Step = 3 * pc + 2 /\ pc' = pc + 1
    BY <1>3, <1>7, Steps DEF Committing
  <2>2. hpc = "send_clear" /\ Falls /\ ~GoAt2 /\ timer <= Step - 9 /\ Level(1)
    <3>1. pc = 3 => ~GoAt2
      BY <1>7 DEF Committing
    <3> QED BY <3>1 DEF Acks, Up
  <2>3. ~GoAt2' /\ Low'
    BY <1>1, <1>2, <2>2 DEF Falls
  <2>4. CASE pc = 3
    <3>1. pc' = 4 /\ Step' = 12 /\ Step = 11 /\ Level(1)'
      BY <1>7, <2>1, <2>2, <2>4, EdgeLevel
    <3>2. Acks'
      BY <1>1, <1>2, <1>4, <2>2, <2>3, <3>1 DEF Acks
    <3> QED BY <3>1, <3>2 DEF Phase
  <2>5. CASE pc = 4
    <3>1. pc' = 5 /\ Level(0)'
      BY <1>7, <2>1, <2>5, EdgeLevel
    <3>2. AwaitsRecv'
      BY <1>2, <1>4, <2>2, <2>3, <3>1 DEF Acks, AwaitsRecv
    <3> QED BY <3>1, <3>2 DEF Phase
  <2> QED BY <2>4, <2>5
<1> QED BY <1>5, <1>6, <1>7

LEMMA TickAwaitsRecv ==
  ASSUME EdgeSeen, Registers, pc = 5, AwaitsRecv, Fetching \/ Holding \/ Committing
  PROVE  Phase'
<1>1. /\ Low => Low'
      /\ Rises => Rises' /\ (GoAt2 => Up')
  BY EdgeWires
<1>2. /\ UNCHANGED <<hpc, sent, got, byte>>
      /\ timer \in Nat /\ timer' \in Nat /\ timer' <= timer + 1
  BY DEF EdgeSeen
<1>3. pc \in 0..10 /\ Step \in Int
  BY Steps
<1>4. regs' = regs /\ Level(0)'
  BY EdgeLevel DEF AwaitsRecv, Fetching, Holding, Committing
<1>5. Owes => Owes'
  BY <1>2, <1>4 DEF Owes
<1>6. ASSUME Fetching PROVE Phase'
  <2>1. pc' = pc /\ Step' = Step + 1
    BY <1>3, <1>6, Steps
  <2>2. AwaitsRecv'
    BY <1>1, <1>2, <1>3, <1>4, <1>5, <2>1 DEF AwaitsRecv
  <2> QED BY <2>1, <2>2 DEF Phase
<1>7. ASSUME Holding PROVE Phase'
  <2>1. pc' = pc /\ Step' = Step /\ Step = 17 /\ ~GoAt2
    BY <1>3, <1>7, Steps DEF Holding
  <2>2. Rises => timer <= 1
    BY <2>1 DEF Rises
  <2>3. AwaitsRecv'
    BY <1>1, <1>2, <1>4, <1>5, <2>1, <2>2 DEF AwaitsRecv
  <2> QED BY <2>1, <2>3 DEF Phase
<1>8. ASSUME Committing PROVE Phase'
  <2>1. pc' = 6 /\ Step' = 18 /\ Step = 17 /\ GoAt2
    BY <1>3, <1>8, Steps DEF Committing
  <2>2. hpc = "recv_ack" /\ Up' /\ Owes' /\ timer <= 2
    BY <1>1, <1>5, <2>1 DEF AwaitsRecv, Low
  <2>3. Writes'
    BY <1>2, <1>4, <2>1, <2>2 DEF Writes
  <2> QED BY <2>1, <2>3 DEF Phase
<1> QED BY <1>6, <1>7, <1>8

LEMMA TickWrites ==
  ASSUME EdgeSeen, Registers, pc \in {6, 7}, Writes, Fetching \/ Holding \/ Committing
  PROVE  Phase'
<1>1. Up'
  BY EdgeWires DEF Writes
<1>2. /\ UNCHANGED <<hpc, sent, got>>
      /\ timer \in Nat /\ timer' \in Nat /\ timer' <= timer + 1
  BY DEF EdgeSeen
<1>3. pc \in 0..10 /\ Step \in Int /\ ~Holding
  BY Steps DEF Holding
<1>4. regs' = regs /\ Owes'
  BY <1>2 DEF Fetching, Holding, Committing, Owes, Writes
<1>5. CASE Fetching
  <2>1. pc' = pc /\ Step' = Step + 1 /\ uo_out_reg' = uo_out_reg /\ Level(0)'
    BY <1>3, <1>5, Steps, EdgeLevel DEF Fetching, Writes
  <2>2. Writes'
    BY <1>1, <1>2, <1>3, <1>4, <2>1 DEF Writes
  <2> QED BY <2>1, <2>2 DEF Phase
<1>6. CASE Committing
  <2>1. /\ Step' = 3 * pc' /\ Step = 3 * pc + 2 /\ pc' = pc + 1
        /\ uo_out_reg' = IF pc = 6 THEN regs[0] ELSE uo_out_reg
    BY <1>3, <1>6, Steps DEF Committing
  <2>2. CASE pc = 6
    <3>1. pc' = 7 /\ Step' = 21 /\ Step = 20 /\ Level(0)' /\ uo_out_reg' = regs'[0]
      BY <1>4, <1>6, <2>1, <2>2, EdgeLevel DEF Writes
    <3>2. Writes'
      BY <1>1, <1>2, <1>4, <3>1 DEF Writes
    <3> QED BY <3>1, <3>2 DEF Phase
  <2>3. CASE pc = 7
    <3>1. pc' = 8 /\ Level(1)' /\ uo_out_reg' = regs'[0]
      BY <1>4, <1>6, <2>1, <2>3, EdgeLevel DEF Writes
    <3>2. Replied'
      BY <1>1, <1>2, <1>4, <3>1 DEF Writes, Replied
    <3> QED BY <3>1, <3>2 DEF Phase
  <2> QED BY <2>2, <2>3
<1> QED BY <1>3, <1>5, <1>6

LEMMA TickReplied ==
  ASSUME EdgeSeen, Registers, pc \in {8, 9}, Replied, Fetching \/ Holding \/ Committing
  PROVE  Phase'
<1>1. /\ Up => Up'
      /\ Falls => Falls' /\ (~GoAt2 => Low')
  BY EdgeWires
<1>2. /\ UNCHANGED <<hpc, sent, got>>
      /\ timer \in Nat /\ timer' \in Nat /\ timer' <= timer + 1
      /\ GoAt2' <=> GoAt1
  BY DEF EdgeSeen
<1>3. pc \in 0..10 /\ Step \in Int
  BY Steps
<1>4. regs' = regs /\ uo_out_reg' = uo_out_reg
  BY DEF Fetching, Holding, Committing
<1>5. Owes => Owes'
  BY <1>2, <1>4 DEF Owes
<1>6. ASSUME pc' = pc, Level(1)',
             hpc = "recv_clear" => timer' <= Step' - 24 /\ (pc = 9 => ~GoAt2')
      PROVE  Phase'
  <2>1. CASE hpc \in {"recv_ack", "recv_uo"} /\ Up /\ pc = 8 /\ Owes /\ uo_out_reg = regs[0]
    <3>1. Replied'
      BY <1>1, <1>2, <1>4, <1>5, <1>6, <2>1 DEF Replied
    <3> QED BY <1>6, <3>1 DEF Phase
  <2>2. CASE hpc = "recv_ungo" /\ Up /\ pc = 8 /\ sent = got
    <3>1. Replied'
      BY <1>1, <1>2, <1>6, <2>2 DEF Replied
    <3> QED BY <1>6, <3>1 DEF Phase
  <2>3. CASE hpc = "recv_clear" /\ Falls /\ sent = got
    <3>1. Replied'
      BY <1>1, <1>2, <1>6, <2>3 DEF Replied
    <3> QED BY <1>6, <3>1 DEF Phase
  <2> QED BY <2>1, <2>2, <2>3 DEF Replied
<1>7. ASSUME Fetching PROVE Phase'
  <2>1. pc' = pc /\ Step' = Step + 1 /\ Level(1)'
    BY <1>3, <1>7, Steps, EdgeLevel DEF Replied
  <2>2. hpc = "recv_clear" => timer' <= Step' - 24 /\ (pc = 9 => ~GoAt2')
    BY <1>2, <1>3, <2>1 DEF Replied, Falls
  <2> QED BY <2>1, <2>2, <1>6
<1>8. ASSUME Holding PROVE Phase'
  <2>1. pc' = pc /\ Step' = 26 /\ pc = 8 /\ GoAt2 /\ Level(1)'
    BY <1>3, <1>8, Steps, EdgeLevel DEF Holding, Replied
  <2>2. hpc = "recv_clear" => timer' <= Step' - 24
    BY <1>2, <2>1 DEF Replied, Falls
  <2> QED BY <2>1, <2>2, <1>6
<1>9. ASSUME Committing PROVE Phase'
  <2>1. Step' = 3 * pc' /\ Step = 3 * pc + 2 /\ pc' = pc + 1
    BY <1>3, <1>9, Steps DEF Committing
  <2>2. hpc = "recv_clear" /\ Falls /\ ~GoAt2 /\ timer <= Step - 24 /\ Level(1) /\ sent = got
    <3>1. pc = 8 => ~GoAt2
      BY <1>9 DEF Committing
    <3> QED BY <3>1 DEF Replied, Up
  <2>3. ~GoAt2' /\ Low' /\ Falls'
    BY <1>1, <1>2, <2>2 DEF Falls
  <2>4. CASE pc = 8
    <3>1. pc' = 9 /\ Step' = 27 /\ Step = 26 /\ Level(1)'
      BY <1>9, <2>1, <2>2, <2>4, EdgeLevel
    <3>2. Replied'
      BY <1>2, <2>2, <2>3, <3>1 DEF Replied
    <3> QED BY <3>1, <3>2 DEF Phase
  <2>5. CASE pc = 9
    <3>1. pc' = 10 /\ Level(0)'
      BY <1>9, <2>1, <2>5, EdgeLevel
    <3>2. AwaitsByte'
      BY <1>2, <2>2, <2>3, <3>1 DEF AwaitsByte, Quiet
    <3> QED BY <3>1, <3>2 DEF Phase
  <2> QED BY <2>4, <2>5
<1> QED BY <1>7, <1>8, <1>9

(* An edge of a chip that runs.                                            *)
LEMMA TickPhase ==
  ASSUME Words >= 12, Running, Registers, Exchange, state # S_LOAD,
         timer \in Nat, ChipTick
  PROVE  state' # S_LOAD /\ Running' /\ Registers' /\ Phase'
<1>1. PICK uio : Clock(ui_pin, uio)
  BY RunPads DEF ChipTick
<1>2. EdgeSeen
  BY TickSeen
<1>3. state' # S_LOAD /\ Running' /\ Registers' /\ (Fetching \/ Holding \/ Committing)
  <2>1. CASE state = S_EXECUTE
    BY <1>1, <2>1, EchoExecutes
  <2>2. CASE state # S_EXECUTE
    BY <1>1, <2>2, EchoFetches
  <2> QED BY <2>1, <2>2
<1>4. Phase /\ pc \in 0..10
  BY DEF Exchange, Running
<1>5. pc \in {10, 0} \/ pc \in {1, 2} \/ pc \in {3, 4} \/ pc = 5 \/ pc \in {6, 7}
        \/ pc \in {8, 9}
  BY <1>4
<1>6. Phase'
  BY <1>2, <1>3, <1>4, <1>5, TickAwaitsByte, TickReads, TickAcks, TickAwaitsRecv,
     TickWrites, TickReplied DEF Phase
<1> QED BY <1>3, <1>6

-----------------------------------------------------------------------------
(* From the image to its first instruction.                                *)

(* The firmware fits, and it is the only image.                            *)
LEMMA EchoFits ==
  ASSUME Short, Echoing, DriverOK
  PROVE  Words >= 12 /\ image = EchoImage /\ Images = {EchoImage}
<1>1. session \in Sessions /\ session.images = {EchoImage} /\ image \in session.images
  BY DEF DriverOK, Echoing, Images
<1>2. Len(EchoImage) < MemBytes
  BY <1>1 DEF Short
<1>3. Len(EchoImage) = 22
  <2>1. EchoFirmware \in Seq(Word) /\ Len(EchoFirmware) = 11 /\ 0 \in 0..(11 - 1)
    BY EchoAt
  <2>2. Len(to_bytes(EchoFirmware)) = 2 * 11
    BY <2>1, ImageWord
  <2> QED BY <2>2 DEF EchoImage
<1> QED BY <1>1, <1>2, <1>3, WordsAssumption DEF MemBytes, Images

(* An edge while the chip loads: it goes on, or it leaves with the image   *)
(* complete and the wires at rest.                                         *)
LEMMA LoadTick ==
  ASSUME LoadsInv, image = EchoImage, Registers, Boots, state = S_LOAD, ChipTick
  PROVE  Running' /\ Registers' /\ Exchange' /\ Boots'
<1>1. FeedInv /\ StartInv /\ LoaderOK /\ DriverOK /\ sent = got
  BY DEF LoadsInv, FeedInv, Boots
<1>2. EdgeSeen
  BY <1>1, TickSeen DEF DriverOK
<1>3. PICK uio :
        /\ Clock(ui_pin, uio)
        /\ HOST_GO \in uio <=> HOST_GO \in driven /\ HOST_GO \in high
        /\ START \in uio <=> START \in driven /\ START \in high
  BY <1>1, LoadPads DEF ChipTick, DriverOK
<1>4. Fsm /\ RegfileClock /\ MemClock /\ DrivePins(pin_request)
  BY <1>3 DEF Clock, PinClock
<1>5. /\ driven' = driven /\ high' = high /\ hpc' = hpc /\ sent' = sent /\ got' = got
      /\ image' = image
  BY DEF ChipTick, hostPins, driverVars
<1>6. drv' \in [PinIndex -> Bit] /\ drv'[HOST_STATUS] = IF load_ack THEN 1 ELSE 0
  BY <1>1, <1>4, StatusFollows DEF LoaderOK
<1>7. Registers'
  <2>1. regs' = regs
    BY <1>4 DEF RegfileClock, Registers, reg_w_en, exec_commit, S_LOAD, S_EXECUTE
  <2>2. pending_lx_writeback' = pending_lx_writeback
    <3>1. LoadStart \/ LoadAcked \/ LoadByte \/ LoadIdle
      BY <1>1, <1>4 DEF LoaderOK, Fsm, Frozen, FetchLo, FetchHi, ExecuteHold, ExecuteHalt,
         ExecuteCommit, S_LOAD, S_FETCH_LO, S_FETCH_HI, S_EXECUTE
    <3> QED BY <3>1 DEF LoadStart, LoadAcked, LoadByte, LoadIdle, lxVars, fsmVars
  <2> QED BY <1>6, <2>1, <2>2 DEF Registers
<1>8. CASE GoLow /\ Ready /\ hpc \in BeforeReset \cup {"hold1"}
  <2>1. Rising(0) /\ Falling(4) /\ HOST_GO \notin uio
    BY <1>3, <1>8, WireEnds DEF Ready, GoLow
  <2>2. ~load_ack /\ ~host_go_rise /\ ~GoAt1 /\ ~GoAt2
    BY <2>1 DEF Rising, host_go_rise, HostGoRise, GoAt1, GoAt2
  <2>3. sram' = sram
    BY <1>4, <2>2, NoByte
  <2>4. CASE start_rise
    <3>1. LoadStart
      BY <1>1, <1>4, <2>4, LoadFsm
    <3>2. state' = S_FETCH_LO /\ pc' = 0 /\ ~halted'
      BY <3>1 DEF LoadStart
    <3>3. Code
      BY <1>8, CodeHeld DEF Ready
    <3>4. Code'
      BY <2>3, <3>3 DEF Code, WordAt
    <3>5. Running'
      BY <3>2, <3>4 DEF Running, S_LOAD, S_FETCH_LO, S_FETCH_HI, S_EXECUTE
    <3>6. Low' /\ Level(0)'
      <4>1. ~GoHigh
        BY <1>8 DEF GoLow, GoHigh
      <4>2. GoLow' /\ ~GoAt1' /\ ~GoAt2'
        BY <1>2, <1>8, <2>2, <4>1 DEF EdgeSeen
      <4> QED BY <1>6, <2>2, <4>2 DEF Low, Level
    <3>7. AwaitsByte'
      BY <1>1, <1>5, <1>8, <3>6 DEF AwaitsByte, Quiet, BeforeReset
    <3>8. Exchange'
      BY <3>2, <3>7 DEF Exchange, Phase
    <3>9. Boots'
      BY <3>2 DEF Boots, S_LOAD, S_FETCH_LO
    <3> QED BY <1>7, <3>5, <3>8, <3>9
  <2>5. CASE ~start_rise
    <3>1. 4 \in 0..4 /\ Further(4) = 4
      BY DEF Further
    <3>2. Falling(Further(4))' /\ UNCHANGED <<boot_addr, boot_full, sram>>
      BY <1>1, <1>3, <2>1, <2>5, <3>1, FallingEdge
    <3>3. Falling(4)'
      BY <3>1, <3>2
    <3>4. Rising(0)'
      BY <3>3 DEF Rising, Falling
    <3>5. Ready'
      BY <1>5, <1>8, <3>2, <3>4 DEF Ready, Holds, Taken
    <3>6. state' = S_LOAD
      BY <1>1, <1>3, <2>5, BootEdge
    <3>7. GoLow'
      BY <1>2, <1>8 DEF EdgeSeen
    <3> QED BY <1>1, <1>5, <1>7, <3>5, <3>6, <3>7 DEF Running, Exchange, Boots
  <2> QED BY <2>4, <2>5
<1>9. CASE START \notin high /\ Starting(0) /\ hpc \in BeforeReset
  <2>1. ~start_rise
    BY <1>9, NoStartYet
  <2>2. state' = S_LOAD /\ Synchronize(ui_pin, uio)
    BY <1>1, <1>3, <2>1, BootEdge
  <2>3. START \notin uio /\ START \notin uio_in_ff1 /\ START \notin uio_in_ff2
    BY <1>3, <1>9 DEF Starting
  <2>4. Starting(0)'
    <3>1. START \notin uio_in_ff1' /\ START \notin uio_in_ff2' /\ ~start_prev'
      BY <2>2, <2>3 DEF Synchronize
    <3> QED BY <3>1 DEF Starting
  <2> QED BY <1>1, <1>5, <1>7, <1>9, <2>2, <2>4 DEF Running, Exchange, Boots
<1>10. CASE Streaming \/ hpc = "start"
  <2>1. state' = S_LOAD
    <3>1. CASE Streaming
      BY <1>1, <3>1, TickStream
    <3>2. CASE hpc = "start"
      <4>1. GoLow /\ Ready /\ Starting(0) /\ 0 \in 0..1
        BY <1>1, <3>2 DEF StartInv
      <4> QED BY <1>1, <4>1, StartWay
    <3> QED BY <1>10, <3>1, <3>2
  <2>2. hpc \notin BeforeReset
    BY <1>10 DEF Streaming, BeforeReset
  <2> QED BY <1>1, <1>5, <1>7, <2>1, <2>2 DEF Running, Exchange, Boots
<1>11. /\ hpc = "hold1" => GoLow /\ Ready
       /\ hpc \in BeforeReset => (START \notin high /\ Starting(0)) \/ (GoLow /\ Ready)
       /\ hpc \in BeforeReset \cup {"start", "hold1"} \/ Streaming
  BY <1>1 DEF Boots, StartInv
<1> QED BY <1>8, <1>9, <1>10, <1>11

-----------------------------------------------------------------------------
(* The steps of the host.                                                  *)

(* A step of the host leaves the chip as it is.                            *)
LEMMA HostKeeps ==
  ASSUME UNCHANGED vars, FeedInv, image' = image
  PROVE  /\ UNCHANGED <<state, pc, regs, drv, uo_out_reg, ui_in_ff1, ui_in_ff2>>
         /\ Step' = Step
         /\ (GoAt1' <=> GoAt1) /\ (GoAt2' <=> GoAt2)
         /\ \A v : Level(v)' <=> Level(v)
         /\ Running => Running'
         /\ Registers => Registers'
         /\ Ready => Ready'
         /\ Starting(0) => Starting(0)'
<1>1. /\ UNCHANGED <<state, pc, halted, sram, mem_rdata, ir, ir_lo, entering_execute>>
      /\ UNCHANGED <<regs, drv, uo_out_reg, ui_in_ff1, ui_in_ff2, uio_in_ff1, uio_in_ff2,
                     pending_lx_writeback>>
  BY DEF vars, fsmVars, fetchVars, archVars, lxVars, bootVars, pinVars, syncVars
<1>2. Step' = Step /\ word' = word
  BY <1>1 DEF Step, word
<1>3. Running => Running'
  BY <1>1, <1>2 DEF Running, Code, WordAt
<1>4. Registers => Registers'
  BY <1>1 DEF Registers
<1>5. Rising(0) => Rising(0)' /\ Taken' = Taken
  BY ChipStill
<1>6. Starting(0) => Starting(0)'
  BY ChipStill
<1>7. Taken' = Taken
  BY ChipStill
<1>8. Ready => Ready'
  BY <1>1, <1>5, <1>7 DEF Ready, Holds
<1>9. (GoAt1' <=> GoAt1) /\ (GoAt2' <=> GoAt2) /\ \A v : Level(v)' <=> Level(v)
  BY <1>1 DEF GoAt1, GoAt2, Level
<1> QED BY <1>1, <1>2, <1>3, <1>4, <1>6, <1>8, <1>9

(* While the chip loads nothing is exchanged.                              *)
LEMMA LoadStep ==
  ASSUME LoadsInv, EchoInv, UNCHANGED vars, state = S_LOAD,
         image' = image, sent' = sent, got' = got, Called',
         hpc' \in BeforeReset => \/ START \notin high' /\ Starting(0)
                                 \/ GoLow' /\ Ready
  PROVE  EchoInv'
<1>1. FeedInv /\ Running /\ Registers /\ Boots
  BY DEF LoadsInv, EchoInv
<1>2. /\ state' = S_LOAD /\ Running' /\ Registers'
      /\ Ready => Ready'
      /\ Starting(0) => Starting(0)'
  BY <1>1, HostKeeps
<1> QED BY <1>1, <1>2 DEF EchoInv, Exchange, Boots

(* Where the firmware is while the host asks for nothing.                  *)
LEMMA AtRest ==
  ASSUME Phase, pc \in 0..10, hpc \in Quiet,
         hpc = "idle" => pc # 5, hpc = "recv_clear" => Status = 0
  PROVE  pc \in {10, 0} /\ Level(0) /\ sent = got /\ Low
<1>1. Status = 0 => ~Level(1)
  BY StatusLevel DEF Level
<1>2. /\ hpc \notin {"send_ack", "send_ungo", "send_clear",
                     "recv_go", "recv_ack", "recv_uo", "recv_ungo"}
  BY DEF Quiet, BeforeReset
<1>3. pc \notin {1, 2} /\ pc \notin {3, 4} /\ pc # 5 /\ pc \notin {6, 7} /\ pc \notin {8, 9}
  BY <1>1, <1>2 DEF Phase, Reads, Acks, AwaitsRecv, Writes, Replied
<1>4. pc \in {10, 0}
  BY <1>3
<1> QED BY <1>2, <1>4 DEF Phase, AwaitsByte

(* A step that asks for nothing.                                           *)
LEMMA QuietStep ==
  ASSUME LoadsInv, EchoInv, UNCHANGED vars, state # S_LOAD,
         image' = image, sent' = sent, got' = got, Called',
         hpc \in Quiet, hpc' \in Quiet, GoLow => GoLow',
         hpc' = "send_go" => ui_pin' = byte',
         hpc = "idle" => pc # 5, hpc = "recv_clear" => Status = 0
  PROVE  EchoInv'
<1>1. FeedInv /\ Running /\ Registers /\ Phase /\ pc \in 0..10
  BY DEF LoadsInv, EchoInv, Exchange, Running
<1>2. pc \in {10, 0} /\ Level(0) /\ sent = got /\ Low
  BY <1>1, AtRest
<1>3. /\ state' = state /\ pc' = pc /\ Running' /\ Registers' /\ Level(0)'
      /\ (GoAt1' <=> GoAt1) /\ (GoAt2' <=> GoAt2)
  BY <1>1, <1>2, HostKeeps
<1>4. Low'
  BY <1>2, <1>3 DEF Low
<1>5. AwaitsByte'
  BY <1>2, <1>3, <1>4 DEF AwaitsByte
<1> QED BY <1>2, <1>3, <1>5 DEF EchoInv, Exchange, Phase, Boots

(* No wait of send() or recv() is given up.                                *)
LEMMA Answered ==
  ASSUME Patient, LoadsInv, EchoInv,
         NEW at \in {"send_ack", "send_clear", "recv_ack", "recv_clear"}, hpc = at
  PROVE  /\ at \in {"send_ack", "recv_ack"} => ~TimeoutStatus(at, 1)
         /\ at \in {"send_clear", "recv_clear"} => ~TimeoutStatus(at, 0)
<1>1. state # S_LOAD
  BY DEF LoadsInv, StartInv, Late, Talking
<1>2. Phase /\ pc \in 0..10
  BY <1>1 DEF EchoInv, Exchange, Running
<1>3. timer \in Nat /\ Patience \in Nat /\ Patience >= 12
  BY HostAssumption DEF LoadsInv, FeedInv, DriverOK, Patient
<1>4. Step \in Int /\ Step <= 3 * pc + 2
  BY <1>2 DEF Step
<1>5. Status \in {0, 1} /\ (Status = 1 <=> Level(1))
  BY StatusLevel DEF Status, Level
<1>6. Level(0) => ~Level(1)
  BY DEF Level
<1>7. /\ pc \in {10, 0} => AwaitsByte
      /\ pc \in {1, 2} => Reads
      /\ pc \in {3, 4} => Acks
      /\ pc = 5 => AwaitsRecv
      /\ pc \in {6, 7} => Writes
      /\ pc \in {8, 9} => Replied
  BY <1>2 DEF Phase
<1>8. pc \in {10, 0} \/ pc \in {1, 2} \/ pc \in {3, 4} \/ pc = 5 \/ pc \in {6, 7}
        \/ pc \in {8, 9}
  BY <1>2
<1>9. ASSUME at = "send_ack", TimeoutStatus(at, 1) PROVE FALSE
  <2>1. timer >= 12 /\ ~Level(1)
    BY <1>3, <1>5, <1>9 DEF TimeoutStatus
  <2>2. pc \notin {10, 0}
    BY <1>3, <1>4, <1>7, <1>9, <2>1 DEF AwaitsByte, Quiet, BeforeReset
  <2>3. pc \notin {1, 2}
    BY <1>3, <1>4, <1>7, <1>9, <2>1 DEF Reads
  <2>4. pc \notin {3, 4} /\ pc \notin {8, 9}
    BY <1>7, <2>1 DEF Acks, Replied
  <2>5. pc # 5 /\ pc \notin {6, 7}
    BY <1>7, <1>9 DEF AwaitsRecv, Writes
  <2> QED BY <1>8, <2>2, <2>3, <2>4, <2>5
<1>10. ASSUME at = "recv_ack", TimeoutStatus(at, 1) PROVE FALSE
  <2>1. timer >= 12 /\ ~Level(1)
    BY <1>3, <1>5, <1>10 DEF TimeoutStatus
  <2>2. pc \notin {10, 0} /\ pc \notin {1, 2}
    BY <1>7, <1>10 DEF AwaitsByte, Quiet, BeforeReset, Reads
  <2>3. pc \notin {3, 4} /\ pc \notin {8, 9}
    BY <1>7, <2>1 DEF Acks, Replied
  <2>4. pc # 5
    BY <1>3, <1>4, <1>7, <1>10, <2>1 DEF AwaitsRecv
  <2>5. pc \notin {6, 7}
    BY <1>3, <1>4, <1>7, <1>10, <2>1 DEF Writes
  <2> QED BY <1>8, <2>2, <2>3, <2>4, <2>5
<1>11. ASSUME at = "send_clear", TimeoutStatus(at, 0) PROVE FALSE
  <2>1. timer >= 12 /\ Level(1)
    BY <1>3, <1>5, <1>11 DEF TimeoutStatus
  <2>2. pc \in {3, 4}
    BY <1>6, <1>7, <1>8, <1>11, <2>1 DEF AwaitsByte, Reads, AwaitsRecv, Writes, Replied
  <2> QED BY <1>3, <1>4, <1>7, <1>11, <2>1, <2>2 DEF Acks
<1>12. ASSUME at = "recv_clear", TimeoutStatus(at, 0) PROVE FALSE
  <2>1. timer >= 12 /\ Level(1)
    BY <1>3, <1>5, <1>12 DEF TimeoutStatus
  <2>2. pc \in {8, 9}
    BY <1>6, <1>7, <1>8, <1>12, <2>1 DEF AwaitsByte, Reads, AwaitsRecv, Writes, Acks
  <2> QED BY <1>3, <1>4, <1>7, <1>12, <2>1, <2>2 DEF Replied
<1> QED BY <1>9, <1>10, <1>11, <1>12

(* What the calls made so far say of a step that makes none.               *)
LEMMA SaidStill ==
  ASSUME Called, session' = session, calls' = calls
  PROVE  calls' \in 0..Len(Script') /\ Said' = Said
  BY DEF Called, Said, Script

-----------------------------------------------------------------------------
(* A byte there and back.                                                  *)

(* send(): HOST_GO up, the acknowledge, HOST_GO down, the return.          *)
LEMMA SendUp ==
  ASSUME LoadsInv, EchoInv, session' = session,
         set_uio("send_go", HOST_GO, 1, "send_ack")
  PROVE  EchoInv'
<1>1. hpc = "send_go" /\ state # S_LOAD
  BY DEF set_uio, LoadsInv, StartInv, Late, Talking
<1>2. FeedInv /\ Running /\ Registers /\ Phase /\ pc \in 0..10 /\ Called /\ calls' = calls
  BY <1>1 DEF LoadsInv, EchoInv, Exchange, Running, set_uio, Goto
<1>3. pc \in {10, 0} /\ Level(0) /\ sent = got /\ Low
  BY <1>1, <1>2, AtRest DEF Quiet
<1>4. ui_pin = byte
  BY <1>1, <1>2, <1>3 DEF Phase, AwaitsByte
<1>5. /\ hpc' = "send_ack" /\ timer' = 0 /\ UNCHANGED vars
      /\ UNCHANGED <<image, byte, sent, got, ui_pin>> /\ GoHigh'
  BY <1>3 DEF set_uio, Goto, driverVars, Low, GoLow, GoHigh
<1>6. /\ state' = state /\ pc' = pc /\ Running' /\ Registers' /\ Level(0)' /\ Step' = Step
      /\ (GoAt1' <=> GoAt1) /\ (GoAt2' <=> GoAt2)
  BY <1>2, <1>3, <1>5, HostKeeps
<1>7. Rises' /\ Presented'
  BY <1>3, <1>4, <1>5, <1>6 DEF Low, Rises, Presented
<1>8. timer' <= (IF pc' = 10 THEN Step' - 30 ELSE Step' + 3)
  BY <1>2, <1>5, <1>6 DEF Step
<1>9. AwaitsByte'
  BY <1>3, <1>5, <1>6, <1>7, <1>8 DEF AwaitsByte
<1>10. Called'
  BY <1>1, <1>2, <1>5, SaidStill DEF Called, Loading, BeforeReset
<1> QED BY <1>1, <1>3, <1>5, <1>6, <1>9, <1>10 DEF EchoInv, Exchange, Phase, Boots

LEMMA SendSeen ==
  ASSUME LoadsInv, EchoInv, session' = session, WaitStatus("send_ack", 1, "send_ungo")
  PROVE  EchoInv'
<1>1. hpc = "send_ack" /\ state # S_LOAD /\ Status = 1
  BY DEF WaitStatus, LoadsInv, StartInv, Late, Talking
<1>2. FeedInv /\ Running /\ Registers /\ Phase /\ pc \in 0..10 /\ Called /\ calls' = calls
  BY <1>1 DEF LoadsInv, EchoInv, Exchange, Running, WaitStatus, Goto
<1>3. Level(1) /\ ~Level(0)
  BY <1>1, StatusLevel DEF Level
<1>4. pc = 3 /\ Up /\ sent = got /\ regs[0] = byte
  <2>1. pc \notin {10, 0} /\ pc \notin {1, 2} /\ pc # 5 /\ pc \notin {6, 7}
    BY <1>2, <1>3 DEF Phase, AwaitsByte, Reads, AwaitsRecv, Writes
  <2>2. pc \notin {8, 9}
    BY <1>1, <1>2 DEF Phase, Replied
  <2>3. pc \in {3, 4}
    BY <1>2, <2>1, <2>2
  <2> QED BY <1>1, <1>2, <2>3 DEF Phase, Acks
<1>5. /\ hpc' = "send_ungo" /\ UNCHANGED vars
      /\ UNCHANGED <<image, byte, sent, got, driven, high>>
  BY DEF WaitStatus, Goto, driverVars, hostPins
<1>6. /\ state' = state /\ pc' = pc /\ regs' = regs /\ Running' /\ Registers' /\ Level(1)'
      /\ (GoAt1' <=> GoAt1) /\ (GoAt2' <=> GoAt2)
  BY <1>2, <1>3, <1>5, HostKeeps
<1>7. Up'
  BY <1>4, <1>5, <1>6 DEF Up, GoHigh
<1>8. Acks'
  BY <1>4, <1>5, <1>6, <1>7 DEF Acks
<1>9. Called'
  BY <1>1, <1>2, <1>5, SaidStill DEF Called, Loading, BeforeReset
<1> QED BY <1>1, <1>4, <1>5, <1>6, <1>8, <1>9 DEF EchoInv, Exchange, Phase, Boots

LEMMA SendDown ==
  ASSUME LoadsInv, EchoInv, session' = session,
         set_uio("send_ungo", HOST_GO, 0, "send_clear")
  PROVE  EchoInv'
<1>1. hpc = "send_ungo" /\ state # S_LOAD
  BY DEF set_uio, LoadsInv, StartInv, Late, Talking
<1>2. FeedInv /\ Running /\ Registers /\ Phase /\ pc \in 0..10 /\ Called /\ calls' = calls
  BY <1>1 DEF LoadsInv, EchoInv, Exchange, Running, set_uio, Goto
<1>3. pc = 3 /\ Up /\ sent = got /\ regs[0] = byte /\ Level(1)
  <2>1. pc \notin {10, 0} /\ pc \notin {1, 2} /\ pc # 5 /\ pc \notin {6, 7} /\ pc \notin {8, 9}
    BY <1>1, <1>2 DEF Phase, AwaitsByte, Reads, AwaitsRecv, Writes, Replied, Quiet, BeforeReset
  <2>2. pc \in {3, 4}
    BY <1>2, <2>1
  <2> QED BY <1>1, <1>2, <2>2 DEF Phase, Acks
<1>4. /\ hpc' = "send_clear" /\ timer' = 0 /\ UNCHANGED vars
      /\ UNCHANGED <<image, byte, sent, got>> /\ GoLow'
  BY <1>3 DEF set_uio, Goto, driverVars, Up, GoLow, GoHigh
<1>5. /\ state' = state /\ pc' = pc /\ regs' = regs /\ Running' /\ Registers' /\ Level(1)'
      /\ Step' = Step /\ (GoAt1' <=> GoAt1) /\ (GoAt2' <=> GoAt2)
  BY <1>2, <1>3, <1>4, HostKeeps
<1>6. Falls'
  BY <1>3, <1>4, <1>5 DEF Up, Falls
<1>7. timer' <= Step' - 9
  BY <1>3, <1>4, <1>5 DEF Step
<1>8. Acks'
  BY <1>3, <1>4, <1>5, <1>6, <1>7 DEF Acks
<1>9. Called'
  BY <1>1, <1>2, <1>4, SaidStill DEF Called, Loading, BeforeReset
<1> QED BY <1>1, <1>3, <1>4, <1>5, <1>8, <1>9 DEF EchoInv, Exchange, Phase, Boots

LEMMA SendOver ==
  ASSUME LoadsInv, EchoInv, BytesOK, session' = session, SendReturn
  PROVE  EchoInv'
<1>1. hpc = "send_clear" /\ state # S_LOAD /\ Status = 0
  BY DEF SendReturn, LoadsInv, StartInv, Late, Talking
<1>2. FeedInv /\ Running /\ Registers /\ Phase /\ pc \in 0..10 /\ Called /\ calls' = calls
  BY <1>1 DEF LoadsInv, EchoInv, Exchange, Running, SendReturn, Goto
<1>3. ~Level(1)
  BY <1>1, StatusLevel DEF Level
<1>4. pc = 5 /\ Low /\ sent = got /\ regs[0] = byte /\ Level(0)
  <2>1. pc \notin {10, 0} /\ pc \notin {1, 2} /\ pc \notin {6, 7} /\ pc \notin {8, 9}
    BY <1>1, <1>2 DEF Phase, AwaitsByte, Reads, Writes, Replied, Quiet, BeforeReset
  <2>2. pc \notin {3, 4}
    BY <1>2, <1>3 DEF Phase, Acks
  <2>3. pc = 5
    BY <1>2, <2>1, <2>2
  <2> QED BY <1>1, <1>2, <2>3 DEF Phase, AwaitsRecv
<1>5. /\ hpc' = "idle" /\ UNCHANGED vars /\ sent' = Append(sent, byte)
      /\ UNCHANGED <<image, byte, got, driven, high>>
  BY DEF SendReturn, Goto, driverVars, hostPins
<1>6. /\ state' = state /\ pc' = pc /\ regs' = regs /\ Running' /\ Registers' /\ Level(0)'
      /\ (GoAt1' <=> GoAt1) /\ (GoAt2' <=> GoAt2)
  BY <1>2, <1>4, <1>5, HostKeeps
<1>7. Low'
  BY <1>4, <1>5, <1>6 DEF Low, GoLow
<1>8. Owes'
  BY <1>4, <1>5, <1>6 DEF Owes
<1>9. AwaitsRecv'
  BY <1>5, <1>6, <1>7, <1>8 DEF AwaitsRecv
<1>10. sent' \in Seq(Byte)
  BY <1>2, <1>5 DEF BytesOK, Called
<1>11. Called'
  <2>1. Said' = "send"
    BY <1>1, <1>2, SaidStill DEF Called
  <2> QED BY <1>2, <1>4, <1>5, <1>6, <1>10, <2>1, SaidStill DEF Called, Loading, BeforeReset
<1> QED BY <1>1, <1>4, <1>5, <1>6, <1>9, <1>11 DEF EchoInv, Exchange, Phase, Boots

(* recv(): HOST_GO up, the acknowledge, the byte, HOST_GO down.            *)
LEMMA RecvUp ==
  ASSUME LoadsInv, EchoInv, session' = session,
         set_uio("recv_go", HOST_GO, 1, "recv_ack")
  PROVE  EchoInv'
<1>1. hpc = "recv_go" /\ state # S_LOAD
  BY DEF set_uio, LoadsInv, StartInv, Late, Talking
<1>2. FeedInv /\ Running /\ Registers /\ Phase /\ pc \in 0..10 /\ Called /\ calls' = calls
  BY <1>1 DEF LoadsInv, EchoInv, Exchange, Running, set_uio, Goto
<1>3. pc = 5 /\ Low /\ Owes /\ Level(0)
  <2>1. /\ pc \notin {10, 0} /\ pc \notin {1, 2} /\ pc \notin {3, 4}
        /\ pc \notin {6, 7} /\ pc \notin {8, 9}
    BY <1>1, <1>2 DEF Phase, AwaitsByte, Reads, Acks, Writes, Replied, Quiet, BeforeReset
  <2>2. pc = 5
    BY <1>2, <2>1
  <2> QED BY <1>1, <1>2, <2>2 DEF Phase, AwaitsRecv
<1>4. /\ hpc' = "recv_ack" /\ timer' = 0 /\ UNCHANGED vars
      /\ UNCHANGED <<image, byte, sent, got>> /\ GoHigh'
  BY <1>3 DEF set_uio, Goto, driverVars, Low, GoLow, GoHigh
<1>5. /\ state' = state /\ pc' = pc /\ regs' = regs /\ Running' /\ Registers' /\ Level(0)'
      /\ Step' = Step /\ (GoAt1' <=> GoAt1) /\ (GoAt2' <=> GoAt2)
  BY <1>2, <1>3, <1>4, HostKeeps
<1>6. Rises' /\ Owes'
  BY <1>3, <1>4, <1>5 DEF Low, Rises, Owes
<1>7. timer' <= Step' - 15
  BY <1>3, <1>4, <1>5 DEF Step
<1>8. AwaitsRecv'
  BY <1>4, <1>5, <1>6, <1>7 DEF AwaitsRecv
<1>9. Called'
  BY <1>1, <1>2, <1>4, SaidStill DEF Called, Loading, BeforeReset
<1> QED BY <1>1, <1>3, <1>4, <1>5, <1>8, <1>9 DEF EchoInv, Exchange, Phase, Boots

LEMMA RecvSeen ==
  ASSUME LoadsInv, EchoInv, session' = session, WaitStatus("recv_ack", 1, "recv_uo")
  PROVE  EchoInv'
<1>1. hpc = "recv_ack" /\ state # S_LOAD /\ Status = 1
  BY DEF WaitStatus, LoadsInv, StartInv, Late, Talking
<1>2. FeedInv /\ Running /\ Registers /\ Phase /\ pc \in 0..10 /\ Called /\ calls' = calls
  BY <1>1 DEF LoadsInv, EchoInv, Exchange, Running, WaitStatus, Goto
<1>3. Level(1) /\ ~Level(0)
  BY <1>1, StatusLevel DEF Level
<1>4. pc = 8 /\ Up /\ Owes /\ uo_out_reg = regs[0]
  <2>1. pc \notin {10, 0} /\ pc \notin {1, 2} /\ pc # 5 /\ pc \notin {6, 7}
    BY <1>2, <1>3 DEF Phase, AwaitsByte, Reads, AwaitsRecv, Writes
  <2>2. pc \notin {3, 4}
    BY <1>1, <1>2 DEF Phase, Acks
  <2>3. pc \in {8, 9}
    BY <1>2, <2>1, <2>2
  <2> QED BY <1>1, <1>2, <2>3 DEF Phase, Replied
<1>5. /\ hpc' = "recv_uo" /\ UNCHANGED vars
      /\ UNCHANGED <<image, byte, sent, got, driven, high>>
  BY DEF WaitStatus, Goto, driverVars, hostPins
<1>6. /\ state' = state /\ pc' = pc /\ regs' = regs /\ uo_out_reg' = uo_out_reg
      /\ Running' /\ Registers' /\ Level(1)'
      /\ (GoAt1' <=> GoAt1) /\ (GoAt2' <=> GoAt2)
  BY <1>2, <1>3, <1>5, HostKeeps
<1>7. Up' /\ Owes'
  BY <1>4, <1>5, <1>6 DEF Up, GoHigh, Owes
<1>8. Replied'
  BY <1>4, <1>5, <1>6, <1>7 DEF Replied
<1>9. Called'
  BY <1>1, <1>2, <1>5, SaidStill DEF Called, Loading, BeforeReset
<1> QED BY <1>1, <1>4, <1>5, <1>6, <1>8, <1>9 DEF EchoInv, Exchange, Phase, Boots

LEMMA RecvReads ==
  ASSUME LoadsInv, EchoInv, session' = session, RecvByte
  PROVE  EchoInv'
<1>1. hpc = "recv_uo" /\ state # S_LOAD
  BY DEF RecvByte, LoadsInv, StartInv, Late, Talking
<1>2. FeedInv /\ Running /\ Registers /\ Phase /\ pc \in 0..10 /\ Called /\ calls' = calls
  BY <1>1 DEF LoadsInv, EchoInv, Exchange, Running, RecvByte, Goto
<1>3. pc = 8 /\ Up /\ Owes /\ uo_out_reg = regs[0] /\ Level(1)
  <2>1. /\ pc \notin {10, 0} /\ pc \notin {1, 2} /\ pc \notin {3, 4} /\ pc # 5
        /\ pc \notin {6, 7}
    BY <1>1, <1>2 DEF Phase, AwaitsByte, Reads, Acks, AwaitsRecv, Writes, Quiet, BeforeReset
  <2>2. pc \in {8, 9}
    BY <1>2, <2>1
  <2> QED BY <1>1, <1>2, <2>2 DEF Phase, Replied
<1>4. /\ hpc' = "recv_ungo" /\ UNCHANGED vars /\ got' = Append(got, uo_out_reg)
      /\ UNCHANGED <<image, byte, sent, driven, high>>
  BY DEF RecvByte, Goto, driverVars, hostPins
<1>5. got' = sent /\ sent' = got'
  BY <1>3, <1>4 DEF Owes
<1>6. /\ state' = state /\ pc' = pc /\ Running' /\ Registers' /\ Level(1)'
      /\ (GoAt1' <=> GoAt1) /\ (GoAt2' <=> GoAt2)
  BY <1>2, <1>3, <1>4, HostKeeps
<1>7. Up'
  BY <1>3, <1>4, <1>6 DEF Up, GoHigh
<1>8. Replied'
  BY <1>3, <1>4, <1>5, <1>6, <1>7 DEF Replied
<1>9. Called'
  BY <1>1, <1>2, <1>4, <1>5, SaidStill DEF Called, Loading, BeforeReset
<1> QED BY <1>1, <1>3, <1>4, <1>6, <1>8, <1>9 DEF EchoInv, Exchange, Phase, Boots

LEMMA RecvDown ==
  ASSUME LoadsInv, EchoInv, session' = session,
         set_uio("recv_ungo", HOST_GO, 0, "recv_clear")
  PROVE  EchoInv'
<1>1. hpc = "recv_ungo" /\ state # S_LOAD
  BY DEF set_uio, LoadsInv, StartInv, Late, Talking
<1>2. FeedInv /\ Running /\ Registers /\ Phase /\ pc \in 0..10 /\ Called /\ calls' = calls
  BY <1>1 DEF LoadsInv, EchoInv, Exchange, Running, set_uio, Goto
<1>3. pc = 8 /\ Up /\ sent = got /\ Level(1)
  <2>1. /\ pc \notin {10, 0} /\ pc \notin {1, 2} /\ pc \notin {3, 4} /\ pc # 5
        /\ pc \notin {6, 7}
    BY <1>1, <1>2 DEF Phase, AwaitsByte, Reads, Acks, AwaitsRecv, Writes, Quiet, BeforeReset
  <2>2. pc \in {8, 9}
    BY <1>2, <2>1
  <2> QED BY <1>1, <1>2, <2>2 DEF Phase, Replied
<1>4. /\ hpc' = "recv_clear" /\ timer' = 0 /\ UNCHANGED vars
      /\ UNCHANGED <<image, byte, sent, got>> /\ GoLow'
  BY <1>3 DEF set_uio, Goto, driverVars, Up, GoLow, GoHigh
<1>5. /\ state' = state /\ pc' = pc /\ Running' /\ Registers' /\ Level(1)'
      /\ Step' = Step /\ (GoAt1' <=> GoAt1) /\ (GoAt2' <=> GoAt2)
  BY <1>2, <1>3, <1>4, HostKeeps
<1>6. Falls'
  BY <1>3, <1>4, <1>5 DEF Up, Falls
<1>7. timer' <= Step' - 24
  BY <1>3, <1>4, <1>5 DEF Step
<1>8. Replied'
  BY <1>3, <1>4, <1>5, <1>6, <1>7 DEF Replied
<1>9. Called'
  BY <1>1, <1>2, <1>4, SaidStill DEF Called, Loading, BeforeReset
<1> QED BY <1>1, <1>3, <1>4, <1>5, <1>8, <1>9 DEF EchoInv, Exchange, Phase, Boots

-----------------------------------------------------------------------------
(* Loads, the first and those between the bytes.                           *)

(* A step within load().                                                   *)
LEMMA CalledLoading ==
  ASSUME Called, session' = session, calls' = calls, sent' = sent, got' = got,
         hpc \in Loading, hpc' \in Loading
  PROVE  Called'
<1>1. hpc' \notin {"send_ui", "send_go", "send_ack", "send_ungo", "send_clear",
                   "recv_go", "recv_ack", "recv_uo", "recv_ungo", "recv_clear",
                   "idle", "error"}
  BY DEF Loading, BeforeReset
<1> QED BY <1>1, SaidStill DEF Called

(* What set_uio and release_uio leave alone.                               *)
LEMMA PinStep ==
  ASSUME NEW at, NEW p \in {HOST_GO, START}, NEW level \in {0, 1}, NEW next,
         \/ set_uio(at, p, level, next)
         \/ release_uio(at, p, next)
  PROVE  /\ hpc = at /\ hpc' \in {at, next}
         /\ UNCHANGED vars
         /\ UNCHANGED <<calls, image, k, byte, sent, got, ui_pin>>
         /\ level = 0 => high' \subseteq high
         /\ p = START => (GoLow => GoLow')
         /\ level = 0 /\ set_uio(at, p, level, next) => (GoLow => GoLow')
<1>1. CASE set_uio(at, p, level, next)
  BY <1>1 DEF set_uio, Goto, driverVars, GoLow, HOST_GO, START
<1>2. CASE release_uio(at, p, next)
  BY <1>2 DEF release_uio, set_uio, Goto, driverVars, GoLow, HOST_GO, START
<1> QED BY <1>1, <1>2

(* load() before its reset, whatever still runs on the chip.               *)
LEMMA PinsEcho ==
  ASSUME LoadsInv, EchoInv, session' = session, LoadPins
  PROVE  EchoInv'
<1>1. /\ hpc \in BeforeReset /\ hpc' \in BeforeReset /\ UNCHANGED vars
      /\ UNCHANGED <<calls, image, byte, sent, got>>
      /\ high' \subseteq high /\ (GoLow => GoLow')
  <2>1. CASE release_uio("release", START, "go_low")
    BY <2>1 DEF release_uio, Goto, driverVars, GoLow, HOST_GO, START, BeforeReset
  <2>2. CASE set_uio("go_low", HOST_GO, 0, "start_low")
    BY <2>2, PinStep DEF BeforeReset
  <2>3. CASE set_uio("start_low", START, 0, "reset")
    BY <2>3, PinStep DEF BeforeReset
  <2> QED BY <2>1, <2>2, <2>3 DEF LoadPins
<1>2. hpc \in Loading /\ hpc' \in Loading /\ hpc \in Quiet /\ hpc' \in Quiet
  BY <1>1 DEF Loading, Quiet
<1>3. Called'
  BY <1>1, <1>2, CalledLoading DEF EchoInv
<1>4. CASE state = S_LOAD
  BY <1>1, <1>3, <1>4, LoadStep DEF EchoInv, Boots
<1>5. CASE state # S_LOAD
  BY <1>1, <1>2, <1>3, <1>5, QuietStep DEF BeforeReset
<1> QED BY <1>4, <1>5

(* load() abandoned and begun again.                                       *)
LEMMA InterruptEcho ==
  ASSUME Short, Echoing, LoadsInv, EchoInv, session' = session, Interrupt
  PROVE  EchoInv'
<1>1. /\ hpc # "idle" /\ calls = 0 /\ hpc' = "release" /\ UNCHANGED vars
      /\ image' \in Images /\ UNCHANGED <<calls, byte, sent, got, driven, high>>
  BY DEF Interrupt, hostPins
<1>2. image' = image
  BY <1>1, EchoFits DEF LoadsInv, FeedInv
<1>3. hpc \in Loading
  BY <1>1 DEF LoadsInv, StartInv, Loading, Late, Talking, Streaming, BeforeReset
<1>4. hpc' \in Loading /\ hpc' \in Quiet /\ hpc' # "send_go"
  BY <1>1 DEF Loading, Quiet, BeforeReset
<1>5. Called'
  BY <1>1, <1>3, <1>4, CalledLoading DEF EchoInv
<1>6. GoLow => GoLow'
  BY <1>1 DEF GoLow
<1>7. CASE state = S_LOAD
  <2>1. (START \notin high /\ Starting(0)) \/ (GoLow /\ Ready)
    BY <1>3, <1>7 DEF EchoInv, Boots, LoadsInv, FeedInv, Feeding, StartInv, StartLow,
       Loading, Late, Talking, Streaming
  <2> QED BY <1>1, <1>2, <1>5, <1>6, <1>7, <2>1, LoadStep
<1>8. CASE state # S_LOAD
  <2>1. ~Streaming /\ hpc # "start"
    BY <1>8 DEF LoadsInv, FeedInv, Feeding, StartInv
  <2>2. hpc \in Quiet /\ hpc # "recv_clear"
    BY <1>3, <2>1 DEF Loading, Streaming, Quiet, BeforeReset
  <2> QED BY <1>1, <1>2, <1>4, <1>5, <1>6, <1>8, <2>2, QuietStep
<1> QED BY <1>7, <1>8

(* The reset, which forgets the program.                                   *)
LEMMA ResetEcho ==
  ASSUME LoadsInv, EchoInv, session' = session, LoadReset
  PROVE  EchoInv'
<1>1. /\ hpc = "reset" /\ hpc' = "set_ui" /\ Reset
      /\ UNCHANGED <<calls, sent, got>>
  BY DEF LoadReset
<1>2. sent = got
  <2>1. CASE state = S_LOAD
    BY <2>1 DEF EchoInv, Boots
  <2>2. CASE state # S_LOAD
    BY <1>1, <2>2, AtRest DEF EchoInv, Exchange, Running, Quiet, BeforeReset
  <2> QED BY <2>1, <2>2
<1>3. state' = S_LOAD /\ Registers'
  BY <1>1 DEF Reset, PinReset, Registers
<1>4. hpc \in Loading /\ hpc' \in Loading /\ hpc' \notin BeforeReset
  BY <1>1 DEF Loading, BeforeReset
<1>5. Called'
  BY <1>1, <1>4, CalledLoading DEF EchoInv
<1> QED BY <1>1, <1>2, <1>3, <1>4, <1>5 DEF EchoInv, Running, Exchange, Boots

(* The bytes, and START up.                                                *)
LEMMA StreamEcho ==
  ASSUME Short, LoadsInv, EchoInv, session' = session,
         \/ LoadData \/ WaitStatus("ack", 1, "echo") \/ LoadEcho \/ LoadUngo \/ LoadNext
         \/ set_uio("start", START, 1, "hold1")
  PROVE  EchoInv'
<1>1. /\ UNCHANGED vars /\ UNCHANGED <<calls, image, sent, got>>
      /\ hpc \in {"set_ui", "go", "ack", "echo", "ungo", "clear", "start"}
      /\ hpc' \in {"set_ui", "go", "ack", "echo", "ungo", "clear", "start", "hold1"}
  <2>1. CASE LoadData
    <3>1. CASE set_ui("set_ui", image[k], "go")
      BY <3>1 DEF set_ui, Goto, driverVars
    <3>2. CASE set_uio("go", HOST_GO, 1, "ack")
      BY <3>2, PinStep
    <3> QED BY <2>1, <3>1, <3>2 DEF LoadData
  <2>2. CASE WaitStatus("ack", 1, "echo")
    BY <2>2 DEF WaitStatus, Goto, driverVars
  <2>3. CASE LoadEcho
    BY <2>3, EchoIsRight DEF LoadEcho, Goto, driverVars, LoadsInv
  <2>4. CASE LoadUngo
    BY <2>4, PinStep DEF LoadUngo
  <2>5. CASE LoadNext
    BY <2>5 DEF LoadNext, Goto
  <2>6. CASE set_uio("start", START, 1, "hold1")
    BY <2>6, PinStep
  <2> QED BY <2>1, <2>2, <2>3, <2>4, <2>5, <2>6
<1>2. state = S_LOAD
  BY <1>1 DEF LoadsInv, FeedInv, Feeding, StartInv, Streaming
<1>3. hpc \in Loading /\ hpc' \in Loading /\ hpc' \notin BeforeReset
  BY <1>1 DEF Loading, BeforeReset
<1>4. Called'
  BY <1>1, <1>3, CalledLoading DEF EchoInv
<1> QED BY <1>1, <1>2, <1>3, <1>4, LoadStep

(* START down again, with the program running.                             *)
LEMMA PulseEcho ==
  ASSUME LoadsInv, EchoInv, session' = session, LoadsInv',
         \/ Hold("hold1", "unstart") \/ Hold("hold2", "free")
         \/ set_uio("unstart", START, 0, "hold2") \/ release_uio("free", START, "idle")
  PROVE  EchoInv'
<1>1. /\ UNCHANGED vars /\ UNCHANGED <<calls, image, sent, got>> /\ (GoLow => GoLow')
      /\ hpc \in {"hold1", "hold2", "unstart", "free"}
      /\ hpc' \in {"unstart", "hold2", "free", "idle"}
      /\ hpc' = "idle" => hpc = "free"
  <2>1. CASE Hold("hold1", "unstart") \/ Hold("hold2", "free")
    <3>1. /\ UNCHANGED vars /\ UNCHANGED <<calls, driverVars, hostPins>>
          /\ \/ hpc = "hold1" /\ hpc' = "unstart"
             \/ hpc = "hold2" /\ hpc' = "free"
      BY <2>1 DEF Hold, Goto
    <3>2. /\ GoLow => GoLow'
          /\ UNCHANGED <<image, sent, got>>
      BY <3>1 DEF GoLow, hostPins, driverVars
    <3> QED BY <3>1, <3>2
  <2>2. CASE set_uio("unstart", START, 0, "hold2")
    <3>1. /\ hpc = "unstart" /\ hpc' \in {"unstart", "hold2"} /\ UNCHANGED vars
          /\ UNCHANGED <<calls, image, k, byte, sent, got, ui_pin>>
          /\ GoLow => GoLow'
      BY <2>2, PinStep
    <3> QED BY <3>1
  <2>3. CASE release_uio("free", START, "idle")
    <3>1. /\ UNCHANGED vars /\ UNCHANGED <<calls, driverVars, high>>
          /\ driven' = driven \ {START} /\ hpc = "free" /\ hpc' = "idle"
      BY <2>3 DEF release_uio, Goto
    <3>2. /\ GoLow => GoLow'
          /\ UNCHANGED <<image, sent, got>>
      BY <3>1 DEF GoLow, HOST_GO, START, driverVars
    <3> QED BY <3>1, <3>2
  <2> QED BY <2>1, <2>2, <2>3
<1>2. state' # S_LOAD /\ state' = state
  BY <1>1 DEF LoadsInv, StartInv, Late, Talking, vars, fsmVars
<1>3. hpc \in Quiet /\ hpc' \in Quiet /\ hpc \in Loading
  BY <1>1 DEF Quiet, Loading
<1>4. pc' = pc /\ pc \in {10, 0}
  <2>1. pc' = pc
    BY <1>1 DEF vars, fsmVars
  <2> QED BY <1>1, <1>2, <1>3, <2>1, AtRest DEF EchoInv, Exchange, Running
<1>5. Called'
  <2>1. CASE hpc' \in Loading
    BY <1>1, <1>3, <2>1, CalledLoading DEF EchoInv
  <2>2. CASE hpc' = "idle"
    <3>1. Said' = "load"
      BY <1>1, <1>3, SaidStill DEF EchoInv, Called
    <3> QED BY <1>1, <1>4, <2>2, <3>1, SaidStill DEF EchoInv, Called, Loading, BeforeReset
  <2> QED BY <1>1, <2>1, <2>2 DEF Loading
<1> QED BY <1>1, <1>2, <1>3, <1>5, QuietStep

(* The byte is put on ui_in before HOST_GO rises; recv() returns once the  *)
(* acknowledge is withdrawn.                                               *)
LEMMA EndsEcho ==
  ASSUME LoadsInv, EchoInv, session' = session,
         set_ui("send_ui", byte, "send_go") \/ WaitStatus("recv_clear", 0, "idle")
  PROVE  EchoInv'
<1>1. /\ UNCHANGED vars /\ UNCHANGED <<calls, image, byte, sent, got, driven>>
      /\ high' = high /\ (GoLow => GoLow')
      /\ \/ hpc = "send_ui" /\ hpc' = "send_go" /\ ui_pin' = byte'
         \/ hpc = "recv_clear" /\ hpc' = "idle" /\ Status = 0
  BY DEF set_ui, WaitStatus, Goto, driverVars, hostPins, GoLow
<1>2. state # S_LOAD /\ hpc \in Quiet /\ hpc' \in Quiet /\ hpc # "idle"
  BY <1>1 DEF LoadsInv, StartInv, Late, Talking, Quiet
<1>3. pc' = pc /\ pc \in {10, 0}
  <2>1. pc' = pc
    BY <1>1 DEF vars, fsmVars
  <2> QED BY <1>1, <1>2, <2>1, AtRest DEF EchoInv, Exchange, Running
<1>4. calls' \in 0..Len(Script') /\ Said' = Said
  BY <1>1, SaidStill DEF EchoInv
<1>5. Called'
  <2>1. CASE hpc = "send_ui"
    BY <1>1, <1>4, <2>1 DEF EchoInv, Called, Loading, BeforeReset
  <2>2. CASE hpc = "recv_clear"
    BY <1>1, <1>3, <1>4, <2>2 DEF EchoInv, Called, Loading, BeforeReset
  <2> QED BY <1>1, <2>1, <2>2
<1> QED BY <1>1, <1>2, <1>5, QuietStep

(* The next call: recv() exactly when the program owes a byte.             *)
LEMMA CallEcho ==
  ASSUME Short, Echoing, LoadsInv, EchoInv, session' = session, Call
  PROVE  EchoInv'
<1>1. hpc = "idle" /\ state # S_LOAD
  BY DEF Call, EchoInv, Called, LoadsInv, StartInv, Late
<1>2. /\ calls \in Nat /\ calls < Len(Script) /\ calls' = calls + 1 /\ Script' = Script
      /\ UNCHANGED vars /\ UNCHANGED <<sent, got, driven, high, ui_pin>>
      /\ Len(Script) \in Nat
  <2>1. session \in Sessions
    BY DEF LoadsInv, FeedInv, DriverOK
  <2>2. Script \in Seq({"load", "send", "recv"})
    BY <2>1, HostAssumption DEF Script
  <2> QED BY <2>2 DEF Call, hostPins, LoadsInv, StartInv, Script
<1>3. image' = image
  BY <1>2, EchoFits DEF LoadsInv, FeedInv, Call
<1>4. calls' \in DOMAIN Script /\ calls' \in 0..Len(Script') /\ Said' = Script[calls']
  BY <1>2 DEF Said, Script
<1>5. Said' = "recv" <=> Said = "send"
  <2>1. Script[calls'] = "recv" <=> calls' > 1 /\ Script[calls' - 1] = "send"
    <3>1. session \in Sessions
      BY DEF LoadsInv, FeedInv, DriverOK
    <3> QED BY <1>4, <3>1 DEF Echoing, Script
  <2>2. calls' - 1 = calls /\ (calls' > 1 <=> calls # 0)
    BY <1>2
  <2> QED BY <1>4, <2>1, <2>2 DEF Said
<1>6. Said = "send" <=> pc = 5
  BY <1>1 DEF EchoInv, Called
<1>7. sent' \in Seq(Byte) /\ got' \in Seq(Byte)
  BY <1>2 DEF EchoInv, Called
<1>8. \/ Said' = "load" /\ hpc' = "release"
      \/ Said' = "send" /\ hpc' = "send_ui"
      \/ Said' = "recv" /\ hpc' = "recv_go"
  BY <1>2, <1>4 DEF Call
<1>9. Called'
  BY <1>4, <1>7, <1>8 DEF Called, Loading, BeforeReset
<1>10. CASE pc = 5
  <2>1. hpc' = "recv_go"
    BY <1>5, <1>6, <1>8, <1>10
  <2>2. FeedInv /\ Running /\ Registers /\ Boots /\ Phase
    BY <1>1 DEF LoadsInv, EchoInv, Exchange
  <2>3. Low /\ Owes /\ Level(0)
    BY <1>1, <1>10, <2>2 DEF Phase, AwaitsRecv
  <2>4. /\ state' = state /\ pc' = pc /\ regs' = regs /\ Running' /\ Registers' /\ Level(0)'
        /\ (GoAt1' <=> GoAt1) /\ (GoAt2' <=> GoAt2)
    BY <1>2, <1>3, <2>2, <2>3, HostKeeps
  <2>5. Low' /\ Owes'
    BY <1>2, <2>3, <2>4 DEF Low, GoLow, Owes
  <2>6. AwaitsRecv'
    BY <2>1, <2>4, <2>5 DEF AwaitsRecv
  <2> QED BY <1>1, <1>9, <1>10, <2>4, <2>6 DEF EchoInv, Exchange, Phase, Boots
<1>11. CASE pc # 5
  <2>1. hpc' \in {"release", "send_ui"}
    BY <1>5, <1>6, <1>8, <1>11
  <2>2. hpc \in Quiet /\ hpc' \in Quiet /\ hpc' # "send_go" /\ hpc # "recv_clear"
    BY <1>1, <2>1 DEF Quiet, BeforeReset
  <2>3. GoLow => GoLow'
    BY <1>2 DEF GoLow
  <2> QED BY <1>1, <1>2, <1>3, <1>9, <1>11, <2>2, <2>3, QuietStep
<1> QED BY <1>10, <1>11

(* A host that waits for the next call knows whether a byte is owed.       *)
LEMMA IdleOwes ==
  ASSUME Phase, pc \in 0..10, hpc = "idle", got \in Seq(Byte)
  PROVE  pc = 5 <=> sent # got
<1>1. Owes => sent # got
  BY DEF Owes
<1>2. pc \notin {1, 2} /\ pc \notin {3, 4} /\ pc \notin {6, 7} /\ pc \notin {8, 9}
  BY DEF Phase, Reads, Acks, Writes, Replied
<1>3. pc = 5 => Owes
  BY DEF Phase, AwaitsRecv
<1>4. pc \in {10, 0} => sent = got
  BY DEF Phase, AwaitsByte
<1> QED BY <1>1, <1>2, <1>3, <1>4

(* An edge, whoever waits for it.                                          *)
LEMMA TickEcho ==
  ASSUME Short, Echoing, LoadsInv, EchoInv, session' = session, ChipTick
  PROVE  EchoInv'
<1>1. Words >= 12 /\ image = EchoImage /\ DriverOK
  BY EchoFits DEF LoadsInv, FeedInv
<1>2. timer \in Nat /\ UNCHANGED <<hpc, calls, sent, got>>
  BY <1>1 DEF ChipTick, driverVars, DriverOK
<1>3. CASE state = S_LOAD
  <2>1. Running' /\ Registers' /\ Exchange' /\ Boots'
    BY <1>1, <1>3, LoadTick DEF EchoInv
  <2>2. hpc # "idle"
    BY <1>3 DEF LoadsInv, StartInv, Late
  <2>3. Called'
    BY <1>2, <2>2, SaidStill DEF EchoInv, Called
  <2> QED BY <2>1, <2>3 DEF EchoInv
<1>4. CASE state # S_LOAD
  <2>1. state' # S_LOAD /\ Running' /\ Registers' /\ Phase'
    BY <1>1, <1>2, <1>4, TickPhase DEF EchoInv
  <2>2. hpc = "idle" => (pc' = 5 <=> pc = 5)
    <3>1. hpc = "idle" => (pc = 5 <=> sent # got)
      BY <1>4, IdleOwes DEF EchoInv, Exchange, Running, Called
    <3>2. pc' \in 0..10 /\ got' \in Seq(Byte)
      BY <1>2, <2>1 DEF Running, EchoInv, Called
    <3>3. hpc' = "idle" => (pc' = 5 <=> sent' # got')
      <4> SUFFICES ASSUME hpc' = "idle" PROVE pc' = 5 <=> sent' # got'
        OBVIOUS
      <4>1. Owes' => sent' # got'
        BY <3>2 DEF Owes
      <4>2. pc' = 5 => Owes'
        BY <2>1 DEF Phase, AwaitsRecv
      <4>3. pc' \in {10, 0} => sent' = got'
        BY <2>1 DEF Phase, AwaitsByte
      <4>4. /\ pc' \notin {1, 2} /\ pc' \notin {3, 4} /\ pc' \notin {6, 7}
            /\ pc' \notin {8, 9}
        BY <2>1 DEF Phase, Reads, Acks, Writes, Replied
      <4> QED BY <3>2, <4>1, <4>2, <4>3, <4>4
    <3> QED BY <1>2, <3>1, <3>3
  <2>3. Called'
    BY <1>2, <2>2, SaidStill DEF EchoInv, Called
  <2> QED BY <2>1, <2>3 DEF EchoInv, Exchange, Boots
<1> QED BY <1>3, <1>4

(* Nothing moves.                                                          *)
LEMMA StillEcho ==
  ASSUME LoadsInv, EchoInv, UNCHANGED allVars
  PROVE  EchoInv'
<1>1. UNCHANGED vars /\ UNCHANGED <<session, hpc, calls, interrupts, timer, image, k, byte,
                                    sent, got, ui_pin, driven, high>>
  BY DEF allVars, hostVars, driverVars, hostPins
<1>2. FeedInv /\ EchoInv
  BY DEF LoadsInv
<1>3. /\ UNCHANGED <<state, pc, regs, drv, uo_out_reg, ui_in_ff1, ui_in_ff2>>
      /\ Step' = Step
      /\ (GoAt1' <=> GoAt1) /\ (GoAt2' <=> GoAt2)
      /\ \A v : Level(v)' <=> Level(v)
      /\ Running => Running'
      /\ Registers => Registers'
      /\ Ready => Ready'
      /\ Starting(0) => Starting(0)'
  BY <1>1, <1>2, HostKeeps
<1>4. (GoLow' <=> GoLow) /\ (GoHigh' <=> GoHigh)
  BY <1>1 DEF GoLow, GoHigh
<1>5. (Low' <=> Low) /\ (Up' <=> Up) /\ (Rises' <=> Rises) /\ (Falls' <=> Falls)
      /\ (Presented' <=> Presented) /\ (Owes' <=> Owes)
  BY <1>1, <1>3, <1>4 DEF Low, Up, Rises, Falls, Presented, Owes
<1>6. /\ AwaitsByte => AwaitsByte'
      /\ Reads => Reads'
      /\ Acks => Acks'
      /\ AwaitsRecv => AwaitsRecv'
      /\ Writes => Writes'
      /\ Replied => Replied'
  <2>1. AwaitsByte => AwaitsByte'
    BY <1>1, <1>3, <1>5 DEF AwaitsByte
  <2>2. Reads => Reads'
    BY <1>1, <1>3, <1>5 DEF Reads
  <2>3. Acks => Acks'
    BY <1>1, <1>3, <1>5 DEF Acks
  <2>4. AwaitsRecv => AwaitsRecv'
    BY <1>1, <1>3, <1>5 DEF AwaitsRecv
  <2>5. Writes => Writes'
    BY <1>1, <1>3, <1>5 DEF Writes
  <2>6. Replied => Replied'
    BY <1>1, <1>3, <1>5 DEF Replied
  <2> QED BY <2>1, <2>2, <2>3, <2>4, <2>5, <2>6
<1>7. Exchange'
  BY <1>2, <1>3, <1>6 DEF EchoInv, Exchange, Phase
<1>8. Boots'
  BY <1>1, <1>2, <1>3, <1>4 DEF EchoInv, Boots
<1>9. Called'
  BY <1>1, <1>2, <1>3, SaidStill DEF EchoInv, Called
<1> QED BY <1>2, <1>3, <1>7, <1>8, <1>9 DEF EchoInv

-----------------------------------------------------------------------------
(* The whole session.                                                      *)

(* Every step.                                                             *)
LEMMA EchoNext ==
  ASSUME Patient, Short, Echoing, LoadsInv, BytesOK, EchoInv,
         [HNext]_allVars, LoadsInv'
  PROVE  EchoInv'
<1>1. CASE HNext
  <2>1. session' = session
    BY <1>1 DEF HNext
  <2>2. CASE ChipTick
    BY <2>1, <2>2, TickEcho
  <2>3. CASE LoadPins \/ LoadReset \/ Interrupt
    BY <2>1, <2>3, PinsEcho, ResetEcho, InterruptEcho
  <2>4. CASE \/ LoadData \/ WaitStatus("ack", 1, "echo") \/ LoadEcho \/ LoadUngo \/ LoadNext
             \/ set_uio("start", START, 1, "hold1")
    BY <2>1, <2>4, StreamEcho
  <2>5. CASE \/ Hold("hold1", "unstart") \/ Hold("hold2", "free")
             \/ set_uio("unstart", START, 0, "hold2") \/ release_uio("free", START, "idle")
    BY <2>1, <2>5, PulseEcho
  <2>6. CASE Call
    BY <2>1, <2>6, CallEcho
  <2>7. CASE SendPins \/ WaitStatus("send_ack", 1, "send_ungo") \/ SendReturn
    BY <2>1, <2>7, EndsEcho, SendUp, SendSeen, SendDown, SendOver DEF SendPins
  <2>8. CASE \/ RecvPins \/ WaitStatus("recv_ack", 1, "recv_uo") \/ RecvByte
             \/ WaitStatus("recv_clear", 0, "idle")
    BY <2>1, <2>8, EndsEcho, RecvUp, RecvSeen, RecvReads, RecvDown DEF RecvPins
  <2>9. ~GiveUp
    <3>1. Timely
      BY HostAssumption DEF Patient, Timely
    <3>2. ~TimeoutStatus("ack", 1) /\ ~TimeoutStatus("clear", 0)
      BY <3>1, AnsweredInTime DEF LoadsInv
    <3>3. ASSUME NEW at, NEW level, TimeoutStatus(at, level) PROVE hpc = at
      BY <3>3 DEF TimeoutStatus
    <3>4. ~TimeoutStatus("send_ack", 1) /\ ~TimeoutStatus("recv_ack", 1)
      BY <3>3, Answered
    <3>5. ~TimeoutStatus("send_clear", 0) /\ ~TimeoutStatus("recv_clear", 0)
      BY <3>3, Answered
    <3> QED BY <3>2, <3>4, <3>5 DEF GiveUp
  <2> QED BY <1>1, <2>2, <2>3, <2>4, <2>5, <2>6, <2>7, <2>8, <2>9
         DEF HNext, HostStep, LoadPulse
<1>2. CASE UNCHANGED allVars
  BY <1>2, StillEcho
<1> QED BY <1>1, <1>2

LEMMA EchoInit ==
  ASSUME Init, HostInit
  PROVE  EchoInv
<1>1. /\ state = S_LOAD /\ ~pending_lx_writeback /\ regs = [r \in RegIndex |-> 0]
      /\ drv = [p \in PinIndex |-> 0] /\ Starting(0)
  BY DEF Init, PinInit, Starting
<1>2. /\ hpc = "release" /\ calls = 0 /\ sent = <<>> /\ got = <<>> /\ high = {}
      /\ session \in Sessions
  BY DEF HostInit
<1>3. Called
  <2>1. Script \in Seq({"load", "send", "recv"})
    BY <1>2, HostAssumption DEF Script
  <2>2. calls \in 0..Len(Script)
    BY <1>2, <2>1
  <2> QED BY <1>2, <2>2 DEF Called, Said
<1> QED BY <1>1, <1>2, <1>3 DEF EchoInv, Running, Registers, Exchange, Boots

LEMMA EchoInvariant ==
  ASSUME Patient, Short, Echoing
  PROVE  HSpec => [](LoadsInv /\ EchoInv)
<1>1. Timely
  BY HostAssumption DEF Patient, Timely
<1>2. Init /\ HostInit => EchoInv /\ BytesOK
  BY EchoInit DEF HostInit, BytesOK, Byte
<1>3. LoadsInv /\ LoadsInv' /\ EchoInv /\ BytesOK /\ [HNext]_allVars => EchoInv' /\ BytesOK'
  BY EchoNext, BytesNext DEF LoadsInv
<1> QED BY <1>1, <1>2, <1>3, LoadsInvariant, PTL DEF HSpec

(* In every session of loads and of sends each answered by a recv, with    *)
(* the echo firmware, recv() returns the bytes given to send(), in order.  *)
THEOREM BytesEchoed ==
  ASSUME Patient, Short, Echoing
  PROVE  HSpec => []EchoesInOrder
<1>1. LoadsInv /\ EchoInv => EchoesInOrder
  <2> SUFFICES ASSUME EchoInv PROVE EchoesInOrder
    OBVIOUS
  <2>1. sent = got \/ Owes
    <3>1. CASE state = S_LOAD
      BY <3>1 DEF EchoInv, Boots
    <3>2. CASE state # S_LOAD
      <4>1. Phase /\ pc \in 0..10
        BY <3>2 DEF EchoInv, Exchange, Running
      <4> QED BY <4>1 DEF Phase, AwaitsByte, Reads, Acks, AwaitsRecv, Writes, Replied
    <3> QED BY <3>1, <3>2
  <2>2. got \in Seq(Byte)
    BY DEF EchoInv, Called
  <2>3. CASE sent = got
    BY <2>2, <2>3 DEF EchoesInOrder
  <2>4. CASE Owes
    BY <2>2, <2>4 DEF Owes, EchoesInOrder
  <2> QED BY <2>1, <2>3, <2>4
<1> QED BY <1>1, EchoInvariant, PTL

(* And IN and OUT commit within the windows the handshake gives them.      *)
THEOREM WindowsKept ==
  ASSUME Patient, Short, Echoing
  PROVE  HSpec => []HandshakeWindows
<1>1. LoadsInv /\ EchoInv => HandshakeWindows
  <2> SUFFICES ASSUME LoadsInv, EchoInv, state = S_EXECUTE
               PROVE  /\ opcode = OP_IN => hpc = "send_ack" /\ ui_in_sync = byte
                      /\ opcode = OP_OUT => hpc = "recv_ack"
    BY DEF HandshakeWindows, InCommits, OutCommits
  <2>1. pc \in 0..10 /\ word = EchoFirmware[pc + 1] /\ Phase
    BY DEF EchoInv, Running, Exchange, S_LOAD, S_EXECUTE
  <2>2. Words >= 12
    BY EchoFits DEF LoadsInv, FeedInv
  <2>3. (opcode = OP_IN <=> pc = 1) /\ (opcode = OP_OUT <=> pc = 6)
    BY <2>1, <2>2, EchoSteps
  <2>4. pc = 1 => hpc = "send_ack" /\ ui_in_ff2 = byte
    BY <2>1 DEF Phase, Reads, Up, Presented
  <2>5. pc = 6 => hpc = "recv_ack"
    BY <2>1 DEF Phase, Writes
  <2> QED BY <2>3, <2>4, <2>5 DEF ui_in_sync
<1> QED BY <1>1, EchoInvariant, PTL
=============================================================================
