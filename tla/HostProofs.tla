----------------------------- MODULE HostProofs -----------------------------
(***************************************************************************)
(* Proofs about the host library and the chip together, for every image,   *)
(* every list of calls, every size of the memory and every relative speed. *)
(***************************************************************************)
EXTENDS HostSession, ChipProofs

(* What the host holds on its two wires, and what the wires drive.         *)
GoLow == HOST_GO \in driven /\ HOST_GO \notin high
GoHigh == HOST_GO \in driven /\ HOST_GO \in high
StartLow == START \in driven /\ START \notin high
StartHigh == START \in driven /\ START \in high

(* HOST_GO on its way through the synchronizer, n edges after it was       *)
(* driven high or low: the third edge takes the byte or withdraws the      *)
(* acknowledge, the fourth shows it on HOST_STATUS.                        *)
Rising(n) ==
  /\ HOST_GO \in uio_in_ff1 <=> n >= 1
  /\ HOST_GO \in uio_in_ff2 <=> n >= 2
  /\ host_go_prev <=> n >= 3
  /\ load_ack <=> n >= 3
  /\ drv[HOST_STATUS] = IF n >= 4 THEN 1 ELSE 0

Falling(n) ==
  /\ HOST_GO \in uio_in_ff1 <=> n < 1
  /\ HOST_GO \in uio_in_ff2 <=> n < 2
  /\ host_go_prev <=> n < 3
  /\ load_ack <=> n < 3
  /\ drv[HOST_STATUS] = IF n < 4 THEN 1 ELSE 0

(* START on its way: the edge after the second leaves S_LOAD.              *)
Starting(n) ==
  /\ START \in uio_in_ff1 <=> n >= 1
  /\ START \in uio_in_ff2 <=> n >= 2
  /\ ~start_prev

(* A wait has lasted no longer than the n edges the wire has seen.         *)
Since(n) == timer <= n \/ n = 4

(* What loading rests on.                                                  *)
ArrayOK == sram = [a \in ByteAddr |-> sram[a]]

LoaderOK ==
  state = S_LOAD =>
    /\ ~halted
    /\ boot_addr \in ByteAddr /\ boot_full \in BOOLEAN
    /\ boot_full => boot_addr = MemBytes - 1
    /\ uo_out_reg = boot_addr % 256
    /\ drv \in [PinIndex -> Bit]
    /\ \A p \in PinIndex \ {HOST_STATUS} : drv[p] = 0

DriverOK ==
  /\ session \in Sessions /\ image \in Images
  /\ driven \subseteq {HOST_GO, START}
  /\ timer \in Nat
  /\ hpc = "start_low" => GoLow
  /\ hpc = "reset" => GoLow /\ StartLow

(* The byte being moved.                                                   *)
Offered ==
  \E n \in 0..4 :
    /\ Rising(n) /\ Since(n)
    /\ Taken = IF n < 3 THEN k - 1 ELSE k
    /\ n >= 1 => ui_in_ff1 = image[k]
    /\ n >= 2 => ui_in_ff2 = image[k]

Withdrawn == \E n \in 0..4 : Falling(n) /\ Since(n)

Feeding ==
  /\ Streaming =>
       /\ state = S_LOAD /\ StartLow /\ Starting(0)
       /\ k \in 1..Len(image) /\ Holds(Taken)
  /\ hpc \in {"set_ui", "go"} => GoLow /\ Rising(0) /\ Taken = k - 1
  /\ hpc \in {"go", "ack"} => ui_pin = image[k]
  /\ hpc = "ack" => GoHigh /\ Offered
  /\ hpc \in {"echo", "ungo"} => GoHigh /\ Rising(4) /\ Taken = k
  /\ hpc = "clear" => GoLow /\ Withdrawn /\ Taken = k

FeedInv == ArrayOK /\ LoaderOK /\ DriverOK /\ Feeding

(* From the last byte to the first instruction.                            *)
Ready == Rising(0) /\ Taken = Len(image) /\ Holds(Len(image))

Talking ==
  {"send_ui", "send_go", "send_ack", "send_ungo", "send_clear",
   "recv_go", "recv_ack", "recv_uo", "recv_ungo", "recv_clear", "error"}

Late == Talking \cup {"unstart", "hold2", "free", "idle"}

StartInv ==
  /\ hpc \in BeforeReset \cup {"start", "hold1"} \cup Late \/ Streaming
  /\ hpc = "start" => state = S_LOAD /\ GoLow /\ StartLow /\ Ready /\ Starting(0)
  /\ hpc = "hold1" =>
       /\ GoLow /\ StartHigh
       /\ state = S_LOAD => Ready /\ \E n \in 0..2 : Starting(n) /\ timer <= n
  /\ hpc \in Late => state # S_LOAD
  /\ hpc \in Talking => calls > 0 /\ Script[calls] \in {"send", "recv"}
  /\ calls \in Nat

(* The chip sees a pulse before the host goes on, and no wait is given up  *)
(* while the answer is on its way.  A hold lasts 500 cycles, at least 4    *)
(* are needed (pe_host.py:190-191); the timeout is a second.               *)
Timely == HoldCycles >= 3 /\ Patience >= 4

(* Every image leaves a byte of the memory free, see the run `full`.       *)
Short == \A x \in Sessions : \A i \in x.images : Len(i) < MemBytes

-----------------------------------------------------------------------------
(* One clock edge while the chip is loading.                               *)

(* While it loads the chip drives HOST_STATUS only, so the levels of the   *)
(* host's two pins are the host's.                                         *)
LEMMA LoadPads ==
  ASSUME state = S_LOAD, driven \subseteq {HOST_GO, START}, ClockEdge
  PROVE  \E uio :
           /\ Clock(ui_pin, uio)
           /\ HOST_GO \in uio <=> HOST_GO \in driven /\ HOST_GO \in high
           /\ START \in uio <=> START \in driven /\ START \in high
<1>1. ChipDrives = {HOST_STATUS}
  BY DEF ChipDrives, UioOe, mode_load
<1>2. Fought = {}
  BY <1>1 DEF Fought, HOST_GO, HOST_STATUS, START
<1>3. PICK undefined \in SUBSET Fought :
        Clock(ui_pin, (PadsHigh \ Fought) \cup undefined)
  BY DEF ClockEdge
<1>4. (PadsHigh \ Fought) \cup undefined = PadsHigh
  BY <1>2
<1>5. Clock(ui_pin, PadsHigh)
  BY <1>3, <1>4
<1>6. /\ HOST_GO \in PadsHigh <=> HOST_GO \in driven /\ HOST_GO \in high
      /\ START \in PadsHigh <=> START \in driven /\ START \in high
  BY <1>1 DEF PadsHigh, HOST_GO, HOST_STATUS, START
<1> QED BY <1>5, <1>6

(* What is left of an array when one element is replaced.                  *)
LEMMA Replaced ==
  ASSUME NEW S, NEW f, f = [a \in S |-> f[a]], NEW x, NEW v,
         NEW g, g = [f EXCEPT ![x] = v]
  PROVE  /\ g = [a \in S |-> g[a]]
         /\ \A a \in S : g[a] = IF a = x THEN v ELSE f[a]
  OBVIOUS

(* The array stays an array, whatever is written where.                    *)
LEMMA ArrayKept ==
  ASSUME ArrayOK, MemClock
  PROVE  ArrayOK'
<1>1. CASE mem_we
  <2>1. sram' = [sram EXCEPT ![mem_addr] = mem_wdata]
    BY <1>1 DEF MemClock
  <2>2. sram' = [a \in ByteAddr |-> sram'[a]]
    BY <2>1, Replaced DEF ArrayOK
  <2> QED BY <2>2 DEF ArrayOK
<1>2. CASE ~mem_we
  <2>1. sram' = sram
    BY <1>2 DEF MemClock
  <2> QED BY <2>1 DEF ArrayOK
<1> QED BY <1>1, <1>2

(* No edge leads into S_LOAD.                                              *)
LEMMA NoWayBack ==
  ASSUME Fsm, state # S_LOAD
  PROVE  state' # S_LOAD
  BY DEF Fsm, Frozen, fsmVars, LoadStart, LoadAcked, LoadByte, LoadIdle, FetchLo,
         FetchHi, ExecuteHold, ExecuteHalt, ExecuteCommit,
         S_LOAD, S_FETCH_LO, S_FETCH_HI, S_EXECUTE

(* The FSM while it loads: START wins, and otherwise a byte is taken, or   *)
(* the acknowledge of the last one is kept or withdrawn, or nothing is     *)
(* done.                                                                   *)
LEMMA LoadFsm ==
  ASSUME LoaderOK, state = S_LOAD, Fsm
  PROVE  \/ start_rise /\ LoadStart
         \/ /\ ~start_rise /\ state' = S_LOAD /\ halted' = halted
            /\ \/ load_ack /\ (load_ack' <=> ~host_go_fall)
                           /\ UNCHANGED <<boot_addr, boot_full, uo_out_reg>>
               \/ LoadByte
               \/ /\ ~load_ack /\ ~host_go_rise /\ (load_ack' <=> load_ack)
                  /\ UNCHANGED <<boot_addr, boot_full, uo_out_reg>>
<1>1. ~halted
  BY DEF LoaderOK
<1>2. Fsm => LoadStart \/ LoadAcked \/ LoadByte \/ LoadIdle
  BY <1>1 DEF Fsm, Frozen, FetchLo, FetchHi, ExecuteHold, ExecuteHalt, ExecuteCommit,
         S_LOAD, S_FETCH_LO, S_FETCH_HI, S_EXECUTE
<1>3. CASE LoadStart
  BY <1>3 DEF LoadStart
<1>4. CASE LoadAcked
  BY <1>4 DEF LoadAcked
<1>5. CASE LoadByte
  BY <1>5 DEF LoadByte
<1>6. CASE LoadIdle
  BY <1>6 DEF LoadIdle, fsmVars, bootVars
<1> QED BY <1>2, <1>3, <1>4, <1>5, <1>6

(* The request to the pin controller: HOST_STATUS follows the acknowledge. *)
LEMMA StatusFollows ==
  ASSUME state = S_LOAD, drv \in [PinIndex -> Bit], DrivePins(pin_request)
  PROVE  /\ drv' \in [PinIndex -> Bit]
         /\ drv'[HOST_STATUS] = IF load_ack THEN 1 ELSE 0
         /\ \A p \in PinIndex \ {HOST_STATUS} : drv'[p] = drv[p]
<1>1. mode_load /\ ~exec_commit
  BY DEF mode_load, exec_commit, S_LOAD, S_EXECUTE
<1>2. /\ pin_request.set_en /\ ~pin_request.outb_en
      /\ pin_request.set_value = IF load_ack THEN 1 ELSE 0
      /\ pin_request.pin_index = HOST_STATUS
  BY <1>1 DEF pin_request, pin_index
<1>3. drv' = [drv EXCEPT ![HOST_STATUS] = IF load_ack THEN 1 ELSE 0]
  BY <1>2 DEF DrivePins
<1>4. HOST_STATUS \in PinIndex
  BY DEF HOST_STATUS, PinIndex
<1>5. (IF load_ack THEN 1 ELSE 0) \in Bit
  BY DEF Bit
<1> QED BY <1>3, <1>4, <1>5

(* The byte count and its echo after a byte has been taken; at the end of  *)
(* the memory both stay.                                                   *)
LEMMA CountsUp ==
  ASSUME LoaderOK, state = S_LOAD, LoadByte
  PROVE  /\ boot_addr' \in ByteAddr /\ boot_full' \in BOOLEAN
         /\ boot_full' => boot_addr' = MemBytes - 1
         /\ uo_out_reg' = boot_addr' % 256
         /\ ~boot_full => Taken = boot_addr /\ Taken' = boot_addr + 1
<1>1. /\ boot_addr \in ByteAddr /\ boot_full \in BOOLEAN
      /\ boot_full => boot_addr = MemBytes - 1
  BY DEF LoaderOK
<1>2. /\ boot_addr' = boot_addr_next
      /\ boot_full' = (boot_full \/ boot_addr = MemBytes - 1)
      /\ uo_out_reg' = boot_addr_next % 256
  BY DEF LoadByte
<1>3. MemBytes \in Nat /\ MemBytes >= 1
  BY WordsAssumption DEF MemBytes
<1>4. /\ boot_addr' \in ByteAddr
      /\ boot_full' => boot_addr' = MemBytes - 1
  BY <1>1, <1>2, <1>3 DEF boot_addr_next, ByteAddr
<1>5. uo_out_reg' = boot_addr' % 256
  BY <1>2
<1>6. ~boot_full => Taken = boot_addr /\ Taken' = boot_addr + 1
  <2> SUFFICES ASSUME ~boot_full PROVE Taken = boot_addr /\ Taken' = boot_addr + 1
    OBVIOUS
  <2>1. CASE boot_addr = MemBytes - 1
    <3>1. boot_full'
      BY <2>1, <1>2
    <3>2. MemBytes = boot_addr + 1 /\ boot_addr' = boot_addr
      BY <2>1, <1>2, <1>3 DEF boot_addr_next
    <3> QED BY <3>1, <3>2, <1>3 DEF Taken, MemBytes
  <2>2. CASE boot_addr # MemBytes - 1
    <3>1. boot_full' = FALSE /\ boot_addr' = boot_addr + 1
      BY <2>2, <1>2 DEF boot_addr_next
    <3> QED BY <3>1 DEF Taken
  <2> QED BY <2>1, <2>2
<1> QED BY <1>1, <1>2, <1>4, <1>5, <1>6

(* What one edge does while the chip loads and no START arrives.           *)
LEMMA BootEdge ==
  ASSUME LoaderOK, state = S_LOAD, ~start_rise, NEW ui, NEW uio, Clock(ui, uio)
  PROVE  /\ state' = S_LOAD /\ LoaderOK'
         /\ drv'[HOST_STATUS] = IF load_ack THEN 1 ELSE 0
         /\ Synchronize(ui, uio)
<1>1. Fsm /\ PinClock(ui, uio, mode_load, pin_request)
  BY DEF Clock
<1>2. /\ ~halted
      /\ boot_addr \in ByteAddr /\ boot_full \in BOOLEAN
      /\ boot_full => boot_addr = MemBytes - 1
      /\ uo_out_reg = boot_addr % 256
      /\ drv \in [PinIndex -> Bit]
      /\ \A p \in PinIndex \ {HOST_STATUS} : drv[p] = 0
  BY DEF LoaderOK
<1>3. /\ Synchronize(ui, uio)
      /\ DrivePins(pin_request)
  BY <1>1 DEF PinClock
<1>4. /\ drv' \in [PinIndex -> Bit]
      /\ drv'[HOST_STATUS] = IF load_ack THEN 1 ELSE 0
      /\ \A p \in PinIndex \ {HOST_STATUS} : drv'[p] = drv[p]
  BY <1>2, <1>3, StatusFollows
<1>5. state' = S_LOAD /\ halted' = halted
  BY <1>1, LoadFsm
<1>6. /\ boot_addr' \in ByteAddr /\ boot_full' \in BOOLEAN
      /\ boot_full' => boot_addr' = MemBytes - 1
      /\ uo_out_reg' = boot_addr' % 256
  <2>1. CASE LoadByte
    BY <2>1, CountsUp
  <2>2. CASE UNCHANGED <<boot_addr, boot_full, uo_out_reg>>
    BY <2>2, <1>2
  <2> QED BY <1>1, <2>1, <2>2, LoadFsm
<1>7. LoaderOK'
  BY <1>2, <1>4, <1>5, <1>6 DEF LoaderOK
<1> QED BY <1>3, <1>4, <1>5, <1>7

(* The memory while no byte is taken, and when one is.                     *)
LEMMA NoByte ==
  ASSUME state = S_LOAD, MemClock, load_ack \/ ~host_go_rise
  PROVE  sram' = sram
  BY DEF MemClock, mem_we, S_LOAD, S_EXECUTE

LEMMA OneByte ==
  ASSUME ArrayOK, LoaderOK, state = S_LOAD, MemClock, ~load_ack, host_go_rise, ~boot_full
  PROVE  \A a \in ByteAddr : sram'[a] = IF a = boot_addr THEN ui_in_ff2 ELSE sram[a]
<1>1. mem_we /\ mem_wdata = ui_in_ff2
  BY DEF mem_we, mem_wdata, ui_in_sync
<1>2. mem_addr = boot_addr
  BY DEF mem_addr, S_LOAD, S_FETCH_LO, S_FETCH_HI, S_EXECUTE
<1>3. sram' = [sram EXCEPT ![boot_addr] = ui_in_ff2]
  BY <1>1, <1>2 DEF MemClock
<1> QED BY <1>3, Replaced DEF ArrayOK

(* The acknowledge goes up with the byte, and down with HOST_GO.           *)
LEMMA AckEdge ==
  ASSUME LoaderOK, state = S_LOAD, ~start_rise, Fsm
  PROVE  /\ load_ack => (load_ack' <=> ~host_go_fall)
         /\ ~load_ack /\ host_go_rise => load_ack' /\ LoadByte
         /\ ~load_ack /\ ~host_go_rise => ~load_ack'
         /\ load_ack \/ ~host_go_rise => UNCHANGED <<boot_addr, boot_full>>
<1>1. LoadByte => ~load_ack /\ host_go_rise /\ load_ack'
  BY DEF LoadByte
<1>2. LoadByte \/ (load_ack /\ (load_ack' <=> ~host_go_fall)
                     /\ UNCHANGED <<boot_addr, boot_full, uo_out_reg>>)
        \/ (~load_ack /\ ~host_go_rise /\ (load_ack' <=> load_ack)
                     /\ UNCHANGED <<boot_addr, boot_full, uo_out_reg>>)
  BY LoadFsm
<1> QED BY <1>1, <1>2

(* The bytes of a prefix of the image stay in memory when the next one is *)
(* put behind them.                                                        *)
LEMMA HoldsOneMore ==
  ASSUME ArrayOK, LoaderOK, state = S_LOAD, MemClock, LoadByte,
         image \in Seq(Byte), Len(image) \in 1..MemBytes, image' = image,
         k \in 1..Len(image), k' = k, Taken = k - 1, Holds(Taken),
         ui_in_ff2 = image[k]
  PROVE  /\ Taken' = k /\ Holds(Taken)'
         /\ \A a \in ByteAddr : sram'[a] # sram[a] => a = k - 1
<1>1. /\ boot_addr \in ByteAddr /\ boot_full \in BOOLEAN
      /\ MemBytes \in Nat /\ k \in Nat /\ k >= 1 /\ k <= MemBytes
  BY WordsAssumption DEF LoaderOK, MemBytes
<1>2. ~boot_full
  <2>1. boot_full => Taken = MemBytes
    BY DEF Taken
  <2>2. Taken # MemBytes
    BY <1>1
  <2> QED BY <2>1, <2>2
<1>3. boot_addr = k - 1 /\ Taken' = k
  BY <1>1, <1>2, CountsUp DEF ByteAddr
<1>4. ~load_ack /\ host_go_rise
  BY DEF LoadByte
<1>5. \A a \in ByteAddr : sram'[a] = IF a = k - 1 THEN image[k] ELSE sram[a]
  BY <1>2, <1>3, <1>4, OneByte
<1>6. ASSUME NEW i \in 1..k PROVE sram'[i - 1] = image[i]
  <2>1. i - 1 \in ByteAddr
    BY <1>1 DEF ByteAddr
  <2>2. CASE i = k
    BY <2>1, <2>2, <1>5
  <2>3. CASE i # k
    <3>1. i \in 1..(k - 1) /\ i - 1 # k - 1
      BY <2>3, <1>1
    <3>2. sram[i - 1] = image[i]
      BY <3>1 DEF Holds
    <3> QED BY <2>1, <3>1, <3>2, <1>5
  <2> QED BY <2>2, <2>3
<1>7. Holds(Taken)'
  BY <1>3, <1>6 DEF Holds
<1> QED BY <1>3, <1>5, <1>7

-----------------------------------------------------------------------------
(* The wires, edge by edge.                                                *)
Further(n) == IF n < 4 THEN n + 1 ELSE 4

LEMMA FurtherIs ==
  ASSUME NEW n \in 0..4
  PROVE  /\ Further(n) \in 0..4
         /\ Further(n) >= 1 /\ (Further(n) >= 2 <=> n >= 1)
         /\ (Further(n) >= 3 <=> n >= 2) /\ (Further(n) >= 4 <=> n >= 3)
  BY DEF Further

(* HOST_GO up: the byte is taken on the third edge, once.                  *)
LEMMA RisingEdge ==
  ASSUME NEW n \in 0..4, Rising(n), LoaderOK, state = S_LOAD, ~start_rise,
         NEW ui, NEW uio, HOST_GO \in uio, Clock(ui, uio)
  PROVE  /\ Rising(Further(n))'
         /\ n = 2 => LoadByte
         /\ n # 2 => UNCHANGED <<boot_addr, boot_full, sram>>
<1>1. Fsm /\ MemClock
  BY DEF Clock
<1>2. /\ Synchronize(ui, uio)
      /\ drv'[HOST_STATUS] = IF load_ack THEN 1 ELSE 0
  BY BootEdge
<1>3. mode_load
  BY DEF mode_load
<1>4. /\ host_go_rise <=> n = 2
      /\ ~host_go_fall
  BY <1>3 DEF Rising, host_go_rise, host_go_fall, HostGoRise, HostGoFall
<1>5. load_ack <=> n >= 3
  BY DEF Rising
<1>6. /\ load_ack' <=> n >= 2
      /\ n = 2 => LoadByte
      /\ n # 2 => UNCHANGED <<boot_addr, boot_full>>
  <2>1. /\ n = 2 => ~(n >= 3) /\ n >= 2
        /\ n >= 3 => n >= 2
        /\ n >= 2 => n = 2 \/ n >= 3
    OBVIOUS
  <2> QED BY <2>1, <1>1, <1>4, <1>5, AckEdge, Zenon
<1>7. n # 2 => sram' = sram
  BY <1>1, <1>4, NoByte
<1>8. Rising(Further(n))'
  <2>1. /\ HOST_GO \in uio_in_ff1'
        /\ HOST_GO \in uio_in_ff2' <=> n >= 1
        /\ host_go_prev' <=> n >= 2
    BY <1>2 DEF Synchronize, Rising
  <2>2. drv'[HOST_STATUS] = IF n >= 3 THEN 1 ELSE 0
    BY <1>2, <1>5
  <2> QED BY <2>1, <2>2, <1>6, FurtherIs DEF Rising
<1> QED BY <1>6, <1>7, <1>8

(* HOST_GO down: nothing is taken, and the acknowledge is withdrawn.       *)
LEMMA FallingEdge ==
  ASSUME NEW n \in 0..4, Falling(n), LoaderOK, state = S_LOAD, ~start_rise,
         NEW ui, NEW uio, HOST_GO \notin uio, Clock(ui, uio)
  PROVE  /\ Falling(Further(n))'
         /\ UNCHANGED <<boot_addr, boot_full, sram>>
<1>1. Fsm /\ MemClock
  BY DEF Clock
<1>2. /\ Synchronize(ui, uio)
      /\ drv'[HOST_STATUS] = IF load_ack THEN 1 ELSE 0
  BY BootEdge
<1>3. mode_load
  BY DEF mode_load
<1>4. /\ host_go_fall <=> n = 2
      /\ ~host_go_rise
  BY <1>3 DEF Falling, host_go_rise, host_go_fall, HostGoRise, HostGoFall
<1>5. load_ack <=> n < 3
  BY DEF Falling
<1>6. /\ load_ack' <=> n < 2
      /\ UNCHANGED <<boot_addr, boot_full>>
  <2>1. /\ n = 2 => n < 3 /\ ~(n < 2)
        /\ n < 2 => n < 3
        /\ n < 3 => n = 2 \/ n < 2
    OBVIOUS
  <2> QED BY <2>1, <1>1, <1>4, <1>5, AckEdge, Zenon
<1>7. sram' = sram
  BY <1>1, <1>4, NoByte
<1>8. Falling(Further(n))'
  <2>1. /\ HOST_GO \notin uio_in_ff1'
        /\ HOST_GO \in uio_in_ff2' <=> n < 1
        /\ host_go_prev' <=> n < 2
    BY <1>2 DEF Synchronize, Falling
  <2>2. drv'[HOST_STATUS] = IF n < 3 THEN 1 ELSE 0
    BY <1>2, <1>5
  <2>3. /\ Further(n) \in 0..4
        /\ ~(Further(n) < 1) /\ (Further(n) < 2 <=> n < 1)
        /\ (Further(n) < 3 <=> n < 2) /\ (Further(n) < 4 <=> n < 3)
    BY DEF Further
  <2> QED BY <2>1, <2>2, <2>3, <1>6 DEF Falling
<1> QED BY <1>6, <1>7, <1>8

(* The two ends of the wire's travel.                                      *)
LEMMA WireEnds ==
  /\ Rising(4) <=> Falling(0)
  /\ Falling(4) <=> Rising(0)
  BY DEF Rising, Falling

(* The levels read by a waiting host.                                      *)
LEMMA StatusLevel ==
  Status = 1 <=> drv[HOST_STATUS] = 1
  BY DEF Status, UioOut, HOST_STATUS, HOST_GO, PinIndex

-----------------------------------------------------------------------------
(* A clock edge keeps what the host and the chip know of one another.      *)

LEMMA ImageOK ==
  ASSUME DriverOK
  PROVE  image \in Seq(Byte) /\ Len(image) \in 1..MemBytes
  BY HostAssumption DEF DriverOK, Images

LEMMA SinceStill ==
  ASSUME NEW n \in 0..4, Since(n), timer \in Nat, timer' <= timer + 1, timer' \in Nat
  PROVE  Since(Further(n))'
  BY DEF Since, Further

LEMMA TickTimer ==
  ASSUME timer \in Nat, ChipTick
  PROVE  timer' \in Nat /\ timer' <= timer + 1
  BY DEF ChipTick

LEMMA NoStartYet ==
  ASSUME Starting(0)
  PROVE  ~start_rise
  BY DEF Starting, start_rise, StartRise

LEMMA TickLoader ==
  ASSUME ArrayOK, LoaderOK, ClockEdge
  PROVE  ArrayOK' /\ LoaderOK'
<1>1. PICK ui, uio : Clock(ui, uio)
  BY DEF ClockEdge
<1>2. Fsm /\ MemClock
  BY <1>1 DEF Clock
<1>3. ArrayOK'
  BY <1>2, ArrayKept
<1>4. ASSUME state' = S_LOAD PROVE LoaderOK'
  <2>1. state = S_LOAD
    BY <1>2, <1>4, NoWayBack
  <2>2. ~LoadStart
    BY <1>4 DEF LoadStart, S_LOAD, S_FETCH_LO
  <2>3. ~start_rise
    BY <1>2, <2>1, <2>2, LoadFsm
  <2> QED BY <1>1, <2>1, <2>3, BootEdge
<1> QED BY <1>3, <1>4 DEF LoaderOK

(* An edge while bytes are streamed, whatever HOST_GO is doing.            *)
LEMMA TickStream ==
  ASSUME FeedInv, Streaming, ChipTick
  PROVE  \E uio :
           /\ Clock(ui_pin, uio)
           /\ HOST_GO \in uio <=> HOST_GO \in high
           /\ ~start_rise /\ state' = S_LOAD /\ Starting(0)'
           /\ ui_in_ff1' = ui_pin /\ ui_in_ff2' = ui_in_ff1
<1>1. state = S_LOAD /\ StartLow /\ Starting(0) /\ LoaderOK
  BY DEF FeedInv, Feeding
<1>2. driven \subseteq {HOST_GO, START} /\ HOST_GO \in driven
  BY DEF FeedInv, DriverOK, Feeding, Streaming, GoLow, GoHigh
<1>3. PICK uio :
        /\ Clock(ui_pin, uio)
        /\ HOST_GO \in uio <=> HOST_GO \in driven /\ HOST_GO \in high
        /\ START \in uio <=> START \in driven /\ START \in high
  BY <1>1, <1>2, LoadPads DEF ChipTick
<1>4. ~start_rise
  BY <1>1, NoStartYet
<1>5. state' = S_LOAD /\ Synchronize(ui_pin, uio)
  BY <1>1, <1>3, <1>4, BootEdge
<1>6. Starting(0)'
  <2>1. START \notin uio
    BY <1>1, <1>3 DEF StartLow
  <2>2. START \notin uio_in_ff1 /\ START \notin uio_in_ff2
    BY <1>1 DEF Starting
  <2>3. START \notin uio_in_ff1' /\ START \notin uio_in_ff2' /\ ~start_prev'
    BY <1>5, <2>1, <2>2 DEF Synchronize
  <2> QED BY <2>3 DEF Starting
<1>7. HOST_GO \in uio <=> HOST_GO \in high
  BY <1>2, <1>3
<1> QED BY <1>3, <1>4, <1>5, <1>6, <1>7 DEF Synchronize

(* HOST_GO is low and has been for long: nothing moves.                    *)
LEMMA TickQuiet ==
  ASSUME FeedInv, Streaming, GoLow, Falling(4), ChipTick
  PROVE  Falling(4)' /\ UNCHANGED <<boot_addr, boot_full, sram>>
<1>1. PICK uio : Clock(ui_pin, uio) /\ HOST_GO \notin uio /\ ~start_rise
  BY TickStream DEF GoLow
<1>2. Further(4) = 4
  BY DEF Further
<1>3. state = S_LOAD /\ LoaderOK
  BY DEF FeedInv, Feeding
<1>4. 4 \in 0..4
  OBVIOUS
<1>5. Falling(Further(4))' /\ UNCHANGED <<boot_addr, boot_full, sram>>
  BY <1>1, <1>3, <1>4, FallingEdge
<1> QED BY <1>2, <1>5

(* It is falling: the same, one edge further.                              *)
LEMMA TickFalls ==
  ASSUME FeedInv, Streaming, GoLow, NEW n \in 0..4, Falling(n), Since(n), ChipTick
  PROVE  Withdrawn' /\ UNCHANGED <<boot_addr, boot_full, sram>>
<1>1. PICK uio : Clock(ui_pin, uio) /\ HOST_GO \notin uio /\ ~start_rise
  BY TickStream DEF GoLow
<1>2. state = S_LOAD /\ LoaderOK /\ timer \in Nat
  BY DEF FeedInv, Feeding, DriverOK
<1>3. Falling(Further(n))' /\ UNCHANGED <<boot_addr, boot_full, sram>>
  BY <1>1, <1>2, FallingEdge
<1>4. Since(Further(n))'
  BY <1>2, SinceStill, TickTimer
<1>5. Further(n) \in 0..4
  BY FurtherIs
<1> QED BY <1>3, <1>4, <1>5 DEF Withdrawn

(* HOST_GO is high and acknowledged, and the byte is not taken again.      *)
LEMMA TickHeld ==
  ASSUME FeedInv, Streaming, GoHigh, Rising(4), ChipTick
  PROVE  Rising(4)' /\ UNCHANGED <<boot_addr, boot_full, sram>>
<1>1. PICK uio : Clock(ui_pin, uio) /\ HOST_GO \in uio /\ ~start_rise
  BY TickStream DEF GoHigh
<1>2. Further(4) = 4
  BY DEF Further
<1>3. state = S_LOAD /\ LoaderOK
  BY DEF FeedInv, Feeding
<1>4. 4 \in 0..4 /\ 4 # 2
  OBVIOUS
<1>5. Rising(Further(4))' /\ UNCHANGED <<boot_addr, boot_full, sram>>
  BY <1>1, <1>3, <1>4, RisingEdge
<1> QED BY <1>2, <1>5

(* HOST_GO is rising: on the third edge the byte lands, at its place.      *)
LEMMA TickRises ==
  ASSUME FeedInv, hpc = "ack", ChipTick
  PROVE  /\ Offered' /\ Holds(Taken)'
         /\ \A a \in ByteAddr : sram'[a] # sram[a] => a = k - 1
<1>0. Streaming
  BY DEF Streaming
<1>1. PICK n \in 0..4 :
        /\ Rising(n) /\ Since(n)
        /\ Taken = IF n < 3 THEN k - 1 ELSE k
        /\ n >= 1 => ui_in_ff1 = image[k]
        /\ n >= 2 => ui_in_ff2 = image[k]
  BY DEF FeedInv, Feeding, Offered
<1>2. /\ state = S_LOAD /\ LoaderOK /\ ArrayOK /\ timer \in Nat /\ GoHigh
      /\ ui_pin = image[k] /\ k \in 1..Len(image) /\ Holds(Taken)
  BY <1>0 DEF FeedInv, Feeding, DriverOK
<1>3. PICK uio : /\ Clock(ui_pin, uio) /\ HOST_GO \in uio /\ ~start_rise
                 /\ ui_in_ff1' = ui_pin /\ ui_in_ff2' = ui_in_ff1
  BY <1>0, <1>2, TickStream DEF GoHigh
<1>4. /\ Rising(Further(n))'
      /\ n = 2 => LoadByte
      /\ n # 2 => UNCHANGED <<boot_addr, boot_full, sram>>
  BY <1>1, <1>2, <1>3, RisingEdge
<1>5. Since(Further(n))'
  BY <1>1, <1>2, SinceStill, TickTimer
<1>6. image' = image /\ k' = k
  BY DEF ChipTick, driverVars
<1>7. image \in Seq(Byte) /\ Len(image) \in 1..MemBytes
  BY ImageOK DEF FeedInv
<1>8. /\ Taken' = (IF Further(n) < 3 THEN k - 1 ELSE k)
      /\ Holds(Taken)'
      /\ \A a \in ByteAddr : sram'[a] # sram[a] => a = k - 1
  <2>1. CASE n = 2
    <3>1. Further(n) = 3 /\ Taken = k - 1 /\ ui_in_ff2 = image[k] /\ LoadByte
      BY <2>1, <1>1, <1>4 DEF Further
    <3>2. MemClock
      BY <1>3 DEF Clock
    <3>3. /\ Taken' = k /\ Holds(Taken)'
          /\ \A a \in ByteAddr : sram'[a] # sram[a] => a = k - 1
      BY <3>1, <3>2, <1>2, <1>6, <1>7, HoldsOneMore
    <3> QED BY <3>1, <3>3
  <2>2. CASE n # 2
    <3>1. UNCHANGED <<boot_addr, boot_full, sram>>
      BY <2>2, <1>4
    <3>2. Taken' = Taken
      BY <3>1 DEF Taken
    <3>3. Holds(Taken)'
      BY <3>1, <3>2, <1>2, <1>6 DEF Holds
    <3>4. Further(n) < 3 <=> n < 3
      BY <2>2 DEF Further
    <3> QED BY <3>1, <3>2, <3>3, <3>4, <1>1
  <2> QED BY <2>1, <2>2
<1>9. /\ (Further(n) >= 1 => ui_in_ff1' = image[k])
      /\ (Further(n) >= 2 => ui_in_ff2' = image[k])
  BY <1>1, <1>2, <1>3, FurtherIs
<1>10. Further(n) \in 0..4
  BY FurtherIs
<1>11. Offered'
  BY <1>4, <1>5, <1>6, <1>8, <1>9, <1>10 DEF Offered
<1> QED BY <1>8, <1>11

(* The whole edge.                                                         *)
LEMMA TickFeeds ==
  ASSUME FeedInv, ChipTick, session' = session
  PROVE  FeedInv'
<1>1. ArrayOK' /\ LoaderOK'
  BY TickLoader DEF FeedInv, ChipTick
<1>2. /\ hpc' = hpc /\ image' = image /\ k' = k /\ ui_pin' = ui_pin
      /\ driven' = driven /\ high' = high
  BY DEF ChipTick, driverVars, hostPins
<1>3. DriverOK'
  <2>1. DriverOK /\ timer' \in Nat
    BY TickTimer DEF FeedInv, DriverOK
  <2> QED BY <2>1, <1>2 DEF DriverOK, GoLow, StartLow, Images
<1>4. Feeding'
  <2>1. (GoLow' <=> GoLow) /\ (GoHigh' <=> GoHigh) /\ (StartLow' <=> StartLow)
    BY <1>2 DEF GoLow, GoHigh, StartLow
  <2>2. CASE ~Streaming
    BY <2>2, <1>2 DEF Feeding, Streaming
  <2>3. ASSUME Streaming
        PROVE  /\ state' = S_LOAD /\ StartLow' /\ Starting(0)'
               /\ k' \in 1..Len(image') /\ (ui_pin' = image'[k'] <=> ui_pin = image[k])
    BY <2>3, <2>1, <1>2, TickStream DEF FeedInv, Feeding
  <2>4. ASSUME UNCHANGED <<boot_addr, boot_full, sram>>
        PROVE  Taken' = Taken /\ (Holds(Taken)' <=> Holds(Taken))
    <3>1. Taken' = Taken
      BY <2>4 DEF Taken
    <3> QED BY <2>4, <3>1, <1>2 DEF Holds
  <2>5. CASE hpc \in {"set_ui", "go"}
    <3>1. Streaming /\ GoLow /\ Falling(4) /\ Taken = k - 1 /\ Holds(Taken)
      BY <2>5, WireEnds DEF FeedInv, Feeding, Streaming
    <3>2. Falling(4)' /\ UNCHANGED <<boot_addr, boot_full, sram>>
      BY <3>1, TickQuiet
    <3>3. Rising(0)'
      BY <3>2, WireEnds DEF Rising, Falling
    <3> QED BY <3>1, <3>2, <3>3, <2>1, <2>3, <2>4, <2>5, <1>2 DEF FeedInv, Feeding, Streaming
  <2>6. CASE hpc = "ack"
    <3>1. Streaming /\ GoHigh /\ ui_pin = image[k]
      BY <2>6 DEF FeedInv, Feeding, Streaming
    <3>2. Offered' /\ Holds(Taken)'
      BY <2>6, TickRises
    <3> QED BY <3>1, <3>2, <2>1, <2>3, <2>6, <1>2 DEF Feeding
  <2>7. CASE hpc \in {"echo", "ungo"}
    <3>1. Streaming /\ GoHigh /\ Rising(4) /\ Taken = k /\ Holds(Taken)
      BY <2>7 DEF FeedInv, Feeding, Streaming
    <3>2. Rising(4)' /\ UNCHANGED <<boot_addr, boot_full, sram>>
      BY <3>1, TickHeld
    <3> QED BY <3>1, <3>2, <2>1, <2>3, <2>4, <2>7, <1>2 DEF Feeding
  <2>8. CASE hpc = "clear"
    <3>1. Streaming /\ GoLow /\ Withdrawn /\ Taken = k /\ Holds(Taken)
      BY <2>8 DEF FeedInv, Feeding, Streaming
    <3>2. Withdrawn' /\ UNCHANGED <<boot_addr, boot_full, sram>>
      BY <3>1, TickFalls DEF Withdrawn
    <3> QED BY <3>1, <3>2, <2>1, <2>3, <2>4, <2>8, <1>2 DEF Feeding
  <2> QED BY <2>2, <2>5, <2>6, <2>7, <2>8 DEF Streaming
<1> QED BY <1>1, <1>3, <1>4 DEF FeedInv

-----------------------------------------------------------------------------
(* A step of the host keeps it too.  Only reset touches the chip.          *)

LEMMA ChipStill ==
  ASSUME UNCHANGED vars, FeedInv
  PROVE  /\ UNCHANGED <<state, halted, boot_addr, boot_full, load_ack, uo_out_reg, sram>>
         /\ UNCHANGED <<drv, host_go_prev, start_prev, uio_in_ff1, uio_in_ff2,
                        ui_in_ff1, ui_in_ff2>>
         /\ Taken' = Taken /\ ArrayOK' /\ LoaderOK'
         /\ \A n \in 0..4 : /\ Rising(n) => Rising(n)'
                            /\ Falling(n) => Falling(n)'
                            /\ Starting(n) => Starting(n)'
<1>1. UNCHANGED <<state, halted, boot_addr, boot_full, load_ack, uo_out_reg, sram>>
  BY DEF vars, fsmVars, bootVars
<1>2. UNCHANGED <<drv, host_go_prev, start_prev, uio_in_ff1, uio_in_ff2,
                  ui_in_ff1, ui_in_ff2>>
  BY DEF vars, pinVars, syncVars
<1>3. Taken' = Taken
  BY <1>1 DEF Taken
<1>4. ArrayOK' /\ LoaderOK'
  BY <1>1, <1>2 DEF FeedInv, ArrayOK, LoaderOK
<1>5. ASSUME NEW n \in 0..4
      PROVE  /\ Rising(n) => Rising(n)'
             /\ Falling(n) => Falling(n)'
             /\ Starting(n) => Starting(n)'
  BY <1>1, <1>2 DEF Rising, Falling, Starting
<1> QED BY <1>1, <1>2, <1>3, <1>4, <1>5

(* A step to a place where nothing is promised of the wires.               *)
LEMMA Elsewhere ==
  ASSUME FeedInv, UNCHANGED vars, session' = session, image' \in Images,
         driven' \subseteq {HOST_GO, START}, timer' \in Nat,
         ~Streaming', hpc' \notin {"start_low", "reset"}
  PROVE  FeedInv'
<1>1. ArrayOK' /\ LoaderOK'
  BY ChipStill
<1>2. DriverOK'
  BY DEF FeedInv, DriverOK, Images
<1>3. Feeding'
  BY DEF Feeding, Streaming
<1> QED BY <1>1, <1>2, <1>3 DEF FeedInv

(* The next byte, or the next operation on the same one.                   *)
LEMMA Onward ==
  ASSUME FeedInv, Streaming, UNCHANGED vars, session' = session, image' = image,
         driven' = driven, timer' = 0, START \in high' <=> START \in high
  PROVE  /\ ArrayOK' /\ LoaderOK' /\ StartLow'
         /\ Streaming' => DriverOK'
         /\ state' = S_LOAD /\ Starting(0)' /\ Holds(Taken)'
<1>1. state = S_LOAD /\ Starting(0) /\ Holds(Taken) /\ StartLow /\ DriverOK
  BY DEF FeedInv, Feeding
<1>2. /\ ArrayOK' /\ LoaderOK' /\ state' = state /\ sram' = sram /\ Taken' = Taken
      /\ Starting(0)'
  BY <1>1, ChipStill
<1>3. StartLow'
  BY <1>1 DEF StartLow
<1>4. Streaming' => DriverOK'
  BY <1>1 DEF DriverOK, Images, Streaming
<1>5. Holds(Taken)'
  BY <1>1, <1>2 DEF Holds
<1> QED BY <1>1, <1>2, <1>3, <1>4, <1>5

LEMMA PinsFeed ==
  ASSUME FeedInv, LoadPins, session' = session
  PROVE  FeedInv'
<1>1. driven \subseteq {HOST_GO, START} /\ image \in Images /\ timer \in Nat
  BY DEF FeedInv, DriverOK
<1>2. CASE release_uio("release", START, "go_low")
  <2>1. /\ hpc' = "go_low" /\ UNCHANGED vars /\ timer' = 0 /\ image' = image
        /\ driven' \subseteq {HOST_GO, START}
    BY <1>1, <1>2 DEF release_uio, Goto, driverVars
  <2> QED BY <2>1, <1>1, Elsewhere DEF Streaming
<1>3. CASE set_uio("go_low", HOST_GO, 0, "start_low")
  <2>1. /\ UNCHANGED vars /\ timer' \in Nat /\ image' = image
        /\ driven' \subseteq {HOST_GO, START}
    BY <1>1, <1>3 DEF set_uio, Goto, driverVars
  <2>2. CASE hpc' = "go_low"
    BY <2>1, <2>2, <1>1, Elsewhere DEF Streaming
  <2>3. CASE hpc' # "go_low"
    <3>1. hpc' = "start_low" /\ GoLow'
      BY <1>3, <2>3 DEF set_uio, Goto, GoLow
    <3>2. DriverOK'
      BY <2>1, <3>1, <1>1 DEF FeedInv, DriverOK, Images
    <3>3. Feeding'
      BY <3>1 DEF Feeding, Streaming
    <3> QED BY <2>1, <3>2, <3>3, ChipStill DEF FeedInv
  <2> QED BY <2>2, <2>3
<1>4. CASE set_uio("start_low", START, 0, "reset")
  <2>1. /\ UNCHANGED vars /\ timer' \in Nat /\ image' = image
        /\ driven' \subseteq {HOST_GO, START}
    BY <1>1, <1>4 DEF set_uio, Goto, driverVars
  <2>2. GoLow
    BY <1>4 DEF set_uio, FeedInv, DriverOK
  <2>3. GoLow' /\ (hpc' = "reset" => StartLow') /\ hpc' \in {"start_low", "reset"}
    BY <1>4, <2>2 DEF set_uio, Goto, GoLow, StartLow, HOST_GO, START
  <2>4. DriverOK'
    BY <2>1, <2>3, <1>1 DEF FeedInv, DriverOK, Images
  <2>5. Feeding'
    BY <2>3 DEF Feeding, Streaming
  <2> QED BY <2>1, <2>4, <2>5, ChipStill DEF FeedInv
<1> QED BY <1>2, <1>3, <1>4 DEF LoadPins

(* Reset begins the first byte, whatever was going on before.              *)
LEMMA ResetFeeds ==
  ASSUME FeedInv, LoadReset, session' = session
  PROVE  FeedInv'
<1>1. /\ hpc = "reset" /\ hpc' = "set_ui" /\ timer' = 0 /\ k' = 1
      /\ Reset /\ image' = image /\ driven' = driven /\ high' = high
  BY DEF LoadReset, hostPins
<1>2. DriverOK /\ ArrayOK
  BY DEF FeedInv
<1>3. GoLow /\ StartLow
  BY <1>1, <1>2 DEF DriverOK
<1>4. GoLow' /\ StartLow'
  BY <1>1, <1>3 DEF GoLow, StartLow
<1>5. DriverOK'
  BY <1>1, <1>2 DEF DriverOK, Images
<1>6. ArrayOK'
  BY <1>1, <1>2 DEF Reset, ArrayOK
<1>7. /\ state' = S_LOAD /\ ~halted' /\ boot_addr' = 0 /\ ~boot_full'
      /\ boot_full' \in BOOLEAN /\ ~load_ack' /\ uo_out_reg' = 0
      /\ drv' = [p \in PinIndex |-> 0]
      /\ uio_in_ff1' = {} /\ uio_in_ff2' = {} /\ ~start_prev' /\ ~host_go_prev'
  BY <1>1 DEF Reset, PinReset
<1>8. LoaderOK'
  <2>1. drv' \in [PinIndex -> Bit] /\ \A p \in PinIndex : drv'[p] = 0
    BY <1>7 DEF Bit
  <2>2. 0 % 256 = 0 /\ 0 \in ByteAddr
    BY WordsAssumption DEF ByteAddr, MemBytes
  <2> QED BY <1>7, <2>1, <2>2 DEF LoaderOK
<1>9. Rising(0)' /\ Starting(0)'
  BY <1>7 DEF Rising, Starting, HOST_STATUS, PinIndex
<1>10. Taken' = 0
  BY <1>7 DEF Taken
<1>11. Holds(Taken)'
  BY <1>10 DEF Holds
<1>12. k' \in 1..Len(image') /\ Taken' = k' - 1
  BY <1>1, <1>2, <1>10, ImageOK
<1>13. Feeding'
  BY <1>1, <1>4, <1>7, <1>9, <1>11, <1>12 DEF Feeding, Streaming
<1> QED BY <1>5, <1>6, <1>8, <1>13 DEF FeedInv

LEMMA DataFeeds ==
  ASSUME FeedInv, LoadData, session' = session
  PROVE  FeedInv'
<1>1. CASE hpc = "set_ui"
  <2>1. /\ hpc' = "go" /\ UNCHANGED vars /\ timer' = 0 /\ image' = image /\ k' = k
        /\ driven' = driven /\ high' = high /\ ui_pin' = image[k]
    BY <1>1 DEF LoadData, set_ui, set_uio, Goto, driverVars
  <2>2. Streaming /\ Streaming'
    BY <1>1, <2>1 DEF Streaming
  <2>3. /\ ArrayOK' /\ LoaderOK' /\ StartLow' /\ DriverOK'
        /\ state' = S_LOAD /\ Starting(0)' /\ Holds(Taken)'
    BY <2>1, <2>2, Onward
  <2>4. GoLow /\ Rising(0) /\ Taken = k - 1 /\ k \in 1..Len(image)
    BY <1>1, <2>2 DEF FeedInv, Feeding
  <2>5. GoLow' /\ Rising(0)' /\ Taken' = k' - 1
    BY <2>1, <2>4, ChipStill DEF GoLow
  <2>6. Feeding'
    BY <2>1, <2>3, <2>4, <2>5 DEF Feeding
  <2> QED BY <2>3, <2>6 DEF FeedInv
<1>2. CASE hpc = "go"
  <2>0. GoLow /\ Rising(0) /\ Taken = k - 1 /\ ui_pin = image[k] /\ Streaming
        /\ k \in 1..Len(image)
    BY <1>2 DEF FeedInv, Feeding, Streaming
  <2>1. /\ hpc' = "ack" /\ UNCHANGED vars /\ timer' = 0 /\ image' = image /\ k' = k
        /\ driven' = driven /\ high' = high \cup {HOST_GO} /\ ui_pin' = ui_pin
    BY <1>2, <2>0 DEF LoadData, set_ui, set_uio, Goto, driverVars, GoLow
  <2>2. Streaming' /\ (START \in high' <=> START \in high)
    BY <2>1 DEF Streaming, HOST_GO, START
  <2>3. /\ ArrayOK' /\ LoaderOK' /\ StartLow' /\ DriverOK'
        /\ state' = S_LOAD /\ Starting(0)' /\ Holds(Taken)'
    BY <2>0, <2>1, <2>2, Onward
  <2>4. GoHigh'
    BY <2>0, <2>1 DEF GoLow, GoHigh
  <2>5. Rising(0)' /\ Taken' = k' - 1 /\ Since(0)'
    BY <2>0, <2>1, ChipStill DEF Since
  <2>6. Offered'
    BY <2>5 DEF Offered
  <2>7. Feeding'
    BY <2>0, <2>1, <2>3, <2>4, <2>6 DEF Feeding
  <2> QED BY <2>3, <2>7 DEF FeedInv
<1> QED BY <1>1, <1>2 DEF LoadData, set_uio

(* HOST_STATUS is up: the byte has been taken.                             *)
LEMMA AckFeeds ==
  ASSUME FeedInv, WaitStatus("ack", 1, "echo"), session' = session
  PROVE  FeedInv'
<1>1. /\ hpc = "ack" /\ hpc' = "echo" /\ UNCHANGED vars /\ timer' = 0
      /\ image' = image /\ k' = k /\ driven' = driven /\ high' = high /\ Status = 1
  BY DEF WaitStatus, Goto, driverVars, hostPins
<1>2. Streaming /\ Streaming'
  BY <1>1 DEF Streaming
<1>3. /\ ArrayOK' /\ LoaderOK' /\ StartLow' /\ DriverOK'
      /\ state' = S_LOAD /\ Starting(0)' /\ Holds(Taken)'
  BY <1>1, <1>2, Onward
<1>4. GoHigh /\ k \in 1..Len(image)
  BY <1>1, <1>2 DEF FeedInv, Feeding
<1>5. PICK n \in 0..4 : Rising(n) /\ Taken = IF n < 3 THEN k - 1 ELSE k
  BY <1>1 DEF FeedInv, Feeding, Offered
<1>6. n = 4
  <2>1. drv[HOST_STATUS] = 1
    BY <1>1, StatusLevel
  <2>2. n >= 4
    BY <2>1, <1>5 DEF Rising
  <2> QED BY <2>2
<1>7. Rising(4)' /\ Taken' = k'
  BY <1>1, <1>5, <1>6, ChipStill
<1>8. GoHigh'
  BY <1>1, <1>4 DEF GoHigh
<1>9. Feeding'
  BY <1>1, <1>3, <1>4, <1>7, <1>8 DEF Feeding
<1> QED BY <1>3, <1>9 DEF FeedInv

LEMMA EchoFeeds ==
  ASSUME FeedInv, LoadEcho, session' = session
  PROVE  FeedInv'
<1>1. /\ hpc = "echo" /\ hpc' \in {"ungo", "error"} /\ UNCHANGED vars /\ timer' = 0
      /\ image' = image /\ k' = k /\ driven' = driven /\ high' = high
  BY DEF LoadEcho, Goto, driverVars, hostPins
<1>2. CASE hpc' = "error"
  <2>1. image' \in Images /\ driven' \subseteq {HOST_GO, START}
    BY <1>1 DEF FeedInv, DriverOK
  <2> QED BY <1>1, <1>2, <2>1, Elsewhere DEF Streaming
<1>3. CASE hpc' = "ungo"
  <2>1. Streaming /\ Streaming'
    BY <1>1, <1>3 DEF Streaming
  <2>2. /\ ArrayOK' /\ LoaderOK' /\ StartLow' /\ DriverOK'
        /\ state' = S_LOAD /\ Starting(0)' /\ Holds(Taken)'
    BY <1>1, <2>1, Onward
  <2>3. GoHigh /\ Rising(4) /\ Taken = k /\ k \in 1..Len(image)
    BY <1>1, <2>1 DEF FeedInv, Feeding
  <2>4. GoHigh' /\ Rising(4)' /\ Taken' = k'
    BY <1>1, <2>3, ChipStill DEF GoHigh
  <2>5. Feeding'
    BY <1>1, <1>3, <2>2, <2>3, <2>4 DEF Feeding
  <2> QED BY <2>2, <2>5 DEF FeedInv
<1> QED BY <1>1, <1>2, <1>3

LEMMA UngoFeeds ==
  ASSUME FeedInv, LoadUngo, session' = session
  PROVE  FeedInv'
<1>1. hpc = "ungo"
  BY DEF LoadUngo, set_uio
<1>2. GoHigh /\ Rising(4) /\ Taken = k /\ k \in 1..Len(image) /\ Streaming
  BY <1>1 DEF FeedInv, Feeding, Streaming
<1>3. /\ hpc' = "clear" /\ UNCHANGED vars /\ timer' = 0 /\ image' = image /\ k' = k
      /\ driven' = driven /\ high' = high \ {HOST_GO}
  BY <1>2 DEF LoadUngo, set_uio, Goto, driverVars, GoHigh
<1>4. Streaming' /\ (START \in high' <=> START \in high)
  BY <1>3 DEF Streaming, HOST_GO, START
<1>5. /\ ArrayOK' /\ LoaderOK' /\ StartLow' /\ DriverOK'
      /\ state' = S_LOAD /\ Starting(0)' /\ Holds(Taken)'
  BY <1>2, <1>3, <1>4, Onward
<1>6. GoLow' /\ Taken' = k'
  BY <1>2, <1>3, ChipStill DEF GoHigh, GoLow
<1>7. Falling(0)' /\ Since(0)'
  BY <1>2, <1>3, WireEnds, ChipStill DEF Since
<1>8. Withdrawn'
  BY <1>7 DEF Withdrawn
<1>9. Feeding'
  BY <1>2, <1>3, <1>5, <1>6, <1>8 DEF Feeding
<1> QED BY <1>5, <1>9 DEF FeedInv

(* HOST_STATUS is down: the wire is quiet again.                           *)
LEMMA ClearIsQuiet ==
  ASSUME FeedInv, hpc = "clear", Status = 0
  PROVE  Falling(4) /\ Rising(0) /\ GoLow /\ Taken = k
<1>1. PICK n \in 0..4 : Falling(n)
  BY DEF FeedInv, Feeding, Withdrawn
<1>2. n = 4
  <2>1. drv[HOST_STATUS] # 1
    BY StatusLevel
  <2> QED BY <2>1, <1>1 DEF Falling
<1> QED BY <1>1, <1>2, WireEnds DEF FeedInv, Feeding

LEMMA NextFeeds ==
  ASSUME FeedInv, LoadNext, session' = session
  PROVE  FeedInv'
<1>1. /\ hpc = "clear" /\ UNCHANGED vars /\ timer' = 0 /\ image' = image
      /\ driven' = driven /\ high' = high /\ Status = 0
  BY DEF LoadNext, Goto, hostPins
<1>2. CASE k < Len(image)
  <2>1. hpc' = "set_ui" /\ k' = k + 1
    BY <1>2 DEF LoadNext, Goto
  <2>2. Streaming /\ Streaming'
    BY <1>1, <2>1 DEF Streaming
  <2>3. /\ ArrayOK' /\ LoaderOK' /\ StartLow' /\ DriverOK'
        /\ state' = S_LOAD /\ Starting(0)' /\ Holds(Taken)'
    BY <1>1, <2>2, Onward
  <2>4. Rising(0) /\ GoLow /\ Taken = k
    BY <1>1, ClearIsQuiet
  <2>5. k \in 1..Len(image) /\ Len(image) \in Nat
    BY <2>2, ImageOK DEF FeedInv, Feeding
  <2>6. k' \in 1..Len(image') /\ Taken' = k' - 1
    BY <1>1, <1>2, <2>1, <2>4, <2>5, ChipStill
  <2>7. GoLow' /\ Rising(0)'
    BY <1>1, <2>4, ChipStill DEF GoLow
  <2>8. Feeding'
    BY <2>1, <2>3, <2>6, <2>7 DEF Feeding
  <2> QED BY <2>3, <2>8 DEF FeedInv
<1>3. CASE ~(k < Len(image))
  <2>1. hpc' = "start"
    BY <1>3 DEF LoadNext, Goto
  <2>2. image' \in Images /\ driven' \subseteq {HOST_GO, START}
    BY <1>1 DEF FeedInv, DriverOK
  <2> QED BY <1>1, <2>1, <2>2, Elsewhere DEF Streaming
<1> QED BY <1>2, <1>3

(* Everything else happens while no byte is on its way.                    *)
LEMMA RestFeeds ==
  ASSUME FeedInv, session' = session,
         \/ Hold("hold1", "unstart") \/ Hold("hold2", "free") \/ LoadPulse
         \/ Call
         \/ SendPins \/ WaitStatus("send_ack", 1, "send_ungo") \/ SendReturn
         \/ RecvPins \/ WaitStatus("recv_ack", 1, "recv_uo") \/ RecvByte
         \/ WaitStatus("recv_clear", 0, "idle")
         \/ GiveUp \/ Interrupt
  PROVE  FeedInv'
<1>1. driven \subseteq {HOST_GO, START} /\ image \in Images /\ timer \in Nat
  BY DEF FeedInv, DriverOK
<1>2. ASSUME NEW at, NEW p \in {HOST_GO, START}, NEW level, NEW next,
             set_uio(at, p, level, next)
      PROVE  /\ UNCHANGED vars /\ timer' \in Nat /\ image' = image
             /\ driven' \subseteq {HOST_GO, START} /\ hpc' \in {at, next}
  BY <1>1, <1>2 DEF set_uio, Goto, driverVars
<1>3. UNCHANGED vars /\ timer' \in Nat /\ image' \in Images
      /\ driven' \subseteq {HOST_GO, START}
  <2>1. CASE LoadPulse
    <3>1. CASE release_uio("free", START, "idle")
      BY <3>1, <1>1 DEF release_uio, Goto, driverVars
    <3> QED BY <2>1, <3>1, <1>1, <1>2 DEF LoadPulse
  <2>2. CASE SendPins
    <3>1. CASE set_ui("send_ui", byte, "send_go")
      BY <3>1, <1>1 DEF set_ui, Goto, driverVars
    <3> QED BY <2>2, <3>1, <1>1, <1>2 DEF SendPins
  <2>3. CASE RecvPins
    BY <2>3, <1>1, <1>2 DEF RecvPins
  <2>4. CASE Call
    BY <2>4, <1>1 DEF Call, hostPins
  <2>5. CASE Interrupt
    BY <2>5, <1>1 DEF Interrupt, hostPins
  <2>6. CASE Hold("hold1", "unstart") \/ Hold("hold2", "free")
    BY <2>6, <1>1 DEF Hold, Goto, driverVars, hostPins
  <2>7. CASE \/ WaitStatus("send_ack", 1, "send_ungo")
             \/ WaitStatus("recv_ack", 1, "recv_uo")
             \/ WaitStatus("recv_clear", 0, "idle")
    BY <2>7, <1>1 DEF WaitStatus, Goto, driverVars, hostPins
  <2>8. CASE SendReturn \/ RecvByte
    BY <2>8, <1>1 DEF SendReturn, RecvByte, Goto, hostPins
  <2>9. CASE GiveUp
    BY <2>9, <1>1 DEF GiveUp, TimeoutStatus, Goto, driverVars, hostPins
  <2> QED BY <2>1, <2>2, <2>3, <2>4, <2>5, <2>6, <2>7, <2>8, <2>9
<1>4. hpc' \in {"release", "hold1", "unstart", "hold2", "free", "idle", "error",
                "start", "send_ui", "send_go", "send_ack", "send_ungo", "send_clear",
                "recv_go", "recv_ack", "recv_uo", "recv_ungo", "recv_clear"}
  <2>1. CASE LoadPulse
    BY <2>1, <1>2 DEF LoadPulse, release_uio, Goto
  <2>2. CASE SendPins
    BY <2>2, <1>2 DEF SendPins, set_ui, Goto
  <2>3. CASE RecvPins
    BY <2>3, <1>2 DEF RecvPins
  <2>4. CASE Call \/ Interrupt
    BY <2>4 DEF Call, Interrupt
  <2>5. CASE Hold("hold1", "unstart") \/ Hold("hold2", "free")
    BY <2>5 DEF Hold, Goto
  <2>6. CASE \/ WaitStatus("send_ack", 1, "send_ungo")
             \/ WaitStatus("recv_ack", 1, "recv_uo")
             \/ WaitStatus("recv_clear", 0, "idle")
    BY <2>6 DEF WaitStatus, Goto
  <2>7. CASE SendReturn \/ RecvByte
    BY <2>7 DEF SendReturn, RecvByte, Goto
  <2>8. CASE GiveUp
    BY <2>8 DEF GiveUp, TimeoutStatus, Goto
  <2> QED BY <2>1, <2>2, <2>3, <2>4, <2>5, <2>6, <2>7, <2>8
<1>5. ~Streaming' /\ hpc' \notin {"start_low", "reset"}
  BY <1>4 DEF Streaming
<1> QED BY <1>3, <1>5, Elsewhere

LEMMA FeedNext ==
  ASSUME FeedInv, [HNext]_allVars
  PROVE  FeedInv'
<1>1. CASE HNext
  <2>1. session' = session
    BY <1>1 DEF HNext
  <2>2. CASE ChipTick
    BY <2>1, <2>2, TickFeeds
  <2>3. CASE HostStep
    BY <2>1, <2>3, PinsFeed, ResetFeeds, DataFeeds, AckFeeds, EchoFeeds, UngoFeeds,
       NextFeeds, RestFeeds DEF HostStep
  <2>4. CASE GiveUp \/ Interrupt
    BY <2>1, <2>4, RestFeeds
  <2> QED BY <1>1, <2>2, <2>3, <2>4 DEF HNext
<1>2. CASE UNCHANGED allVars
  <2>1. /\ UNCHANGED vars /\ session' = session /\ hpc' = hpc /\ timer' = timer
        /\ image' = image /\ k' = k
        /\ ui_pin' = ui_pin /\ driven' = driven /\ high' = high
    BY <1>2 DEF allVars, hostVars, driverVars, hostPins
  <2>2. /\ UNCHANGED <<state, halted, boot_addr, boot_full, load_ack, uo_out_reg, sram>>
        /\ UNCHANGED <<drv, host_go_prev, start_prev, uio_in_ff1, uio_in_ff2,
                       ui_in_ff1, ui_in_ff2>>
        /\ ArrayOK' /\ LoaderOK' /\ Taken' = Taken
    BY <2>1, ChipStill
  <2>3. DriverOK'
    BY <2>1 DEF FeedInv, DriverOK, Images, GoLow, StartLow
  <2>4. /\ (Streaming' <=> Streaming) /\ (Holds(Taken)' <=> Holds(Taken))
        /\ (GoLow' <=> GoLow) /\ (GoHigh' <=> GoHigh) /\ (StartLow' <=> StartLow)
    BY <2>1, <2>2 DEF Streaming, Holds, GoLow, GoHigh, StartLow
  <2>5. /\ Rising(0) => Rising(0)'
        /\ Rising(4) => Rising(4)'
        /\ Starting(0) => Starting(0)'
    BY <2>1, ChipStill
  <2>6. Offered => Offered'
    BY <2>1, <2>2, ChipStill DEF Offered, Since
  <2>7. Withdrawn => Withdrawn'
    BY <2>1, <2>2, ChipStill DEF Withdrawn, Since
  <2>8. Feeding'
    BY <2>1, <2>2, <2>4, <2>5, <2>6, <2>7 DEF FeedInv, Feeding
  <2> QED BY <2>2, <2>3, <2>8 DEF FeedInv
<1> QED BY <1>1, <1>2

LEMMA FeedInit ==
  ASSUME Init, HostInit
  PROVE  FeedInv
<1>1. /\ state = S_LOAD /\ ~halted /\ boot_addr = 0 /\ boot_full = FALSE
      /\ uo_out_reg = 0 /\ drv = [p \in PinIndex |-> 0] /\ sram \in SramImages
  BY DEF Init, PinInit
<1>2. ArrayOK
  BY <1>1, SramAssumption DEF ArrayOK
<1>3. LoaderOK
  <2>1. drv \in [PinIndex -> Bit] /\ \A p \in PinIndex : drv[p] = 0
    BY <1>1 DEF Bit
  <2>2. 0 % 256 = 0 /\ 0 \in ByteAddr
    BY WordsAssumption DEF ByteAddr, MemBytes
  <2> QED BY <1>1, <2>1, <2>2 DEF LoaderOK
<1>4. DriverOK /\ Feeding
  BY DEF HostInit, DriverOK, Feeding, Streaming
<1> QED BY <1>2, <1>3, <1>4 DEF FeedInv

LEMMA FeedInvariant == HSpec => []FeedInv
  BY FeedInit, FeedNext, PTL DEF HSpec

(* For every image and any relative speed of host and chip, the two never  *)
(* disagree on the byte count by more than the byte in flight, and what    *)
(* has been counted is in memory.                                          *)
THEOREM BootsInStep == HSpec => []BootInStep
<1>1. FeedInv => BootInStep
  <2> SUFFICES ASSUME FeedInv, Streaming
               PROVE  state = S_LOAD /\ Taken \in {k - 1, k} /\ Holds(Taken)
    BY DEF BootInStep
  <2>1. state = S_LOAD /\ Holds(Taken)
    BY DEF FeedInv, Feeding
  <2>2. Taken \in {k - 1, k}
    BY DEF FeedInv, Feeding, Streaming, Offered
  <2> QED BY <2>1, <2>2
<1> QED BY <1>1, FeedInvariant, PTL

(* A host that has seen HOST_STATUS rise reads the echo of the byte it     *)
(* sent, which is in memory.                                               *)
THEOREM AcksCommit == HSpec => []AckIsCommit
<1>1. FeedInv => AckIsCommit
  <2> SUFFICES ASSUME FeedInv, hpc \in {"echo", "ungo"}
               PROVE  Taken = k /\ Holds(k) /\ uo_out_reg = boot_addr % 256
    BY DEF AckIsCommit
  <2>1. Streaming
    BY DEF Streaming
  <2>2. Taken = k /\ Holds(Taken) /\ state = S_LOAD
    BY <2>1 DEF FeedInv, Feeding
  <2> QED BY <2>2 DEF FeedInv, LoaderOK
<1> QED BY <1>1, FeedInvariant, PTL

-----------------------------------------------------------------------------
(* From the last byte to the first instruction.                            *)

(* Nothing happens to the image while START makes its way to the FSM.      *)
LEMMA StartWay ==
  ASSUME FeedInv, state = S_LOAD, GoLow, Ready, NEW n \in 0..1, Starting(n), ChipTick
  PROVE  /\ state' = S_LOAD /\ Ready' /\ sram' = sram
         /\ StartLow /\ n = 0 => Starting(0)'
         /\ StartHigh => Starting(n + 1)'
<1>1. LoaderOK /\ driven \subseteq {HOST_GO, START}
  BY DEF FeedInv, DriverOK
<1>2. PICK uio :
        /\ Clock(ui_pin, uio)
        /\ HOST_GO \in uio <=> HOST_GO \in driven /\ HOST_GO \in high
        /\ START \in uio <=> START \in driven /\ START \in high
  BY <1>1, LoadPads DEF ChipTick
<1>3. START \notin uio_in_ff2 /\ ~start_prev
  BY DEF Starting
<1>4. ~start_rise
  BY <1>3 DEF start_rise, StartRise
<1>5. state' = S_LOAD /\ Synchronize(ui_pin, uio)
  BY <1>1, <1>2, <1>4, BootEdge
<1>6. 4 \in 0..4 /\ Further(4) = 4
  BY DEF Further
<1>7. Falling(4)' /\ UNCHANGED <<boot_addr, boot_full, sram>>
  <2>1. Falling(4) /\ HOST_GO \notin uio
    BY <1>2, WireEnds DEF Ready, GoLow
  <2>2. Falling(Further(4))' /\ UNCHANGED <<boot_addr, boot_full, sram>>
    BY <2>1, <1>1, <1>2, <1>4, <1>6, FallingEdge
  <2> QED BY <2>2, <1>6
<1>8. Ready'
  <2>1. Rising(0)'
    BY <1>7 DEF Rising, Falling
  <2>2. Taken' = Taken
    BY <1>7 DEF Taken
  <2>3. image' = image
    BY DEF ChipTick, driverVars
  <2> QED BY <1>7, <2>1, <2>2, <2>3 DEF Ready, Holds
<1>9. /\ START \in uio_in_ff1' <=> START \in uio
      /\ START \in uio_in_ff2' <=> n >= 1
      /\ ~start_prev'
  BY <1>3, <1>5 DEF Synchronize, Starting
<1>10. StartLow /\ n = 0 => Starting(0)'
  <2> SUFFICES ASSUME StartLow, n = 0 PROVE Starting(0)'
    OBVIOUS
  <2>1. START \notin uio
    BY <1>2 DEF StartLow
  <2> QED BY <1>9, <2>1 DEF Starting
<1>11. StartHigh => Starting(n + 1)'
  <2> SUFFICES ASSUME StartHigh PROVE Starting(n + 1)'
    OBVIOUS
  <2>1. START \in uio
    BY <1>2 DEF StartHigh
  <2>2. n + 1 >= 1 /\ (n + 1 >= 2 <=> n >= 1)
    OBVIOUS
  <2> QED BY <1>9, <2>1, <2>2 DEF Starting
<1> QED BY <1>5, <1>7, <1>8, <1>10, <1>11

(* And then it leaves S_LOAD.                                              *)
LEMMA StartSeen ==
  ASSUME FeedInv, state = S_LOAD, Starting(2), ChipTick
  PROVE  state' = S_FETCH_LO /\ LoadStart
<1>1. PICK ui, uio : Clock(ui, uio)
  BY DEF ChipTick, ClockEdge
<1>2. start_rise
  BY DEF Starting, start_rise, StartRise, mode_load
<1>3. Fsm /\ LoaderOK
  BY <1>1 DEF Clock, FeedInv
<1> QED BY <1>2, <1>3, LoadFsm DEF LoadStart

LEMMA TickStarts ==
  ASSUME FeedInv, StartInv, ChipTick, session' = session
  PROVE  StartInv'
<1>1. /\ hpc' = hpc /\ calls' = calls /\ driven' = driven /\ high' = high
      /\ timer \in Nat /\ timer' \in Nat /\ timer' <= timer + 1 /\ Script' = Script
  BY TickTimer DEF ChipTick, hostPins, Script, FeedInv, DriverOK
<1>2. (GoLow' <=> GoLow) /\ (StartLow' <=> StartLow) /\ (StartHigh' <=> StartHigh)
  BY <1>1 DEF GoLow, StartLow, StartHigh
<1>3. state # S_LOAD => state' # S_LOAD
  BY NoWayBack DEF ChipTick, ClockEdge, Clock
<1>4. ASSUME hpc = "start"
      PROVE  state' = S_LOAD /\ GoLow' /\ StartLow' /\ Ready' /\ Starting(0)'
  <2>1. state = S_LOAD /\ GoLow /\ StartLow /\ Ready /\ Starting(0)
    BY <1>4 DEF StartInv
  <2>2. 0 \in 0..1
    OBVIOUS
  <2>3. state' = S_LOAD /\ Ready' /\ Starting(0)'
    BY <2>1, <2>2, StartWay
  <2> QED BY <2>1, <2>3, <1>2
<1>5. ASSUME hpc = "hold1", state' = S_LOAD
      PROVE  Ready' /\ \E n \in 0..2 : Starting(n)' /\ timer' <= n
  <2>1. state = S_LOAD
    BY <1>3, <1>5
  <2>2. PICK n \in 0..2 : Starting(n) /\ timer <= n
    BY <1>5, <2>1 DEF StartInv
  <2>3. GoLow /\ StartHigh /\ Ready
    BY <1>5, <2>1 DEF StartInv
  <2>4. n # 2
    BY <1>5, <2>1, <2>2, StartSeen DEF S_LOAD, S_FETCH_LO
  <2>5. n \in 0..1
    BY <2>4
  <2>6. Ready' /\ Starting(n + 1)'
    BY <2>1, <2>2, <2>3, <2>5, StartWay
  <2>7. timer' <= n + 1 /\ n + 1 \in 0..2
    BY <1>1, <2>2, <2>5
  <2> QED BY <2>6, <2>7
<1>6. (Streaming' <=> Streaming)
  BY <1>1 DEF Streaming
<1> QED BY <1>1, <1>2, <1>3, <1>4, <1>5, <1>6 DEF StartInv

-----------------------------------------------------------------------------
(* The host's steps.                                                       *)

(* Before the next reset and while bytes are streamed, nothing is promised *)
(* here.                                                                   *)
LEMMA StartElsewhere ==
  ASSUME StartInv, hpc' \in BeforeReset \/ Streaming', calls' \in Nat
  PROVE  StartInv'
<1>1. hpc' \notin Late /\ hpc' \notin {"start", "hold1"}
  BY DEF Late, Talking, BeforeReset, Streaming
<1> QED BY <1>1 DEF StartInv, Late

(* The program runs.                                                       *)
LEMMA RunsOn ==
  ASSUME StartInv, hpc \in Late, hpc' \in Late, UNCHANGED vars, calls' = calls,
         session' = session, hpc' \in Talking => hpc \in Talking
  PROVE  StartInv'
<1>1. hpc' \notin {"start", "hold1"} /\ state' = state /\ Script' = Script
  BY DEF Late, Talking, vars, fsmVars, Script
<1> QED BY <1>1 DEF StartInv

(* No load fails.                                                          *)
LEMMA EchoIsRight ==
  ASSUME Short, FeedInv, hpc = "echo"
  PROVE  uo_out_reg = k % 256
<1>1. Streaming
  BY DEF Streaming
<1>2. /\ state = S_LOAD /\ Taken = k /\ k \in 1..Len(image) /\ LoaderOK /\ DriverOK
  BY <1>1 DEF FeedInv, Feeding
<1>3. Len(image) < MemBytes /\ Len(image) \in Nat
  BY <1>2, ImageOK DEF DriverOK, Short, Images
<1>4. MemBytes \in Nat
  BY WordsAssumption DEF MemBytes
<1>5. k # MemBytes
  BY <1>2, <1>3, <1>4
<1>6. boot_addr = k
  BY <1>2, <1>5 DEF Taken
<1> QED BY <1>2, <1>6 DEF LoaderOK

LEMMA AnsweredInTime ==
  ASSUME Timely, FeedInv
  PROVE  ~TimeoutStatus("ack", 1) /\ ~TimeoutStatus("clear", 0)
<1>1. Patience \in Nat /\ Patience >= 4
  BY HostAssumption DEF Timely
<1>2. Status \in {0, 1}
  BY DEF Status
<1>3. ASSUME TimeoutStatus("ack", 1) PROVE FALSE
  <2>1. hpc = "ack" /\ Status # 1 /\ timer = Patience
    BY <1>3 DEF TimeoutStatus
  <2>2. PICK n \in 0..4 : Rising(n) /\ Since(n)
    BY <2>1 DEF FeedInv, Feeding, Offered
  <2>3. n = 4
    BY <1>1, <2>1, <2>2 DEF Since
  <2>4. drv[HOST_STATUS] = 1
    BY <2>2, <2>3 DEF Rising
  <2> QED BY <2>1, <2>4, StatusLevel
<1>4. ASSUME TimeoutStatus("clear", 0) PROVE FALSE
  <2>1. hpc = "clear" /\ Status # 0 /\ timer = Patience
    BY <1>4 DEF TimeoutStatus
  <2>2. PICK n \in 0..4 : Falling(n) /\ Since(n)
    BY <2>1 DEF FeedInv, Feeding, Withdrawn
  <2>3. n = 4
    BY <1>1, <2>1, <2>2 DEF Since
  <2>4. drv[HOST_STATUS] = 0
    BY <2>2, <2>3 DEF Falling
  <2>5. Status = 1
    BY <1>2, <2>1
  <2> QED BY <2>4, <2>5, StatusLevel
<1> QED BY <1>3, <1>4

(* The last byte is in: START may rise.                                    *)
LEMMA NextStarts ==
  ASSUME FeedInv, StartInv, LoadNext, session' = session
  PROVE  StartInv'
<1>1. /\ hpc = "clear" /\ UNCHANGED vars /\ image' = image /\ calls' = calls
      /\ driven' = driven /\ high' = high /\ Status = 0
  BY DEF LoadNext, Goto, hostPins
<1>2. CASE k < Len(image)
  <2>1. Streaming'
    BY <1>2 DEF LoadNext, Goto, Streaming
  <2> QED BY <1>1, <2>1, StartElsewhere DEF StartInv
<1>3. CASE ~(k < Len(image))
  <2>1. hpc' = "start" /\ k' = k
    BY <1>3 DEF LoadNext, Goto
  <2>2. Rising(0) /\ GoLow /\ Taken = k
    BY <1>1, ClearIsQuiet
  <2>3. Streaming
    BY <1>1 DEF Streaming
  <2>4. /\ state = S_LOAD /\ StartLow /\ Starting(0) /\ Holds(Taken)
        /\ k \in 1..Len(image)
    BY <2>3 DEF FeedInv, Feeding
  <2>5. Len(image) \in Nat
    BY ImageOK DEF FeedInv
  <2>6. Taken = Len(image)
    BY <1>3, <2>2, <2>4, <2>5
  <2>7. /\ Rising(0)' /\ Starting(0)' /\ Taken' = Taken /\ sram' = sram
        /\ state' = state
    BY <1>1, <2>2, <2>4, ChipStill
  <2>8. Ready'
    BY <1>1, <2>4, <2>6, <2>7 DEF Ready, Holds
  <2>9. GoLow' /\ StartLow'
    BY <1>1, <2>2, <2>4 DEF GoLow, StartLow
  <2>10. hpc' \notin Late
    BY <2>1 DEF Late, Talking
  <2>11. calls' \in Nat /\ hpc' \notin Talking
    BY <1>1, <2>1 DEF StartInv, Talking
  <2> QED BY <2>1, <2>4, <2>7, <2>8, <2>9, <2>10, <2>11 DEF StartInv
<1> QED BY <1>2, <1>3

(* START rises.                                                            *)
LEMMA PulseStarts ==
  ASSUME FeedInv, StartInv, set_uio("start", START, 1, "hold1"), session' = session
  PROVE  StartInv'
<1>1. hpc = "start" /\ state = S_LOAD /\ GoLow /\ StartLow /\ Ready /\ Starting(0)
  BY DEF set_uio, StartInv
<1>2. /\ hpc' = "hold1" /\ UNCHANGED vars /\ timer' = 0 /\ image' = image
      /\ calls' = calls /\ driven' = driven /\ high' = high \cup {START}
  BY <1>1 DEF set_uio, Goto, driverVars, StartLow
<1>3. GoLow' /\ StartHigh'
  BY <1>1, <1>2 DEF GoLow, StartLow, StartHigh, HOST_GO, START
<1>4. /\ Rising(0)' /\ Starting(0)' /\ Taken' = Taken /\ sram' = sram
  BY <1>1, <1>2, ChipStill DEF Ready
<1>5. Ready'
  BY <1>1, <1>2, <1>4 DEF Ready, Holds
<1>6. \E n \in 0..2 : Starting(n)' /\ timer' <= n
  BY <1>2, <1>4
<1>7. hpc' \notin Late /\ hpc' \notin Talking
  BY <1>2 DEF Late, Talking
<1>8. calls' \in Nat
  BY <1>2 DEF StartInv
<1> QED BY <1>2, <1>3, <1>5, <1>6, <1>7, <1>8 DEF StartInv

(* It has been seen before it falls.                                       *)
LEMMA HoldStarts ==
  ASSUME Timely, FeedInv, StartInv, Hold("hold1", "unstart"), session' = session
  PROVE  StartInv'
<1>1. /\ hpc = "hold1" /\ hpc' = "unstart" /\ UNCHANGED vars /\ calls' = calls
      /\ timer >= HoldCycles /\ timer \in Nat
  BY DEF Hold, Goto, FeedInv, DriverOK
<1>2. HoldCycles >= 3 /\ HoldCycles \in Nat
  BY HostAssumption DEF Timely
<1>3. state # S_LOAD
  <2> SUFFICES ASSUME state = S_LOAD PROVE FALSE
    OBVIOUS
  <2>1. PICK n \in 0..2 : timer <= n
    BY <1>1 DEF StartInv
  <2> QED BY <2>1, <1>1, <1>2
<1>4. state' # S_LOAD
  BY <1>1, <1>3 DEF vars, fsmVars
<1>5. hpc' \in Late /\ hpc' \notin Talking
  BY <1>1 DEF Late, Talking
<1>6. calls' \in Nat
  BY <1>1 DEF StartInv
<1> QED BY <1>1, <1>4, <1>5, <1>6 DEF StartInv

(* The next call: another load, or one that the running program answers.   *)
LEMMA CallStarts ==
  ASSUME StartInv, Call, session' = session
  PROVE  StartInv'
<1>1. /\ hpc \in {"idle", "error"} /\ UNCHANGED vars /\ calls' = calls + 1
      /\ calls \in Nat /\ Script' = Script
  BY DEF Call, StartInv, Script
<1>2. calls' \in Nat /\ calls' > 0
  BY <1>1
<1>3. CASE hpc' = "release"
  BY <1>2, <1>3, StartElsewhere DEF BeforeReset
<1>4. CASE hpc' # "release"
  <2>1. /\ hpc' \in {"send_ui", "recv_go"}
        /\ Script'[calls'] \in {"send", "recv"}
    BY <1>1, <1>4 DEF Call
  <2>2. hpc' \in Late /\ hpc' \in Talking
    BY <2>1 DEF Late, Talking
  <2>3. state' # S_LOAD
    <3>1. hpc \in Late
      BY <1>1 DEF Late, Talking
    <3>2. state' = state
      BY <1>1 DEF vars, fsmVars
    <3> QED BY <3>1, <3>2 DEF StartInv
  <2>4. hpc' \notin {"start", "hold1"}
    BY <2>1
  <2> QED BY <1>2, <2>1, <2>2, <2>3, <2>4 DEF StartInv
<1> QED BY <1>3, <1>4

(* Steps of a load that has begun, up to its last byte.                    *)
LEMMA StreamStarts ==
  ASSUME Short, FeedInv, StartInv, session' = session,
         \/ LoadPins \/ LoadReset \/ LoadData \/ WaitStatus("ack", 1, "echo")
         \/ LoadEcho \/ LoadUngo \/ Interrupt
  PROVE  StartInv'
<1>1. calls' \in Nat
  <2>1. calls' = calls
    BY DEF LoadPins, LoadReset, LoadData, WaitStatus, LoadEcho, LoadUngo, Interrupt,
           release_uio, set_uio, set_ui, Goto
  <2> QED BY <2>1 DEF StartInv
<1>2. hpc' \in BeforeReset \/ Streaming'
  <2>1. CASE LoadPins
    BY <2>1 DEF LoadPins, release_uio, set_uio, Goto, BeforeReset
  <2>2. CASE LoadReset
    BY <2>2 DEF LoadReset, Streaming
  <2>3. CASE LoadData
    BY <2>3 DEF LoadData, set_ui, set_uio, Goto, Streaming
  <2>4. CASE WaitStatus("ack", 1, "echo")
    BY <2>4 DEF WaitStatus, Goto, Streaming
  <2>5. CASE LoadEcho
    BY <2>5, EchoIsRight DEF LoadEcho, Goto, Streaming
  <2>6. CASE LoadUngo
    BY <2>6 DEF LoadUngo, set_uio, Goto, Streaming
  <2>7. CASE Interrupt
    BY <2>7 DEF Interrupt, BeforeReset
  <2> QED BY <2>1, <2>2, <2>3, <2>4, <2>5, <2>6, <2>7
<1> QED BY <1>1, <1>2, StartElsewhere

(* Steps after START has been seen.                                        *)
LEMMA LateStarts ==
  ASSUME Timely, FeedInv, StartInv, session' = session,
         \/ Hold("hold2", "free")
         \/ set_uio("unstart", START, 0, "hold2") \/ release_uio("free", START, "idle")
         \/ SendPins \/ WaitStatus("send_ack", 1, "send_ungo") \/ SendReturn
         \/ RecvPins \/ WaitStatus("recv_ack", 1, "recv_uo") \/ RecvByte
         \/ WaitStatus("recv_clear", 0, "idle") \/ GiveUp
  PROVE  StartInv'
<1>1. ASSUME NEW at, NEW p, NEW level, NEW next, set_uio(at, p, level, next)
      PROVE  UNCHANGED vars /\ calls' = calls /\ hpc = at /\ hpc' \in {at, next}
  BY <1>1 DEF set_uio, Goto
<1>2. CASE Hold("hold2", "free") \/ release_uio("free", START, "idle")
  BY <1>2, RunsOn DEF Hold, release_uio, Goto, Late, Talking
<1>3. CASE set_uio("unstart", START, 0, "hold2")
  BY <1>1, <1>3, RunsOn DEF Late, Talking
<1>4. CASE SendPins
  <2>1. UNCHANGED vars /\ calls' = calls /\ hpc \in Talking /\ hpc' \in Talking
    <3>1. CASE set_ui("send_ui", byte, "send_go")
      BY <3>1 DEF set_ui, Goto, Talking
    <3>2. CASE set_uio("send_go", HOST_GO, 1, "send_ack")
      BY <3>2, <1>1 DEF Talking
    <3>3. CASE set_uio("send_ungo", HOST_GO, 0, "send_clear")
      BY <3>3, <1>1 DEF Talking
    <3> QED BY <1>4, <3>1, <3>2, <3>3 DEF SendPins
  <2> QED BY <2>1, RunsOn DEF Late
<1>5. CASE RecvPins
  <2>1. UNCHANGED vars /\ calls' = calls /\ hpc \in Talking /\ hpc' \in Talking
    <3>1. CASE set_uio("recv_go", HOST_GO, 1, "recv_ack")
      BY <3>1, <1>1 DEF Talking
    <3>2. CASE set_uio("recv_ungo", HOST_GO, 0, "recv_clear")
      BY <3>2, <1>1 DEF Talking
    <3> QED BY <1>5, <3>1, <3>2 DEF RecvPins
  <2> QED BY <2>1, RunsOn DEF Late
<1>6. CASE \/ WaitStatus("send_ack", 1, "send_ungo")
           \/ WaitStatus("recv_ack", 1, "recv_uo")
           \/ WaitStatus("recv_clear", 0, "idle")
  BY <1>6, RunsOn DEF WaitStatus, Goto, Late, Talking
<1>7. CASE SendReturn \/ RecvByte
  BY <1>7, RunsOn DEF SendReturn, RecvByte, Goto, Late, Talking
<1>8. CASE GiveUp
  <2>1. ~TimeoutStatus("ack", 1) /\ ~TimeoutStatus("clear", 0)
    BY AnsweredInTime
  <2>2. PICK at \in {"send_ack", "recv_ack", "send_clear", "recv_clear"},
             level \in {0, 1} : TimeoutStatus(at, level)
    BY <1>8, <2>1 DEF GiveUp
  <2>3. UNCHANGED vars /\ calls' = calls /\ hpc = at /\ hpc' = "error"
    BY <2>2 DEF TimeoutStatus, Goto
  <2>4. hpc \in Talking /\ hpc' \in Talking
    BY <2>3 DEF Talking
  <2> QED BY <2>3, <2>4, RunsOn DEF Late
<1> QED BY <1>2, <1>3, <1>4, <1>5, <1>6, <1>7, <1>8

LEMMA StartNext ==
  ASSUME Timely, Short, FeedInv, StartInv, [HNext]_allVars
  PROVE  StartInv'
<1>1. CASE HNext
  <2>1. session' = session
    BY <1>1 DEF HNext
  <2>2. CASE ChipTick
    BY <2>1, <2>2, TickStarts
  <2>3. CASE HostStep
    BY <2>1, <2>3, NextStarts, PulseStarts, HoldStarts, CallStarts, StreamStarts,
       LateStarts DEF HostStep, LoadPulse
  <2>4. CASE GiveUp \/ Interrupt
    BY <2>1, <2>4, StreamStarts, LateStarts
  <2> QED BY <1>1, <2>2, <2>3, <2>4 DEF HNext
<1>2. CASE UNCHANGED allVars
  <2>1. /\ UNCHANGED vars /\ session' = session /\ hpc' = hpc /\ timer' = timer
        /\ image' = image /\ calls' = calls /\ driven' = driven /\ high' = high
    BY <1>2 DEF allVars, hostVars, driverVars, hostPins
  <2>2. /\ state' = state /\ sram' = sram /\ Taken' = Taken
        /\ Rising(0) => Rising(0)'
    BY <2>1, ChipStill
  <2>3. \A n \in 0..2 : Starting(n) => Starting(n)'
    BY <2>1, ChipStill
  <2>4. /\ (Streaming' <=> Streaming) /\ Script' = Script
        /\ (GoLow' <=> GoLow) /\ (StartLow' <=> StartLow) /\ (StartHigh' <=> StartHigh)
    BY <2>1 DEF Streaming, Script, GoLow, StartLow, StartHigh
  <2>5. Ready => Ready'
    BY <2>1, <2>2 DEF Ready, Holds
  <2>6. /\ hpc' \in BeforeReset \cup {"start", "hold1"} \cup Late \/ Streaming'
        /\ hpc' \in Late => state' # S_LOAD
        /\ hpc' \in Talking => calls' > 0 /\ Script'[calls'] \in {"send", "recv"}
        /\ calls' \in Nat
    BY <2>1, <2>2, <2>4 DEF StartInv
  <2>7. hpc' = "start" => state' = S_LOAD /\ GoLow' /\ StartLow' /\ Ready' /\ Starting(0)'
    BY <2>1, <2>2, <2>3, <2>4, <2>5 DEF StartInv
  <2>8. hpc' = "hold1" =>
          /\ GoLow' /\ StartHigh'
          /\ state' = S_LOAD => Ready' /\ \E n \in 0..2 : Starting(n)' /\ timer' <= n
    BY <2>1, <2>2, <2>3, <2>4, <2>5 DEF StartInv
  <2> QED BY <2>6, <2>7, <2>8 DEF StartInv
<1> QED BY <1>1, <1>2

LoadsInv == FeedInv /\ StartInv

LEMMA LoadsInvariant ==
  ASSUME Timely, Short
  PROVE  HSpec => []LoadsInv
<1>1. Init /\ HostInit => LoadsInv
  <2> SUFFICES ASSUME Init, HostInit PROVE LoadsInv
    OBVIOUS
  <2>1. StartInv
    BY DEF HostInit, StartInv, BeforeReset, Late, Talking
  <2> QED BY <2>1, FeedInit DEF LoadsInv
<1>2. LoadsInv /\ [HNext]_allVars => LoadsInv'
  BY FeedNext, StartNext DEF LoadsInv
<1> QED BY <1>1, <1>2, PTL DEF HSpec

(* Every load of an image that leaves a byte of the memory free succeeds,  *)
(* whatever the wires were left like before it, if the library waits long  *)
(* enough: a hold of three clock cycles and a timeout of four suffice.     *)
THEOREM LoadsSucceed == ASSUME Timely, Short PROVE HSpec => []NoHostError
<1>1. LoadsInv => NoHostError
  BY DEF LoadsInv, StartInv, NoHostError, Talking
<1> QED BY <1>1, LoadsInvariant, PTL

(* Only a clock edge or a reset touches the chip.                          *)
LEMMA WhoTouches ==
  ASSUME [HNext]_allVars
  PROVE  ChipTick \/ (hpc = "reset" /\ Reset) \/ UNCHANGED vars
<1>1. CASE HostStep
  BY <1>1 DEF HostStep, LoadPins, LoadReset, LoadData, WaitStatus, LoadEcho, LoadUngo,
     LoadNext, Hold, LoadPulse, Call, SendPins, SendReturn, RecvPins, RecvByte,
     release_uio, set_uio, set_ui, Goto
<1>2. CASE GiveUp \/ Interrupt
  BY <1>2 DEF GiveUp, TimeoutStatus, Interrupt, Goto
<1>3. CASE UNCHANGED allVars
  BY <1>3 DEF allVars
<1> QED BY <1>1, <1>2, <1>3 DEF HNext

(* The edge that leaves S_LOAD.                                            *)
LEMMA LeavesWhole ==
  ASSUME LoadsInv, ChipTick, state = S_LOAD, state' = S_FETCH_LO,
         hpc \notin BeforeReset
  PROVE  /\ hpc \in {"hold1", "unstart"}
         /\ Taken = Len(image) /\ Holds(Len(image))
         /\ sram' = sram
         /\ ~load_ack /\ HOST_GO \notin uio_in_ff2
         /\ uo_out_reg' = 0 /\ drv' = [p \in PinIndex |-> 0]
<1>1. FeedInv /\ StartInv /\ LoaderOK
  BY DEF LoadsInv, FeedInv
<1>2. state' # S_LOAD
  BY DEF S_LOAD, S_FETCH_LO
<1>3. ~Streaming
  BY <1>1, <1>2, TickStream
<1>4. hpc # "start"
  <2> SUFFICES ASSUME hpc = "start" PROVE FALSE
    OBVIOUS
  <2>1. GoLow /\ Ready /\ Starting(0) /\ 0 \in 0..1
    BY <1>1 DEF StartInv
  <2> QED BY <2>1, <1>1, <1>2, StartWay
<1>5. hpc = "hold1"
  BY <1>1, <1>3, <1>4 DEF StartInv
<1>6. Ready
  BY <1>1, <1>5 DEF StartInv
<1>7. ~load_ack /\ HOST_GO \notin uio_in_ff2
  BY <1>6 DEF Ready, Rising
<1>8. PICK ui, uio : Clock(ui, uio)
  BY DEF ChipTick, ClockEdge
<1>9. Fsm /\ MemClock /\ DrivePins(pin_request)
  BY <1>8 DEF Clock, PinClock
<1>10. ~host_go_rise
  BY <1>7 DEF host_go_rise, HostGoRise
<1>11. sram' = sram
  BY <1>9, <1>10, NoByte
<1>12. uo_out_reg' = 0
  BY <1>1, <1>2, <1>9, LoadFsm DEF LoadStart
<1>13. drv' = [p \in PinIndex |-> 0]
  <2>1. /\ drv \in [PinIndex -> Bit]
        /\ \A p \in PinIndex \ {HOST_STATUS} : drv[p] = 0
    BY <1>1 DEF LoaderOK
  <2>2. /\ drv' \in [PinIndex -> Bit] /\ drv'[HOST_STATUS] = 0
        /\ \A p \in PinIndex \ {HOST_STATUS} : drv'[p] = 0
    BY <2>1, <1>7, <1>9, StatusFollows
  <2> QED BY <2>2
<1> QED BY <1>5, <1>6, <1>7, <1>11, <1>12, <1>13 DEF Ready

(* Execution starts on the whole image and on nothing but it, whatever the *)
(* image and the speeds are.                                               *)
THEOREM WholeImageRuns == ASSUME Timely, Short PROVE HSpec => WholeImage
<1> DEFINE Whole ==
      state = S_LOAD /\ state' = S_FETCH_LO /\ hpc \notin BeforeReset =>
        /\ hpc \in {"hold1", "unstart"}
        /\ Taken = Len(image) /\ Holds(Len(image))
        /\ sram' = sram
        /\ ~load_ack /\ HOST_GO \notin uio_in_ff2
        /\ uo_out_reg' = 0 /\ drv' = [p \in PinIndex |-> 0]
<1>1. LoadsInv /\ [HNext]_allVars => [Whole]_allVars
  <2> SUFFICES ASSUME LoadsInv, [HNext]_allVars, state = S_LOAD, state' = S_FETCH_LO,
                      hpc \notin BeforeReset
               PROVE  /\ hpc \in {"hold1", "unstart"}
                      /\ Taken = Len(image) /\ Holds(Len(image))
                      /\ sram' = sram
                      /\ ~load_ack /\ HOST_GO \notin uio_in_ff2
                      /\ uo_out_reg' = 0 /\ drv' = [p \in PinIndex |-> 0]
    OBVIOUS
  <2>1. ~UNCHANGED vars
    BY DEF vars, fsmVars, S_LOAD, S_FETCH_LO
  <2>2. ChipTick
    BY <2>1, WhoTouches DEF BeforeReset
  <2> QED BY <2>2, LeavesWhole
<1>2. HSpec => [][HNext]_allVars
  BY DEF HSpec
<1> QED BY <1>1, <1>2, LoadsInvariant, PTL DEF WholeImage

(* Once the chip is reset, nothing is written but the byte in flight, at   *)
(* its place.                                                              *)
LEMMA WritesInFlight ==
  ASSUME LoadsInv, ChipTick, state = S_LOAD, state' = S_LOAD, hpc \notin BeforeReset,
         NEW a \in ByteAddr, sram'[a] # sram[a]
  PROVE  Streaming /\ a = k - 1
<1>1. FeedInv /\ StartInv
  BY DEF LoadsInv
<1>2. sram' # sram
  OBVIOUS
<1>3. hpc # "start"
  <2> SUFFICES ASSUME hpc = "start" PROVE FALSE
    OBVIOUS
  <2>1. GoLow /\ Ready /\ Starting(0) /\ 0 \in 0..1
    BY <1>1 DEF StartInv
  <2> QED BY <2>1, <1>1, <1>2, StartWay
<1>4. hpc # "hold1"
  <2> SUFFICES ASSUME hpc = "hold1" PROVE FALSE
    OBVIOUS
  <2>1. GoLow /\ Ready
    BY <1>1 DEF StartInv
  <2>2. PICK n \in 0..2 : Starting(n)
    BY <1>1 DEF StartInv
  <2>3. n # 2
    BY <1>1, <2>2, StartSeen DEF S_LOAD, S_FETCH_LO
  <2>4. n \in 0..1
    BY <2>3
  <2> QED BY <2>1, <2>2, <2>4, <1>1, <1>2, StartWay
<1>5. Streaming
  BY <1>1, <1>3, <1>4 DEF StartInv
<1>6. CASE hpc \in {"set_ui", "go"}
  <2>1. GoLow /\ Falling(4)
    BY <1>1, <1>6, WireEnds DEF FeedInv, Feeding
  <2> QED BY <2>1, <1>1, <1>2, <1>5, TickQuiet
<1>7. CASE hpc = "ack"
  BY <1>1, <1>5, <1>7, TickRises
<1>8. CASE hpc \in {"echo", "ungo"}
  <2>1. GoHigh /\ Rising(4)
    BY <1>1, <1>8 DEF FeedInv, Feeding
  <2> QED BY <2>1, <1>1, <1>2, <1>5, TickHeld
<1>9. CASE hpc = "clear"
  <2>1. GoLow
    BY <1>1, <1>9 DEF FeedInv, Feeding
  <2>2. PICK n \in 0..4 : Falling(n) /\ Since(n)
    BY <1>1, <1>9 DEF FeedInv, Feeding, Withdrawn
  <2> QED BY <2>1, <2>2, <1>1, <1>2, <1>5, TickFalls
<1> QED BY <1>5, <1>6, <1>7, <1>8, <1>9 DEF Streaming

(* No strobe of an abandoned load arrives late, and no byte is written     *)
(* twice or past the end.                                                  *)
THEOREM NothingElseWritten == ASSUME Timely, Short PROVE HSpec => NothingBeyond
<1> DEFINE InFlight ==
      state = S_LOAD /\ state' = S_LOAD /\ hpc \notin BeforeReset =>
        \A a \in ByteAddr : sram'[a] # sram[a] => Streaming /\ a = k - 1
<1>1. LoadsInv /\ [HNext]_allVars => [InFlight]_allVars
  <2> SUFFICES ASSUME LoadsInv, [HNext]_allVars, state = S_LOAD, state' = S_LOAD,
                      hpc \notin BeforeReset, NEW a \in ByteAddr, sram'[a] # sram[a]
               PROVE  Streaming /\ a = k - 1
    OBVIOUS
  <2>1. ~UNCHANGED vars
    BY DEF vars
  <2>2. ChipTick
    BY <2>1, WhoTouches DEF BeforeReset
  <2> QED BY <2>2, WritesInFlight
<1>2. HSpec => [][HNext]_allVars
  BY DEF HSpec
<1> QED BY <1>1, <1>2, LoadsInvariant, PTL DEF NothingBeyond

-----------------------------------------------------------------------------
(* The chip in the composition is the chip in an arbitrary environment.    *)

(* The host drives bytes.                                                  *)
BytesOK == ui_pin \in Byte /\ byte \in Byte

LEMMA BytesNext ==
  ASSUME FeedInv, BytesOK, [HNext]_allVars
  PROVE  BytesOK'
<1>1. 0 \in Byte
  BY DEF Byte
<1>2. Data \subseteq Byte /\ image \in Seq(Byte)
  BY HostAssumption, ImageOK DEF FeedInv, DriverOK, Data
<1>3. CASE hpc = "set_ui" /\ set_ui("set_ui", image[k], "go")
  <2>1. k \in 1..Len(image)
    BY <1>3 DEF FeedInv, Feeding, Streaming
  <2>2. image[k] \in Byte
    BY <1>2, <2>1
  <2> QED BY <1>3, <2>2 DEF BytesOK, set_ui, driverVars
<1>4. CASE Call
  BY <1>2, <1>4 DEF Call, BytesOK, hostPins
<1>5. CASE set_ui("send_ui", byte, "send_go")
  BY <1>5 DEF set_ui, BytesOK, driverVars
<1>6. ASSUME NEW at, NEW p, NEW level, NEW next, set_uio(at, p, level, next)
      PROVE  ui_pin' = ui_pin /\ byte' = byte
  BY <1>6 DEF set_uio, driverVars
<1>7. CASE LoadPins \/ LoadReset \/ LoadUngo \/ LoadPulse \/ LoadNext \/ LoadEcho
  BY <1>6, <1>7 DEF LoadPins, LoadReset, LoadUngo, LoadPulse, LoadNext, LoadEcho,
     release_uio, driverVars, hostPins, BytesOK
<1>8. CASE set_uio("go", HOST_GO, 1, "ack")
  BY <1>6, <1>8 DEF BytesOK
<1>9. CASE \/ set_uio("send_go", HOST_GO, 1, "send_ack")
           \/ set_uio("send_ungo", HOST_GO, 0, "send_clear") \/ RecvPins
  BY <1>6, <1>9 DEF RecvPins, BytesOK
<1>10. CASE SendReturn \/ RecvByte \/ Hold("hold1", "unstart") \/ Hold("hold2", "free")
  BY <1>10 DEF SendReturn, RecvByte, Hold, driverVars, hostPins, BytesOK
<1>11. ASSUME NEW at, NEW level, NEW next, WaitStatus(at, level, next)
       PROVE  BytesOK'
  BY <1>11 DEF WaitStatus, driverVars, hostPins, BytesOK
<1>12. CASE GiveUp \/ Interrupt \/ ChipTick
  BY <1>12 DEF GiveUp, TimeoutStatus, Interrupt, ChipTick, driverVars, hostPins, BytesOK
<1>13. CASE UNCHANGED allVars
  BY <1>13 DEF allVars, hostVars, driverVars, hostPins, BytesOK
<1>14. CASE HostStep
  BY <1>3, <1>4, <1>5, <1>7, <1>8, <1>9, <1>10, <1>11, <1>14
     DEF HostStep, LoadData, SendPins
<1> QED BY <1>12, <1>13, <1>14 DEF HNext

LEMMA EdgeIsTick ==
  ASSUME UiValues = Byte, UioValues = SUBSET PinIndex, FeedInv, BytesOK, ChipTick
  PROVE  Tick
<1>1. PICK undefined \in SUBSET Fought :
        Clock(ui_pin, (PadsHigh \ Fought) \cup undefined)
  BY DEF ChipTick, ClockEdge
<1>2. driven \subseteq PinIndex
  BY DEF FeedInv, DriverOK, HOST_GO, START, PinIndex
<1>3. (PadsHigh \ Fought) \cup undefined \subseteq PinIndex
  BY <1>2 DEF PadsHigh, Fought, UioOut
<1> QED BY <1>1, <1>3 DEF Tick, BytesOK

(* With the host on its pads the chip does nothing that it does not do in  *)
(* an arbitrary environment: what is proved of Chip holds here.            *)
THEOREM HostDrivesChip ==
  ASSUME UiValues = Byte, UioValues = SUBSET PinIndex
  PROVE  HSpec => Spec
<1>1. Init /\ HostInit => BytesOK
  BY DEF HostInit, BytesOK, Byte
<1>2. FeedInv /\ BytesOK /\ [HNext]_allVars => BytesOK'
  BY BytesNext
<1>3. FeedInv /\ BytesOK /\ [HNext]_allVars => [Next]_vars
  BY WhoTouches, EdgeIsTick DEF Next
<1> QED BY <1>1, <1>2, <1>3, FeedInvariant, PTL DEF HSpec, Spec

(* In particular the program the host loads runs as golden_model.py says,  *)
(* cannot write over itself, and uio[6] changes hands as Chip has it.      *)
THEOREM HostRunsIsa ==
  ASSUME UiValues = Byte, UioValues = SUBSET PinIndex
  PROVE  HSpec => ImplementsIsa /\ ProgramProtected /\ StartReleased
  BY HostDrivesChip, Refinement, ProgramIsReadOnly, StartIsReleased, PTL
=============================================================================
