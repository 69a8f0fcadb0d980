------------------------------- MODULE PeHost -------------------------------
(***************************************************************************)
(* The host library (src/firmware/host/pe_host.py) driving the chip.  The  *)
(* generators load(), send() and recv() yield pin operations; every        *)
(* operation is one step of the host, and the chip's clock edges fall      *)
(* anywhere between them.  A session is a list of calls: the first is      *)
(* always load(), the rest is Script.                                      *)
(*                                                                         *)
(* hpc names the operation the host performs next.  A wait_uio or a hold   *)
(* counts the clock edges it has lasted in timer, up to Patience; only a   *)
(* wait that has lasted that long times out (TIMEOUT_MS, in clock cycles). *)
(***************************************************************************)
EXTENDS Core, Sequences

CONSTANTS
  Sessions,    \* what may be asked of the library, see session
  Patience,    \* clock cycles after which a wait gives up
  HoldCycles   \* clock cycles a hold lasts at least

ASSUME HostAssumption ==
  /\ \A s \in Sessions :
       /\ \A i \in s.images : i \in Seq(Byte) /\ Len(i) \in 1..MemBytes
       /\ s.script \in Seq({"load", "send", "recv"})
       /\ s.data \subseteq Byte /\ s.interrupts \in Nat
  /\ Patience \in Nat /\ HoldCycles \in 0..Patience

VARIABLES
  session,       \* the session: [images, script, data, interrupts]
  hpc,           \* next operation of the host
  calls,          \* number of calls of Script begun
  interrupts,    \* number of loads abandoned so far
  image, k,      \* the image being loaded and the byte it is at
  byte,          \* the byte being sent
  timer,         \* clock cycles the current wait or hold has lasted
  ui_pin,        \* level of ui_in
  driven, high,  \* uio pins the host drives; last level given to each
  sent, got      \* bytes sent and received so far

driverVars == <<image, k, byte, sent, got>>
hostPins == <<ui_pin, driven, high>>
(* The images load() may be given, the calls after the first load ("load", *)
(* "send", "recv"), the bytes send() may be given, and a bound on the      *)
(* times the first load is abandoned and begun again.                      *)
Images == session.images
Script == session.script
Data == session.data
Interrupts == session.interrupts

hostVars == <<session, hpc, calls, interrupts, timer, driverVars, hostPins>>
allVars == <<vars, hostVars>>

HostInit ==
  /\ session \in Sessions
  /\ hpc = "release" /\ calls = 0 /\ interrupts = 0
  /\ image \in Images /\ k = 1
  /\ byte = 0 /\ timer = 0
  /\ ui_pin = 0 /\ driven = {} /\ high = {}
  /\ sent = <<>> /\ got = <<>>

-----------------------------------------------------------------------------
(* The pads of uio.  A pin nobody drives is pulled down; a pin both sides  *)
(* drive to different levels has no defined level.                         *)
ChipDrives == UioOe(mode_load)

Fought ==
  {p \in driven \cap ChipDrives : (p \in high) # (p \in UioOut)}

PadsHigh == (high \cap driven) \cup ((ChipDrives \cap UioOut) \ driven)

ClockEdge ==
  \E undefined \in SUBSET Fought :
    Clock(ui_pin, (PadsHigh \ Fought) \cup undefined)

(* get_uio reads the pin as the chip drives it.                            *)
Status == IF HOST_STATUS \in UioOut THEN 1 ELSE 0

Waiting == {"ack", "clear", "hold1", "hold2", "send_ack", "send_clear",
            "recv_ack", "recv_clear"}

ChipTick ==
  /\ ClockEdge
  /\ timer' = IF hpc \in Waiting /\ timer < Patience THEN timer + 1 ELSE timer
  /\ UNCHANGED <<hpc, calls, interrupts, driverVars, hostPins>>

-----------------------------------------------------------------------------
(* Pin operations.                                                         *)
Goto(next) == hpc' = next /\ timer' = 0 /\ UNCHANGED <<vars, calls, interrupts>>

(* A pin not driven so far is first driven with the level it was last      *)
(* given, and then given the new one.                                      *)
set_uio(at, p, level, next) ==
  /\ hpc = at
  /\ \/ /\ p \notin driven
        /\ driven' = driven \cup {p}
        /\ UNCHANGED <<vars, hpc, calls, interrupts, timer, driverVars, ui_pin,
                       high>>
     \/ /\ p \in driven
        /\ Goto(next)
        /\ high' = IF level = 1 THEN high \cup {p} ELSE high \ {p}
        /\ UNCHANGED <<driverVars, ui_pin, driven>>

release_uio(at, p, next) ==
  /\ hpc = at
  /\ Goto(next)
  /\ driven' = driven \ {p}
  /\ UNCHANGED <<driverVars, ui_pin, high>>

set_ui(at, b, next) ==
  /\ hpc = at
  /\ Goto(next)
  /\ ui_pin' = b
  /\ UNCHANGED <<driverVars, driven, high>>

(* _wait: goes on when HOST_STATUS has the level, fails when it has not    *)
(* had it for the whole timeout.                                           *)
WaitStatus(at, level, next) ==
  /\ hpc = at /\ Status = level
  /\ Goto(next)
  /\ UNCHANGED <<driverVars, hostPins>>

TimeoutStatus(at, level) ==
  /\ hpc = at /\ Status # level /\ timer = Patience
  /\ Goto("error")
  /\ UNCHANGED <<driverVars, hostPins>>

-----------------------------------------------------------------------------
(* load(image)                                                             *)
LoadPinsGoAsIs ==   \* fault: HOST_GO is left as the last call left it
  \/ release_uio("release", START, "start_low")
  \/ set_uio("start_low", START, 0, "reset")

LoadPins ==
  \/ release_uio("release", START, "go_low")
  \/ set_uio("go_low", HOST_GO, 0, "start_low")
  \/ set_uio("start_low", START, 0, "reset")

LoadReset ==
  /\ hpc = "reset"
  /\ Reset
  /\ hpc' = "set_ui" /\ timer' = 0 /\ k' = 1
  /\ UNCHANGED <<calls, interrupts, image, byte, sent, got, hostPins>>

LoadData ==
  \/ hpc = "set_ui" /\ set_ui("set_ui", image[k], "go")
  \/ set_uio("go", HOST_GO, 1, "ack")

(* echo != k & 0xFF is a HostError.                                        *)
LoadEcho ==
  /\ hpc = "echo"
  /\ Goto(IF uo_out_reg = k % 256 THEN "ungo" ELSE "error")
  /\ UNCHANGED <<driverVars, hostPins>>

LoadUngo == set_uio("ungo", HOST_GO, 0, "clear")

LoadNext ==
  /\ hpc = "clear" /\ Status = 0
  /\ IF k < Len(image) THEN Goto("set_ui") /\ k' = k + 1
                       ELSE Goto("start") /\ UNCHANGED k
  /\ UNCHANGED <<image, byte, sent, got, hostPins>>

HoldNot(at, next) ==   \* fault: a pulse of any length
  /\ hpc = at
  /\ Goto(next)
  /\ UNCHANGED <<driverVars, hostPins>>

Hold(at, next) ==
  /\ hpc = at /\ timer >= HoldCycles
  /\ Goto(next)
  /\ UNCHANGED <<driverVars, hostPins>>

LoadPulse ==
  \/ set_uio("start", START, 1, "hold1")
  \/ set_uio("unstart", START, 0, "hold2")
  \/ release_uio("free", START, "idle")

-----------------------------------------------------------------------------
(* The next call of the session, also after one that has failed.           *)
Call ==
  /\ hpc \in {"idle", "error"} /\ calls < Len(Script)
  /\ calls' = calls + 1
  /\ \/ /\ Script[calls + 1] = "load"
        /\ hpc' = "release" /\ image' \in Images /\ UNCHANGED byte
     \/ /\ Script[calls + 1] = "send"
        /\ hpc' = "send_ui" /\ byte' \in Data /\ UNCHANGED image
     \/ /\ Script[calls + 1] = "recv"
        /\ hpc' = "recv_go" /\ UNCHANGED <<image, byte>>
  /\ timer' = 0
  /\ UNCHANGED <<vars, interrupts, k, sent, got, hostPins>>

(* send(byte)                                                              *)
SendPins ==
  \/ set_ui("send_ui", byte, "send_go")
  \/ set_uio("send_go", HOST_GO, 1, "send_ack")
  \/ set_uio("send_ungo", HOST_GO, 0, "send_clear")

SendReturn ==
  /\ hpc = "send_clear" /\ Status = 0
  /\ Goto("idle")
  /\ sent' = Append(sent, byte)
  /\ UNCHANGED <<image, k, byte, got, hostPins>>

(* recv(); "got" holds what get_uo read while HOST_GO was still high.      *)
RecvPins ==
  \/ set_uio("recv_go", HOST_GO, 1, "recv_ack")
  \/ set_uio("recv_ungo", HOST_GO, 0, "recv_clear")

RecvByte ==
  /\ hpc = "recv_uo"
  /\ Goto("recv_ungo")
  /\ got' = Append(got, uo_out_reg)
  /\ UNCHANGED <<image, k, byte, sent, hostPins>>

-----------------------------------------------------------------------------
HostStep ==
  \/ LoadPins \/ LoadReset \/ LoadData
  \/ WaitStatus("ack", 1, "echo")
  \/ LoadEcho \/ LoadUngo \/ LoadNext
  \/ Hold("hold1", "unstart") \/ Hold("hold2", "free") \/ LoadPulse
  \/ Call
  \/ SendPins \/ WaitStatus("send_ack", 1, "send_ungo") \/ SendReturn
  \/ RecvPins \/ WaitStatus("recv_ack", 1, "recv_uo") \/ RecvByte
  \/ WaitStatus("recv_clear", 0, "idle")

(* HostError of a wait that has lasted Patience cycles.                    *)
GiveUp ==
  \/ \E at \in {"ack", "send_ack", "recv_ack"} : TimeoutStatus(at, 1)
  \/ \E at \in {"clear", "send_clear", "recv_clear"} : TimeoutStatus(at, 0)

(* The library is stopped between two operations of load() (an exception,  *)
(* a reset of the host), leaving the pins as they are, and load() is       *)
(* called again.                                                           *)
Interrupt ==
  /\ interrupts < Interrupts /\ hpc # "idle" /\ calls = 0
  /\ interrupts' = interrupts + 1
  /\ hpc' = "release" /\ timer' = 0 /\ image' \in Images
  /\ UNCHANGED <<vars, calls, k, byte, sent, got, hostPins>>

HNext == (ChipTick \/ HostStep \/ GiveUp \/ Interrupt) /\ UNCHANGED session

HSpec == Init /\ HostInit /\ [][HNext]_allVars

(* The clock runs freely, the driver keeps running the generator, however  *)
(* slowly, and a wait that is never answered gives up.                     *)
HFairSpec ==
  /\ HSpec
  /\ WF_allVars(ChipTick /\ UNCHANGED session)
  /\ WF_allVars(HostStep /\ UNCHANGED session)
  /\ WF_allVars(GiveUp /\ UNCHANGED session)
=============================================================================
