------------------------------ MODULE PinCtrl ------------------------------
(***************************************************************************)
(* Pin controller (src/src/io/pin_ctrl.v): two-flop synchronizers on every *)
(* external input, edge detectors on START and HOST_GO, the latch that     *)
(* keeps uio[6] an input until START has fallen, and the sticky mode and   *)
(* value of each pin with the output enables derived from them.            *)
(*                                                                         *)
(* A level of the eight uio pins is the set of the pins that are high.     *)
(* mode_load and the SET/OUTB request are inputs, given as parameters by   *)
(* the core that drives them.                                              *)
(***************************************************************************)
EXTENDS IsaDefs

VARIABLES
  ui_in_ff1, ui_in_ff2,      \* synchronizer of ui_in
  uio_in_ff1, uio_in_ff2,    \* synchronizer of uio_in
  start_prev, host_go_prev,  \* last synchronized level of uio[6], uio[4]
  seen_start_fall,           \* START has been seen to fall while running
  mode, drv                  \* sticky drive mode and value of every pin

syncVars == <<ui_in_ff1, ui_in_ff2, uio_in_ff1, uio_in_ff2,
              start_prev, host_go_prev>>
pinVars == <<syncVars, seen_start_fall, mode, drv>>

HOST_GO == 4
HOST_STATUS == 5
START == 6
ProtocolPins == {0, 1, 2, 3, 7}

PinInit ==
  /\ ui_in_ff1 = 0 /\ ui_in_ff2 = 0
  /\ uio_in_ff1 = {} /\ uio_in_ff2 = {}
  /\ start_prev = FALSE /\ host_go_prev = FALSE
  /\ seen_start_fall = FALSE
  /\ mode = [p \in PinIndex |-> SET_MODE_INPUT]
  /\ drv = [p \in PinIndex |-> 0]

PinReset ==
  /\ ui_in_ff1' = 0 /\ ui_in_ff2' = 0
  /\ uio_in_ff1' = {} /\ uio_in_ff2' = {}
  /\ start_prev' = FALSE /\ host_go_prev' = FALSE
  /\ seen_start_fall' = FALSE
  /\ mode' = [p \in PinIndex |-> SET_MODE_INPUT]
  /\ drv' = [p \in PinIndex |-> 0]

-----------------------------------------------------------------------------
(* Wires read by the core.                                                 *)
ui_in_syncEarly == ui_in_ff1   \* fault: one flop instead of two

ui_in_sync == ui_in_ff2

PinRead(p) == IF p \in uio_in_ff2 THEN 1 ELSE 0

StartRise(mode_load) == mode_load /\ START \in uio_in_ff2 /\ ~start_prev

HostGoRise(mode_load) == mode_load /\ HOST_GO \in uio_in_ff2 /\ ~host_go_prev

HostGoFall(mode_load) == mode_load /\ HOST_GO \notin uio_in_ff2 /\ host_go_prev

StartFallRaw == START \notin uio_in_ff2 /\ start_prev

-----------------------------------------------------------------------------
(* Wires to the pads: the pins the chip drives, and their levels.          *)
PadDriven(p) ==
  \/ mode[p] = SET_MODE_PUSH_PULL
  \/ mode[p] = SET_MODE_OPEN_DRAIN /\ drv[p] = 0

UioOeUngated(mode_load) ==   \* fault: HOST_ERROR is driven from START on
  {HOST_STATUS}
    \cup {p \in ProtocolPins : ~mode_load /\ PadDriven(p)}
    \cup {p \in {START} : ~mode_load}

UioOe(mode_load) ==
  {HOST_STATUS}
    \cup {p \in ProtocolPins : ~mode_load /\ PadDriven(p)}
    \cup {p \in {START} : ~mode_load /\ seen_start_fall}

UioOut == {p \in PinIndex \ {HOST_GO} : drv[p] = 1}

-----------------------------------------------------------------------------
(* One clock edge.  req is the request of the core: fields set_en,         *)
(* set_mode, set_value, outb_en, outb_bit, pin_index.                      *)
Synchronize(ui, uio) ==
  /\ ui_in_ff1' = ui /\ ui_in_ff2' = ui_in_ff1
  /\ uio_in_ff1' = uio /\ uio_in_ff2' = uio_in_ff1
  /\ start_prev' = (START \in uio_in_ff2)
  /\ host_go_prev' = (HOST_GO \in uio_in_ff2)

DrivePins(req) ==
  /\ mode' = IF req.set_en /\ req.set_mode # SET_MODE_LEAVE
               THEN [mode EXCEPT ![req.pin_index] = req.set_mode]
               ELSE mode
  /\ drv' = IF req.outb_en
              THEN [drv EXCEPT ![req.pin_index] = req.outb_bit]
              ELSE IF req.set_en
                THEN [drv EXCEPT ![req.pin_index] = req.set_value]
                ELSE drv

PinClock(ui, uio, mode_load, req) ==
  /\ Synchronize(ui, uio)
  /\ seen_start_fall' = (seen_start_fall \/ (~mode_load /\ StartFallRaw))
  /\ DrivePins(req)
=============================================================================
