------------------------------ MODULE MCTools ------------------------------
(***************************************************************************)
(* TLC instances of Tools.                                                 *)
(***************************************************************************)
EXTENDS Tools

(* Histories of up to six commits that all have the same files.            *)
OneFile == {[i \in 1..k |-> [f \in {"a.v"} |-> i]] : k \in 2..7}

(* A program of four instructions by itself; smaller ones beside a replay  *)
(* of the same seed, and a run that breaks.  A session in which nothing    *)
(* may go wrong has no mishaps.                                            *)
Sessions == {<<4, 0, {}, {"pass", "c"}>>, <<3, 1, {}, {"pass", "c", "d"}>>,
             <<2, 1, {"broken"}, {"pass", "c", "d"}>>, <<2, 1, {"timeout"}, {"pass", "c"}>>}

Signing(m, c, s, t, e) ==
  [mutants |-> m, commits |-> c, signs |-> s, timeouts |-> t, errors |-> e]

(* Six mutants, of which the threshold lets one survive; and two sign-offs *)
(* with two mutants, edits, commits, a time-out and an error.              *)
TwoSignings == {Signing(6, 0, 1, 0, 0), Signing(2, 1, 2, 1, 1)}
OneKilled == {Signing(2, 0, 1, 1, 0)}

Batch(e, r, p, x, k) ==
  [edits |-> e, runs |-> r, proofs |-> p, errors |-> x, kills |-> k]

(* Two proof runs with an edit, and its undoing, anywhere between; and a   *)
(* campaign that is killed and resumed, with an error.                     *)
TwoCampaigns == {Batch(2, 1, 2, 0, 0), Batch(1, 2, 0, 1, 1),
                 Batch(0, 1, 1, 0, 1)}
NoCampaigns == {Batch(0, 0, 0, 0, 0)}

TheGates == <<"directed">>
TheProps == << <<"core_boot", "core">>, <<"pin_ctrl_direction", "pin_ctrl">> >>
=============================================================================
