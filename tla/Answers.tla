------------------------------ MODULE Answers ------------------------------
(***************************************************************************)
(* What is not known beforehand and never changes - what a program does,   *)
(* what a solver finds - is a function from the questions asked so far to  *)
(* their answers.                                                          *)
(***************************************************************************)

Possible(known, q, options) == IF q \in DOMAIN known THEN {known[q]} ELSE options

Learned(known, q, a) ==
  [x \in DOMAIN known \cup {q} |-> IF x = q THEN a ELSE known[x]]

(* What is new hides what is old.                                          *)
Over(new, old) ==
  [x \in DOMAIN new \cup DOMAIN old |-> IF x \in DOMAIN new THEN new[x] ELSE old[x]]
=============================================================================
