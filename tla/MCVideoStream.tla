--------------------------- MODULE MCVideoStream ---------------------------
(* VideoStream on screens of three or two rows of one cell, two rows to a  *)
(* packet: a round over the tall screen takes two ticks.                   *)
EXTENDS VideoStream

MCModes == {[rows |-> 3, cols |-> 1], [rows |-> 2, cols |-> 1]}
TallMode == {[rows |-> 3, cols |-> 1]}
=============================================================================
