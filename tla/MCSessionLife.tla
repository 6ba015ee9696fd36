--------------------------- MODULE MCSessionLife ---------------------------
(* SessionLife with a tiny screen of one or two cells: what matters is who *)
(* starts sessions, when, and the time of day.                             *)
EXTENDS SessionLife

MCModes == {[rows |-> 1, cols |-> 1], [rows |-> 2, cols |-> 1]}
=============================================================================
