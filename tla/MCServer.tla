------------------------------ MODULE MCServer ------------------------------
(* Server with two clients, one slot in the session table, a screen of one *)
(* or two cells and a keyboard buffer of two keys.                         *)
EXTENDS Server

CONSTANTS m1, m2

MCModes == {[rows |-> 1, cols |-> 1], [rows |-> 1, cols |-> 2]}

a == [code |-> 30, flags_17 |-> 0]
b == [code |-> 48, flags_17 |-> 1]
MCKeys == {a, b}
MCLocal == {b}

Frame(kind, src, bytes, payload_len, keys) ==
  [kind |-> kind, src |-> src, id |-> 7, bytes |-> bytes,
   payload_len |-> payload_len, keys |-> keys]

\* A long ping that claims a shorter payload, a status request in a runt, starts
\* of both clients, two keystrokes in one frame, and a stranger's frame.
MCFrames == {Frame("PING", m2, 3, 2, <<>>),
             Frame("STATUS_REQ", m1, 1, 0, <<>>),
             Frame("SESSION_START", m1, 2, 0, <<>>),
             Frame("SESSION_START", m2, 2, 0, <<>>),
             Frame("INJECT_KEYSTROKE", m1, 2, 2, <<a, b>>),
             Frame("IGNORED", m2, 2, 2, <<>>)}
=============================================================================
