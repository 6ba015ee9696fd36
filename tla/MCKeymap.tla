------------------------------ MODULE MCKeymap ------------------------------
(* Two keys and sequences of one to three bytes in two buckets, two bytes  *)
(* of which survive a save.  The keys 259 and 321 are above the bytes.     *)
EXTENDS Keymap

CONSTANTS k1, k2

MCSeqs == {<<27>>, <<27, 65>>, <<27, 65, 65>>}
MCTyped == {<<27>>, <<259>>, <<27, 65>>, <<27, 321, 65>>}
MCFiles == {<<>>,
            <<[key |-> k1, seq |-> <<27, 65, 65>>]>>,
            <<[key |-> k2, seq |-> <<27>>], [key |-> k1, seq |-> <<27>>]>>}
=============================================================================
