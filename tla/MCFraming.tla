----------------------------- MODULE MCFraming -----------------------------
(* Messages with and without a header in their data, and one of a byte. *)
EXTENDS Framing
MCMessages == {<<16, 42, 66, 1>>, <<9>>, <<17, 3, 42>>}
=============================================================================
