--------------------------- MODULE FrameDecodingMC ---------------------------
(* One connection sends two frames, the other one an empty frame. *)
EXTENDS FrameDecoding

CONSTANTS a1, a2

MCStream == (a1 :> <<0, 1, 0>>) @@ (a2 :> <<0>>)

=============================================================================
