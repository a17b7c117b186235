----------------------------- MODULE MCLifecycle -----------------------------
(***************************************************************************)
(* An instance of Lifecycle for TLC: a size of six bits, which just counts  *)
(* the bytes of a WAV file of nine samples and not of ten; samples of half, *)
(* whole and more than the scale on both sides, and no number.              *)
(***************************************************************************)
EXTENDS Lifecycle

SmallSamples == (-3 .. 3) \cup {NaN}
SmallCounts  == {-1, 0, 1, 9, 10}

=============================================================================
