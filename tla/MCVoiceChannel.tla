--------------------------- MODULE MCVoiceChannel --------------------------
(* a comes and goes with two visits overlapping; b with one at a time.     *)
EXTENDS VoiceChannel, TLC
CONSTANTS a, b, k1, k2, k3
MCUser == {a, b}
MCVisit == {<<a, k1>>, <<a, k2>>, <<b, k3>>}
SameSlots == Permutations({k1, k2})
=============================================================================
