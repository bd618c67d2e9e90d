------------------------------- MODULE MCSj16 -------------------------------
(* Instance of Sj16: two callers, a modulus of 33, universes of one and two. *)
EXTENDS Sj16

MCInputs == {<< <<0, 1, 1>>, <<1>> >>, << <<>>, <<>> >>, << <<0>>, <<0, 0>> >>}
MCForcedMasks == {33}
MCMaskDraws == {7, 36}
MCNonces == {0, 2, 11}
MCPrimes == {3, 5, 11}
MCUniverses == {1, 2}
=============================================================================
