--------------------------- MODULE MCFuzzCampaign ---------------------------
(* Two iterations over two mutators; sessions with a frame logged out of   *)
(* the order of its number, with two equal numbers, and without frames.    *)
EXTENDS FuzzCampaign
MCTemplates == {<<1, 0>>, <<0, 0>>, <<>>}
=============================================================================
