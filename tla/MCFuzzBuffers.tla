---------------------------- MODULE MCFuzzBuffers ----------------------------
(* Messages and outputs for FuzzBuffers.  MIN_OUTPUT_SIZE is 4: there are     *)
(* outputs that are shorter, that divide it, that do not, and that are longer. *)
EXTENDS FuzzBuffers

MCByte == {"a", "b", "x", "y", "zero"}

MCInputs == {<<>>, <<"a">>, <<"a", "b">>, <<"a", "b", "b">>}

MCOutputs == {<<"x">>, <<"x", "y", "y">>, <<"y", "x">>, <<"x", "y", "y", "x", "b">>}
=============================================================================
