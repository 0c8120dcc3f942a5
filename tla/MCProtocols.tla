---------------------------- MODULE MCProtocols -----------------------------
(***************************************************************************)
(* Six-bit words: large and small, positive and negative ones.             *)
(***************************************************************************)
EXTENDS Protocols

MCInputs == {<<0, 29>>, <<1, 62>>, <<2, 7>>, <<3, 37>>}
=============================================================================
