-------------------------------- MODULE MCTcp --------------------------------
(* Instances of Tcp. *)
EXTENDS Tcp

\* the peer takes one byte at a time
OneWindow == {1}

MCAppWindows == {4}
=============================================================================
