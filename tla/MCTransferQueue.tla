--------------------------- MODULE MCTransferQueue ---------------------------
(***************************************************************************)
(* Instances of TransferQueue for TLC.                                     *)
(***************************************************************************)
EXTENDS TransferQueue

CONSTANT c1

\* Every task on the one connection.
OneOwner == [t \in Ids |-> c1]
=============================================================================
