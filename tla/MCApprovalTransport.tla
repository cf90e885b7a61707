------------------------- MODULE MCApprovalTransport -------------------------
(***************************************************************************)
(* A proposal whose preview exactly fills the messages allowed beside one  *)
(* whose preview is one character too long.                                *)
(***************************************************************************)
EXTENDS ApprovalTransport, TLC

CONSTANTS p1, p2

MCFullAndOneMore == p1 :> MaxParts * PartLimit @@ p2 :> MaxParts * PartLimit + 1

=============================================================================
