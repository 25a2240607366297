------------------------- MODULE MCWriteAuthority -------------------------
(* Small instances of WriteAuthority for TLC.                              *)
EXTENDS WriteAuthority, TLC

CONSTANTS op1, cb1, guest1

\* The callback is for the guest that the operator adopts.
MCGuestOf == (op1 :> guest1) @@ (cb1 :> guest1)

===========================================================================
