------------------------- MODULE ConnectionSettings -------------------------
(***************************************************************************)
(* The settings of a customer's read connection, as far as they decide     *)
(* where a password goes and whether evidence still counts: the AIS        *)
(* destination, and all other material settings together.                  *)
(***************************************************************************)
CONSTANTS
    Address,        \* where a password is sent: AIS address and certificate
    Setting         \* the other material settings of a profile

Config == [address : Address, setting : Setting]
NoConfig == [address |-> "none", setting |-> "none"]
=============================================================================
