-------------------------------- MODULE Sale --------------------------------
(***************************************************************************)
(* What the marketplace promises about a listing, with every sale a single *)
(* step: an order is sold a listing that is on sale and takes it off sale, *)
(* and the listing can be sold again only after it was put back on sale.   *)
(* This is the protection against double sales that the comment on         *)
(* orders.listing_id in schema.prisma describes.                           *)
(***************************************************************************)
CONSTANTS Listings, Orders, None

VARIABLES
  listing,  \* is the listing on sale, sold, or withdrawn by its farmer?
  sale      \* the listing an order was sold, None while it was sold none

vars == <<listing, sale>>

Init ==
  /\ listing = [l \in Listings |-> "active"]
  /\ sale    = [o \in Orders |-> None]

Sell(o, l) ==
  /\ listing[l] = "active"
  /\ sale[o] = None
  /\ listing' = [listing EXCEPT ![l] = "sold"]
  /\ sale'    = [sale EXCEPT ![o] = l]

Relist(l) ==
  /\ listing' = [listing EXCEPT ![l] = "active"]
  /\ UNCHANGED sale

Withdraw(l) ==
  /\ listing' = [listing EXCEPT ![l] = "cancelled"]
  /\ UNCHANGED sale

Next == \E l \in Listings : \/ \E o \in Orders : Sell(o, l)
                            \/ Relist(l)
                            \/ Withdraw(l)

Spec == Init /\ [][Next]_vars
=============================================================================
