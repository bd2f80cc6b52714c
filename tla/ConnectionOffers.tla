--------------------------- MODULE ConnectionOffers ---------------------------
(***************************************************************************)
(* What a connection's owner and the devices are offered: the methods that *)
(* the files hold (ConnectionMethods), beside the link that leads to them  *)
(* and what the panel says of it (Delivery).                               *)
(***************************************************************************)
EXTENDS ConnectionMethods, Delivery

OffersInit == MethodsInit /\ DeliveryInit

OffersNext ==
    \/ MethodsNext /\ UNCHANGED <<vars, deliveryVars>>
    \/ DeliveryNext /\ UNCHANGED methodVars

OffersSpec == OffersInit /\ [][OffersNext]_<<methodVars, vars, deliveryVars>>

(* Every entry of the catalog and of every client's file has a listener     *)
(* that answers it, no two sockets of the host share a port, and the panel  *)
(* suggests what is accepted; what the panel shows of a connection and what *)
(* its link opens are as the connection is.                                 *)
OffersAreServed == MethodsAreServed /\ LinksAreServed
=============================================================================
