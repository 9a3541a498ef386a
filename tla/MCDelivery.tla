------------------------------ MODULE MCDelivery -------------------------------
(* Instance of Delivery and Paging for TLC: what the server sends of its own
   accord and what it sends page by page.  A behaviour drives one of them. *)
EXTENDS Delivery, Paging, TLC

VARIABLE focus

\* Connections are interchangeable, and so are entries.
Symmetry == Permutations(Peers) \cup Permutations(Entries)

Init == DeliveryInit /\ PagingInit /\ focus \in {"delivery", "paging"}

Next ==
    \/ focus = "delivery" /\ DeliveryNext /\ UNCHANGED <<pagingVars, focus>>
    \/ focus = "paging" /\ PagingNext /\ UNCHANGED <<deliveryVars, focus>>

Spec == Init /\ [][Next]_<<deliveryVars, pagingVars, focus>>
===============================================================================
