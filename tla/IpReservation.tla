--------------------------- MODULE IpReservation ---------------------------
(* What a reservation of addresses promises: a holder gets as many as it    *)
(* wants at once or none, an address has at most one holder, and it goes    *)
(* from one holder to another only by way of being free.                    *)
EXTENDS FiniteSets

CONSTANTS
    Holder,  \* what may hold addresses
    IPs,     \* the addresses
    Wanted   \* how many each holder wants

VARIABLE held  \* the addresses of each holder

Init == held = [h \in Holder |-> {}]

Free == IPs \ UNION {held[h] : h \in Holder}

Reserve(h) ==
    /\ held[h] = {}
    /\ \E S \in SUBSET Free :
          /\ Cardinality(S) = Wanted[h]
          /\ held' = [held EXCEPT ![h] = S]

Release(h) ==
    /\ held[h] # {}
    /\ held' = [held EXCEPT ![h] = {}]

Next == \E h \in Holder : Reserve(h) \/ Release(h)

Spec == Init /\ [][Next]_held
=============================================================================
