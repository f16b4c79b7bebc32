---------------------------- MODULE MCMembership ----------------------------
(* Who is in a Crew: Members by their endpoints, Guests by admission.  The   *)
(* two share no state: TLC explores the one or the other.  Members' sessions *)
(* are interchangeable, but for one; so are endpoints, and with its callback *)
(* endpoint a Guest.                                                         *)
EXTENDS MembershipEndpoint, GuestAdmission, TLC

CONSTANTS p, q

VARIABLE part

Init == part \in {"endpoints", "guests"} /\ EndpointInit /\ GuestInit

Publishing == part = "endpoints" /\ EndpointNext /\ UNCHANGED <<part, guestVars>>
Admitting == part = "guests" /\ GuestNext /\ UNCHANGED <<part, endpointVars>>

Next == Publishing \/ Admitting
Spec == Init /\ [][Next]_<<part, endpointVars, guestVars>>

Symmetry == Permutations({p, q}) \cup Permutations(Endpoints)
View == IF part = "endpoints" THEN <<part, endpointVars>> ELSE <<part, guestVars>>
=============================================================================
