--------------------------- MODULE MCAppointments ---------------------------
(* TLC instance of Appointments: slots, students and clients have no order. *)
EXTENDS Appointments, TLC

Symmetry == Permutations(Slots) \cup Permutations(Participants) \cup Permutations(Clients)

Mixed      == [kinds |-> AllKinds \ {"drop"}, swaps |-> BOOLEAN, most |-> 2, rows |-> 2]
Swapping   == [kinds |-> {"reserve", "cancel", "conclude"}, swaps |-> BOOLEAN, most |-> 1, rows |-> 3]
Deleting   == [kinds |-> {"reserve", "delete", "drop", "limit"}, swaps |-> BOOLEAN, most |-> 1, rows |-> 2]
Reserving  == [kinds |-> AllKinds \ {"cancel"}, swaps |-> {FALSE}, most |-> 1, rows |-> 2]

AllMixes == {Mixed, Swapping, Deleting, Reserving}
=============================================================================
