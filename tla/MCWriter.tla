------------------------------ MODULE MCWriter ------------------------------
(* Constants and specifications for checking Writer with TLC. *)
EXTENDS Writer, TLC

MCPayloads == [imei : Imeis, time : Times] \cup {Malformed}

(* A fleet of which each vehicle reports once in a behaviour, so that no   *)
(* flush ever holds two rows of one vehicle.                               *)
OnePerVehicle == \A i, j \in Ids : stream[i] # Malformed /\ stream[j] # Malformed
                    /\ stream[i].imei = stream[j].imei => i = j

SlowFleetSpec == Init /\ [][Next /\ OnePerVehicle']_vars /\ Fairness

Symmetry == Permutations(Registered) \cup Permutations(Times) \cup Permutations(Timers)
=============================================================================
