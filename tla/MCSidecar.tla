----------------------------- MODULE MCSidecar -----------------------------
(***************************************************************************)
(* Instances of Sidecar for TLC.                                           *)
(***************************************************************************)
EXTENDS Sidecar, TLC

CONSTANTS main, float, a, c, bye

Windows   == {main, float}
(* One request of each window, and the /shutdown call of the float window. *)
OneEach   == {a, c, bye}
Owners(R) == [r \in R |-> IF r \in {c, bye} THEN float ELSE main]
OwnersOfOneEach == Owners(OneEach)
(* The main window stays.                                                 *)
Farewells == (main :> None) @@ (float :> bye)

AllFaults == FaultKinds
=============================================================================
