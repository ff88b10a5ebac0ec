---------------------------- MODULE MCLoginFlow -----------------------------
(* Two logins: the first to gas 1 by g1, the gates and the gases being alike; *)
(* the second names the other gas, by the same gate, or comes by the other    *)
(* gate with the same gas.                                                    *)
EXTENDS LoginFlow

CONSTANTS g1, g2

MCRoutes == [i \in Logins |-> IF i = 1 THEN {<<1, g1>>} ELSE {<<2, g1>>, <<1, g2>>}]
MCFrail == {<<g1, 1>>}
=============================================================================
