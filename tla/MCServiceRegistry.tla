------------------------- MODULE MCServiceRegistry -------------------------
(* Two nodes for TLC: each one needs the service of the other by name. *)
EXTENDS ServiceRegistry

MCName == <<"gate", "login">>
MCType == <<"gates", "logins">>
MCConnectName == <<{"login"}, {"gate"}>>
MCConnectType == <<{}, {}>>

\* The same need, by type
MCNone == <<{}, {}>>
MCTypes == <<{"logins"}, {"gates"}>>
=============================================================================
