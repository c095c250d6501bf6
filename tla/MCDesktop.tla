----------------------------- MODULE MCDesktop ------------------------------
(***************************************************************************)
(* Instances of Desktop for TLC: a service with two sites and one with a   *)
(* single instance; g4 lacks a key.  Besides the state after installation, *)
(* the one after a connect, so that two more operations are enough.        *)
(***************************************************************************)
EXTENDS Desktop

CONSTANTS g1, g2, g3, g4, gui, cli

TwoServices == {<<<<g1, g4, g2>>, <<g3>>>>}

(* The second service is withdrawn from, or granted to, the user.           *)
Regrouped == TwoServices \cup {<<<<g1, g2>>>>}

ConnectedInit ==
    /\ \E pl \in TwoServices :
          iface = [i \in Ifaces |-> IF i \in DOMAIN pl THEN pl[i][1] ELSE None]
    /\ records = iface
    /\ Fresh
    /\ FreshUi
    /\ shown = Status

MCSpec ==
    /\ alive = Usable
    /\ DesktopInit \/ ConnectedInit
    /\ [][DesktopNext]_desktop
    /\ Fairness
=============================================================================
