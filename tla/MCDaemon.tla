------------------------------ MODULE MCDaemon ------------------------------
(***************************************************************************)
(* Instances of DaemonProcess for TLC.  A behaviour is of one scene:       *)
(* clients that find no daemon and start one, where no agents are needed,  *)
(* or daemons that shut down, two at most at a time and by the rules, with *)
(* agents and one client.                                                  *)
(***************************************************************************)
EXTENDS DaemonProcess

VARIABLE scene

DaemonInit == Init /\ scene \in {"start", "shutdown"}

\* The client that Served is about.
Watched == CHOOSE c \in Clients : TRUE

DaemonNext ==
    /\ Next /\ UNCHANGED scene
    /\ scene = "start" => running' = {} /\ trouble' < 2
    /\ scene = "shutdown" =>
          orderly' /\ Cardinality(Live') <= 2 /\ client'[Watched] = "idle"

\* The fairness of FairSpec; the other scene is about safety only.
DaemonSpec ==
    /\ DaemonInit /\ [][DaemonNext]_<<scene, vars>>
    /\ WF_vars(scene = "start" /\ \E d \in Daemons : DaemonStep(d))
    /\ \A c \in Clients : SF_vars(scene = "start" /\ Persists(c))
=============================================================================
