-------------------------------- MODULE MCViews -------------------------------
(***************************************************************************)
(* An instance of HistoryView and one of Telemetry, two views of a node    *)
(* that share no variable: no step of one can enable, disable or disturb   *)
(* one of the other, so instead of interleaving them a behaviour belongs   *)
(* to one of the two and the other one stands still.                       *)
(***************************************************************************)
EXTENDS HistoryView, Telemetry

VARIABLE part

viewVars == <<part, historyVars, telemetryVars>>

ViewsInit ==
    /\ HistoryInit /\ TelemetryInit
    /\ part \in {"history", "telemetry"}
    /\ part = "history" => holdsKey /\ up

ViewsNext ==
    /\ UNCHANGED part
    /\ \/ part = "history" /\ HistoryNext /\ UNCHANGED telemetryVars
       \/ part = "telemetry" /\ TelemetryNext /\ UNCHANGED historyVars

ViewsSpec ==
    /\ ViewsInit /\ [][ViewsNext]_viewVars
    /\ (part = "history" => HistoryFairness)
    /\ (part = "telemetry" => TelemetryFairness)
===============================================================================
