----------------------- MODULE MCDocumentedOverrides ------------------------
(* Plans made one after the other, and the documented statements that the  *)
(* ones handed out so far refute.                                          *)
EXTENDS PlanOverrides

VARIABLE refuted

MCConfigs ==
    {<<>>, "StartCmd" :> "set", "Healthcheck" :> "none", "ImageFamily" :> "distroless",
     "PrivateRegistry" :> "set", [Secrets |-> "set", Binaries |-> "set"],
     [InstallCmd |-> "set", BuildCmd |-> "set"],
     [InstallCmd |-> "set", EntrypointScript |-> "set", Binaries |-> "set", ContextRoot |-> "set"]}

Refuted == IF Handed THEN {name \in DOMAIN Documented : ~Documented[name]} ELSE {}

MonitorInit == Init /\ refuted = {}
MonitorNext == Next /\ refuted' = refuted \cup Refuted
MonitorSpec == MonitorInit /\ [][MonitorNext]_<<vars, refuted>>

(* One of the statements holds of every plan made.                         *)
SomeDocumentedOverrideHolds == Handed => refuted \cup Refuted # DOMAIN Documented
=============================================================================
