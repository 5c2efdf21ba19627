------------------------------ MODULE MCAlerts ------------------------------
(* Alerts for TLC; the configuration gives values to the constants.        *)
EXTENDS Alerts
=============================================================================
