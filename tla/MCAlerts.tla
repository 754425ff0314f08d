------------------------------ MODULE MCAlerts ------------------------------
(* Three denials: one may be struck by a failure, one be doubled and one    *)
(* pass undisturbed behind them.                                            *)
EXTENDS Alerts
CONSTANTS a1, a2, a3
=============================================================================
