-------------------------- MODULE MCAlertDispatcher --------------------------
(***************************************************************************)
(* Small instances of AlertDispatcher: one alert, which three processes    *)
(* deliver at once.                                                        *)
(***************************************************************************)
EXTENDS AlertDispatcher, TLC

OneUnit(a) == 1
=============================================================================
