------------------------------- MODULE MCCronRun -------------------------------
(* The module TLC checks CronRun in. *)
EXTENDS CronRun
================================================================================
