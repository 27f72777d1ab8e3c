---- MODULE MCDailyQuota ----
(***************************************************************************)
(* Three concurrent calls for two owners, claims of one to three units     *)
(* against a limit of two, and a midnight between any two commands.        *)
(***************************************************************************)
EXTENDS DailyQuota
====
