---------------------------- MODULE MCAuditQueue ----------------------------
(***************************************************************************)
(* Three requests, the clean-up and a buffer smaller than their number, so *)
(* that it fills, the fallback is taken and a shutdown finds it full.      *)
(***************************************************************************)
EXTENDS AuditQueue
=============================================================================
