---------------------------- MODULE MCCronService ----------------------------
(***************************************************************************)
(* A one-shot job and a recurring one, one run at a time, on the file of a *)
(* service that may have crashed while it ran them.                        *)
(***************************************************************************)
EXTENDS CronService
=============================================================================
