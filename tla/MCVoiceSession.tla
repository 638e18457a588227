--------------------------- MODULE MCVoiceSession ---------------------------
(***************************************************************************)
(* The instance of VoiceSession for TLC: the elder page and the operator   *)
(* page of the dual view, and three sentences, enough for a question, its  *)
(* answer with a second question, and a command of the other page.         *)
(***************************************************************************)
EXTENDS VoiceSession
=============================================================================
