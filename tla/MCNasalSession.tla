----------------------------- MODULE MCNasalSession -----------------------------
(* The instances of a session: each program of a family is run by exec and  *)
(* then by run.                                                             *)
EXTENDS NasalSession, NasalPrograms
=============================================================================
