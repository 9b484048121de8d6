------------------------------ MODULE MCNasalExec ------------------------------
(* The instances of the command exec: a family of programs is run by it.    *)
EXTENDS NasalExec, NasalPrograms
=============================================================================
