------------------------------ MODULE MCLauncher -----------------------------
(* A small instance of the launcher, see Launcher.cfg.                      *)
EXTENDS Launcher
==============================================================================
