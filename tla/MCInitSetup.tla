---------------------------- MODULE MCInitSetup ----------------------------
(* Two runs of initsetup and a start by hand, at any times.                 *)
EXTENDS InitSetup

CONSTANTS s1, s2, h
=============================================================================
