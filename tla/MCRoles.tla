------------------------------- MODULE MCRoles -------------------------------
(* Small instances of Roles for TLC.                                       *)
EXTENDS Roles

CONSTANTS u1, w1, read, write
=============================================================================
