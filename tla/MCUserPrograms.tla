---------------------------- MODULE MCUserPrograms ----------------------------
(* UserPrograms for TLC: three programs in the order of the command line. *)
EXTENDS UserPrograms
CONSTANTS p1, p2, p3

MCExecfile == <<p1, p2, p3>>
====
