---------------------------- MODULE MCForkServer ----------------------------
(* Small instances of ForkServer for TLC: with three requests a child can  *)
(* be forked, stopped, resumed or written off, and followed by another.    *)
EXTENDS ForkServer
=============================================================================
