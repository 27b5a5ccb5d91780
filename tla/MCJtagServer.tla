---------------------------- MODULE MCJtagServer ----------------------------
(***************************************************************************)
(* Two client descriptors, one below and one above the listening socket,   *)
(* as after the close of fd_uio.                                           *)
(***************************************************************************)
EXTENDS JtagServer

MCFds == {0, 1, 2}
MCListener == 1
=============================================================================
