--------------------------- MODULE MCCmdAmntCntrl ---------------------------
(* A command that two threads serve, with an administrator.                *)
EXTENDS CmdAmntCntrl
=============================================================================
