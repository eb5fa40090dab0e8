---------------------------- MODULE MCCmdQueueRegs ----------------------------
(* Small instances of CmdQueueRegs: two command fields, so that a torn      *)
(* command differs from a whole one.                                        *)
EXTENDS CmdQueueRegs
===============================================================================
