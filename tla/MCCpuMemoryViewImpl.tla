------------------------ MODULE MCCpuMemoryViewImpl ------------------------
(***************************************************************************)
(* Instances of CpuMemoryViewImpl for TLC.                                 *)
(***************************************************************************)
EXTENDS CpuMemoryViewImpl, MCCpuMemoryView
=============================================================================
