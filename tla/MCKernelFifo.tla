---------------------------- MODULE MCKernelFifo ----------------------------
(***************************************************************************)
(* KernelFifo with constants that a .cfg cannot write.                     *)
(***************************************************************************)
EXTENDS KernelFifo

\* A number that is shown, two that are read as error codes, one as another error.
Numbers == {3, -1, -4, -7}
=============================================================================
