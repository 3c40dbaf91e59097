------------------------------ MODULE MCKernel ------------------------------
(* Instances of the kernel for TLC. *)
EXTENDS KernelProperties

CONSTANTS r1, r2

SinRecursos == <<>>
UnRecurso   == <<r1>>
DosRecursos == <<r1, r2>>

UnaInstancia == [r \in Recursos |-> 1]
=============================================================================
