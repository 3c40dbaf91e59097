-------------------------------- MODULE MCCpu --------------------------------
(***************************************************************************)
(* Instance of Cpu: bytes of four values, words of two bytes, pages of two *)
(* bytes; programs of p1 run against one that never leaves the CPU and     *)
(* against one that waits for a resource and uses its memory.              *)
(***************************************************************************)
EXTENDS Cpu

CONSTANTS p1, p2

TablasDef == p1 :> <<2, 0, 3>> @@ p2 :> <<1>>

Ins(op, r, s, n) == [op |-> op, r |-> r, s |-> s, n |-> n]

\* Wraps 8 bits, goes below zero and ends; ignores registers of two types.
Cuentas == <<Ins("SET", "AX", "", 3), Ins("SUM", "AX", "AX", 0), Ins("SET", "BX", "", 5),
             Ins("SUB", "BX", "AX", 0), Ins("SUM", "EAX", "AX", 0), Ins("EXIT", "", "", 0)>>

\* The second sum is the least int.
Desborda == <<Ins("SET", "EAX", "", 4), Ins("SUM", "ECX", "EAX", 0), Ins("SUM", "EAX", "ECX", 0),
              Ins("EXIT", "", "", 0)>>

\* Words and strings across pages that are apart in memory.
Muda == <<Ins("SET", "EAX", "", 1), Ins("SET", "SI", "", 9), Ins("MOV_OUT", "EAX", "SI", 0),
          Ins("MOV_IN", "EDX", "EAX", 0), Ins("SET", "SI", "", 1), Ins("SET", "DI", "", 2),
          Ins("COPY_STRING", "", "", 3), Ins("MOV_IN", "DX", "DI", 0), Ins("EXIT", "", "", 0)>>

Entra == <<Ins("SET", "EAX", "", 1), Ins("SET", "ECX", "", 2), Ins("IO_STDIN_READ", "EAX", "ECX", 0),
           Ins("IO_STDOUT_WRITE", "EAX", "ECX", 0), Ins("EXIT", "", "", 0)>>

Pide == <<Ins("SET", "CX", "", 1), Ins("WAIT", "", "", 0), Ins("IO_GEN_SLEEP", "", "", 0),
          Ins("SIGNAL", "", "", 0), Ins("JNZ", "CX", "", 1)>>

\* Never leaves the CPU by itself.
Lazo == <<Ins("SET", "AX", "", 1), Ins("JNZ", "AX", "", 0)>>

Usa == <<Ins("SET", "BX", "", 2), Ins("WAIT", "", "", 0), Ins("MOV_OUT", "AX", "BX", 0),
         Ins("EXIT", "", "", 0)>>

ProgramasDef ==
  {p1 :> a @@ p2 :> Lazo : a \in {Cuentas, Muda, Entra, Pide}} \cup
  {p1 :> a @@ p2 :> Usa : a \in {Desborda, Pide}}
==============================================================================
