---------------------------- MODULE Planificador ----------------------------
(***************************************************************************)
(* What the schedulers of the kernel promise, without threads, semaphores  *)
(* or messages: five states, one process in execution, ready processes     *)
(* taken in order of arrival, those with part of their quantum left first, *)
(* and never more processes loaded than the degree of multiprogramming.    *)
(***************************************************************************)
EXTENDS Naturals, SequencesExt, FiniteSets

CONSTANTS
  Procesos,   \* the pids
  Virtual     \* virtual round robin: there is a queue of priority

VARIABLES
  estado,        \* of each process; SALE and CANCELADO: on its way to EXIT,
                 \* loaded in memory or not
  prioritarios,  \* READY+
  listos,        \* READY
  grado          \* degree of multiprogramming

vars == <<estado, prioritarios, listos, grado>>

Cargados == {p \in Procesos : estado[p] \in {"READY", "EXEC", "BLOCKED", "SALE"}}

Init ==
  /\ estado = [p \in Procesos |-> "NINGUNO"]
  /\ prioritarios = <<>>
  /\ listos = <<>>
  /\ grado \in Nat

Pasa(p, de, a) == estado[p] \in de /\ estado' = [estado EXCEPT ![p] = a]

\* A process is at most once in a queue.
SinEl(s, p) ==
  IF Contains(s, p) THEN RemoveAt(s, CHOOSE k \in 1 .. Len(s) : s[k] = p) ELSE s

\* Pids are given in order.
Crear(p) ==
  /\ Pasa(p, {"NINGUNO"}, "NEW")
  /\ \A q \in Procesos : q < p => estado[q] # "NINGUNO"
  /\ UNCHANGED <<prioritarios, listos, grado>>

\* The oldest new process, if there is room.
Admitir(p) ==
  /\ Pasa(p, {"NEW"}, "READY")
  /\ \A q \in Procesos : estado[q] = "NEW" => p <= q
  /\ Cardinality(Cargados) < grado
  /\ listos' = Append(listos, p)
  /\ UNCHANGED <<prioritarios, grado>>

Ejecutar(p) ==
  /\ Pasa(p, {"READY"}, "EXEC")
  /\ \A q \in Procesos : estado[q] # "EXEC"
  /\ Head(prioritarios \o listos) = p
  /\ prioritarios' = SinEl(prioritarios, p)
  /\ listos' = SinEl(listos, p)
  /\ UNCHANGED grado

Bloquear(p) ==
  Pasa(p, {"EXEC"}, "BLOCKED") /\ UNCHANGED <<prioritarios, listos, grado>>

\* The end of a wait or of the quantum: to the end of READY, or of READY+
\* when a wait ends.
Volver(p) ==
  /\ Pasa(p, {"BLOCKED", "EXEC"}, "READY")
  /\ \/ listos' = Append(listos, p) /\ UNCHANGED prioritarios
     \/ /\ Virtual /\ estado[p] = "BLOCKED"
        /\ prioritarios' = Append(prioritarios, p) /\ UNCHANGED listos
  /\ UNCHANGED grado

\* The program ends or the user ends it, wherever it is.
Salir(p) ==
  /\ \/ Pasa(p, {"NEW"}, "CANCELADO")
     \/ Pasa(p, {"READY", "EXEC", "BLOCKED"}, "SALE")
  /\ prioritarios' = SinEl(prioritarios, p)
  /\ listos' = SinEl(listos, p)
  /\ UNCHANGED grado

Terminar(p) ==
  Pasa(p, {"SALE", "CANCELADO"}, "EXIT") /\ UNCHANGED <<prioritarios, listos, grado>>

\* The degree never goes below what is loaded.
CambiarGrado ==
  /\ grado' \in Nat
  /\ Cardinality(Cargados) <= grado'
  /\ UNCHANGED <<estado, prioritarios, listos>>

Next ==
  \/ \E p \in Procesos :
       \/ Crear(p) \/ Admitir(p) \/ Ejecutar(p) \/ Bloquear(p) \/ Volver(p)
       \/ Salir(p) \/ Terminar(p)
  \/ CambiarGrado

Spec == Init /\ [][Next]_vars
=============================================================================
