--------------------------- MODULE EspacioLogico ---------------------------
(***************************************************************************)
(* What the memory, the MMU and the TLB promise to programs: each loaded   *)
(* process has pages of its own, numbered from 1, which keep what was last *)
(* written in them until RESIZE takes them away; what the running process  *)
(* and the devices touch are pages of the process that asked.              *)
(***************************************************************************)
EXTENDS Naturals, Sequences

CONSTANTS Procesos, Datos, MaxPaginas, Nadie

VARIABLES
  espacio,   \* pid -> contents of its pages
  ejecuta,   \* the process in the CPU
  acceso,    \* pages its instruction still has to touch
  pedidos    \* pid -> pages a device still has to touch

vars == <<espacio, ejecuta, acceso, pedidos>>

Cargados == DOMAIN espacio
EnCalma  == ejecuta \in Cargados /\ acceso = <<>>

Init ==
  /\ espacio = [p \in {} |-> <<>>]
  /\ ejecuta = Nadie
  /\ acceso = <<>>
  /\ pedidos = [p \in Procesos |-> <<>>]

Iniciar(p) ==
  /\ p \notin Cargados
  /\ espacio' = [q \in Cargados \cup {p} |-> IF q = p THEN <<>> ELSE espacio[q]]
  /\ UNCHANGED <<ejecuta, acceso, pedidos>>

Eliminar(p) ==
  /\ p \in Cargados /\ p # ejecuta
  /\ espacio' = [q \in Cargados \ {p} |-> espacio[q]]
  /\ pedidos' = [pedidos EXCEPT ![p] = <<>>]
  /\ UNCHANGED <<ejecuta, acceso>>

Despachar(p) ==
  /\ ejecuta = Nadie
  /\ p \in Cargados /\ pedidos[p] = <<>>
  /\ ejecuta' = p
  /\ UNCHANGED <<espacio, acceso, pedidos>>

Devolver ==
  /\ EnCalma
  /\ ejecuta' = Nadie
  /\ UNCHANGED <<espacio, acceso, pedidos>>

\* A page that is added holds whatever its frame held.
Redimensionar(n) ==
  /\ EnCalma
  /\ \E nuevo \in [1 .. n -> Datos] :
       /\ \A i \in 1 .. n : i <= Len(espacio[ejecuta]) => nuevo[i] = espacio[ejecuta][i]
       /\ espacio' = [espacio EXCEPT ![ejecuta] = nuevo]
  /\ UNCHANGED <<ejecuta, acceso, pedidos>>

\* An instruction designates a page, the one after the last it designated.
Designar(i) ==
  /\ ejecuta \in Cargados /\ i \in DOMAIN espacio[ejecuta]
  /\ acceso # <<>> => i = acceso[Len(acceso)] + 1
  /\ acceso' = Append(acceso, i)
  /\ UNCHANGED <<espacio, ejecuta, pedidos>>

Leer ==
  /\ acceso # <<>> /\ acceso' = <<>>
  /\ UNCHANGED <<espacio, ejecuta, pedidos>>

Escribir(d) ==
  /\ acceso # <<>>
  /\ espacio' = [espacio EXCEPT ![ejecuta][Head(acceso)] = d]
  /\ acceso' = Tail(acceso)
  /\ UNCHANGED <<ejecuta, pedidos>>

PedirIO ==
  /\ acceso # <<>> /\ acceso' = <<>>
  /\ pedidos' = [pedidos EXCEPT ![ejecuta] = acceso]
  /\ ejecuta' = Nadie
  /\ UNCHANGED espacio

DispositivoLee(p) ==
  /\ pedidos[p] # <<>>
  /\ pedidos' = [pedidos EXCEPT ![p] = <<>>]
  /\ UNCHANGED <<espacio, ejecuta, acceso>>

DispositivoEscribe(p, d) ==
  /\ p \in Cargados /\ pedidos[p] # <<>>
  /\ espacio' = [espacio EXCEPT ![p][Head(pedidos[p])] = d]
  /\ pedidos' = [pedidos EXCEPT ![p] = Tail(@)]
  /\ UNCHANGED <<ejecuta, acceso>>

Next ==
  \/ \E p \in Procesos :
       \/ Iniciar(p) \/ Eliminar(p) \/ Despachar(p)
       \/ DispositivoLee(p) \/ \E d \in Datos : DispositivoEscribe(p, d)
  \/ \E n \in 0 .. MaxPaginas : Redimensionar(n) \/ Designar(n)
  \/ \E d \in Datos : Escribir(d)
  \/ Devolver \/ Leer \/ PedirIO

Spec == Init /\ [][Next]_vars
=============================================================================
