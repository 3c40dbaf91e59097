------------------------------ MODULE Memoria ------------------------------
(***************************************************************************)
(* The memory server (memoria/src) with its clients: the kernel, which     *)
(* loads and removes processes, the CPU, whose MMU translates through the  *)
(* TLB (cpu/src/main.c), and the devices, which work on the addresses the  *)
(* CPU translated for them.  The server has a thread per client.           *)
(*                                                                         *)
(* Grain.  A step of a server thread is one critical section, or the code  *)
(* between two of them; a step of the CPU is one translated page.  A       *)
(* page's content is one datum.                                            *)
(***************************************************************************)
EXTENDS Naturals, SequencesExt, FiniteSetsExt

CONSTANTS
  Procesos,          \* pids, each loaded once: the kernel never reuses one
  CANT_MARCOS,       \* cantidad_marcos_totales
  ENTRADAS_TLB,      \* config.cantidad_entradas_tlb; 0 disables the TLB
  ALGORITMO_TLB,     \* config.algoritmo_tlb
  Datos,             \* contents of a page
  Cero,              \* what calloc fills the memory with
  Nadie              \* no process

ASSUME ConstantesMemoria ==
  /\ CANT_MARCOS \in Nat \ {0}
  /\ ENTRADAS_TLB \in Nat
  /\ ALGORITMO_TLB \in {"FIFO", "LRU"}
  /\ Nadie \notin Procesos
  /\ Cero \in Datos

Marcos == 0 .. CANT_MARCOS - 1

VARIABLES
  nacidos,        \* the pids the kernel has already loaded
  tablas,         \* lista_pcb_tablas_paginas: pid -> frames of its pages
  bitmap_marcos,
  memoria,        \* frame -> content
  tlb,            \* tlb_list, ordered by timestamp
  cpu,            \* the CPU and the server thread that attends it
  kernel,         \* the server thread that attends the kernel
  io              \* pid -> frames its device still has to work on

vars == <<nacidos, tablas, bitmap_marcos, memoria, tlb, cpu, kernel, io>>

Cargados == DOMAIN tablas

CpuLibre    == [pid |-> Nadie, fase |-> "libre", cant |-> 0, i |-> 0,
                marcos |-> <<>>, paginas |-> <<>>]
Ejecutando(p) == [CpuLibre EXCEPT !.pid = p, !.fase = "ejecuta"]
EnReposo    == [pid |-> Nadie, marcos |-> <<>>]

Init ==
  /\ nacidos = {}
  /\ tablas = [p \in {} |-> <<>>]
  /\ bitmap_marcos = [m \in Marcos |-> FALSE]
  /\ memoria = [m \in Marcos |-> Cero]
  /\ tlb = <<>>
  /\ cpu = CpuLibre
  /\ kernel = EnReposo
  /\ io = [p \in Procesos |-> <<>>]

-----------------------------------------------------------------------------
(* Kernel client. *)

\* crear_proceso, then CONTINUAR.
IniciarProceso(p) ==
  /\ kernel = EnReposo
  /\ p \notin nacidos
  /\ nacidos' = nacidos \cup {p}
  /\ tablas' = [q \in Cargados \cup {p} |-> IF q = p THEN <<>> ELSE tablas[q]]
  /\ UNCHANGED <<bitmap_marcos, memoria, tlb, cpu, kernel, io>>

\* eliminar_proceso: the process leaves the list.  The kernel asks for it once
\* the process has left the CPU; it may still be waiting for a device.
SacarDeLista(p) ==
  /\ kernel = EnReposo
  /\ p \in Cargados /\ cpu.pid # p
  /\ kernel' = [pid |-> p, marcos |-> tablas[p]]
  /\ tablas' = [q \in Cargados \ {p} |-> tablas[q]]
  /\ UNCHANGED <<nacidos, bitmap_marcos, memoria, tlb, cpu, io>>

\* Definitions whose name ends in Mut are mistaken forms of the one that
\* follows; no definition uses them (PROJECT.json, "mutants").

LiberarMut(bits, ms) == bits

Liberar(bits, ms) == [m \in Marcos |-> bits[m] /\ m \notin ms]
Ocupar(bits, ms)  == [m \in Marcos |-> bits[m] \/ m \in ms]

\* eliminar_proceso: liberar_paginas of all its pages, then CONTINUAR.
LiberarTodas ==
  /\ kernel.pid # Nadie
  /\ bitmap_marcos' = Liberar(bitmap_marcos, ToSet(kernel.marcos))
  /\ kernel' = EnReposo
  /\ UNCHANGED <<nacidos, tablas, memoria, tlb, cpu, io>>

-----------------------------------------------------------------------------
(* CPU: dispatch and RESIZE. *)

\* The kernel dispatches a loaded process that no device is serving.
RecibeProceso(p) ==
  /\ cpu.fase = "libre"
  /\ p \in Cargados /\ io[p] = <<>>
  /\ cpu' = Ejecutando(p)
  /\ UNCHANGED <<nacidos, tablas, bitmap_marcos, memoria, tlb, kernel, io>>

DevuelveProceso ==
  /\ cpu.fase = "ejecuta"
  /\ cpu' = CpuLibre
  /\ UNCHANGED <<nacidos, tablas, bitmap_marcos, memoria, tlb, kernel, io>>

Paginas(p) == Len(tablas[p])

\* RESIZE beyond the memory: OUT_OF_MEMORY at once, and the CPU gives the
\* process back.
ResizeExcesivo ==
  /\ cpu.fase = "ejecuta"
  /\ cpu' = CpuLibre
  /\ UNCHANGED <<nacidos, tablas, bitmap_marcos, memoria, tlb, kernel, io>>

\* RESIZE to n pages, more than it has: the search for frames begins.
ResizeAmplia(n) ==
  /\ cpu.fase = "ejecuta"
  /\ n > Paginas(cpu.pid)
  /\ cpu' = [cpu EXCEPT !.fase = "busca", !.cant = n - Paginas(cpu.pid)]
  /\ UNCHANGED <<nacidos, tablas, bitmap_marcos, memoria, tlb, kernel, io>>

BuscaMarcoMut ==
  /\ cpu.fase = "busca"
  /\ cpu.i < CANT_MARCOS /\ Len(cpu.marcos) < cpu.cant
  /\ cpu' = [cpu EXCEPT !.i = @ + 1, !.marcos = Append(@, cpu.i)]
  /\ UNCHANGED <<nacidos, tablas, bitmap_marcos, memoria, tlb, kernel, io>>

\* buscar_marcos_libres: one frame per critical section.
BuscaMarco ==
  /\ cpu.fase = "busca"
  /\ cpu.i < CANT_MARCOS /\ Len(cpu.marcos) < cpu.cant
  /\ cpu' = [cpu EXCEPT !.i = @ + 1,
                        !.marcos = IF bitmap_marcos[cpu.i] THEN @
                                   ELSE Append(@, cpu.i)]
  /\ UNCHANGED <<nacidos, tablas, bitmap_marcos, memoria, tlb, kernel, io>>

\* Not enough: NULL, OUT_OF_MEMORY.
FaltanMarcos ==
  /\ cpu.fase = "busca"
  /\ cpu.i = CANT_MARCOS /\ Len(cpu.marcos) < cpu.cant
  /\ cpu' = CpuLibre
  /\ UNCHANGED <<nacidos, tablas, bitmap_marcos, memoria, tlb, kernel, io>>

\* The frames found are marked in one critical section, later.
MarcaOcupados ==
  /\ cpu.fase = "busca"
  /\ Len(cpu.marcos) = cpu.cant
  /\ bitmap_marcos' = Ocupar(bitmap_marcos, ToSet(cpu.marcos))
  /\ cpu' = [cpu EXCEPT !.fase = "amplia"]
  /\ UNCHANGED <<nacidos, tablas, memoria, tlb, kernel, io>>

\* ampliar_proceso, then CONTINUAR.
AmpliarProceso ==
  /\ cpu.fase = "amplia"
  /\ tablas' = [tablas EXCEPT ![cpu.pid] = @ \o cpu.marcos]
  /\ cpu' = Ejecutando(cpu.pid)
  /\ UNCHANGED <<nacidos, bitmap_marcos, memoria, tlb, kernel, io>>

\* reducir_proceso: liberar_paginas from the end, then CONTINUAR.
ReducirProceso(n) ==
  /\ cpu.fase = "ejecuta"
  /\ n < Paginas(cpu.pid)
  /\ LET tabla == tablas[cpu.pid]
     IN  /\ tablas' = [tablas EXCEPT ![cpu.pid] = SubSeq(tabla, 1, n)]
         /\ bitmap_marcos' =
              Liberar(bitmap_marcos, {tabla[j] : j \in n + 1 .. Len(tabla)})
  /\ UNCHANGED <<nacidos, memoria, tlb, cpu, kernel, io>>

-----------------------------------------------------------------------------
(* CPU: the MMU. *)

\* An instruction touches `cant` pages of its process from `pagina` on.
\* Programs address only pages they have (paginacion.c:156).
PideAcceso(pagina, cant) ==
  /\ cpu.fase = "ejecuta"
  /\ pagina + cant <= Paginas(cpu.pid)
  /\ cpu' = [cpu EXCEPT !.fase = "traduce",
                        !.paginas = [j \in 1 .. cant |-> pagina + j - 1]]
  /\ UNCHANGED <<nacidos, tablas, bitmap_marcos, memoria, tlb, kernel, io>>

BuscarMarcoTlbMut(pid, pagina) == SelectInSeq(tlb, LAMBDA e : e.pagina = pagina)

\* Index of the entry of that page; 0 is NULL.
BuscarMarcoTlb(pid, pagina) ==
  SelectInSeq(tlb, LAMBDA e : e.pid = pid /\ e.pagina = pagina)

\* A hit; under LRU the entry becomes the most recent.
TlbHit ==
  LET k == BuscarMarcoTlb(cpu.pid, Head(cpu.paginas))
  IN  /\ cpu.fase = "traduce" /\ cpu.paginas # <<>>
      /\ k # 0
      /\ cpu' = [cpu EXCEPT !.paginas = Tail(@), !.marcos = Append(@, tlb[k].marco)]
      /\ tlb' = IF ALGORITMO_TLB = "LRU" THEN Append(RemoveAt(tlb, k), tlb[k]) ELSE tlb
      /\ UNCHANGED <<nacidos, tablas, bitmap_marcos, memoria, kernel, io>>

AgregarMarcoTlbMut(entrada) == Append(tlb, entrada)

\* remover_entrada_segun_algoritmo drops the oldest when the TLB is full.
AgregarMarcoTlb(entrada) ==
  IF ENTRADAS_TLB = 0 THEN tlb
  ELSE Append(IF Len(tlb) = ENTRADAS_TLB THEN Tail(tlb) ELSE tlb, entrada)

\* A miss: the server answers obtener_marco_proceso.
TlbMiss ==
  LET pagina == Head(cpu.paginas)
      marco  == tablas[cpu.pid][pagina + 1]
  IN  /\ cpu.fase = "traduce" /\ cpu.paginas # <<>>
      /\ BuscarMarcoTlb(cpu.pid, pagina) = 0
      /\ cpu' = [cpu EXCEPT !.paginas = Tail(@), !.marcos = Append(@, marco)]
      /\ tlb' = AgregarMarcoTlb([pid |-> cpu.pid, pagina |-> pagina, marco |-> marco])
      /\ UNCHANGED <<nacidos, tablas, bitmap_marcos, memoria, kernel, io>>

\* MOV_IN, or the first half of COPY_STRING: PETICION_LECTURA.
CpuLee ==
  /\ cpu.fase = "traduce" /\ cpu.paginas = <<>>
  /\ cpu' = Ejecutando(cpu.pid)
  /\ UNCHANGED <<nacidos, tablas, bitmap_marcos, memoria, tlb, kernel, io>>

\* MOV_OUT, or the second half of COPY_STRING: the server writes the next
\* piece of a PETICION_ESCRITURA, then CONTINUAR.
CpuEscribe(d) ==
  /\ cpu.fase \in {"traduce", "escribe"} /\ cpu.paginas = <<>>
  /\ memoria' = [memoria EXCEPT ![Head(cpu.marcos)] = d]
  /\ cpu' = IF Len(cpu.marcos) = 1 THEN Ejecutando(cpu.pid)
            ELSE [cpu EXCEPT !.fase = "escribe", !.marcos = Tail(@)]
  /\ UNCHANGED <<nacidos, tablas, bitmap_marcos, tlb, kernel, io>>

\* An I/O instruction: the process leaves the CPU and the addresses go to the
\* device through the kernel.
CpuPideIO ==
  /\ cpu.fase = "traduce" /\ cpu.paginas = <<>>
  /\ io' = [io EXCEPT ![cpu.pid] = cpu.marcos]
  /\ cpu' = CpuLibre
  /\ UNCHANGED <<nacidos, tablas, bitmap_marcos, memoria, tlb, kernel>>

-----------------------------------------------------------------------------
(* Device client. *)

\* IO_STDIN_READ, IO_FS_READ: the server writes the next piece.
DispositivoEscribe(p, d) ==
  /\ io[p] # <<>>
  /\ memoria' = [memoria EXCEPT ![Head(io[p])] = d]
  /\ io' = [io EXCEPT ![p] = Tail(@)]
  /\ UNCHANGED <<nacidos, tablas, bitmap_marcos, tlb, cpu, kernel>>

\* IO_STDOUT_WRITE, IO_FS_WRITE.
DispositivoLee(p) ==
  /\ io[p] # <<>>
  /\ io' = [io EXCEPT ![p] = <<>>]
  /\ UNCHANGED <<nacidos, tablas, bitmap_marcos, memoria, tlb, cpu, kernel>>

-----------------------------------------------------------------------------

Kernel ==
  \/ \E p \in Procesos : IniciarProceso(p) \/ SacarDeLista(p)
  \/ LiberarTodas

Resize ==
  \/ \E n \in 0 .. CANT_MARCOS : ResizeAmplia(n) \/ ReducirProceso(n)
  \/ ResizeExcesivo \/ BuscaMarco \/ FaltanMarcos \/ MarcaOcupados \/ AmpliarProceso

Acceso ==
  \/ \E pagina \in 0 .. CANT_MARCOS - 1, cant \in 1 .. 2 : PideAcceso(pagina, cant)
  \/ TlbHit \/ TlbMiss \/ CpuLee \/ CpuPideIO
  \/ \E d \in Datos : CpuEscribe(d)

Dispositivo ==
  \E p \in Procesos :
    DispositivoLee(p) \/ \E d \in Datos : DispositivoEscribe(p, d)

Next ==
  \/ Kernel
  \/ \E p \in Procesos : RecibeProceso(p)
  \/ DevuelveProceso
  \/ Resize
  \/ Acceso
  \/ Dispositivo

Spec == Init /\ [][Next]_vars

-----------------------------------------------------------------------------
(* Properties. *)

Entradas == [pid : Procesos, pagina : Marcos, marco : Marcos]

\* Every variable holds a value of its type, and the TLB keeps its size.
TypeOK ==
  /\ nacidos \subseteq Procesos
  /\ Cargados \subseteq Procesos
  /\ tablas \in [Cargados -> Seq(Marcos)]
  /\ bitmap_marcos \in [Marcos -> BOOLEAN]
  /\ memoria \in [Marcos -> Datos]
  /\ tlb \in Seq(Entradas) /\ Len(tlb) <= ENTRADAS_TLB
  /\ cpu \in [pid : Procesos \cup {Nadie},
              fase : {"libre", "ejecuta", "busca", "amplia", "traduce", "escribe"},
              cant : 0 .. CANT_MARCOS, i : 0 .. CANT_MARCOS,
              marcos : Seq(Marcos), paginas : Seq(Marcos)]
  /\ kernel \in [pid : Procesos \cup {Nadie}, marcos : Seq(Marcos)]
  /\ io \in [Procesos -> Seq(Marcos)]

\* The frames of the loaded processes, those of the process that is being
\* removed and those marked for a RESIZE that has not added them yet.
Reservados == IF cpu.fase = "amplia" THEN cpu.marcos ELSE <<>>
EnUso(p)   == IF p \in Cargados THEN tablas[p]
              ELSE IF p = kernel.pid THEN kernel.marcos ELSE <<>>

\* The bitmap marks exactly the frames in use, and no frame is in use twice:
\* neither in two page tables nor between a table and a RESIZE under way,
\* whatever ELIMINAR_PROCESO does between the search and the marking of
\* buscar_marcos_libres.
MarcosContados ==
  LET usos == {<<p, j>> : p \in Procesos, j \in 1 .. CANT_MARCOS}
      Vale(u)  == u[2] \in DOMAIN EnUso(u[1])
      Marco(u) == EnUso(u[1])[u[2]]
      U == {u \in usos : Vale(u)}
      ocupados == {Marco(u) : u \in U} \cup ToSet(Reservados)
  IN  /\ ocupados = {m \in Marcos : bitmap_marcos[m]}
      /\ Cardinality(ocupados) = Cardinality(U) + Len(Reservados)

\* The frames a RESIZE has found stay free until it marks them, although the
\* search and the marking are different critical sections.
BusquedaVigente ==
  cpu.fase = "busca" => \A m \in ToSet(cpu.marcos) : ~ bitmap_marcos[m]

\* An entry of the TLB for a page its process has names the frame of that page.
TlbVigente ==
  \A e \in ToSet(tlb) :
    e.pid \in Cargados /\ e.pagina < Paginas(e.pid) =>
      e.marco = tablas[e.pid][e.pagina + 1]

\* What the specification of the exercise says of a TLB hit ("se debera
\* devolver la direccion fisica (o frame) correspondiente"): the frames an
\* access has translated so far are frames of its process.
TraduccionCorrecta ==
  cpu.fase = "traduce" => ToSet(cpu.marcos) \subseteq ToSet(tablas[cpu.pid])

\* Devices work for processes that are still loaded.
SinIOHuerfana == \A p \in Procesos : io[p] # <<>> => p \in Cargados

\* Up to the first stale TLB entry and the first orphan request.
Sano == TlbVigente /\ SinIOHuerfana

\* Page tables, bitmap, TLB and the addresses given to the devices, together,
\* implement the private address spaces: a frame stands for the page of its
\* process that it holds (0 for a frame that is not of that process).
PaginasDe(p, marcos) ==
  [j \in DOMAIN marcos |-> SelectInSeq(tablas[p], LAMBDA m : m = marcos[j])]

Logico == INSTANCE EspacioLogico WITH
            MaxPaginas <- CANT_MARCOS,
            espacio <- [p \in Cargados |-> [j \in DOMAIN tablas[p] |-> memoria[tablas[p][j]]]],
            ejecuta <- cpu.pid,
            acceso  <- IF cpu.fase \in {"traduce", "escribe"}
                       THEN PaginasDe(cpu.pid, cpu.marcos) ELSE <<>>,
            pedidos <- [p \in Procesos |->
                          IF p \in Cargados THEN PaginasDe(p, io[p]) ELSE <<>>]

ImplementaEspacioLogico == Logico!Spec
=============================================================================
