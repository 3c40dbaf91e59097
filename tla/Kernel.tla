------------------------------- MODULE Kernel -------------------------------
(***************************************************************************)
(* The threads of kernel/src/main.c: console, short-term scheduler,        *)
(* NEW->READY, EXIT, quantum timer and one handler per I/O interface, with *)
(* the queues, semaphores and PCBs they share.  The processes at the other *)
(* end of the sockets (CPU, memory, devices) appear as far as the kernel   *)
(* sees them.                                                              *)
(*                                                                         *)
(* Grain.  A step runs from one blocking call (sem_wait, recv) to the      *)
(* next; the sem_posts that end a critical section are in the step that    *)
(* closes it.  A step is split wherever another thread can look at what it *)
(* writes outside a critical section.                                      *)
(***************************************************************************)
EXTENDS Naturals, SequencesExt, FiniteSetsExt

CONSTANTS
  MaxPid,           \* bound: how many INICIAR_PROCESO the user types
  RECURSOS,         \* config.recursos, in the order of the configuration file
  INSTANCIAS,       \* initial instances of each resource
  Interfaces,       \* the interfaces that may connect
  GRADO,            \* initial GRADO_MULTIPROGRAMACION
  ALGORITMO,        \* config.algoritmo_planificacion
  Nulo,             \* NULL, or a name that designates nothing
  \* what the environment does in a run
  Comandos,         \* console commands the user types; interfaces stopped by hand
  Grados,           \* arguments typed for MULTIPROGRAMACION
  Programa,         \* reasons for which programs leave the CPU
  MaxInstancias,    \* bound: SIGNALs without WAIT stop at this many instances
  SignalSinWait     \* programs may SIGNAL a resource they do not hold

Pids     == 1 .. MaxPid
Recursos == ToSet(RECURSOS)

ColasFijas == {"NEW", "READY", "READY_VRR", "RUNNING", "EXIT"}
Colas      == ColasFijas \cup Recursos \cup Interfaces

\* mutex_planificacion_pausada[j] is Pausada[j + 1]
Pausada  == <<"pausada0", "pausada1", "pausada2", "pausada3">>
Pausadas == ToSet(Pausada)
\* the mutex of an interface's blocked queue is named by the interface
SemaforosFijos == Pausadas \cup {"grado", "corto", "largo", "exit", "inst"}
Semaforos      == SemaforosFijos \cup Interfaces

HilosFijos == {"consola", "corto", "largo", "exit"}
Hilos      == HilosFijos \cup Interfaces

ASSUME ConstantesBienFormadas ==
  /\ MaxPid \in Nat \ {0}
  /\ GRADO \in Nat \ {0}
  /\ MaxInstancias \in Nat
  /\ SignalSinWait \in BOOLEAN
  /\ ALGORITMO \in {"FIFO", "RR", "VRR"}
  /\ RECURSOS \in Seq(Recursos)
  /\ INSTANCIAS \in [Recursos -> Nat]
  /\ Grados \subseteq Nat \ {0}

ASSUME NombresDistintos ==
  /\ Interfaces \cap Recursos = {}
  /\ Interfaces \cap (ColasFijas \cup SemaforosFijos \cup HilosFijos) = {}
  /\ Recursos \cap (ColasFijas \cup SemaforosFijos) = {}
  /\ Nulo \notin Recursos \cup Interfaces \cup ColasFijas

CorrespondeQuantum == ALGORITMO \in {"RR", "VRR"}

VARIABLES
  pid,          \* next pid; the processes created are 1 .. pid - 1
  pcb,          \* the PCB of each process
  cola,         \* monitor_*, cola_recursos_bloqueados, interfaz->cola_bloqueados
  sem,          \* value of each semaphore
  instancias,   \* instancias_recursos
  interfaz,     \* interfaces_conectadas: the fields of each t_interfaz
  pc,           \* where each thread is
  consola,      \* PLANIFICACION_PAUSADA, the configured degree, console locals
  corto,        \* locals of recibir_proceso_desalojado
  largo,        \* locals of the long-term threads: primer_elemento, proceso_exit
  hilo_quantum, \* the timer thread of the current burst
  cpu,          \* the CPU module: what it runs and list_interrupciones
  dispatch,     \* socket conexion_cpu_dispatch, kernel to CPU
  desalojos,    \* socket conexion_cpu_dispatch, CPU to kernel
  memoria,      \* the memory module and both ways of conexion_memoria
  dispositivo   \* each I/O device: orders received, IO_LIBERAR sent

vars == <<pid, pcb, cola, sem, instancias, interfaz, pc, consola, corto,
          largo, hilo_quantum, cpu, dispatch, desalojos, memoria, dispositivo>>

procesos == <<pid, pcb, cola>>
bloqueos == <<instancias, interfaz>>
locales  == <<consola, corto, largo, hilo_quantum>>
exterior == <<cpu, dispatch, desalojos, memoria, dispositivo>>
kernel   == <<procesos, bloqueos, locales, sem, pc>>

-----------------------------------------------------------------------------
(* Helpers *)

En(h, l) == pc[h] = l
Va(h, l) == pc' = [pc EXCEPT ![h] = l]

\* Definitions whose name ends in Mut are mistaken forms of the one that
\* follows; no definition uses them (PROJECT.json, "mutants").

SemsMut(esperas, avisos) ==
  sem' = [s \in Semaforos |-> (sem[s] - (IF s \in esperas THEN 1 ELSE 0))
                              + (IF s \in avisos THEN 1 ELSE 0)]

\* sem_wait on each semaphore of esperas, sem_post on each one of avisos.
Sems(esperas, avisos) ==
  /\ \A s \in esperas : sem[s] > 0
  /\ sem' = [s \in Semaforos |-> (sem[s] - (IF s \in esperas THEN 1 ELSE 0))
                                 + (IF s \in avisos THEN 1 ELSE 0)]

SinPrimeroMut(s) == s

\* queue_pop: an empty list stays empty.
SinPrimero(s) == IF s = <<>> THEN s ELSE Tail(s)

PasaMut(p, a, b) == cola' = [cola EXCEPT ![b] = Append(@, p)]

\* mqueue_push(b, mqueue_pop(a)) for the process p at the head of a.
Pasa(p, a, b) == cola' = [cola EXCEPT ![a] = SinPrimero(@), ![b] = Append(@, p)]

PCBNuevo ==
  [estado |-> "NEW", desalojo |-> "SIN_DESALOJAR", parcial |-> FALSE,
   recursos |-> [r \in Recursos |-> 0], cola_bloqueado |-> Nulo,
   instruccion_io |-> FALSE, pedido_exit |-> FALSE]

Creados == 1 .. (pid - 1)

\* The reasons of an eviction, with the resource or interface they name
\* (Nulo: no resource has that name, or no interface of the type asked for).
Argumentos(motivo) ==
  CASE motivo \in {"WAIT_RECURSO", "SIGNAL_RECURSO"} -> Recursos \cup {Nulo}
    [] motivo = "IO" -> Interfaces \cup {Nulo}
    [] OTHER -> {Nulo}

Fines == {"EXIT_PROCESO", "FINALIZAR_PROCESO", "OUT_OF_MEMORY"}

Init ==
  /\ pid = 1
  /\ pcb = [p \in Pids |-> PCBNuevo]
  /\ cola = [c \in Colas |-> <<>>]
  /\ sem = [s \in Semaforos |->
              IF s \in {"corto", "largo", "exit"} THEN 0
              ELSE IF s = "grado" THEN GRADO ELSE 1]
  /\ instancias = INSTANCIAS
  /\ interfaz = [i \in Interfaces |->
                   [conectada |-> FALSE, disponibilidad |-> 0, pid_ejecutando |-> 0]]
  /\ pc = [h \in Hilos |-> IF h \in {"corto", "largo", "exit"} THEN "orden" ELSE "libre"]
  /\ consola = [pausada |-> FALSE, tomados |-> 0, comando |-> "NINGUNO",
                objetivo |-> 0, grado |-> GRADO]
  /\ corto = [proceso |-> 0, motivo |-> "NINGUNO", arg |-> Nulo, respuesta |-> "NINGUNA"]
  /\ largo = [entrante |-> 0, saliente |-> 0, recurso |-> Nulo]
  /\ hilo_quantum = [estado |-> "no", pid |-> 0]
  /\ cpu = [estado |-> "libre", pid |-> 0, interrupciones |-> {}]
  /\ dispatch = <<>>
  /\ desalojos = <<>>
  /\ memoria = [pedidos |-> <<>>, respuestas |-> 0, procesos |-> {}]
  /\ dispositivo = [i \in Interfaces |-> [ordenes |-> <<>>, avisos |-> 0]]

-----------------------------------------------------------------------------
(* Console thread: interpretar_comando_kernel *)

\* iniciar_proceso
IniciarProceso ==
  /\ "INICIAR_PROCESO" \in Comandos
  /\ En("consola", "libre")
  /\ pid \in Pids
  /\ pcb' = [pcb EXCEPT ![pid] = PCBNuevo]
  /\ cola' = [cola EXCEPT !["NEW"] = Append(@, pid)]
  /\ pid' = pid + 1
  /\ Sems({}, {"largo"})
  /\ UNCHANGED <<bloqueos, pc, locales, exterior>>

\* FINALIZAR_PROCESO, DETENER_PLANIFICACION and PROCESO_ESTADO first take the
\* four pausada semaphores one by one, unless the planning is already paused.
PideComando(c, p) ==
  /\ En("consola", "libre")
  /\ c = "DETENER_PLANIFICACION" => ~consola.pausada
  /\ Va("consola", IF consola.pausada THEN "ejecuta" ELSE "toma")
  /\ consola' = [consola EXCEPT !.comando = c, !.objetivo = p]
  /\ UNCHANGED <<procesos, sem, bloqueos, corto, largo, hilo_quantum, exterior>>

\* A careful user does not ask twice for the end of the same process.
PideFinalizar(p) ==
  /\ \/ "FINALIZAR_PROCESO" \in Comandos /\ ~pcb[p].pedido_exit
     \/ "REPETIR_FINALIZAR" \in Comandos
  /\ PideComando("FINALIZAR_PROCESO", p)

PideComandoGlobal ==
  \E c \in Comandos \cap {"DETENER_PLANIFICACION", "PROCESO_ESTADO"} : PideComando(c, 0)

TomaPausadaMut ==
  /\ En("consola", "toma")
  /\ Sems({Pausada[consola.tomados + 1]} \ {"pausada0"}, {})
  /\ consola' = [consola EXCEPT !.tomados = @ + 1]
  /\ Va("consola", IF consola.tomados = 3 THEN "ejecuta" ELSE "toma")
  /\ UNCHANGED <<procesos, bloqueos, corto, largo, hilo_quantum, exterior>>

TomaPausada ==
  /\ En("consola", "toma")
  /\ Sems({Pausada[consola.tomados + 1]}, {})
  /\ consola' = [consola EXCEPT !.tomados = @ + 1]
  /\ Va("consola", IF consola.tomados = 3 THEN "ejecuta" ELSE "toma")
  /\ UNCHANGED <<procesos, bloqueos, corto, largo, hilo_quantum, exterior>>

SueltasMut == Pausadas

\* A command releases the semaphores only if it took them.
Sueltas == IF consola.pausada THEN {} ELSE Pausadas

FinComando(avisos) ==
  /\ Sems({}, avisos \cup Sueltas)
  /\ consola' = [consola EXCEPT !.tomados = IF consola.pausada THEN 4 ELSE 0,
                                !.comando = "NINGUNO", !.objetivo = 0]
  /\ Va("consola", "libre")

DetenerPlanificacion ==
  /\ En("consola", "ejecuta") /\ consola.comando = "DETENER_PLANIFICACION"
  /\ consola' = [consola EXCEPT !.pausada = TRUE, !.comando = "NINGUNO"]
  /\ Va("consola", "libre")
  /\ UNCHANGED <<procesos, sem, bloqueos, corto, largo, hilo_quantum, exterior>>

IniciarPlanificacion ==
  /\ En("consola", "libre") /\ consola.pausada
  /\ Sems({}, Pausadas)
  /\ consola' = [consola EXCEPT !.pausada = FALSE, !.tomados = 0]
  /\ UNCHANGED <<procesos, bloqueos, pc, corto, largo, hilo_quantum, exterior>>

ProcesoEstado ==
  /\ En("consola", "ejecuta") /\ consola.comando = "PROCESO_ESTADO"
  /\ FinComando({})
  /\ UNCHANGED <<procesos, bloqueos, corto, largo, hilo_quantum, exterior>>

ObjetivoEn(estados) ==
  /\ En("consola", "ejecuta")
  /\ consola.comando = "FINALIZAR_PROCESO"
  /\ pcb[consola.objetivo].estado \in estados

\* In EXIT, or already asked for: nothing is done.
FinalizarSinEfecto ==
  /\ \/ ObjetivoEn({"EXIT"})
     \/ ObjetivoEn({"EXEC"}) /\ pcb[consola.objetivo].desalojo = "PEDIDO_FINALIZACION"
  /\ FinComando({})
  /\ UNCHANGED <<procesos, bloqueos, corto, largo, hilo_quantum, exterior>>

InterrumpeCpuMut(p) == UNCHANGED cpu

InterrumpeCpu(p) ==
  cpu' = IF pcb[p].desalojo = "SIN_DESALOJAR"
         THEN [cpu EXCEPT !.interrupciones = @ \cup {<<p, "FINALIZAR_PROCESO">>}]
         ELSE cpu

\* In EXEC: interrupts the CPU unless the process has left it already ...
FinalizarEnEjecucion ==
  /\ ObjetivoEn({"EXEC"})
  /\ pcb[consola.objetivo].desalojo # "PEDIDO_FINALIZACION"
  /\ InterrumpeCpu(consola.objetivo)
  /\ Va("consola", "marca")
  /\ UNCHANGED <<procesos, sem, bloqueos, locales, dispatch, desalojos, memoria, dispositivo>>

\* ... and leaves the request for the short-term scheduler.
MarcaPedidoFinalizacion ==
  /\ En("consola", "marca")
  /\ pcb' = [pcb EXCEPT ![consola.objetivo].desalojo = "PEDIDO_FINALIZACION"]
  /\ FinComando({})
  /\ UNCHANGED <<pid, cola, bloqueos, corto, largo, hilo_quantum, exterior>>

\* extraer_proceso: the queue in which a process is looked for.
ColaDe(p) ==
  CASE pcb[p].estado = "NEW" -> "NEW"
    [] pcb[p].estado = "READY" ->
         IF ALGORITMO = "VRR" /\ pcb[p].parcial THEN "READY_VRR" ELSE "READY"
    [] OTHER -> pcb[p].cola_bloqueado

ExtraerMut(s, p) == s

\* list_remove_by_condition: the process is at most once in the queue.
Extraer(s, p) == RemoveAt(s, CHOOSE k \in 1 .. Len(s) : s[k] = p)

Detenibles == {"NEW", "READY", "BLOCKED"}

\* extraer_proceso copies the sem_t of the queue: when somebody holds the
\* mutex of the interface, the copy is never posted.
FinalizarCuelga ==
  /\ ObjetivoEn({"BLOCKED"})
  /\ ColaDe(consola.objetivo) \in Interfaces
  /\ sem[ColaDe(consola.objetivo)] = 0
  /\ Va("consola", "colgada")
  /\ UNCHANGED <<procesos, sem, bloqueos, locales, exterior>>

FinalizarExtrae ==
  LET p == consola.objetivo
      c == ColaDe(p)
  IN /\ ObjetivoEn(Detenibles)
     /\ c \in Interfaces => sem[c] > 0
     /\ Contains(cola[c], p)
     /\ cola' = [cola EXCEPT ![c] = Extraer(@, p), !["EXIT"] = Append(@, p)]
     /\ pcb' = [pcb EXCEPT ![p].pedido_exit = TRUE]
     /\ FinComando({"exit"})
     /\ UNCHANGED <<pid, bloqueos, corto, largo, hilo_quantum, exterior>>

\* The process is not in that queue: NULL is pushed to EXIT and dereferenced.
FinalizarNulo ==
  LET c == ColaDe(consola.objetivo)
  IN /\ ObjetivoEn(Detenibles)
     /\ c \in Interfaces => sem[c] > 0
     /\ ~Contains(cola[c], consola.objetivo)
     /\ Va("consola", "puntero_nulo")
     /\ UNCHANGED <<procesos, sem, bloqueos, locales, exterior>>

\* MULTIPROGRAMACION upwards: one sem_post per unit.
SubeMultiprogramacion(g) ==
  /\ "MULTIPROGRAMACION" \in Comandos
  /\ En("consola", "libre")
  /\ g > consola.grado
  /\ sem' = [sem EXCEPT !["grado"] = @ + (g - consola.grado)]
  /\ consola' = [consola EXCEPT !.grado = g]
  /\ UNCHANGED <<procesos, bloqueos, pc, corto, largo, hilo_quantum, exterior>>

\* Downwards: the console waits for each unit.  (The new value is written to
\* the configuration after the last one; only this thread reads it.)
PideBajarMultiprogramacion(g) ==
  /\ "MULTIPROGRAMACION" \in Comandos
  /\ En("consola", "libre")
  /\ g < consola.grado
  /\ consola' = [consola EXCEPT !.objetivo = g]
  /\ Va("consola", "baja")
  /\ UNCHANGED <<procesos, sem, bloqueos, corto, largo, hilo_quantum, exterior>>

BajaMultiprogramacion ==
  LET g == consola.grado - 1
  IN /\ En("consola", "baja")
     /\ Sems({"grado"}, {})
     /\ consola' = [consola EXCEPT !.grado = g,
                                   !.objetivo = IF g = consola.objetivo THEN 0 ELSE @]
     /\ Va("consola", IF g = consola.objetivo THEN "libre" ELSE "baja")
     /\ UNCHANGED <<procesos, bloqueos, corto, largo, hilo_quantum, exterior>>

Usuario ==
  \/ IniciarProceso
  \/ \E p \in Creados : PideFinalizar(p)
  \/ PideComandoGlobal
  \/ IniciarPlanificacion
  \/ \E g \in Grados : SubeMultiprogramacion(g) \/ PideBajarMultiprogramacion(g)

Consola ==
  \/ TomaPausada \/ DetenerPlanificacion \/ ProcesoEstado
  \/ FinalizarSinEfecto \/ FinalizarEnEjecucion \/ MarcaPedidoFinalizacion
  \/ FinalizarCuelga \/ FinalizarExtrae \/ FinalizarNulo
  \/ BajaMultiprogramacion

-----------------------------------------------------------------------------
(* Short-term scheduler thread: planificar_corto_plazo *)

EsperaOrdenCorto ==
  /\ En("corto", "orden")
  /\ Sems({"corto"}, {})
  /\ Va("corto", "elige")
  /\ UNCHANGED <<procesos, bloqueos, locales, exterior>>

PasoCortoMut(avisos) == Sems({}, avisos)

\* A section that takes pausada1 and ends by releasing it.
PasoCorto(avisos) == Sems({"pausada1"}, {"pausada1"} \cup avisos)

ColaDeListosMut ==
  IF cola["READY"] = <<>> THEN "READY_VRR" ELSE "READY"

\* READY+ goes before READY in VRR.
ColaDeListos ==
  IF ALGORITMO = "VRR" /\ cola["READY_VRR"] # <<>> THEN "READY_VRR" ELSE "READY"

\* algoritmo_fifo_rr and algoritmo_vrr
EligeProceso ==
  LET origen == ColaDeListos
      p == Head(cola[origen])
  IN /\ En("corto", "elige")
     /\ PasoCorto({})
     /\ cola[origen] # <<>>
     /\ pcb' = [pcb EXCEPT ![p].estado = "EXEC",
                           ![p].parcial = IF origen = "READY_VRR" THEN @ ELSE FALSE]
     /\ Pasa(p, origen, "RUNNING")
     /\ Va("corto", "envia")
     /\ UNCHANGED <<pid, bloqueos, locales, exterior>>

\* The process was taken out of READY by FINALIZAR_PROCESO.
NoHayListos ==
  /\ En("corto", "elige")
  /\ PasoCorto({})
  /\ cola[ColaDeListos] = <<>>
  /\ Va("corto", "orden")
  /\ UNCHANGED <<procesos, bloqueos, locales, exterior>>

\* enviar_proceso_a_cpu, and the quantum timer for RR and VRR.
EnviaProcesoACpu ==
  LET p == Head(cola["RUNNING"])
  IN /\ En("corto", "envia")
     /\ dispatch' = Append(dispatch, [op |-> "EJECUTAR_PROCESO", pid |-> p])
     /\ hilo_quantum' = IF CorrespondeQuantum THEN [estado |-> "corre", pid |-> p] ELSE hilo_quantum
     /\ Va("corto", "recibe")
     /\ UNCHANGED <<procesos, sem, bloqueos, consola, corto, largo, cpu, desalojos, memoria, dispositivo>>

\* control_quantum: the timer expires and interrupts the CPU.
ControlQuantum ==
  /\ hilo_quantum.estado = "corre"
  /\ cpu' = [cpu EXCEPT !.interrupciones = @ \cup {<<hilo_quantum.pid, "FIN_QUANTUM">>}]
  /\ hilo_quantum' = [hilo_quantum EXCEPT !.estado = "vencido"]
  /\ UNCHANGED <<procesos, sem, bloqueos, pc, consola, corto, largo, dispatch, desalojos, memoria, dispositivo>>

\* recibir_proceso_desalojado, up to the check of the planning
RecibeDesalojo ==
  LET p == Head(cola["RUNNING"])
      m == Head(desalojos)
  IN /\ En("corto", "recibe")
     /\ desalojos # <<>>
     /\ desalojos' = Tail(desalojos)
     /\ corto' = [proceso |-> p, motivo |-> m.motivo, arg |-> m.arg, respuesta |-> "NINGUNA"]
     /\ pcb' = [pcb EXCEPT ![p].desalojo = IF @ = "SIN_DESALOJAR" THEN "DESALOJADO" ELSE @]
     /\ Va("corto", "trata")
     /\ UNCHANGED <<pid, cola, sem, bloqueos, consola, largo, hilo_quantum, cpu, dispatch, memoria, dispositivo>>

\* A pending request of the user replaces the reason of the eviction.
Motivo == IF pcb[corto.proceso].desalojo = "PEDIDO_FINALIZACION"
          THEN "FINALIZAR_PROCESO" ELSE corto.motivo

Trata(motivos) == En("corto", "trata") /\ sem["pausada1"] > 0 /\ Motivo \in motivos

\* control_quantum_desalojo
CancelaQuantum == hilo_quantum' = [estado |-> "no", pid |-> 0]

\* The running process goes to EXIT; its PCB is marked after the release.
MandaAExit(respuesta) ==
  /\ CancelaQuantum
  /\ Pasa(corto.proceso, "RUNNING", "EXIT")
  /\ corto' = [corto EXCEPT !.respuesta = respuesta]
  /\ PasoCorto({})
  /\ Va("corto", "avisa_exit")
  /\ UNCHANGED <<pid, pcb, bloqueos, consola, largo, exterior>>

TrataFin == Trata(Fines) /\ MandaAExit("NINGUNA")

TrataRecursoInvalido ==
  Trata({"WAIT_RECURSO", "SIGNAL_RECURSO"}) /\ corto.arg = Nulo /\ MandaAExit("DESALOJAR")

AvisaExit ==
  /\ En("corto", "avisa_exit")
  /\ pcb' = [pcb EXCEPT ![corto.proceso].pedido_exit = TRUE]
  /\ Sems({}, {"exit"})
  /\ Va("corto", IF corto.respuesta = "NINGUNA" THEN "limpia" ELSE "responde")
  /\ UNCHANGED <<pid, cola, bloqueos, locales, exterior>>

\* WAIT keeps pausada1 while it waits for the mutex of the instances.
TrataWait ==
  /\ Trata({"WAIT_RECURSO"}) /\ corto.arg # Nulo
  /\ Sems({"pausada1"}, {})
  /\ Va("corto", "wait")
  /\ UNCHANGED <<procesos, bloqueos, locales, exterior>>

WaitBloquea ==
  LET p == corto.proceso
      r == corto.arg
  IN /\ En("corto", "wait")
     /\ sem["inst"] > 0
     /\ instancias[r] = 0
     /\ CancelaQuantum
     /\ pcb' = [pcb EXCEPT ![p].estado = "BLOCKED", ![p].cola_bloqueado = r]
     /\ Pasa(p, "RUNNING", r)
     /\ Sems({"inst"}, {"inst", "pausada1"})
     /\ corto' = [corto EXCEPT !.respuesta = "DESALOJAR"]
     /\ Va("corto", "responde")
     /\ UNCHANGED <<pid, bloqueos, consola, largo, exterior>>

WaitConcede ==
  LET r == corto.arg
  IN /\ En("corto", "wait")
     /\ instancias[r] > 0
     /\ instancias' = [instancias EXCEPT ![r] = @ - 1]
     /\ pcb' = [pcb EXCEPT ![corto.proceso].recursos[r] = @ + 1]
     /\ Sems({"inst"}, {"inst", "pausada1"})
     /\ corto' = [corto EXCEPT !.respuesta = "CONTINUAR"]
     /\ Va("corto", "responde")
     /\ UNCHANGED <<pid, cola, interfaz, consola, largo, hilo_quantum, exterior>>

\* SIGNAL releases pausada1 before it touches the resource.
TrataSignal ==
  /\ Trata({"SIGNAL_RECURSO"}) /\ corto.arg # Nulo
  /\ PasoCorto({})
  /\ Va("corto", "signal")
  /\ UNCHANGED <<procesos, bloqueos, locales, exterior>>

DevueltoMut(n) == n

\* A SIGNAL without a WAIT before it returns nothing.
Devuelto(n) == IF n > 0 THEN n - 1 ELSE 0

SignalDevuelve ==
  /\ En("corto", "signal")
  /\ Sems({"inst"}, {})
  /\ pcb' = [pcb EXCEPT ![corto.proceso].recursos[corto.arg] = Devuelto(@)]
  /\ Va("corto", "signal_mediano")
  /\ UNCHANGED <<pid, cola, bloqueos, locales, exterior>>

HayBloqueadoMut(r) == FALSE

HayBloqueado(r) == cola[r] # <<>>

AvisaReadyMut == {}

\* The short-term scheduler is told of the process that came to READY.
AvisaReady == {"corto"}

\* The first process blocked for r gets the instance and goes to READY,
\* never to READY+; without one the instance becomes available.  pcbs is the
\* PCB table as left by what the caller does in the same step.
EntregaInstancia(r, pcbs) ==
  IF HayBloqueado(r)
  THEN LET q == Head(cola[r])
       IN /\ pcb' = [pcbs EXCEPT ![q].recursos[r] = @ + 1, ![q].estado = "READY",
                                 ![q].cola_bloqueado = Nulo]
          /\ Pasa(q, r, "READY")
          /\ Sems({"pausada2"}, {"pausada2", "inst"} \cup AvisaReady)
          /\ UNCHANGED instancias
  ELSE /\ instancias' = [instancias EXCEPT ![r] = @ + 1]
       /\ pcb' = pcbs
       /\ Sems({"pausada2"}, {"pausada2", "inst"})
       /\ UNCHANGED cola

SignalEntrega ==
  /\ En("corto", "signal_mediano")
  /\ EntregaInstancia(corto.arg, pcb)
  /\ corto' = [corto EXCEPT !.respuesta = "CONTINUAR"]
  /\ Va("corto", "responde")
  /\ UNCHANGED <<pid, interfaz, consola, largo, hilo_quantum, exterior>>

RespondeCpu ==
  /\ En("corto", "responde")
  /\ dispatch' = Append(dispatch, [op |-> corto.respuesta, pid |-> 0])
  /\ Va("corto", "limpia")
  /\ UNCHANGED <<procesos, sem, bloqueos, locales, cpu, desalojos, memoria, dispositivo>>

\* desalojo goes back to SIN_DESALOJAR; after CONTINUAR the thread waits for
\* the next message of the same process, otherwise for the next order.  (The
\* code waits by calling itself: the calls that return assign it once more
\* each.  They do so back to back and are this one step.)
LimpiaDesalojo ==
  /\ En("corto", "limpia")
  /\ pcb' = [pcb EXCEPT ![corto.proceso].desalojo = "SIN_DESALOJAR"]
  /\ corto' = [proceso |-> 0, motivo |-> "NINGUNO", arg |-> Nulo, respuesta |-> "NINGUNA"]
  /\ Va("corto", IF corto.respuesta = "CONTINUAR" THEN "recibe" ELSE "orden")
  /\ UNCHANGED <<pid, cola, sem, bloqueos, consola, largo, hilo_quantum, exterior>>

\* The quantum of the PCB goes back to the configured one.
ReiniciaQuantum(parcial) == FALSE

TrataFinQuantum ==
  LET p == corto.proceso
  IN /\ Trata({"FIN_QUANTUM"})
     /\ CancelaQuantum
     /\ pcb' = [pcb EXCEPT ![p].estado = "READY", ![p].parcial = ReiniciaQuantum(@)]
     /\ Pasa(p, "RUNNING", "READY")
     /\ PasoCorto({"corto"})
     /\ Va("corto", "limpia")
     /\ UNCHANGED <<pid, bloqueos, consola, corto, largo, exterior>>

\* cargar_quantum_restante: the time run may leave any part of the quantum.
QuantumRestante == IF ALGORITMO = "VRR" THEN BOOLEAN ELSE {FALSE}

TrataIOInvalida ==
  /\ Trata({"IO"})
  /\ corto.arg \in Interfaces => ~interfaz[corto.arg].conectada
  /\ CancelaQuantum
  /\ \E resto \in QuantumRestante : pcb' = [pcb EXCEPT ![corto.proceso].parcial = resto]
  /\ Pasa(corto.proceso, "RUNNING", "EXIT")
  /\ PasoCorto({})
  /\ Va("corto", "avisa_exit")
  /\ UNCHANGED <<pid, bloqueos, consola, corto, largo, exterior>>

\* pausada1 is kept while the thread waits for the queue of the interface.
TrataIO ==
  /\ Trata({"IO"})
  /\ corto.arg \in Interfaces /\ interfaz[corto.arg].conectada
  /\ CancelaQuantum
  /\ \E resto \in QuantumRestante : pcb' = [pcb EXCEPT ![corto.proceso].parcial = resto]
  /\ Sems({"pausada1"}, {})
  /\ Va("corto", "io")
  /\ UNCHANGED <<pid, cola, bloqueos, consola, corto, largo, exterior>>

IOBloquea ==
  LET p == corto.proceso
      i == corto.arg
  IN /\ En("corto", "io")
     /\ Sems({i}, {"pausada1"})
     /\ pcb' = [pcb EXCEPT ![p].estado = "BLOCKED", ![p].cola_bloqueado = i]
     /\ Pasa(p, "RUNNING", i)
     /\ Va("corto", "io_envia")
     /\ UNCHANGED <<pid, bloqueos, locales, exterior>>

Ordena(i, p) == dispositivo' = [dispositivo EXCEPT ![i].ordenes = Append(@, p)]

\* A free interface gets the instruction; otherwise it stays in the PCB.
IOEnvia ==
  LET p == corto.proceso
      i == corto.arg
  IN /\ En("corto", "io_envia")
     /\ IF interfaz[i].disponibilidad = 0
        THEN /\ Ordena(i, p)
             /\ interfaz' = [interfaz EXCEPT ![i].disponibilidad = 1, ![i].pid_ejecutando = p]
             /\ UNCHANGED pcb
        ELSE /\ pcb' = [pcb EXCEPT ![p].instruccion_io = TRUE]
             /\ UNCHANGED <<interfaz, dispositivo>>
     /\ Sems({}, {i})
     /\ Va("corto", "limpia")
     /\ UNCHANGED <<pid, cola, instancias, locales, cpu, dispatch, desalojos, memoria>>

Corto ==
  \/ EsperaOrdenCorto \/ EligeProceso \/ NoHayListos \/ EnviaProcesoACpu
  \/ RecibeDesalojo
  \/ TrataFin \/ TrataRecursoInvalido \/ AvisaExit
  \/ TrataWait \/ WaitBloquea \/ WaitConcede
  \/ TrataSignal \/ SignalDevuelve \/ SignalEntrega
  \/ TrataFinQuantum \/ TrataIOInvalida \/ TrataIO \/ IOBloquea \/ IOEnvia
  \/ RespondeCpu \/ LimpiaDesalojo

-----------------------------------------------------------------------------
(* Long-term scheduler, NEW -> READY thread: planificar_new_to_ready *)

\* Both long-term threads use the one socket to the memory module, without a
\* lock: whoever reads first takes the reply.
PideAMemoria(op, p) ==
  memoria' = [memoria EXCEPT !.pedidos = Append(@, [op |-> op, pid |-> p])]

RecibeDeMemoriaMut == UNCHANGED memoria

RecibeDeMemoria ==
  /\ memoria.respuestas > 0
  /\ memoria' = [memoria EXCEPT !.respuestas = @ - 1]

EsperaOrdenLargo ==
  /\ En("largo", "orden")
  /\ Sems({"largo"}, {})
  /\ Va("largo", "grado")
  /\ UNCHANGED <<procesos, bloqueos, locales, exterior>>

TomaGrado ==
  /\ En("largo", "grado")
  /\ Sems({"grado"}, {})
  /\ Va("largo", "pausa")
  /\ UNCHANGED <<procesos, bloqueos, locales, exterior>>

\* pausada0 is held until memory answers.
SacaDeNew ==
  /\ En("largo", "pausa")
  /\ cola["NEW"] # <<>>
  /\ Sems({"pausada0"}, {})
  /\ PideAMemoria("INICIAR_PROCESO", Head(cola["NEW"]))
  /\ cola' = [cola EXCEPT !["NEW"] = Tail(@)]
  /\ largo' = [largo EXCEPT !.entrante = Head(cola["NEW"])]
  /\ Va("largo", "creando")
  /\ UNCHANGED <<pid, pcb, bloqueos, consola, corto, hilo_quantum, cpu, dispatch, desalojos, dispositivo>>

\* The process it was woken for was finished while in NEW.
NewVacia ==
  /\ En("largo", "pausa")
  /\ cola["NEW"] = <<>>
  /\ Sems({"pausada0"}, {"pausada0", "grado"})
  /\ Va("largo", "orden")
  /\ UNCHANGED <<procesos, bloqueos, locales, exterior>>

PasaAReady ==
  LET p == largo.entrante
  IN /\ En("largo", "creando")
     /\ RecibeDeMemoria
     /\ pcb' = [pcb EXCEPT ![p].estado = "READY"]
     /\ cola' = [cola EXCEPT !["READY"] = Append(@, p)]
     /\ largo' = [largo EXCEPT !.entrante = 0]
     /\ Sems({}, {"corto", "pausada0"})
     /\ Va("largo", "orden")
     /\ UNCHANGED <<pid, bloqueos, consola, corto, hilo_quantum, cpu, dispatch, desalojos, dispositivo>>

Largo == EsperaOrdenLargo \/ TomaGrado \/ SacaDeNew \/ NewVacia \/ PasaAReady

-----------------------------------------------------------------------------
(* Long-term scheduler, EXIT thread: planificar_all_to_exit *)

EsperaOrdenExit ==
  /\ En("exit", "orden")
  /\ Sems({"exit"}, {})
  /\ Va("exit", "pausa")
  /\ UNCHANGED <<procesos, bloqueos, locales, exterior>>

\* A process that never left NEW holds nothing.  (The branch of the code for
\* a process already in EXIT leaves pausada3 taken; ExitSinTratar says that
\* it cannot be reached.)
ExitDesdeNew ==
  LET p == Head(cola["EXIT"])
  IN /\ En("exit", "pausa")
     /\ pcb[p].estado = "NEW"
     /\ Sems({"pausada3"}, {"pausada3"})
     /\ pcb' = [pcb EXCEPT ![p].estado = "EXIT"]
     /\ largo' = [largo EXCEPT !.saliente = p]
     /\ Va("exit", "saca")
     /\ UNCHANGED <<pid, cola, bloqueos, consola, corto, hilo_quantum, exterior>>

ExitDesdeOtro ==
  LET p == Head(cola["EXIT"])
  IN /\ En("exit", "pausa")
     /\ pcb[p].estado \in {"READY", "EXEC", "BLOCKED"}
     /\ Sems({"pausada3"}, {})
     /\ largo' = [largo EXCEPT !.saliente = p]
     /\ Va("exit", "libera")
     /\ UNCHANGED <<procesos, bloqueos, consola, corto, hilo_quantum, exterior>>

\* liberar_recursos: the resources in the order of the configuration, one
\* instance at a time.
Tenidos(p) == {k \in DOMAIN RECURSOS : pcb[p].recursos[RECURSOS[k]] > 0}

LiberaTomaInst ==
  /\ En("exit", "libera")
  /\ \E k \in Tenidos(largo.saliente) :
       /\ \A j \in Tenidos(largo.saliente) : k <= j
       /\ largo' = [largo EXCEPT !.recurso = RECURSOS[k]]
  /\ Sems({"inst"}, {})
  /\ Va("exit", "mediano")
  /\ UNCHANGED <<procesos, bloqueos, consola, corto, hilo_quantum, exterior>>

LiberaInstancia ==
  /\ En("exit", "mediano")
  /\ EntregaInstancia(largo.recurso,
                      [pcb EXCEPT ![largo.saliente].recursos[largo.recurso] = Devuelto(@)])
  /\ Va("exit", "libera")
  /\ UNCHANGED <<pid, interfaz, locales, exterior>>

\* liberar_proceso_en_memoria
LiberaMemoria ==
  /\ En("exit", "libera")
  /\ Tenidos(largo.saliente) = {}
  /\ PideAMemoria("ELIMINAR_PROCESO", largo.saliente)
  /\ Va("exit", "eliminando")
  /\ UNCHANGED <<procesos, sem, bloqueos, locales, cpu, dispatch, desalojos, dispositivo>>

MemoriaLiberada ==
  /\ En("exit", "eliminando")
  /\ RecibeDeMemoria
  /\ Sems({}, {"pausada3"})
  /\ Va("exit", "marca")
  /\ UNCHANGED <<procesos, bloqueos, locales, cpu, dispatch, desalojos, dispositivo>>

DevuelveGradoMut == {}

DevuelveGrado == {"grado"}

\* The state changes after pausada3 is released.
MarcaExit ==
  /\ En("exit", "marca")
  /\ pcb' = [pcb EXCEPT ![largo.saliente].estado = "EXIT"]
  /\ Sems({}, DevuelveGrado)
  /\ Va("exit", "saca")
  /\ UNCHANGED <<pid, cola, bloqueos, locales, exterior>>

SacaDeExit ==
  /\ En("exit", "saca")
  /\ pcb' = [pcb EXCEPT ![largo.saliente].instruccion_io = FALSE]
  /\ cola' = [cola EXCEPT !["EXIT"] = SinPrimero(@)]
  /\ largo' = [largo EXCEPT !.saliente = 0]
  /\ Va("exit", "orden")
  /\ UNCHANGED <<pid, sem, bloqueos, consola, corto, hilo_quantum, exterior>>

Exit ==
  \/ EsperaOrdenExit \/ ExitDesdeNew \/ ExitDesdeOtro
  \/ LiberaTomaInst \/ LiberaInstancia \/ LiberaMemoria \/ MemoriaLiberada
  \/ MarcaExit \/ SacaDeExit

-----------------------------------------------------------------------------
(* The handler thread of interface i: atender_cliente *)

Conexion(i) ==
  /\ En(i, "libre") /\ ~interfaz[i].conectada
  /\ interfaz' = [interfaz EXCEPT ![i] =
                    [conectada |-> TRUE, disponibilidad |-> 0, pid_ejecutando |-> 0]]
  /\ UNCHANGED <<procesos, sem, pc, instancias, locales, exterior>>

\* The interface has no work and nobody is about to give it any.
EnDesuso(i) ==
  /\ cola[i] = <<>>
  /\ dispositivo[i] = [ordenes |-> <<>>, avisos |-> 0]
  /\ ~(pc["corto"] \in {"io", "io_envia"} /\ corto.arg = i)

\* The receive fails: the interface leaves the list and its queue is destroyed.
\* (An interface in use is not stopped: the code has a TODO for it.)
Desconexion(i) ==
  /\ "DESCONECTAR_INTERFAZ" \in Comandos
  /\ En(i, "libre") /\ interfaz[i].conectada
  /\ EnDesuso(i)
  /\ interfaz' = [interfaz EXCEPT ![i] =
                    [conectada |-> FALSE, disponibilidad |-> 0, pid_ejecutando |-> 0]]
  /\ UNCHANGED <<procesos, sem, pc, instancias, locales, exterior>>

RecibeIOLiberar(i) ==
  /\ En(i, "libre")
  /\ dispositivo[i].avisos > 0
  /\ dispositivo' = [dispositivo EXCEPT ![i].avisos = @ - 1]
  /\ Va(i, "mediano")
  /\ UNCHANGED <<procesos, sem, bloqueos, locales, cpu, dispatch, desalojos, memoria>>

TomaMediano(i) ==
  /\ En(i, "mediano")
  /\ Sems({"pausada2"}, {})
  /\ Va(i, "cola")
  /\ UNCHANGED <<procesos, bloqueos, locales, exterior>>

AtendidoMut(i) == cola[i] # <<>>

\* The process that was using the interface, unless it was finished meanwhile.
Atendido(i) == cola[i] # <<>> /\ Head(cola[i]) = interfaz[i].pid_ejecutando

DesbloqueaIO(i) ==
  LET p == Head(cola[i])
  IN /\ En(i, "cola")
     /\ Atendido(i)
     /\ Sems({i}, {"pausada2", "corto"})
     /\ pcb' = [pcb EXCEPT ![p].estado = "READY"]
     /\ Pasa(p, i, IF ALGORITMO = "VRR" /\ pcb[p].parcial THEN "READY_VRR" ELSE "READY")
     /\ Va(i, "siguiente")
     /\ UNCHANGED <<pid, bloqueos, locales, exterior>>

NadieQueDesbloquear(i) ==
  /\ En(i, "cola")
  /\ ~Atendido(i)
  /\ Sems({i}, {"pausada2"})
  /\ Va(i, "siguiente")
  /\ UNCHANGED <<procesos, bloqueos, locales, exterior>>

\* The next blocked process gets the interface; its stored instruction is sent.
AtiendeSiguiente(i) ==
  LET p == Head(cola[i])
  IN /\ En(i, "siguiente")
     /\ cola[i] # <<>>
     /\ pcb[p].instruccion_io
     /\ interfaz' = [interfaz EXCEPT ![i].pid_ejecutando = p]
     /\ Ordena(i, p)
     /\ pcb' = [pcb EXCEPT ![p].instruccion_io = FALSE]
     /\ Sems({}, {i})
     /\ Va(i, "libre")
     /\ UNCHANGED <<pid, cola, instancias, locales, cpu, dispatch, desalojos, memoria>>

LiberaInterfaz(i) ==
  /\ En(i, "siguiente")
  /\ cola[i] = <<>>
  /\ interfaz' = [interfaz EXCEPT ![i].disponibilidad = 0]
  /\ Sems({}, {i})
  /\ Va(i, "libre")
  /\ UNCHANGED <<procesos, instancias, locales, exterior>>

Manejador(i) ==
  \/ RecibeIOLiberar(i) \/ TomaMediano(i) \/ DesbloqueaIO(i) \/ NadieQueDesbloquear(i)
  \/ AtiendeSiguiente(i) \/ LiberaInterfaz(i)

-----------------------------------------------------------------------------
(* The other end of the sockets *)

\* CPU: a process arrives by dispatch.
CpuRecibeProceso ==
  /\ cpu.estado = "libre"
  /\ dispatch # <<>>
  /\ dispatch' = Tail(dispatch)
  /\ cpu' = [cpu EXCEPT !.estado = "ejecuta", !.pid = Head(dispatch).pid]
  /\ UNCHANGED <<kernel, desalojos, memoria, dispositivo>>

\* desalojo_proceso
Desaloja(m) == desalojos' = Append(desalojos, m)

\* check_interrupt drops every interrupt of the process that is running.
SinInterrupciones(p) == {x \in cpu.interrupciones : x[1] # p}

CpuLibre == [estado |-> "libre", pid |-> 0, interrupciones |-> SinInterrupciones(cpu.pid)]

\* An instruction that ends the burst: EXIT, an I/O, a RESIZE without memory.
CpuTermina(motivo) ==
  /\ cpu.estado = "ejecuta"
  /\ \E a \in Argumentos(motivo) : Desaloja([motivo |-> motivo, arg |-> a])
  /\ cpu' = CpuLibre
  /\ UNCHANGED <<kernel, dispatch, memoria, dispositivo>>

\* What a program does with resources in a run (an assumption on programs).
ProgramaPuede(motivo, r) ==
  (motivo = "SIGNAL_RECURSO" /\ r \in Recursos) =>
    \/ pcb[cpu.pid].recursos[r] > 0
    \/ SignalSinWait /\ instancias[r] < MaxInstancias

\* WAIT and SIGNAL: the CPU stops until the kernel answers.
CpuPideRecurso(motivo) ==
  /\ cpu.estado = "ejecuta"
  /\ \E r \in Argumentos(motivo) :
       ProgramaPuede(motivo, r) /\ Desaloja([motivo |-> motivo, arg |-> r])
  /\ cpu' = [cpu EXCEPT !.estado = "pide"]
  /\ UNCHANGED <<kernel, dispatch, memoria, dispositivo>>

\* The first message on the socket is taken for the answer.  DESALOJAR ends the
\* burst and anything else continues it, a new process included: from there
\* on the bytes of the socket are read out of step.
CpuRecibeRespuesta ==
  /\ cpu.estado = "pide"
  /\ dispatch # <<>>
  /\ dispatch' = Tail(dispatch)
  /\ cpu' = CASE Head(dispatch).op = "DESALOJAR" -> CpuLibre
              [] Head(dispatch).op = "CONTINUAR" -> [cpu EXCEPT !.estado = "ejecuta"]
              [] OTHER -> [cpu EXCEPT !.estado = "desfasada"]
  /\ UNCHANGED <<kernel, desalojos, memoria, dispositivo>>

\* check_interrupt after an instruction: FINALIZAR_PROCESO has priority.
CpuInterrumpida ==
  /\ cpu.estado = "ejecuta"
  /\ \E x \in cpu.interrupciones : x[1] = cpu.pid
  /\ Desaloja([motivo |-> IF <<cpu.pid, "FINALIZAR_PROCESO">> \in cpu.interrupciones
                          THEN "FINALIZAR_PROCESO" ELSE "FIN_QUANTUM",
               arg |-> Nulo])
  /\ cpu' = CpuLibre
  /\ UNCHANGED <<kernel, dispatch, memoria, dispositivo>>

Cpu ==
  \/ CpuRecibeProceso \/ CpuRecibeRespuesta \/ CpuInterrumpida
  \/ \E m \in Programa \cap {"EXIT_PROCESO", "OUT_OF_MEMORY", "IO"} : CpuTermina(m)
  \/ \E m \in Programa \cap {"WAIT_RECURSO", "SIGNAL_RECURSO"} : CpuPideRecurso(m)

\* Memory serves the requests of its socket in order and answers each one.
MemoriaAtiende ==
  LET m == Head(memoria.pedidos)
  IN /\ memoria.pedidos # <<>>
     /\ memoria' = [pedidos |-> Tail(memoria.pedidos),
                    respuestas |-> memoria.respuestas + 1,
                    procesos |-> IF m.op = "INICIAR_PROCESO"
                                 THEN memoria.procesos \cup {m.pid}
                                 ELSE memoria.procesos \ {m.pid}]
     /\ UNCHANGED <<kernel, cpu, dispatch, desalojos, dispositivo>>

\* A device executes its orders one by one and reports each one.
DispositivoTermina(i) ==
  /\ dispositivo[i].ordenes # <<>>
  /\ dispositivo' = [dispositivo EXCEPT ![i].ordenes = Tail(@), ![i].avisos = @ + 1]
  /\ UNCHANGED <<kernel, cpu, dispatch, desalojos, memoria>>

-----------------------------------------------------------------------------
\* After a NULL dereference nothing runs any more.
Caido == En("consola", "puntero_nulo")

Next ==
  /\ ~Caido
  /\ \/ Usuario \/ Consola \/ Corto \/ Largo \/ Exit \/ ControlQuantum
     \/ \E i \in Interfaces :
          Conexion(i) \/ Desconexion(i) \/ Manejador(i) \/ DispositivoTermina(i)
     \/ Cpu \/ MemoriaAtiende

Spec == Init /\ [][Next]_vars
=============================================================================
