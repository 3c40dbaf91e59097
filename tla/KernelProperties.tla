-------------------------- MODULE KernelProperties --------------------------
(***************************************************************************)
(* What the kernel threads must keep true of the queues, the semaphores,   *)
(* the resources and the interfaces, and the fairness under which a        *)
(* process reaches its end.                                                *)
(***************************************************************************)
EXTENDS Kernel

Estados == {"NEW", "READY", "EXEC", "BLOCKED", "EXIT"}

PCBs ==
  [estado : Estados,
   desalojo : {"SIN_DESALOJAR", "DESALOJADO", "PEDIDO_FINALIZACION"},
   parcial : BOOLEAN, recursos : [Recursos -> Nat],
   cola_bloqueado : Recursos \cup Interfaces \cup {Nulo},
   instruccion_io : BOOLEAN, pedido_exit : BOOLEAN]

Uno(cond) == IF cond THEN 1 ELSE 0

Etiquetas ==
  {"libre", "toma", "ejecuta", "marca", "baja", "colgada", "puntero_nulo",
   "orden", "elige", "envia", "recibe", "trata", "avisa_exit", "wait", "signal",
   "signal_mediano", "io", "io_envia", "responde", "limpia",
   "grado", "pausa", "creando", "libera", "mediano", "eliminando", "saca",
   "cola", "siguiente"}

PidsOCero == Pids \cup {0}
Motivos   == Fines \cup {"WAIT_RECURSO", "SIGNAL_RECURSO", "FIN_QUANTUM", "IO"}
Nombres   == Recursos \cup Interfaces \cup {Nulo}

TInterfaz == [conectada : BOOLEAN, disponibilidad : {0, 1}, pid_ejecutando : PidsOCero]
TConsola  == [pausada : BOOLEAN, tomados : 0 .. 4,
              comando : {"NINGUNO", "FINALIZAR_PROCESO", "DETENER_PLANIFICACION",
                         "PROCESO_ESTADO"},
              objetivo : Nat, grado : Nat]
TCorto    == [proceso : PidsOCero, motivo : Motivos \cup {"NINGUNO"}, arg : Nombres,
              respuesta : {"NINGUNA", "CONTINUAR", "DESALOJAR"}]
TLargo    == [entrante : PidsOCero, saliente : PidsOCero, recurso : Recursos \cup {Nulo}]
TQuantum  == [estado : {"no", "corre", "vencido"}, pid : PidsOCero]
TCpu      == [estado : {"libre", "ejecuta", "pide", "desfasada"}, pid : PidsOCero,
              interrupciones : SUBSET (PidsOCero \X {"FIN_QUANTUM", "FINALIZAR_PROCESO"})]
TDispatch == [op : {"EJECUTAR_PROCESO", "CONTINUAR", "DESALOJAR"}, pid : PidsOCero]
TDesalojo == {d \in [motivo : Motivos, arg : Nombres] : d.arg \in Argumentos(d.motivo)}
TPedido   == [op : {"INICIAR_PROCESO", "ELIMINAR_PROCESO"}, pid : PidsOCero]
TMemoria  == [pedidos : Seq(TPedido), respuestas : Nat, procesos : SUBSET PidsOCero]
TDispositivo == [ordenes : Seq(Pids), avisos : Nat]

\* The type invariant: every variable holds a value of the C type it models.
TypeOK ==
  /\ pid \in 1 .. (MaxPid + 1)
  /\ pcb \in [Pids -> PCBs]
  /\ cola \in [Colas -> Seq(Pids)]
  /\ sem \in [Semaforos -> Nat]
  /\ instancias \in [Recursos -> Nat]
  /\ interfaz \in [Interfaces -> TInterfaz]
  /\ pc \in [Hilos -> Etiquetas]
  /\ consola \in TConsola
  /\ corto \in TCorto
  /\ largo \in TLargo
  /\ hilo_quantum \in TQuantum
  /\ cpu \in TCpu
  /\ dispatch \in Seq(TDispatch)
  /\ desalojos \in Seq(TDesalojo)
  /\ memoria \in TMemoria
  /\ dispositivo \in [Interfaces -> TDispositivo]

\* What the locals of each thread are at each point of its code: the facts on
\* which the types depend.
ConsolaEnOrden ==
  /\ pc["consola"] \in {"libre", "toma", "ejecuta", "marca", "baja", "colgada", "puntero_nulo"}
  /\ pc["consola"] \in {"libre", "baja"} => consola.comando = "NINGUNO"
  /\ pc["consola"] \in {"libre", "baja"} /\ ~consola.pausada => consola.tomados = 0
  /\ En("consola", "toma") => consola.tomados <= 3 /\ ~consola.pausada
  /\ consola.pausada \/ pc["consola"] \in {"ejecuta", "marca"} => consola.tomados = 4
  /\ En("consola", "baja") => consola.objetivo < consola.grado
  /\ consola.comando = "FINALIZAR_PROCESO" => consola.objetivo \in Pids

CortoEnOrden ==
  /\ pc["corto"] \in {"orden", "elige", "envia", "recibe", "trata", "avisa_exit", "wait",
                      "signal", "signal_mediano", "io", "io_envia", "responde", "limpia"}
  /\ pc["corto"] \in {"trata", "avisa_exit", "wait", "signal", "signal_mediano", "io",
                      "io_envia", "responde", "limpia"} => corto.proceso \in Pids
  /\ En("corto", "trata") => corto.arg \in Argumentos(corto.motivo)
  /\ pc["corto"] \in {"trata", "wait", "signal", "signal_mediano", "io", "io_envia"} =>
       corto.respuesta = "NINGUNA"
  /\ En("corto", "avisa_exit") => corto.respuesta # "CONTINUAR"
  /\ En("corto", "responde") => corto.respuesta # "NINGUNA"
  /\ pc["corto"] \in {"wait", "signal", "signal_mediano"} => corto.arg \in Recursos
  /\ pc["corto"] \in {"io", "io_envia"} => corto.arg \in Interfaces

\* From the dispatch of a process to the end of its burst RUNNING holds it:
\* enviar_proceso_a_cpu and recibir_proceso_desalojado read its head unasked.
HayRunning ==
  \/ pc["corto"] \in {"envia", "recibe", "trata", "wait", "signal", "signal_mediano", "io"}
  \/ pc["corto"] \in {"responde", "limpia"} /\ corto.respuesta = "CONTINUAR"
  => cola["RUNNING"] # <<>>

LargoEnOrden ==
  /\ pc["largo"] \in {"orden", "grado", "pausa", "creando"}
  /\ pc["exit"] \in {"orden", "pausa", "libera", "mediano", "eliminando", "marca", "saca"}
  /\ En("largo", "creando") => largo.entrante \in Pids
  /\ En("exit", "mediano") => largo.recurso \in Recursos

Control == ConsolaEnOrden /\ CortoEnOrden /\ HayRunning /\ LargoEnOrden

-----------------------------------------------------------------------------
(* Semaphores *)

Mutexes == Pausadas \cup {"inst"} \cup Interfaces

\* The threads that are inside the critical section of a mutex.
Duenos(s) ==
  {h \in Hilos :
    \/ h = "consola" /\ \E j \in 1 .. 4 : s = Pausada[j] /\ consola.tomados >= j
    \/ h = "largo" /\ s = "pausada0" /\ pc[h] = "creando"
    \/ h = "corto" /\ s = "pausada1" /\ pc[h] \in {"wait", "io"}
    \/ h \in Interfaces /\ s = "pausada2" /\ pc[h] = "cola"
    \/ h = "exit" /\ s = "pausada3" /\ pc[h] \in {"libera", "mediano", "eliminando"}
    \/ h = "corto" /\ s = "inst" /\ pc[h] = "signal_mediano"
    \/ h = "exit" /\ s = "inst" /\ pc[h] = "mediano"
    \/ h = "corto" /\ pc[h] = "io_envia" /\ s = corto.arg
    \/ h \in Interfaces /\ s = h /\ pc[h] = "siguiente"}

\* Every mutex semaphore is 1 with nobody inside or 0 with exactly one thread
\* inside: no branch of the code posts one twice or leaves without posting.
MutexCoherente ==
  \A s \in Mutexes :
    \/ sem[s] = 1 /\ Duenos(s) = {}
    \/ sem[s] = 0 /\ \E h \in Hilos : Duenos(s) = {h}

\* The units of contador_grado_multiprogramacion: those free, one per loaded
\* process and the one the NEW -> READY thread carries add up to the
\* configured degree, whatever FINALIZAR_PROCESO and MULTIPROGRAMACION do.
ConservacionGrado ==
  sem["grado"] + Cardinality({p \in Creados : pcb[p].estado \in {"READY", "EXEC", "BLOCKED"}})
    + (IF pc["largo"] \in {"pausa", "creando"} THEN 1 ELSE 0)
  = consola.grado

Listos == Len(cola["READY"]) + Len(cola["READY_VRR"])

\* One order of the short-term scheduler, at least, per ready process ...
ReadyAvisado == Listos <= sem["corto"] + Uno(En("corto", "elige"))

\* ... one of the NEW -> READY thread per new process ...
NewAvisado ==
  Len(cola["NEW"]) <= sem["largo"] + Uno(pc["largo"] \in {"grado", "pausa"})

\* ... and exactly one of the EXIT thread per process on its way out.
ExitContado ==
  Len(cola["EXIT"]) = sem["exit"] + Uno(pc["exit"] # "orden") + Uno(En("corto", "avisa_exit"))

\* No lost wake-up: a queue never holds more processes than the counts that
\* will wake its thread.
SinDespertarPerdido == ReadyAvisado /\ NewAvisado /\ ExitContado

-----------------------------------------------------------------------------
(* Processes and queues *)

\* The queues a process is in.
Donde(p) == {c \in Colas : Contains(cola[c], p)}

LugaresDe(p) ==
  CASE pcb[p].estado = "NEW"     -> {"NEW"}
    [] pcb[p].estado = "READY"   -> {"READY", "READY_VRR"}
    [] pcb[p].estado = "EXEC"    -> {"RUNNING"}
    [] pcb[p].estado = "BLOCKED" -> {pcb[p].cola_bloqueado}
    [] OTHER                     -> {}

EnSuLugar(p) ==
  CASE pcb[p].estado = "EXIT" -> Donde(p) = IF largo.saliente = p THEN {"EXIT"} ELSE {}
    [] pcb[p].estado # "EXIT" /\ largo.entrante = p ->
         Donde(p) = {} /\ pcb[p].estado = "NEW"
    [] OTHER -> \E c \in LugaresDe(p) \cup {"EXIT"} : Donde(p) = {c}

\* A process that has not ended is once in exactly one queue, the one its
\* state says or EXIT, or in the hands of the NEW -> READY thread; one in
\* state EXIT is in no queue but for the moment before the EXIT thread removes
\* it.
UnSoloLugar ==
  /\ \A c \in Colas : IsInjective(cola[c])
  /\ \A p \in Creados : EnSuLugar(p)

\* The EXIT thread always finds a process to end, one not ended before: the
\* branch of the code that would keep pausada3 for ever is unreachable.
ExitSinTratar ==
  En("exit", "pausa") => cola["EXIT"] # <<>> /\ pcb[Head(cola["EXIT"])].estado # "EXIT"

\* The CPU executes the one process in RUNNING and no other.
CpuEjecutaElRunning ==
  /\ Len(cola["RUNNING"]) <= 1
  /\ cpu.estado = "ejecuta" => cola["RUNNING"] = <<cpu.pid>>

\* The state of a process for whoever asks the schedulers: it is leaving from
\* the moment it is in the queue EXIT.
EstadoVisible(p) ==
  CASE p \notin Creados -> "NINGUNO"
    [] p \in Creados /\ pcb[p].estado # "EXIT" /\ Contains(cola["EXIT"], p) ->
         IF pcb[p].estado = "NEW" THEN "CANCELADO" ELSE "SALE"
    [] OTHER -> pcb[p].estado

P == INSTANCE Planificador WITH
       Procesos <- Pids, Virtual <- ALGORITMO = "VRR",
       estado <- [p \in Pids |-> EstadoVisible(p)],
       prioritarios <- cola["READY_VRR"], listos <- cola["READY"],
       grado <- consola.grado

\* The six threads, with their semaphores and in any interleaving, do what the
\* five-state scheduler promises: order of arrival, READY+ first, one process
\* in execution, the degree respected also while MULTIPROGRAMACION changes it
\* and FINALIZAR_PROCESO takes processes out of the queues, and no way back
\* from EXIT.
ImplementaPlanificador == P!Spec

\* FINALIZAR_PROCESO dereferences NULL only for a process it has already sent
\* to EXIT: with the semaphores it holds, every other process is in the queue
\* its state says (not so in VRR, see ListoDondeSeBusca).
NuloSoloPorRepetir ==
  En("consola", "puntero_nulo") => pcb[consola.objetivo].pedido_exit

\* The processes memory will hold, of the ones in ps now, once it has served
\* the requests s: the last request about a process decides.
TrasServir(ps, s) ==
  {p \in PidsOCero :
     \/ p \in ps /\ \A j \in DOMAIN s : s[j].pid # p
     \/ \E j \in DOMAIN s : /\ s[j] = [op |-> "INICIAR_PROCESO", pid |-> p]
                          /\ \A k \in DOMAIN s : k > j => s[k].pid # p}

EnMemoria == TrasServir(memoria.procesos, memoria.pedidos)

\* Two threads share the socket to memory without a lock and one may take the
\* answer to the other.  Still each gets one answer, and memory ends up with
\* the processes loaded and no other, each created before it is removed.
MemoriaAlDia ==
  /\ Len(memoria.pedidos) + memoria.respuestas
       = Uno(En("largo", "creando")) + Uno(En("exit", "eliminando"))
  /\ EnMemoria =
       {p \in Creados :
          \/ largo.entrante = p
          \/ /\ pcb[p].estado \in {"READY", "EXEC", "BLOCKED"}
             /\ largo.saliente = p => pc["exit"] \notin {"eliminando", "marca"}}

\* While the console holds the four semaphores and gives no order, no process
\* changes queue, but for the removal of one that has already ended.
PlanificacionDetenida ==
  [][consola.tomados = 4 /\ UNCHANGED consola =>
       /\ \A c \in Colas \ {"NEW", "EXIT"} : cola'[c] = cola[c]
       /\ cola'["NEW"] # cola["NEW"] => pid' = pid + 1
       /\ cola'["EXIT"] \in {cola["EXIT"], SinPrimero(cola["EXIT"])}]_vars

-----------------------------------------------------------------------------
(* Resources and interfaces *)

\* While nobody is in the critical section of the resources, a resource with
\* instances available has no process waiting for it.
RecursoCoherente ==
  sem["inst"] = 1 => \A r \in Recursos : instancias[r] > 0 => cola[r] = <<>>

\* The instances of r that processes hold: the first, the second, ... of p.
Tenidas(r) == UNION {{p} \X (1 .. pcb[p].recursos[r]) : p \in Pids}

\* No instance is lost or created while programs only SIGNAL what they hold:
\* those available, held and being returned add up to the configured ones.
ConservacionRecursos ==
  \A r \in Recursos :
    instancias[r] + Cardinality(Tenidas(r)) + Uno(En("corto", "signal_mediano") /\ corto.arg = r)
    = INSTANCIAS[r]

Pendientes(i) ==
  Len(dispositivo[i].ordenes) + dispositivo[i].avisos + Uno(pc[i] \in {"mediano", "cola"})

\* While nobody holds the queue of an interface: it is marked busy exactly
\* when one order is under way, a free one has no process waiting, and every
\* waiting process but the one being served has its instruction stored.
InterfazCoherente ==
  \A i \in Interfaces :
    sem[i] = 1 =>
      /\ Pendientes(i) = interfaz[i].disponibilidad
      /\ interfaz[i].disponibilidad = 0 => cola[i] = <<>>
      /\ \A k \in DOMAIN cola[i] :
           pcb[cola[i][k]].instruccion_io <=> cola[i][k] # interfaz[i].pid_ejecutando

-----------------------------------------------------------------------------
(* What comments of the code promise and the code does not keep *)

\* kernel/src/main.c:250 and :260: a process asked to end is not let go with
\* the request erased; it goes to EXIT.
PedidoNoSePierde ==
  [][\A p \in Creados :
       pcb[p].desalojo = "PEDIDO_FINALIZACION" /\ pcb'[p].desalojo # "PEDIDO_FINALIZACION"
         => pcb[p].pedido_exit]_vars

\* kernel/src/main.c:490 ("compruebo esto chequeando el valor del quantum"):
\* the quantum of a READY process tells in which of the two ready queues of
\* VRR FINALIZAR_PROCESO will find it.
ListoDondeSeBusca ==
  \A p \in Creados :
    pcb[p].estado = "READY" /\ ~Contains(cola["EXIT"], p) => Contains(cola[ColaDe(p)], p)

-----------------------------------------------------------------------------
(* Fairness and liveness *)

\* Threads and modules run whenever they can.  Strong fairness for the threads
\* that compete for a semaphore with the console: the user does not type
\* command after command so fast that a thread woken by sem_post never gets
\* it.  The user owes nothing else.
Equidad ==
  /\ WF_vars(~Caido /\ Consola)
  /\ SF_vars(~Caido /\ Corto)
  /\ SF_vars(~Caido /\ Largo)
  /\ SF_vars(~Caido /\ Exit)
  /\ \A i \in Interfaces : SF_vars(~Caido /\ Manejador(i))
                             /\ WF_vars(~Caido /\ DispositivoTermina(i))
  /\ WF_vars(~Caido /\ MemoriaAtiende)
  /\ WF_vars(~Caido /\ (CpuRecibeProceso \/ CpuRecibeRespuesta))
  /\ WF_vars(~Caido /\ CpuInterrumpida)

FairSpec == Spec /\ Equidad

\* Programs reach their EXIT instruction.
ProgramasTerminan ==
  \A p \in Pids : SF_vars(~Caido /\ cpu.pid = p /\ CpuTermina("EXIT_PROCESO"))

FairSpecProgramas == FairSpec /\ ProgramasTerminan

\* Once the user is done creating processes, all of them end, if programs do,
\* with every unit of the degree they need returned by the others.
LlegaAExit == <>[](\A p \in Creados : pcb[p].estado = "EXIT")

\* A process the user asks to end does end, even if its program would never
\* stop by itself.
FinalizarSeCumple ==
  \A p \in Pids : (ObjetivoEn(Estados) /\ consola.objetivo = p) ~> (pcb[p].estado = "EXIT")

\* MULTIPROGRAMACION downwards gives the console back: the units it waits for
\* are returned by the processes that end.
MultiprogramacionBaja == []<>En("consola", "libre")

\* kernel/src/main.c:274: a command that stopped the planning starts it again.
PlanificacionSeReanuda == En("consola", "toma") ~> En("consola", "libre")
=============================================================================
