--------------------------------- MODULE Cpu ---------------------------------
(***************************************************************************)
(* cpu/src/main.c: the dispatch loop, the instruction cycle with the       *)
(* registers and the MMU, and the interrupt thread; with the memory they   *)
(* use, the STDIN, STDOUT and generic devices, and the kernel as the CPU   *)
(* sees it: what it sends by dispatch and what it does with each answer.   *)
(*                                                                         *)
(* The races inside the kernel are in Kernel: here it treats a message in  *)
(* one step.  RESIZE and the TLB are in Memoria: here a page table is      *)
(* fixed and the frame of a page is read from it.                          *)
(***************************************************************************)
EXTENDS Instrucciones

CONSTANTS
  Procesos,
  Programas,         \* the programs of a run: functions pid -> instructions
  TAM_PAGINA,
  MARCOS,            \* frames of the memory
  Tablas,            \* pid -> frame of each of its pages
  Finalizables,      \* the processes the user may want to end
  MaxInterrupciones, \* bound: interrupts waiting in the socket
  Nadie

ASSUME ProcesosFinitos ==
  IsFiniteSet(Procesos) /\ Nadie \notin Procesos /\ Finalizables \subseteq Procesos

ASSUME TablasDisjuntas ==
  /\ TAM_PAGINA \in Nat \ {0} /\ MARCOS \in Nat
  /\ Tablas \in [Procesos -> Seq(0 .. MARCOS - 1)]
  /\ \A p, q \in Procesos : \A k \in DOMAIN Tablas[p], l \in DOMAIN Tablas[q] :
       Tablas[p][k] = Tablas[q][l] => p = q /\ k = l

\* What an instruction needs: the registers it names, a number that fits.
BienFormada(i) ==
  /\ i.op \in {"SET", "JNZ", "SUM", "SUB", "MOV_IN", "MOV_OUT", "IO_STDIN_READ", "IO_STDOUT_WRITE"}
       => i.r \in Registros
  /\ i.op \in {"SUM", "SUB", "MOV_IN", "MOV_OUT", "IO_STDIN_READ", "IO_STDOUT_WRITE"}
       => i.s \in Registros
  /\ i.op \in {"SET", "COPY_STRING"} => i.n \in Nat
  /\ i.op = "JNZ" => i.n \in 0 .. LARGO - 1

ASSUME ProgramasBienFormados ==
  \A P \in Programas, p \in Procesos :
    /\ Len(P[p]) \in 0 .. LARGO - 1
    /\ \A k \in 1 .. Len(P[p]) : BienFormada(P[p][k])

VARIABLES
  programa,       \* pid -> its instructions
  memoria,        \* the bytes of espacio_usuario
  pcb,            \* the PCBs: state, registers, PEDIDO_FINALIZACION
  ordenes,        \* what a blocked process waits for; a device may have the order
  listos,         \* monitor_READY
  kernel,         \* the short-term scheduler: waits for whom?
  quantum,        \* the timer of the burst runs
  dispatch,       \* the dispatch socket, kernel to CPU
  desalojos,      \* the dispatch socket, CPU to kernel
  interrupt,      \* the interrupt socket
  interrupciones, \* list_interrupciones: pid and reason
  cpu,            \* where the dispatch loop is, its pid, registers and desalojo
  pantalla        \* pid -> what the STDOUT device showed last

vars == <<programa, memoria, pcb, ordenes, listos, kernel, quantum, dispatch, desalojos,
          interrupt, interrupciones, cpu, pantalla>>

nucleo == <<pcb, ordenes, listos, kernel, quantum>>
senales == <<interrupt, interrupciones>>

SinOrden == [op |-> "NADA", piezas |-> <<>>]

Init ==
  /\ programa \in Programas
  /\ memoria = [a \in 0 .. MARCOS * TAM_PAGINA - 1 |-> 0]
  /\ pcb = [p \in Procesos |-> [estado |-> "READY", registros |-> EnCero, pedido |-> FALSE]]
  /\ ordenes = [p \in Procesos |-> SinOrden]
  /\ listos = SetToSeq(Procesos)
  /\ kernel = Nadie
  /\ quantum = FALSE
  /\ dispatch = <<>> /\ desalojos = <<>> /\ interrupt = <<>>
  /\ interrupciones = {}
  /\ cpu = [fase |-> "libre", pid |-> Nadie, registros |-> EnCero, desalojo |-> FALSE]
  /\ pantalla = [p \in Procesos |-> <<>>]

-----------------------------------------------------------------------------
(* The MMU, and what memory does with the pieces it is asked for *)

Techo(a, b) == (a + b - 1) \div b

DesplazamientoMut(k, desp) == desp

\* Pages after the first one are taken from their start.
Desplazamiento(k, desp) == IF k = 1 THEN desp ELSE 0

\* mmu: one piece per page; the first one starts at the offset and the last
\* one takes what is left.
Mmu(p, dir, n) ==
  LET pagina == dir \div TAM_PAGINA
      desp == dir % TAM_PAGINA
      cant == Techo(desp + n, TAM_PAGINA)
      Bytes(k) == IF cant = 1 THEN n
                  ELSE IF k = 1 THEN TAM_PAGINA - desp
                  ELSE IF k < cant THEN TAM_PAGINA
                  ELSE n - (cant - 1) * TAM_PAGINA + desp
  IN [k \in 1 .. cant |->
        [dir |-> Tablas[p][pagina + k] * TAM_PAGINA + Desplazamiento(k, desp),
         bytes |-> Bytes(k)]]

\* The physical addresses of the pieces, in the order of the bytes sent.
Fisicas(piezas) ==
  FlattenSeq([k \in DOMAIN piezas |-> [b \in 1 .. piezas[k].bytes |-> piezas[k].dir + b - 1]])

Leido(piezas) == [b \in DOMAIN Fisicas(piezas) |-> memoria[Fisicas(piezas)[b]]]

Escribe(piezas, bytes) ==
  memoria' = [a \in DOMAIN memoria |->
                IF Contains(Fisicas(piezas), a)
                THEN bytes[CHOOSE b \in DOMAIN Fisicas(piezas) : Fisicas(piezas)[b] = a]
                ELSE memoria[a]]

-----------------------------------------------------------------------------
(* The kernel *)

\* algoritmo_fifo_rr and enviar_proceso_a_cpu; the timer starts.
Planificar ==
  /\ kernel = Nadie /\ listos # <<>>
  /\ LET p == Head(listos)
     IN /\ kernel' = p
        /\ pcb' = [pcb EXCEPT ![p].estado = "EXEC"]
        /\ dispatch' = Append(dispatch, [op |-> "EJECUTAR_PROCESO", pid |-> p,
                                         registros |-> AgregarRegistros(pcb[p].registros)])
  /\ listos' = Tail(listos)
  /\ quantum' = TRUE
  /\ UNCHANGED <<programa, memoria, ordenes, desalojos, senales, cpu, pantalla>>

\* control_quantum
ControlQuantum ==
  /\ quantum
  /\ Len(interrupt) < MaxInterrupciones
  /\ interrupt' = Append(interrupt, <<kernel, "FIN_QUANTUM">>)
  /\ quantum' = FALSE
  /\ UNCHANGED <<programa, memoria, pcb, ordenes, listos, kernel, dispatch, desalojos, interrupciones, cpu, pantalla>>

Terminado(p, pedido) ==
  pcb' = [pcb EXCEPT ![p] = [estado |-> "EXIT", registros |-> EnCero, pedido |-> pedido]]

\* FINALIZAR_PROCESO of the console: a process in EXEC is interrupted and its
\* PCB marked ...
FinalizarEnEjecucion(p) ==
  /\ pcb[p].estado = "EXEC" /\ ~pcb[p].pedido
  /\ pcb' = [pcb EXCEPT ![p].pedido = TRUE]
  /\ interrupt' = Append(interrupt, <<p, "FINALIZAR_PROCESO">>)
  /\ UNCHANGED <<programa, memoria, ordenes, listos, kernel, quantum, dispatch, desalojos,
                 interrupciones, cpu, pantalla>>

Extraer(s, p) == IF Contains(s, p) THEN RemoveAt(s, CHOOSE k \in 1 .. Len(s) : s[k] = p) ELSE s

\* ... any other one is taken out of its queue; if a device has its order,
\* the device goes on with it.
FinalizarFuera(p) ==
  /\ pcb[p].estado \in {"READY", "BLOCKED"}
  /\ Terminado(p, TRUE)
  /\ listos' = Extraer(listos, p)
  /\ \/ ordenes' = [ordenes EXCEPT ![p] = SinOrden]
     \/ ordenes[p].op # "WAIT" /\ UNCHANGED ordenes
  /\ UNCHANGED <<programa, memoria, kernel, quantum, dispatch, desalojos, senales, cpu, pantalla>>

\* recibir_proceso_desalojado takes the message of the process it waits for,
\* and treats it as one of these; a request to end replaces the reason.
Recibe(motivos) ==
  /\ kernel # Nadie /\ desalojos # <<>>
  /\ (IF pcb[kernel].pedido THEN "FINALIZAR_PROCESO" ELSE Head(desalojos).op) \in motivos
  /\ desalojos' = Tail(desalojos)
  /\ UNCHANGED <<programa, memoria, senales, cpu, pantalla>>

\* control_quantum_desalojo: the burst is over for the kernel.
FinRafaga == kernel' = Nadie /\ quantum' = FALSE

Guarda(estado) ==
  pcb' = [pcb EXCEPT ![kernel].estado = estado,
                     ![kernel].registros = LeerRegistros(Head(desalojos).registros)]

Bloquea(orden) == Guarda("BLOCKED") /\ ordenes' = [ordenes EXCEPT ![kernel] = orden]

Acaba == Terminado(kernel, pcb[kernel].pedido) /\ UNCHANGED ordenes

RecibeFin ==
  /\ Recibe({"EXIT_PROCESO", "FINALIZAR_PROCESO"})
  /\ FinRafaga /\ Acaba
  /\ UNCHANGED <<listos, dispatch>>

RecibeFinQuantum ==
  /\ Recibe({"FIN_QUANTUM"})
  /\ FinRafaga /\ Guarda("READY")
  /\ listos' = Append(listos, kernel)
  /\ UNCHANGED <<ordenes, dispatch>>

InstruccionesIO == {"IO_STDIN_READ", "IO_STDOUT_WRITE", "IO_GEN_SLEEP"}
InstruccionesRecurso == {"WAIT", "SIGNAL"}

\* The interface exists and is of the type, or the process ends.
RecibeIO ==
  /\ Recibe(InstruccionesIO)
  /\ FinRafaga
  /\ Bloquea([op |-> Head(desalojos).op, piezas |-> Head(desalojos).piezas]) \/ Acaba
  /\ UNCHANGED <<listos, dispatch>>

RespondeMut(op) ==
  dispatch' = IF op = "CONTINUAR" THEN Append(dispatch, [op |-> op, pid |-> Nadie, registros |-> <<>>])
              ELSE dispatch

Responde(op) == dispatch' = Append(dispatch, [op |-> op, pid |-> Nadie, registros |-> <<>>])

\* CONTINUAR keeps the context in the CPU.
RecibeRecursoContinua ==
  /\ Recibe(InstruccionesRecurso)
  /\ Responde("CONTINUAR")
  /\ UNCHANGED nucleo

\* DESALOJAR: there is no such resource, or a WAIT has to wait for it.
RecibeRecursoDesaloja ==
  /\ Recibe(InstruccionesRecurso)
  /\ FinRafaga /\ Responde("DESALOJAR")
  /\ \/ Acaba
     \/ Head(desalojos).op = "WAIT" /\ Bloquea([SinOrden EXCEPT !.op = "WAIT"])
  /\ UNCHANGED listos

\* The resource is granted, or the device sent IO_LIBERAR.
Desbloquear(p) ==
  /\ pcb[p].estado = "BLOCKED" /\ ordenes[p].op \in {"WAIT", "HECHA"}
  /\ pcb' = [pcb EXCEPT ![p].estado = "READY"]
  /\ ordenes' = [ordenes EXCEPT ![p] = SinOrden]
  /\ listos' = Append(listos, p)
  /\ UNCHANGED <<programa, memoria, kernel, quantum, dispatch, desalojos, senales, cpu, pantalla>>

Kernel ==
  \/ Planificar \/ RecibeFin \/ RecibeFinQuantum \/ RecibeIO
  \/ RecibeRecursoContinua \/ RecibeRecursoDesaloja
  \/ \E p \in Procesos : Desbloquear(p)

-----------------------------------------------------------------------------
(* The devices: the order is done with the addresses it carries *)

Orden(p, op) ==
  /\ ordenes[p].op = op
  /\ ordenes' = [ordenes EXCEPT ![p].op = "HECHA"]
  /\ UNCHANGED <<programa, pcb, listos, kernel, quantum, dispatch, desalojos, senales, cpu>>

\* io_stdin_read: the text, a null character and then what malloc left, that
\* is any bytes; at the end of the input nothing is written.
IoStdinRead(p) ==
  LET piezas == ordenes[p].piezas
  IN /\ Orden(p, "IO_STDIN_READ")
     /\ \/ \E texto \in [DOMAIN Fisicas(piezas) -> 0 .. BASE - 1] : Escribe(piezas, texto)
        \/ UNCHANGED memoria
     /\ UNCHANGED pantalla

IoStdoutWrite(p) ==
  /\ Orden(p, "IO_STDOUT_WRITE")
  /\ pantalla' = [pantalla EXCEPT ![p] = Leido(ordenes[p].piezas)]
  /\ UNCHANGED memoria

IoGenSleep(p) == Orden(p, "IO_GEN_SLEEP") /\ UNCHANGED <<memoria, pantalla>>

Dispositivo(p) == IoStdinRead(p) \/ IoStdoutWrite(p) \/ IoGenSleep(p)

-----------------------------------------------------------------------------
(* The CPU *)

EnLibre == [fase |-> "libre", pid |-> Nadie, registros |-> EnCero, desalojo |-> FALSE]

FaseInicialMut == "chequea"

\* A burst starts by executing: the interrupts are looked at after it.
FaseInicial == "ejecuta"

\* EJECUTAR_PROCESO in the dispatch loop
RecibirProceso ==
  /\ cpu.fase = "libre"
  /\ dispatch # <<>> /\ Head(dispatch).op = "EJECUTAR_PROCESO"
  /\ cpu' = [fase |-> FaseInicial, pid |-> Head(dispatch).pid,
             registros |-> LeerRegistros(Head(dispatch).registros), desalojo |-> FALSE]
  /\ dispatch' = Tail(dispatch)
  /\ UNCHANGED <<programa, memoria, nucleo, desalojos, senales, pantalla>>

R == cpu.registros
I == programa[cpu.pid][R["PC"] + 1]

\* Fetch and PC++ of an instruction of these.  Beyond the end of the program
\* memory does not answer the fetch.
Ejecuta(ops) ==
  /\ cpu.fase = "ejecuta"
  /\ R["PC"] < Len(programa[cpu.pid])
  /\ I.op \in ops
  /\ UNCHANGED <<programa, nucleo, dispatch, senales, pantalla>>

RMas == Con(R, "PC", R["PC"] + 1)

Sigue(regs) ==
  cpu' = [cpu EXCEPT !.fase = "chequea", !.registros = regs] /\ UNCHANGED desalojos

EjecutaSet ==
  /\ Ejecuta({"SET"})
  /\ Sigue(Con(RMas, I.r, I.n))
  /\ UNCHANGED memoria

Ilegible == MismoTipo(I.r, I.s) /\ SinCadena(Operado(I.op, RMas, I.r, I.s))

EjecutaAritmetica ==
  /\ Ejecuta({"SUM", "SUB"})
  /\ ~Ilegible
  /\ Sigue(Aritmetica(I.op, RMas, I.r, I.s))
  /\ UNCHANGED memoria

\* intToCadena writes outside its array and the CPU is gone.
Cae ==
  /\ Ejecuta({"SUM", "SUB"})
  /\ Ilegible
  /\ cpu' = [cpu EXCEPT !.fase = "caida"]
  /\ UNCHANGED <<memoria, desalojos>>

EjecutaJnz ==
  /\ Ejecuta({"JNZ"})
  /\ Sigue(Salta(RMas, I.r, I.n))
  /\ UNCHANGED memoria

MovIn ==
  /\ Ejecuta({"MOV_IN"})
  /\ Sigue(Con(RMas, I.r, Valor(Leido(Mmu(cpu.pid, RMas[I.s], BytesDe(I.r))))))
  /\ UNCHANGED memoria

MovOut ==
  /\ Ejecuta({"MOV_OUT"})
  /\ Escribe(Mmu(cpu.pid, RMas[I.r], BytesDe(I.s)), EnBytes(RMas[I.s], BytesDe(I.s)))
  /\ Sigue(RMas)

CopyString ==
  /\ Ejecuta({"COPY_STRING"})
  /\ Escribe(Mmu(cpu.pid, RMas["DI"], I.n), Leido(Mmu(cpu.pid, RMas["SI"], I.n)))
  /\ Sigue(RMas)

Mensaje(op, piezas) ==
  desalojos' = Append(desalojos, [op |-> op, registros |-> AgregarRegistros(RMas), piezas |-> piezas])

SaleMut == cpu' = [cpu EXCEPT !.fase = "chequea", !.registros = RMas]

Sale == cpu' = [cpu EXCEPT !.fase = "chequea", !.registros = RMas, !.desalojo = TRUE]

EjecutaExit ==
  /\ Ejecuta({"EXIT"})
  /\ Mensaje("EXIT_PROCESO", <<>>)
  /\ Sale
  /\ UNCHANGED memoria

EjecutaIO ==
  /\ Ejecuta(InstruccionesIO)
  /\ Mensaje(I.op, IF I.op = "IO_GEN_SLEEP" THEN <<>> ELSE Mmu(cpu.pid, RMas[I.r], RMas[I.s]))
  /\ Sale
  /\ UNCHANGED memoria

\* WAIT and SIGNAL stop in the receive ...
EjecutaRecurso ==
  /\ Ejecuta(InstruccionesRecurso)
  /\ Mensaje(I.op, <<>>)
  /\ cpu' = [cpu EXCEPT !.fase = "pide", !.registros = RMas]
  /\ UNCHANGED memoria

\* ... and take the first message for the answer: DESALOJAR ends the burst and
\* anything else goes on with it.  After an EJECUTAR_PROCESO the bytes of the
\* socket are read out of step.
RecibirRespuesta ==
  /\ cpu.fase = "pide" /\ dispatch # <<>>
  /\ dispatch' = Tail(dispatch)
  /\ cpu' = CASE Head(dispatch).op = "DESALOJAR" -> [cpu EXCEPT !.fase = "chequea", !.desalojo = TRUE]
              [] Head(dispatch).op = "CONTINUAR" -> [cpu EXCEPT !.fase = "chequea"]
              [] OTHER -> [cpu EXCEPT !.fase = "desfasada"]
  /\ UNCHANGED <<programa, memoria, nucleo, desalojos, senales, pantalla>>

\* FINALIZAR_PROCESO has a lower bit_prioridad than FIN_QUANTUM.
PrimeraMut(mias) ==
  IF \E x \in mias : x[2] = "FIN_QUANTUM" THEN "FIN_QUANTUM" ELSE "FINALIZAR_PROCESO"

Primera(mias) ==
  IF \E x \in mias : x[2] = "FINALIZAR_PROCESO" THEN "FINALIZAR_PROCESO" ELSE "FIN_QUANTUM"

\* filtrar_y_remover_lista
Mias == {x \in interrupciones : x[1] = cpu.pid}

\* check_interrupt: the interrupts of the process go, and the first one evicts
\* it unless the instruction already did.
CheckInterrupt ==
  /\ cpu.fase = "chequea"
  /\ interrupciones' = interrupciones \ Mias
  /\ IF Mias # {} /\ ~cpu.desalojo
     THEN /\ desalojos' = Append(desalojos, [op |-> Primera(Mias), registros |-> AgregarRegistros(R),
                                             piezas |-> <<>>])
          /\ cpu' = EnLibre
     ELSE /\ cpu' = IF cpu.desalojo THEN EnLibre ELSE [cpu EXCEPT !.fase = "ejecuta"]
          /\ UNCHANGED desalojos
  /\ UNCHANGED <<programa, memoria, nucleo, dispatch, interrupt, pantalla>>

Instruccion ==
  \/ EjecutaSet \/ EjecutaAritmetica \/ Cae \/ EjecutaJnz \/ MovIn \/ MovOut \/ CopyString
  \/ EjecutaExit \/ EjecutaIO \/ EjecutaRecurso

Dispatch == RecibirProceso \/ Instruccion \/ RecibirRespuesta \/ CheckInterrupt

\* The interrupt thread: recibir_interrupcion
RecibirInterrupcion ==
  /\ interrupt # <<>>
  /\ interrupt' = Tail(interrupt)
  /\ interrupciones' = interrupciones \cup {Head(interrupt)}
  /\ UNCHANGED <<programa, memoria, nucleo, dispatch, desalojos, cpu, pantalla>>

Next ==
  \/ Kernel \/ ControlQuantum \/ Dispatch \/ RecibirInterrupcion
  \/ \E p \in Procesos : Dispositivo(p)
  \/ \E p \in Finalizables : FinalizarEnEjecucion(p) \/ FinalizarFuera(p)

\* The threads run, the timer expires, the devices finish and the resources
\* are granted in the end; nobody has to finish a process.
Fairness ==
  /\ WF_vars(Kernel) /\ WF_vars(ControlQuantum) /\ WF_vars(Dispatch) /\ WF_vars(RecibirInterrupcion)
  /\ \A p \in Procesos : WF_vars(Dispositivo(p)) /\ WF_vars(Desbloquear(p))

Spec == Init /\ [][Next]_vars /\ Fairness

\* The bytes that the instruction to execute touches, as pairs address, length
Accesos ==
  CASE I.op = "MOV_IN" -> {<<RMas[I.s], BytesDe(I.r)>>}
    [] I.op = "MOV_OUT" -> {<<RMas[I.r], BytesDe(I.s)>>}
    [] I.op = "COPY_STRING" -> {<<RMas["SI"], I.n>>, <<RMas["DI"], I.n>>}
    [] I.op \in {"IO_STDIN_READ", "IO_STDOUT_WRITE"} -> {<<RMas[I.r], RMas[I.s]>>}
    [] OTHER -> {}

\* Programs ask only for what they have: mmu and memory do not say what comes
\* of a page that is not in the table.
AccesosEnRango ==
  cpu.fase = "ejecuta" /\ R["PC"] < Len(programa[cpu.pid])
    => \A x \in Accesos : x[1] + x[2] <= Len(Tablas[cpu.pid]) * TAM_PAGINA

-----------------------------------------------------------------------------
(* Properties *)

EstadosPcb == {"READY", "EXEC", "BLOCKED", "EXIT"}

\* The type invariant.
TypeOK ==
  /\ \A p \in Procesos : /\ pcb[p].estado \in EstadosPcb /\ pcb[p].pedido \in BOOLEAN
                         /\ pcb[p].registros \in Juegos
  /\ \A a \in DOMAIN memoria : memoria[a] \in 0 .. BASE - 1
  /\ kernel \in Procesos \cup {Nadie} /\ quantum \in BOOLEAN
  /\ Len(dispatch) <= 2 /\ Len(desalojos) <= 1
  /\ interrupciones \subseteq Procesos \X {"FINALIZAR_PROCESO", "FIN_QUANTUM"}
  /\ cpu.fase \in {"libre", "ejecuta", "chequea", "pide", "desfasada", "caida"}
  /\ cpu.pid \in Procesos \cup {Nadie} /\ cpu.registros \in Juegos

(* The machine of each process, wherever its context is *)

Enviado(p) == \E k \in DOMAIN dispatch : dispatch[k].pid = p

Enviados(p) == dispatch[CHOOSE k \in DOMAIN dispatch : dispatch[k].pid = p].registros

Devuelto(p) == kernel = p /\ desalojos # <<>>

EnCpu(p) ==
  /\ cpu.pid = p /\ ~cpu.desalojo
  /\ pcb[p].estado = "EXEC" /\ ~Enviado(p) /\ ~Devuelto(p)

Traidos(buffer) ==
  [r \in Registros |-> buffer[CHOOSE k \in DOMAIN OrdenAlAgregar : OrdenAlAgregar[k] = r]]

RegistrosDe(p) ==
  IF EnCpu(p) THEN R
  ELSE IF Enviado(p) THEN Traidos(Enviados(p))
  ELSE IF Devuelto(p) THEN Traidos(Head(desalojos).registros)
  ELSE pcb[p].registros

\* What it is waiting for: an order, a message on its way, or an answer.
ModoDe(p) ==
  IF pcb[p].estado = "BLOCKED" THEN IF ordenes[p].op = "HECHA" THEN "corre" ELSE ordenes[p].op
  ELSE IF Devuelto(p) THEN
    CASE Head(desalojos).op = "EXIT_PROCESO" -> "termina"
      [] Head(desalojos).op \in {"FIN_QUANTUM", "FINALIZAR_PROCESO"} -> "corre"
      [] OTHER -> Head(desalojos).op
  ELSE IF EnCpu(p) /\ cpu.fase = "pide" THEN programa[p][R["PC"]].op
  ELSE "corre"

Logica(p, a) ==
  ((CHOOSE k \in DOMAIN Tablas[p] : Tablas[p][k] = a \div TAM_PAGINA) - 1) * TAM_PAGINA + (a % TAM_PAGINA)

Piezas(p) == IF Devuelto(p) THEN Head(desalojos).piezas
             ELSE IF ordenes[p].op = "HECHA" THEN <<>> ELSE ordenes[p].piezas

Tamanio(p) == Len(Tablas[p]) * TAM_PAGINA

Maquina(p) ==
  IF pcb[p].estado = "EXIT" THEN [modo |-> "fin", regs |-> EnCero, es |-> <<>>]
  ELSE [modo |-> ModoDe(p), regs |-> RegistrosDe(p),
        es |-> [b \in DOMAIN Fisicas(Piezas(p)) |-> Logica(p, Fisicas(Piezas(p))[b])]]

\* Nothing is said of what was of a process that ended.
Espacio(p) ==
  [a \in 0 .. Tamanio(p) - 1 |->
     IF pcb[p].estado = "EXIT" THEN 0
     ELSE memoria[Tablas[p][a \div TAM_PAGINA + 1] * TAM_PAGINA + (a % TAM_PAGINA)]]

Abstracta == INSTANCE MaquinaPropia WITH
  maquina  <- [p \in Procesos |-> Maquina(p)],
  espacio  <- [p \in Procesos |-> Espacio(p)],
  pedido   <- {p \in Procesos : pcb[p].pedido},
  pantalla <- [p \in Procesos |-> IF pcb[p].estado = "EXIT" THEN <<>> ELSE pantalla[p]]

\* Whatever the evictions, the interrupts and the devices do, every process
\* runs as if it had a machine of its own: no instruction is lost or repeated,
\* no register or byte is another's, and only a request or its own program
\* ends it (ciclo_instruccion, mmu, recupera_contexto_proceso).
ImplementaMaquinaPropia == Abstracta!Spec

\* An interrupt to end a process is dropped only if the eviction carries that
\* reason or the instruction had evicted the process already, which the
\* request in the PCB turns into its end (check_interrupt).
FinalizarNoSePierde ==
  [][\A p \in Procesos :
       (<<p, "FINALIZAR_PROCESO">> \in interrupciones /\ <<p, "FINALIZAR_PROCESO">> \notin interrupciones')
       => /\ cpu.pid = p
          /\ \/ cpu.desalojo
             \/ Len(desalojos') > Len(desalojos) /\ desalojos'[Len(desalojos')].op = "FINALIZAR_PROCESO"]_vars

\* A CPU that waits for the answer to a WAIT or a SIGNAL will have one, unless
\* the user asked for the end of that very process meanwhile
\* (recibir_proceso_desalojado replaces the reason and answers nothing).
SinRespuestaSoloPorPedido ==
  cpu.fase = "pide" => \/ kernel = cpu.pid /\ desalojos # <<>>
                       \/ dispatch # <<>> /\ Head(dispatch).op \in {"CONTINUAR", "DESALOJAR"}
                       \/ pcb[cpu.pid].pedido /\ pcb[cpu.pid].estado = "EXIT"

Trabada == cpu.fase \in {"desfasada", "caida"}

\* The CPU is, or is about to be, where it takes the next process.
CpuLibera == cpu.fase = "libre" \/ (cpu.fase = "chequea" /\ cpu.desalojo)

CpuPide == cpu.fase = "pide" /\ cpu.pid \in Procesos /\ ~cpu.desalojo

\* The answer to the request of a process that was ended never comes.
CpuColgada == CpuPide /\ pcb[cpu.pid].estado = "EXIT" /\ pcb[cpu.pid].pedido

\* What is in the dispatch socket, from the kernel and from the CPU
Nada == dispatch = <<>>
Uno(op) == Len(dispatch) = 1 /\ dispatch = <<dispatch[1]>> /\ dispatch[1].op = op
Manda(m) == m.op = "EJECUTAR_PROCESO" /\ m.pid = kernel
EnCamino == Len(dispatch) = 1 /\ dispatch = <<dispatch[1]>> /\ Manda(dispatch[1])
EnCaminoDetras ==
  /\ Len(dispatch) = 2 /\ dispatch = <<dispatch[1], dispatch[2]>>
  /\ dispatch[1].op = "DESALOJAR" /\ Manda(dispatch[2])

\* The kernel waits for nobody.
SinRafaga ==
  /\ kernel = Nadie /\ desalojos = <<>>
  /\ \/ Nada /\ (CpuLibera \/ CpuColgada)
     \/ Uno("DESALOJAR") /\ CpuPide

\* The process is on its way to the CPU, which may still have an answer to read.
Enviada ==
  /\ kernel # Nadie /\ desalojos = <<>>
  /\ \/ EnCamino /\ (CpuLibera \/ CpuColgada)
     \/ EnCaminoDetras /\ CpuPide

\* The process runs, or what was to run it is lost.
EnMarcha ==
  /\ kernel # Nadie /\ desalojos = <<>>
  /\ \/ Nada /\ cpu.pid = kernel /\ cpu.fase \in {"ejecuta", "chequea"} /\ ~cpu.desalojo
     \/ Nada /\ Trabada
     \/ Uno("CONTINUAR") /\ CpuPide /\ cpu.pid = kernel

\* The CPU has sent the reason of the eviction, or its request.
Devuelta ==
  /\ kernel # Nadie /\ Len(desalojos) = 1 /\ desalojos = <<desalojos[1]>> /\ Nada
  /\ \/ desalojos[1].op \in InstruccionesRecurso /\ CpuPide /\ cpu.pid = kernel
     \/ desalojos[1].op \notin InstruccionesRecurso /\ CpuLibera

\* At any moment the burst of the process in EXEC is on its way to the CPU, in
\* it, or on its way back, and the two sockets and the CPU agree on which
\* (enviar_proceso_a_cpu, recibir_proceso_desalojado, check_interrupt).
Protocolo == SinRafaga \/ Enviada \/ EnMarcha \/ Devuelta

EjecutaDe(p) == cpu.pid = p /\ cpu.fase = "ejecuta" /\ cpu'.fase # "ejecuta"

\* A process that does not end executes instructions for ever, also next to
\* one that never leaves the CPU by itself; unless the CPU died, or lost the
\* answer to a process that was ended (control_quantum, check_interrupt).
NadieSeEstanca ==
  \A p \in Procesos :
    \/ <>(pcb[p].estado = "EXIT")
    \/ <>(Trabada \/ (cpu.fase = "pide" /\ pcb[cpu.pid].estado = "EXIT"))
    \/ []<><<EjecutaDe(p)>>_vars
=============================================================================
