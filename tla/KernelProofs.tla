---------------------------- MODULE KernelProofs ----------------------------
(***************************************************************************)
(* Theorems about the kernel threads, for every value of the constants:    *)
(* the types (one lemma per kind of variable, then one step per action),   *)
(* that no wake-up is lost, and mutual exclusion (each mutex semaphore is  *)
(* 1 with nobody inside or 0 with one thread inside, whatever commands,    *)
(* evictions and interfaces come).                                         *)
(***************************************************************************)
EXTENDS KernelProperties, TLAPS

USE ConstantesBienFormadas, NombresDistintos

\* Literals the record lemmas are used with.
LEMMA Literales == 0 \in 0 .. 4 /\ 4 \in 0 .. 4 /\ 0 \in Nat /\ TRUE \in BOOLEAN /\ FALSE \in BOOLEAN
OBVIOUS

-----------------------------------------------------------------------------
(* What the helpers do to the variables they write *)

\* Sems keeps the semaphores non-negative and moves each one by its post
\* minus its wait.
LEMMA SemsTipo ==
  ASSUME sem \in [Semaforos -> Nat], NEW esperas, NEW avisos, Sems(esperas, avisos)
  PROVE  /\ sem' \in [Semaforos -> Nat]
         /\ \A s \in Semaforos :
              sem'[s] = (sem[s] - (IF s \in esperas THEN 1 ELSE 0))
                        + (IF s \in avisos THEN 1 ELSE 0)
BY DEF Sems

\* Moving a process from one queue to another leaves sequences of processes.
LEMMA PasaTipo ==
  ASSUME cola \in [Colas -> Seq(Pids)], NEW p \in Pids, NEW a, NEW b \in Colas, Pasa(p, a, b)
  PROVE  cola' \in [Colas -> Seq(Pids)]
<1>1. \A s \in Seq(Pids) : SinPrimero(s) \in Seq(Pids) /\ Append(s, p) \in Seq(Pids)
  BY DEF SinPrimero
<1>2. QED BY <1>1 DEF Pasa

\* A thread that moves on is at a label.
LEMMA VaTipo ==
  ASSUME pc \in [Hilos -> Etiquetas], NEW h, NEW l \in Etiquetas, Va(h, l)
  PROVE  pc' \in [Hilos -> Etiquetas]
BY DEF Va

\* A PCB stays a PCB when one of its fields gets a value of its type.
LEMMA CampoPCB ==
  ASSUME NEW b \in PCBs
  PROVE  /\ \A e \in Estados : [b EXCEPT !.estado = e] \in PCBs
         /\ \A e \in {"SIN_DESALOJAR", "DESALOJADO", "PEDIDO_FINALIZACION"} :
              [b EXCEPT !.desalojo = e] \in PCBs
         /\ \A e \in Nombres : [b EXCEPT !.cola_bloqueado = e] \in PCBs
         /\ \A e \in BOOLEAN : /\ [b EXCEPT !.parcial = e] \in PCBs
                               /\ [b EXCEPT !.instruccion_io = e] \in PCBs
                               /\ [b EXCEPT !.pedido_exit = e] \in PCBs
         /\ \A r, n : n \in Nat => [b EXCEPT !.recursos[r] = n] \in PCBs
BY DEF PCBs, Estados, Nombres

\* What the fields of a PCB hold.
LEMMA ValorPCB ==
  ASSUME NEW b \in PCBs
  PROVE  /\ \A r \in Recursos : b.recursos[r] \in Nat
         /\ b.parcial \in BOOLEAN
         /\ b.desalojo \in {"SIN_DESALOJAR", "DESALOJADO", "PEDIDO_FINALIZACION"}
BY DEF PCBs, Estados, Nombres

\* The same for the other records.
LEMMA CampoConsola ==
  ASSUME NEW b \in TConsola
  PROVE  /\ b.grado \in Nat /\ b.objetivo \in Nat /\ b.tomados \in 0 .. 4
         /\ b.pausada \in BOOLEAN
         /\ \A t \in 0 .. 4 : [b EXCEPT !.tomados = t] \in TConsola
         /\ \A g \in Nat : /\ [b EXCEPT !.grado = g] \in TConsola
                            /\ [b EXCEPT !.objetivo = g] \in TConsola
         /\ \A e \in BOOLEAN : [b EXCEPT !.pausada = e] \in TConsola
         /\ \A c \in {"NINGUNO", "FINALIZAR_PROCESO", "DETENER_PLANIFICACION",
                      "PROCESO_ESTADO"} : [b EXCEPT !.comando = c] \in TConsola
BY DEF TConsola

\* The fields of the CPU.
LEMMA CampoCpu ==
  ASSUME NEW b \in TCpu
  PROVE  /\ \A e \in {"libre", "ejecuta", "pide", "desfasada"} : [b EXCEPT !.estado = e] \in TCpu
         /\ \A p \in PidsOCero : [b EXCEPT !.pid = p] \in TCpu
         /\ \A p \in PidsOCero, m \in {"FIN_QUANTUM", "FINALIZAR_PROCESO"} :
              [b EXCEPT !.interrupciones = b.interrupciones \cup {<<p, m>>}] \in TCpu
BY SMTT(30) DEF TCpu

\* The CPU after an eviction.
LEMMA LibreTipo ==
  ASSUME cpu \in TCpu
  PROVE  CpuLibre \in TCpu
<1>1. SinInterrupciones(cpu.pid) \subseteq PidsOCero \X {"FIN_QUANTUM", "FINALIZAR_PROCESO"}
  BY DEF TCpu, SinInterrupciones
<1>2. QED BY <1>1 DEF CpuLibre, TCpu, PidsOCero

\* A request to memory is queued with its type ...
LEMMA PideTipo ==
  ASSUME memoria \in TMemoria, NEW op \in {"INICIAR_PROCESO", "ELIMINAR_PROCESO"},
         NEW p \in PidsOCero, PideAMemoria(op, p)
  PROVE  memoria' \in TMemoria
<1>1. [op |-> op, pid |-> p] \in TPedido
  BY DEF TPedido
<1>2. Append(memoria.pedidos, [op |-> op, pid |-> p]) \in Seq(TPedido)
  BY <1>1 DEF TMemoria
<1>3. QED BY <1>2 DEF TMemoria, PideAMemoria

\* ... its answer is consumed ...
LEMMA RecibeTipo ==
  ASSUME memoria \in TMemoria, RecibeDeMemoria
  PROVE  memoria' \in TMemoria
<1>1. memoria.respuestas - 1 \in Nat
  BY DEF TMemoria, RecibeDeMemoria
<1>2. QED BY <1>1 DEF TMemoria, RecibeDeMemoria

\* ... and memory serves it.
LEMMA AtiendeTipo ==
  ASSUME memoria \in TMemoria, MemoriaAtiende
  PROVE  memoria' \in TMemoria
<1> DEFINE m == Head(memoria.pedidos)
           procs == IF m.op = "INICIAR_PROCESO" THEN memoria.procesos \cup {m.pid}
                                                ELSE memoria.procesos \ {m.pid}
<1>1. m.pid \in PidsOCero /\ Tail(memoria.pedidos) \in Seq(TPedido)
  <2>1. memoria.pedidos \in Seq(TPedido) /\ memoria.pedidos # <<>>
    BY DEF TMemoria, MemoriaAtiende
  <2>2. m \in TPedido /\ Tail(memoria.pedidos) \in Seq(TPedido)
    BY <2>1
  <2> HIDE DEF m
  <2>3. QED BY <2>2 DEF TPedido
<1>2. procs \in SUBSET PidsOCero /\ memoria.respuestas + 1 \in Nat
  BY <1>1 DEF TMemoria
<1>3. memoria' = [pedidos |-> Tail(memoria.pedidos), respuestas |-> memoria.respuestas + 1,
                  procesos |-> procs]
  BY DEF MemoriaAtiende
<1> HIDE DEF m, procs
<1>4. QED BY <1>1, <1>2, <1>3 DEF TMemoria

\* The fields of an interface, and of a device.
LEMMA CampoInterfaz ==
  ASSUME NEW b \in TInterfaz
  PROVE  /\ \A e \in {0, 1} : [b EXCEPT !.disponibilidad = e] \in TInterfaz
         /\ \A p \in PidsOCero : [b EXCEPT !.pid_ejecutando = p] \in TInterfaz
BY DEF TInterfaz

\* The orders and the reports of a device.
LEMMA CampoDispositivo ==
  ASSUME NEW b \in TDispositivo
  PROVE  /\ \A n \in Nat : [b EXCEPT !.avisos = n] \in TDispositivo
         /\ \A s \in Seq(Pids) : [b EXCEPT !.ordenes = s] \in TDispositivo
         /\ b.avisos \in Nat
         /\ b.ordenes \in Seq(Pids)
BY DEF TDispositivo

\* An instruction is sent to a device.
LEMMA OrdenaTipo ==
  ASSUME dispositivo \in [Interfaces -> TDispositivo], NEW i \in Interfaces, NEW p \in Pids,
         Ordena(i, p)
  PROVE  dispositivo' \in [Interfaces -> TDispositivo]
<1>1. Append(dispositivo[i].ordenes, p) \in Seq(Pids)
  BY CampoDispositivo
<1>2. dispositivo' = [dispositivo EXCEPT ![i].ordenes = Append(dispositivo[i].ordenes, p)]
  BY DEF Ordena
<1>3. QED BY <1>1, <1>2, CampoDispositivo

\* Extraer takes one element out.
LEMMA ExtraerTipo ==
  ASSUME NEW s \in Seq(Pids), NEW p, Contains(s, p)
  PROVE  /\ Extraer(s, p) \in Seq(Pids)
         /\ Len(Extraer(s, p)) = Len(s) - 1
<1> DEFINE k == CHOOSE n \in 1 .. Len(s) : s[n] = p
<1>1. k \in 1 .. Len(s)
  BY DEF Contains
<1> HIDE DEF k
<1> DEFINE a == SubSeq(s, 1, k - 1)
           b == SubSeq(s, k + 1, Len(s))
<1>2. a \in Seq(Pids) /\ Len(a) = k - 1
  BY <1>1
<1>3. b \in Seq(Pids) /\ Len(b) = Len(s) - k
  BY <1>1
<1>4. Extraer(s, p) = a \o b
  BY DEF Extraer, RemoveAt, k
<1>5. Len(s) \in Nat
  OBVIOUS
<1> HIDE DEF a, b
<1>6. \A x, y \in Seq(Pids) : x \o y \in Seq(Pids) /\ Len(x \o y) = Len(x) + Len(y)
  OBVIOUS
<1>7. a \o b \in Seq(Pids) /\ Len(a \o b) = (k - 1) + (Len(s) - k)
  BY <1>2, <1>3, <1>6
<1>8. (k - 1) + (Len(s) - k) = Len(s) - 1
  BY <1>1, <1>5
<1>9. QED BY <1>4, <1>7, <1>8

\* A SIGNAL, or the release of a resource, hands the instance to the first blocked process.
LEMMA EntregaTipo ==
  ASSUME TypeOK, NEW r \in Recursos, NEW pcbs \in [Pids -> PCBs], EntregaInstancia(r, pcbs)
  PROVE  /\ pcb' \in [Pids -> PCBs]
         /\ cola' \in [Colas -> Seq(Pids)]
         /\ sem' \in [Semaforos -> Nat]
         /\ instancias' \in [Recursos -> Nat]
<1>1. CASE HayBloqueado(r)
  <2> DEFINE q == Head(cola[r])
  <2>1. q \in Pids
    BY <1>1 DEF TypeOK, HayBloqueado, Colas
  <2>2. /\ pcb' = [pcbs EXCEPT ![q].recursos[r] = @ + 1, ![q].estado = "READY",
                              ![q].cola_bloqueado = Nulo]
        /\ Pasa(q, r, "READY")
        /\ Sems({"pausada2"}, {"pausada2", "inst"} \cup AvisaReady)
        /\ instancias' = instancias
    BY <1>1 DEF EntregaInstancia
  <2> HIDE DEF q
  <2>3. pcbs[q].recursos[r] + 1 \in Nat
    BY <2>1, ValorPCB
  <2>4. pcb' \in [Pids -> PCBs]
    BY <2>1, <2>2, <2>3, CampoPCB DEF Estados, Nombres
  <2>5. cola' \in [Colas -> Seq(Pids)]
    BY <2>1, <2>2, PasaTipo DEF TypeOK, Colas, ColasFijas
  <2>6. QED BY <2>2, <2>4, <2>5, SemsTipo DEF TypeOK
<1>2. CASE ~HayBloqueado(r)
  <2>1. /\ instancias' = [instancias EXCEPT ![r] = @ + 1]
        /\ pcb' = pcbs
        /\ Sems({"pausada2"}, {"pausada2", "inst"})
        /\ cola' = cola
    BY <1>2 DEF EntregaInstancia
  <2>2. QED BY <2>1, SemsTipo DEF TypeOK
<1>3. QED BY <1>1, <1>2

-----------------------------------------------------------------------------
(* The types *)

\* Every step of every thread keeps the types, given what the locals of the
\* threads are at each point and the count of the EXIT queue.
LEMMA TipoPaso ==
  ASSUME TypeOK, Control, SinDespertarPerdido, [Next]_vars
  PROVE  TypeOK'
<1>1. CASE IniciarProceso
  <2>1. pid' \in 1 .. (MaxPid + 1)
    BY <1>1 DEF TypeOK, Pids, IniciarProceso
  <2>2. pcb' \in [Pids -> PCBs]
    BY <1>1, CampoPCB DEF TypeOK, Estados, IniciarProceso, PCBs, PCBNuevo, Nombres
  <2>3. cola' \in [Colas -> Seq(Pids)]
    BY <1>1, PasaTipo DEF TypeOK, Colas, ColasFijas, IniciarProceso
  <2>4. sem' \in [Semaforos -> Nat]
    BY <1>1, SemsTipo DEF TypeOK, IniciarProceso
  <2>5. QED BY <1>1, <2>1, <2>2, <2>3, <2>4 DEF TypeOK, IniciarProceso, procesos, bloqueos,
      locales, exterior, kernel
<1>2. ASSUME NEW c \in {"FINALIZAR_PROCESO", "DETENER_PLANIFICACION", "PROCESO_ESTADO"},
    NEW p \in PidsOCero, PideComando(c, p) PROVE TypeOK'
  <2>1. pc' \in [Hilos -> Etiquetas]
    BY <1>2, VaTipo DEF TypeOK, PideComando, Etiquetas
  <2>2. consola' \in TConsola
    <3>1. consola \in TConsola
      BY DEF TypeOK
    <3>2. consola' = [consola EXCEPT !.comando = c, !.objetivo = p]
      BY <1>2 DEF PideComando, FinComando
    <3>3. p \in Nat
      BY ConstantesBienFormadas DEF PidsOCero, Pids
    <3>4. QED BY <3>1, <3>2, <3>3, Literales, CampoConsola
  <2>3. QED BY <1>2, <2>1, <2>2 DEF TypeOK, PideComando, procesos, bloqueos, locales, exterior,
      kernel
<1>3. CASE IniciarPlanificacion
  <2>1. sem' \in [Semaforos -> Nat]
    BY <1>3, SemsTipo DEF TypeOK, IniciarPlanificacion
  <2>2. consola' \in TConsola
    <3>1. consola \in TConsola
      BY DEF TypeOK
    <3>2. consola' = [consola EXCEPT !.pausada = FALSE, !.tomados = 0]
      BY <1>3 DEF IniciarPlanificacion, FinComando
    <3>3. QED BY <3>1, <3>2, Literales, CampoConsola
  <2>3. QED BY <1>3, <2>1, <2>2 DEF TypeOK, IniciarPlanificacion, procesos, bloqueos, locales,
      exterior, kernel
<1>4. ASSUME NEW g \in Grados, SubeMultiprogramacion(g) PROVE TypeOK'
  <2>1. sem' \in [Semaforos -> Nat]
    <3>1. g - consola.grado \in Nat
      BY <1>4, ConstantesBienFormadas DEF TypeOK, TConsola, SubeMultiprogramacion
    <3>2. sem["grado"] + (g - consola.grado) \in Nat
      BY <3>1 DEF TypeOK, Semaforos, SemaforosFijos
    <3>3. sem' = [sem EXCEPT !["grado"] = sem["grado"] + (g - consola.grado)]
      BY <1>4 DEF SubeMultiprogramacion
    <3>4. QED BY <3>1, <3>2, <3>3 DEF TypeOK
  <2>2. consola' \in TConsola
    BY <1>4, ConstantesBienFormadas DEF TypeOK, TConsola, SubeMultiprogramacion
  <2>3. QED BY <1>4, <2>1, <2>2 DEF TypeOK, SubeMultiprogramacion, procesos, bloqueos, locales,
      exterior, kernel
<1>5. ASSUME NEW g \in Grados, PideBajarMultiprogramacion(g) PROVE TypeOK'
  <2>1. consola' \in TConsola
    BY <1>5, ConstantesBienFormadas DEF TypeOK, TConsola, PideBajarMultiprogramacion
  <2>2. pc' \in [Hilos -> Etiquetas]
    BY <1>5, VaTipo DEF TypeOK, PideBajarMultiprogramacion, Etiquetas
  <2>3. QED BY <1>5, <2>1, <2>2 DEF TypeOK, PideBajarMultiprogramacion, procesos, bloqueos,
      locales, exterior, kernel
<1>6. CASE TomaPausada
  <2>1. sem' \in [Semaforos -> Nat]
    BY <1>6, SemsTipo DEF TypeOK, TomaPausada
  <2>2. consola' \in TConsola
    <3>1. consola \in TConsola
      BY DEF TypeOK
    <3>2. consola' = [consola EXCEPT !.tomados = consola.tomados + 1]
      BY <1>6 DEF TomaPausada, FinComando
    <3>3. consola.tomados + 1 \in 0 .. 4
      BY <1>6 DEF TypeOK, TConsola, Control, ConsolaEnOrden, TomaPausada, En
    <3>4. QED BY <3>1, <3>2, <3>3, Literales, CampoConsola
  <2>3. pc' \in [Hilos -> Etiquetas]
    BY <1>6, VaTipo DEF TypeOK, TomaPausada, Etiquetas
  <2>4. QED BY <1>6, <2>1, <2>2, <2>3 DEF TypeOK, TomaPausada, procesos, bloqueos, locales,
      exterior, kernel
<1>7. CASE DetenerPlanificacion
  <2>1. consola' \in TConsola
    BY <1>7, CampoConsola DEF TypeOK, DetenerPlanificacion
  <2>2. pc' \in [Hilos -> Etiquetas]
    BY <1>7, VaTipo DEF TypeOK, DetenerPlanificacion, Etiquetas
  <2>3. QED BY <1>7, <2>1, <2>2 DEF TypeOK, DetenerPlanificacion, procesos, bloqueos, locales,
      exterior, kernel
<1>8. CASE ProcesoEstado
  <2>1. sem' \in [Semaforos -> Nat]
    BY <1>8, SemsTipo DEF TypeOK, ProcesoEstado, FinComando
  <2>2. consola' \in TConsola
    <3>1. consola \in TConsola
      BY DEF TypeOK
    <3>2. consola' = [consola EXCEPT !.tomados = IF consola.pausada THEN 4 ELSE 0,
                                        !.comando = "NINGUNO", !.objetivo = 0]
      BY <1>8 DEF ProcesoEstado, FinComando
    <3>3. (IF consola.pausada THEN 4 ELSE 0) \in 0 .. 4
      OBVIOUS
    <3>4. QED BY <3>1, <3>2, <3>3, Literales, CampoConsola
  <2>3. pc' \in [Hilos -> Etiquetas]
    BY <1>8, VaTipo DEF TypeOK, ProcesoEstado, Etiquetas, FinComando
  <2>4. QED BY <1>8, <2>1, <2>2, <2>3 DEF TypeOK, ProcesoEstado, procesos, bloqueos, locales,
      exterior, kernel
<1>9. CASE FinalizarSinEfecto
  <2>1. sem' \in [Semaforos -> Nat]
    BY <1>9, SemsTipo DEF TypeOK, FinalizarSinEfecto, FinComando
  <2>2. consola' \in TConsola
    <3>1. consola \in TConsola
      BY DEF TypeOK
    <3>2. consola' = [consola EXCEPT !.tomados = IF consola.pausada THEN 4 ELSE 0,
                                        !.comando = "NINGUNO", !.objetivo = 0]
      BY <1>9 DEF FinalizarSinEfecto, FinComando
    <3>3. (IF consola.pausada THEN 4 ELSE 0) \in 0 .. 4
      OBVIOUS
    <3>4. QED BY <3>1, <3>2, <3>3, Literales, CampoConsola
  <2>3. pc' \in [Hilos -> Etiquetas]
    BY <1>9, VaTipo DEF TypeOK, FinalizarSinEfecto, Etiquetas, FinComando
  <2>4. QED BY <1>9, <2>1, <2>2, <2>3 DEF TypeOK, FinalizarSinEfecto, procesos, bloqueos, locales,
      exterior, kernel
<1>10. CASE FinalizarEnEjecucion
  <2>1. cpu' \in TCpu
    <3>1. consola.objetivo \in PidsOCero
      BY <1>10 DEF Control, ConsolaEnOrden, FinalizarEnEjecucion, ObjetivoEn, PidsOCero
    <3>2. \/ cpu' = cpu
           \/ cpu' = [cpu EXCEPT !.interrupciones = cpu.interrupciones \cup {<<consola.objetivo,
               "FINALIZAR_PROCESO">>}]
      BY <1>10 DEF FinalizarEnEjecucion, InterrumpeCpu
    <3>3. cpu \in TCpu
      BY DEF TypeOK
    <3>4. QED BY <3>1, <3>2, <3>3, "FINALIZAR_PROCESO" \in {"FIN_QUANTUM", "FINALIZAR_PROCESO"},
        CampoCpu, ZenonT(60)
  <2>2. pc' \in [Hilos -> Etiquetas]
    BY <1>10, VaTipo DEF TypeOK, FinalizarEnEjecucion, Etiquetas
  <2>3. QED BY <1>10, <2>1, <2>2 DEF TypeOK, FinalizarEnEjecucion, procesos, bloqueos, locales,
      exterior, kernel
<1>11. CASE MarcaPedidoFinalizacion
  <2>1. pcb' \in [Pids -> PCBs]
    BY <1>11, CampoPCB DEF TypeOK, Estados, MarcaPedidoFinalizacion
  <2>2. sem' \in [Semaforos -> Nat]
    BY <1>11, SemsTipo DEF TypeOK, MarcaPedidoFinalizacion, FinComando
  <2>3. consola' \in TConsola
    <3>1. consola \in TConsola
      BY DEF TypeOK
    <3>2. consola' = [consola EXCEPT !.tomados = IF consola.pausada THEN 4 ELSE 0,
                                        !.comando = "NINGUNO", !.objetivo = 0]
      BY <1>11 DEF MarcaPedidoFinalizacion, FinComando
    <3>3. (IF consola.pausada THEN 4 ELSE 0) \in 0 .. 4
      OBVIOUS
    <3>4. QED BY <3>1, <3>2, <3>3, Literales, CampoConsola
  <2>4. pc' \in [Hilos -> Etiquetas]
    BY <1>11, VaTipo DEF TypeOK, MarcaPedidoFinalizacion, Etiquetas, FinComando
  <2>5. QED BY <1>11, <2>1, <2>2, <2>3, <2>4 DEF TypeOK, MarcaPedidoFinalizacion, procesos,
      bloqueos, locales, exterior, kernel
<1>12. CASE FinalizarCuelga
  <2>1. pc' \in [Hilos -> Etiquetas]
    BY <1>12, VaTipo DEF TypeOK, FinalizarCuelga, Etiquetas
  <2>2. QED BY <1>12, <2>1 DEF TypeOK, FinalizarCuelga, procesos, bloqueos, locales, exterior,
      kernel
<1>13. CASE FinalizarExtrae
  <2>1. cola' \in [Colas -> Seq(Pids)]
    <3>1. consola.objetivo \in Pids
      BY <1>13 DEF Control, ConsolaEnOrden, FinalizarExtrae, ObjetivoEn
    <3>2. Contains(cola[ColaDe(consola.objetivo)], consola.objetivo)
      BY <1>13 DEF FinalizarExtrae
    <3>3. cola' = [cola EXCEPT ![ColaDe(consola.objetivo)] = Extraer(@, consola.objetivo),
                                 !["EXIT"] = Append(@, consola.objetivo)]
      BY <1>13 DEF FinalizarExtrae
    <3>4. ColaDe(consola.objetivo) \in Colas =>
             Extraer(cola[ColaDe(consola.objetivo)], consola.objetivo) \in Seq(Pids)
      BY <3>1, <3>2, <3>3, ExtraerTipo DEF TypeOK
    <3>5. /\ cola \in [Colas -> Seq(Pids)]
           /\ \A q \in Pids, s \in Seq(Pids) : Append(s, q) \in Seq(Pids)
      BY DEF TypeOK
    <3>6. QED BY <3>1, <3>2, <3>3, <3>4, <3>5
  <2>2. pcb' \in [Pids -> PCBs]
    BY <1>13, CampoPCB DEF TypeOK, Estados, FinalizarExtrae
  <2>3. sem' \in [Semaforos -> Nat]
    BY <1>13, SemsTipo DEF TypeOK, FinalizarExtrae, FinComando
  <2>4. consola' \in TConsola
    <3>1. consola \in TConsola
      BY DEF TypeOK
    <3>2. consola' = [consola EXCEPT !.tomados = IF consola.pausada THEN 4 ELSE 0,
                                        !.comando = "NINGUNO", !.objetivo = 0]
      BY <1>13 DEF FinalizarExtrae, FinComando
    <3>3. (IF consola.pausada THEN 4 ELSE 0) \in 0 .. 4
      OBVIOUS
    <3>4. QED BY <3>1, <3>2, <3>3, Literales, CampoConsola
  <2>5. pc' \in [Hilos -> Etiquetas]
    BY <1>13, VaTipo DEF TypeOK, FinalizarExtrae, Etiquetas, FinComando
  <2>6. QED BY <1>13, <2>1, <2>2, <2>3, <2>4, <2>5 DEF TypeOK, FinalizarExtrae, procesos,
      bloqueos, locales, exterior, kernel
<1>14. CASE FinalizarNulo
  <2>1. pc' \in [Hilos -> Etiquetas]
    BY <1>14, VaTipo DEF TypeOK, FinalizarNulo, Etiquetas
  <2>2. QED BY <1>14, <2>1 DEF TypeOK, FinalizarNulo, procesos, bloqueos, locales, exterior, kernel
<1>15. CASE BajaMultiprogramacion
  <2>1. sem' \in [Semaforos -> Nat]
    BY <1>15, SemsTipo DEF TypeOK, BajaMultiprogramacion
  <2>2. consola' \in TConsola
    <3>1. consola \in TConsola
      BY DEF TypeOK
    <3>2. consola' = [consola EXCEPT !.grado = consola.grado - 1,
                  !.objetivo = IF consola.grado - 1 = consola.objetivo THEN 0 ELSE consola.objetivo]
      BY <1>15 DEF BajaMultiprogramacion, FinComando
    <3>3. /\ consola.grado - 1 \in Nat
           /\ (IF consola.grado - 1 = consola.objetivo THEN 0 ELSE consola.objetivo) \in Nat
      BY <1>15 DEF TypeOK, TConsola, Control, ConsolaEnOrden, BajaMultiprogramacion, En
    <3>4. QED BY <3>1, <3>2, <3>3, Literales, CampoConsola
  <2>3. pc' \in [Hilos -> Etiquetas]
    BY <1>15, VaTipo DEF TypeOK, BajaMultiprogramacion, Etiquetas
  <2>4. QED BY <1>15, <2>1, <2>2, <2>3 DEF TypeOK, BajaMultiprogramacion, procesos, bloqueos,
      locales, exterior, kernel
<1>16. CASE EsperaOrdenCorto
  <2>1. sem' \in [Semaforos -> Nat]
    BY <1>16, SemsTipo DEF TypeOK, EsperaOrdenCorto
  <2>2. pc' \in [Hilos -> Etiquetas]
    BY <1>16, VaTipo DEF TypeOK, EsperaOrdenCorto, Etiquetas
  <2>3. QED BY <1>16, <2>1, <2>2 DEF TypeOK, EsperaOrdenCorto, procesos, bloqueos, locales,
      exterior, kernel
<1>17. CASE EligeProceso
  <2>1. sem' \in [Semaforos -> Nat]
    BY <1>17, SemsTipo DEF TypeOK, EligeProceso, PasoCorto
  <2>2. pcb' \in [Pids -> PCBs]
    <3>1. pcb \in [Pids -> PCBs]
      BY DEF TypeOK
    <3>2. pcb' = [pcb EXCEPT ![Head(cola[ColaDeListos])].estado = "EXEC",
               ![Head(cola[ColaDeListos])].parcial = IF ColaDeListos = "READY_VRR" THEN @ ELSE FALSE]
      BY <1>17 DEF EligeProceso
    <3>3. \A p \in Pids : (IF ColaDeListos = "READY_VRR" THEN pcb[p].parcial ELSE FALSE) \in BOOLEAN
      BY <3>1, <3>2, ValorPCB
    <3>4. QED BY <3>1, <3>2, <3>3, CampoPCB DEF Estados
  <2>3. cola' \in [Colas -> Seq(Pids)]
    <3>1. ColaDeListos \in Colas
      BY DEF ColaDeListos, Colas, ColasFijas
    <3>2. /\ Pasa(Head(cola[ColaDeListos]), ColaDeListos, "RUNNING")
           /\ cola[ColaDeListos] # <<>>
      BY <1>17 DEF EligeProceso
    <3>3. Head(cola[ColaDeListos]) \in Pids
      BY <3>1, <3>2 DEF TypeOK
    <3>4. QED BY <3>1, <3>2, <3>3, PasaTipo DEF TypeOK, Colas, ColasFijas
  <2>4. pc' \in [Hilos -> Etiquetas]
    BY <1>17, VaTipo DEF TypeOK, EligeProceso, Etiquetas
  <2>5. QED BY <1>17, <2>1, <2>2, <2>3, <2>4 DEF TypeOK, EligeProceso, procesos, bloqueos,
      locales, exterior, kernel
<1>18. CASE NoHayListos
  <2>1. sem' \in [Semaforos -> Nat]
    BY <1>18, SemsTipo DEF TypeOK, NoHayListos, PasoCorto
  <2>2. pc' \in [Hilos -> Etiquetas]
    BY <1>18, VaTipo DEF TypeOK, NoHayListos, Etiquetas
  <2>3. QED BY <1>18, <2>1, <2>2 DEF TypeOK, NoHayListos, procesos, bloqueos, locales, exterior,
      kernel
<1>19. CASE EnviaProcesoACpu
  <2>1. dispatch' \in Seq(TDispatch)
    BY <1>19 DEF TypeOK, TDispatch, PidsOCero, EnviaProcesoACpu, Control, HayRunning, En, Colas,
        ColasFijas
  <2>2. hilo_quantum' \in TQuantum
    BY <1>19 DEF TypeOK, TQuantum, PidsOCero, EnviaProcesoACpu, Control, HayRunning, En, Colas,
        ColasFijas
  <2>3. pc' \in [Hilos -> Etiquetas]
    BY <1>19, VaTipo DEF TypeOK, EnviaProcesoACpu, Etiquetas
  <2>4. QED BY <1>19, <2>1, <2>2, <2>3 DEF TypeOK, EnviaProcesoACpu, procesos, bloqueos, locales,
      exterior, kernel
<1>20. CASE ControlQuantum
  <2>1. cpu' \in TCpu
    <3>1. hilo_quantum.pid \in PidsOCero
      BY DEF TypeOK, TQuantum
    <3>2. cpu' = [cpu EXCEPT !.interrupciones = cpu.interrupciones \cup {<<hilo_quantum.pid,
        "FIN_QUANTUM">>}]
      BY <1>20 DEF ControlQuantum
    <3>3. QED BY <3>1, <3>2, CampoCpu DEF TypeOK
  <2>2. hilo_quantum' \in TQuantum
    BY <1>20 DEF TypeOK, TQuantum, PidsOCero, ControlQuantum
  <2>3. QED BY <1>20, <2>1, <2>2 DEF TypeOK, ControlQuantum, procesos, bloqueos, locales,
      exterior, kernel
<1>21. CASE RecibeDesalojo
  <2>1. desalojos' \in Seq(TDesalojo)
    BY <1>21 DEF TypeOK, RecibeDesalojo
  <2>2. corto' \in TCorto
    BY <1>21 DEF TypeOK, TCorto, RecibeDesalojo, Control, HayRunning, En, Colas, ColasFijas,
        PidsOCero, TDesalojo
  <2>3. pcb' \in [Pids -> PCBs]
    <3>1. pcb \in [Pids -> PCBs]
      BY DEF TypeOK
    <3>2. pcb' = [pcb EXCEPT ![Head(cola["RUNNING"])].desalojo =
                                 IF @ = "SIN_DESALOJAR" THEN "DESALOJADO" ELSE @]
      BY <1>21 DEF RecibeDesalojo
    <3>3. \A p \in Pids : (IF pcb[p].desalojo = "SIN_DESALOJAR" THEN "DESALOJADO" ELSE pcb[p].desalojo)
                            \in {"SIN_DESALOJAR", "DESALOJADO", "PEDIDO_FINALIZACION"}
      BY <3>1, <3>2, ValorPCB
    <3>4. QED BY <3>1, <3>2, <3>3, CampoPCB
  <2>4. pc' \in [Hilos -> Etiquetas]
    BY <1>21, VaTipo DEF TypeOK, RecibeDesalojo, Etiquetas
  <2>5. QED BY <1>21, <2>1, <2>2, <2>3, <2>4 DEF TypeOK, RecibeDesalojo, procesos, bloqueos,
      locales, exterior, kernel
<1>22. CASE TrataFin
  <2>1. hilo_quantum' \in TQuantum
    BY <1>22 DEF TypeOK, TQuantum, PidsOCero, TrataFin, CancelaQuantum, MandaAExit
  <2>2. cola' \in [Colas -> Seq(Pids)]
    BY <1>22, PasaTipo DEF TypeOK, Colas, ColasFijas, TrataFin, MandaAExit, Trata, Control,
        CortoEnOrden, En
  <2>3. corto' \in TCorto
    BY <1>22 DEF TypeOK, TCorto, TrataFin, MandaAExit
  <2>4. sem' \in [Semaforos -> Nat]
    BY <1>22, SemsTipo DEF TypeOK, TrataFin, PasoCorto, MandaAExit
  <2>5. pc' \in [Hilos -> Etiquetas]
    BY <1>22, VaTipo DEF TypeOK, TrataFin, Etiquetas, MandaAExit
  <2>6. QED BY <1>22, <2>1, <2>2, <2>3, <2>4, <2>5 DEF TypeOK, TrataFin, MandaAExit, procesos,
      bloqueos, locales, exterior, kernel
<1>23. CASE TrataRecursoInvalido
  <2>1. hilo_quantum' \in TQuantum
    BY <1>23 DEF TypeOK, TQuantum, PidsOCero, TrataRecursoInvalido, CancelaQuantum, MandaAExit
  <2>2. cola' \in [Colas -> Seq(Pids)]
    BY <1>23, PasaTipo DEF TypeOK, Colas, ColasFijas, TrataRecursoInvalido, MandaAExit, Trata,
        Control, CortoEnOrden, En
  <2>3. corto' \in TCorto
    BY <1>23 DEF TypeOK, TCorto, TrataRecursoInvalido, MandaAExit
  <2>4. sem' \in [Semaforos -> Nat]
    BY <1>23, SemsTipo DEF TypeOK, TrataRecursoInvalido, PasoCorto, MandaAExit
  <2>5. pc' \in [Hilos -> Etiquetas]
    BY <1>23, VaTipo DEF TypeOK, TrataRecursoInvalido, Etiquetas, MandaAExit
  <2>6. QED BY <1>23, <2>1, <2>2, <2>3, <2>4, <2>5 DEF TypeOK, TrataRecursoInvalido, MandaAExit,
      procesos, bloqueos, locales, exterior, kernel
<1>24. CASE AvisaExit
  <2>1. pcb' \in [Pids -> PCBs]
    BY <1>24, CampoPCB DEF TypeOK, Estados, AvisaExit
  <2>2. sem' \in [Semaforos -> Nat]
    BY <1>24, SemsTipo DEF TypeOK, AvisaExit
  <2>3. pc' \in [Hilos -> Etiquetas]
    BY <1>24, VaTipo DEF TypeOK, AvisaExit, Etiquetas
  <2>4. QED BY <1>24, <2>1, <2>2, <2>3 DEF TypeOK, AvisaExit, procesos, bloqueos, locales,
      exterior, kernel
<1>25. CASE TrataWait
  <2>1. sem' \in [Semaforos -> Nat]
    BY <1>25, SemsTipo DEF TypeOK, TrataWait
  <2>2. pc' \in [Hilos -> Etiquetas]
    BY <1>25, VaTipo DEF TypeOK, TrataWait, Etiquetas
  <2>3. QED BY <1>25, <2>1, <2>2 DEF TypeOK, TrataWait, procesos, bloqueos, locales, exterior,
      kernel
<1>26. CASE WaitBloquea
  <2>1. hilo_quantum' \in TQuantum
    BY <1>26 DEF TypeOK, TQuantum, PidsOCero, WaitBloquea, CancelaQuantum
  <2>2. pcb' \in [Pids -> PCBs]
    BY <1>26, CampoPCB DEF TypeOK, Estados, WaitBloquea, TCorto
  <2>3. cola' \in [Colas -> Seq(Pids)]
    BY <1>26, PasaTipo DEF TypeOK, Colas, ColasFijas, WaitBloquea, Control, CortoEnOrden, En
  <2>4. sem' \in [Semaforos -> Nat]
    BY <1>26, SemsTipo DEF TypeOK, WaitBloquea
  <2>5. corto' \in TCorto
    BY <1>26 DEF TypeOK, TCorto, WaitBloquea
  <2>6. pc' \in [Hilos -> Etiquetas]
    BY <1>26, VaTipo DEF TypeOK, WaitBloquea, Etiquetas
  <2>7. QED BY <1>26, <2>1, <2>2, <2>3, <2>4, <2>5, <2>6 DEF TypeOK, WaitBloquea, procesos,
      bloqueos, locales, exterior, kernel
<1>27. CASE WaitConcede
  <2>1. instancias' \in [Recursos -> Nat]
    BY <1>27 DEF TypeOK, WaitConcede, Control, CortoEnOrden, En
  <2>2. pcb' \in [Pids -> PCBs]
    <3>1. pcb \in [Pids -> PCBs] /\ corto.proceso \in Pids /\ corto.arg \in Recursos
      BY <1>27 DEF TypeOK, Control, CortoEnOrden, En, WaitConcede
    <3>2. pcb' = [pcb EXCEPT ![corto.proceso].recursos[corto.arg] = @ + 1]
      BY <1>27 DEF WaitConcede
    <3>3. pcb[corto.proceso].recursos[corto.arg] + 1 \in Nat
      BY <3>1, <3>2, ValorPCB
    <3>4. QED BY <3>1, <3>2, <3>3, CampoPCB
  <2>3. sem' \in [Semaforos -> Nat]
    BY <1>27, SemsTipo DEF TypeOK, WaitConcede
  <2>4. corto' \in TCorto
    BY <1>27 DEF TypeOK, TCorto, WaitConcede
  <2>5. pc' \in [Hilos -> Etiquetas]
    BY <1>27, VaTipo DEF TypeOK, WaitConcede, Etiquetas
  <2>6. QED BY <1>27, <2>1, <2>2, <2>3, <2>4, <2>5 DEF TypeOK, WaitConcede, procesos, bloqueos,
      locales, exterior, kernel
<1>28. CASE TrataSignal
  <2>1. sem' \in [Semaforos -> Nat]
    BY <1>28, SemsTipo DEF TypeOK, TrataSignal, PasoCorto
  <2>2. pc' \in [Hilos -> Etiquetas]
    BY <1>28, VaTipo DEF TypeOK, TrataSignal, Etiquetas
  <2>3. QED BY <1>28, <2>1, <2>2 DEF TypeOK, TrataSignal, procesos, bloqueos, locales, exterior,
      kernel
<1>29. CASE SignalDevuelve
  <2>1. sem' \in [Semaforos -> Nat]
    BY <1>29, SemsTipo DEF TypeOK, SignalDevuelve
  <2>2. pcb' \in [Pids -> PCBs]
    <3>1. pcb \in [Pids -> PCBs] /\ corto.proceso \in Pids /\ corto.arg \in Recursos
      BY <1>29 DEF TypeOK, Control, CortoEnOrden, En, SignalDevuelve
    <3>2. pcb' = [pcb EXCEPT ![corto.proceso].recursos[corto.arg] = Devuelto(@)]
      BY <1>29 DEF SignalDevuelve
    <3>3. Devuelto(pcb[corto.proceso].recursos[corto.arg]) \in Nat
      BY <3>1, <3>2, ValorPCB DEF Devuelto
    <3>4. QED BY <3>1, <3>2, <3>3, CampoPCB
  <2>3. pc' \in [Hilos -> Etiquetas]
    BY <1>29, VaTipo DEF TypeOK, SignalDevuelve, Etiquetas
  <2>4. QED BY <1>29, <2>1, <2>2, <2>3 DEF TypeOK, SignalDevuelve, procesos, bloqueos, locales,
      exterior, kernel
<1>30. CASE SignalEntrega
  <2>1. cola' \in [Colas -> Seq(Pids)]
    BY <1>30, EntregaTipo, CampoPCB DEF TypeOK, Devuelto, Control, CortoEnOrden, LargoEnOrden, En,
        SignalEntrega
  <2>2. pcb' \in [Pids -> PCBs]
    BY <1>30, EntregaTipo, CampoPCB DEF TypeOK, Devuelto, Control, CortoEnOrden, LargoEnOrden, En,
        SignalEntrega
  <2>3. sem' \in [Semaforos -> Nat]
    BY <1>30, EntregaTipo, CampoPCB DEF TypeOK, Devuelto, Control, CortoEnOrden, LargoEnOrden, En,
        SignalEntrega
  <2>4. instancias' \in [Recursos -> Nat]
    BY <1>30, EntregaTipo, CampoPCB DEF TypeOK, Devuelto, Control, CortoEnOrden, LargoEnOrden, En,
        SignalEntrega
  <2>5. corto' \in TCorto
    BY <1>30 DEF TypeOK, TCorto, SignalEntrega
  <2>6. pc' \in [Hilos -> Etiquetas]
    BY <1>30, VaTipo DEF TypeOK, SignalEntrega, Etiquetas
  <2>7. QED BY <1>30, <2>1, <2>2, <2>3, <2>4, <2>5, <2>6 DEF TypeOK, SignalEntrega, procesos,
      bloqueos, locales, exterior, kernel
<1>31. CASE RespondeCpu
  <2>1. dispatch' \in Seq(TDispatch)
    BY <1>31 DEF TypeOK, TDispatch, PidsOCero, RespondeCpu, Control, CortoEnOrden, En, TCorto
  <2>2. pc' \in [Hilos -> Etiquetas]
    BY <1>31, VaTipo DEF TypeOK, RespondeCpu, Etiquetas
  <2>3. QED BY <1>31, <2>1, <2>2 DEF TypeOK, RespondeCpu, procesos, bloqueos, locales, exterior,
      kernel
<1>32. CASE LimpiaDesalojo
  <2>1. pcb' \in [Pids -> PCBs]
    BY <1>32, CampoPCB DEF TypeOK, Estados, LimpiaDesalojo
  <2>2. corto' \in TCorto
    BY <1>32 DEF TypeOK, TCorto, LimpiaDesalojo, PidsOCero, Nombres
  <2>3. pc' \in [Hilos -> Etiquetas]
    BY <1>32, VaTipo DEF TypeOK, LimpiaDesalojo, Etiquetas
  <2>4. QED BY <1>32, <2>1, <2>2, <2>3 DEF TypeOK, LimpiaDesalojo, procesos, bloqueos, locales,
      exterior, kernel
<1>33. CASE TrataFinQuantum
  <2>1. hilo_quantum' \in TQuantum
    BY <1>33 DEF TypeOK, TQuantum, PidsOCero, TrataFinQuantum, CancelaQuantum
  <2>2. pcb' \in [Pids -> PCBs]
    BY <1>33, CampoPCB DEF TypeOK, Estados, TrataFinQuantum, ReiniciaQuantum
  <2>3. cola' \in [Colas -> Seq(Pids)]
    BY <1>33, PasaTipo DEF TypeOK, Colas, ColasFijas, TrataFinQuantum, Control, CortoEnOrden, En,
        Trata
  <2>4. sem' \in [Semaforos -> Nat]
    BY <1>33, SemsTipo DEF TypeOK, TrataFinQuantum, PasoCorto
  <2>5. pc' \in [Hilos -> Etiquetas]
    BY <1>33, VaTipo DEF TypeOK, TrataFinQuantum, Etiquetas
  <2>6. QED BY <1>33, <2>1, <2>2, <2>3, <2>4, <2>5 DEF TypeOK, TrataFinQuantum, procesos,
      bloqueos, locales, exterior, kernel
<1>34. CASE TrataIOInvalida
  <2>1. hilo_quantum' \in TQuantum
    BY <1>34 DEF TypeOK, TQuantum, PidsOCero, TrataIOInvalida, CancelaQuantum
  <2>2. pcb' \in [Pids -> PCBs]
    <3>1. pcb \in [Pids -> PCBs]
      BY DEF TypeOK
    <3>2. PICK resto \in BOOLEAN : pcb' = [pcb EXCEPT ![corto.proceso].parcial = resto]
      BY <1>34 DEF QuantumRestante, TrataIOInvalida
    <3>3. QED BY <3>1, <3>2, CampoPCB
  <2>3. cola' \in [Colas -> Seq(Pids)]
    BY <1>34, PasaTipo DEF TypeOK, Colas, ColasFijas, TrataIOInvalida, Control, CortoEnOrden, En,
        Trata
  <2>4. sem' \in [Semaforos -> Nat]
    BY <1>34, SemsTipo DEF TypeOK, TrataIOInvalida, PasoCorto
  <2>5. pc' \in [Hilos -> Etiquetas]
    BY <1>34, VaTipo DEF TypeOK, TrataIOInvalida, Etiquetas
  <2>6. QED BY <1>34, <2>1, <2>2, <2>3, <2>4, <2>5 DEF TypeOK, TrataIOInvalida, procesos,
      bloqueos, locales, exterior, kernel
<1>35. CASE TrataIO
  <2>1. hilo_quantum' \in TQuantum
    BY <1>35 DEF TypeOK, TQuantum, PidsOCero, TrataIO, CancelaQuantum
  <2>2. pcb' \in [Pids -> PCBs]
    <3>1. pcb \in [Pids -> PCBs]
      BY DEF TypeOK
    <3>2. PICK resto \in BOOLEAN : pcb' = [pcb EXCEPT ![corto.proceso].parcial = resto]
      BY <1>35 DEF QuantumRestante, TrataIO
    <3>3. QED BY <3>1, <3>2, CampoPCB
  <2>3. sem' \in [Semaforos -> Nat]
    BY <1>35, SemsTipo DEF TypeOK, TrataIO
  <2>4. pc' \in [Hilos -> Etiquetas]
    BY <1>35, VaTipo DEF TypeOK, TrataIO, Etiquetas
  <2>5. QED BY <1>35, <2>1, <2>2, <2>3, <2>4 DEF TypeOK, TrataIO, procesos, bloqueos, locales,
      exterior, kernel
<1>36. CASE IOBloquea
  <2>1. pcb' \in [Pids -> PCBs]
    BY <1>36, CampoPCB DEF TypeOK, Estados, IOBloquea, TCorto
  <2>2. cola' \in [Colas -> Seq(Pids)]
    BY <1>36, PasaTipo DEF TypeOK, Colas, ColasFijas, IOBloquea, Control, CortoEnOrden, En
  <2>3. sem' \in [Semaforos -> Nat]
    BY <1>36, SemsTipo DEF TypeOK, IOBloquea
  <2>4. pc' \in [Hilos -> Etiquetas]
    BY <1>36, VaTipo DEF TypeOK, IOBloquea, Etiquetas
  <2>5. QED BY <1>36, <2>1, <2>2, <2>3, <2>4 DEF TypeOK, IOBloquea, procesos, bloqueos, locales,
      exterior, kernel
<1>37. CASE IOEnvia
  <2>1. dispositivo' \in [Interfaces -> TDispositivo]
    <3>1. corto.arg \in Interfaces /\ corto.proceso \in Pids
      BY <1>37 DEF Control, CortoEnOrden, En, IOEnvia
    <3>2. dispositivo' = dispositivo \/ Ordena(corto.arg, corto.proceso)
      BY <1>37 DEF IOEnvia
    <3>3. QED BY <3>1, <3>2, OrdenaTipo DEF TypeOK
  <2>2. interfaz' \in [Interfaces -> TInterfaz]
    <3>1. corto.arg \in Interfaces /\ corto.proceso \in PidsOCero
      BY <1>37 DEF Control, CortoEnOrden, En, IOEnvia, PidsOCero
    <3>2. interfaz \in [Interfaces -> TInterfaz] /\ 1 \in {0, 1}
      BY DEF TypeOK
    <3>3. [interfaz EXCEPT ![corto.arg].disponibilidad = 1,
                            ![corto.arg].pid_ejecutando = corto.proceso]
              \in [Interfaces -> TInterfaz]
      BY <3>1, <3>2, CampoInterfaz
    <3>4. QED BY <1>37, <3>1, <3>2, <3>3 DEF IOEnvia
  <2>3. pcb' \in [Pids -> PCBs]
    <3>1. pcb \in [Pids -> PCBs] /\ TRUE \in BOOLEAN
      BY DEF TypeOK
    <3>2. [pcb EXCEPT ![corto.proceso].instruccion_io = TRUE] \in [Pids -> PCBs]
      BY <3>1, CampoPCB
    <3>3. QED BY <1>37, <3>1, <3>2 DEF IOEnvia
  <2>4. sem' \in [Semaforos -> Nat]
    BY <1>37, SemsTipo DEF TypeOK, IOEnvia
  <2>5. pc' \in [Hilos -> Etiquetas]
    BY <1>37, VaTipo DEF TypeOK, IOEnvia, Etiquetas
  <2>6. QED BY <1>37, <2>1, <2>2, <2>3, <2>4, <2>5 DEF TypeOK, IOEnvia, procesos, bloqueos,
      locales, exterior, kernel
<1>38. CASE EsperaOrdenLargo
  <2>1. sem' \in [Semaforos -> Nat]
    BY <1>38, SemsTipo DEF TypeOK, EsperaOrdenLargo
  <2>2. pc' \in [Hilos -> Etiquetas]
    BY <1>38, VaTipo DEF TypeOK, EsperaOrdenLargo, Etiquetas
  <2>3. QED BY <1>38, <2>1, <2>2 DEF TypeOK, EsperaOrdenLargo, procesos, bloqueos, locales,
      exterior, kernel
<1>39. CASE TomaGrado
  <2>1. sem' \in [Semaforos -> Nat]
    BY <1>39, SemsTipo DEF TypeOK, TomaGrado
  <2>2. pc' \in [Hilos -> Etiquetas]
    BY <1>39, VaTipo DEF TypeOK, TomaGrado, Etiquetas
  <2>3. QED BY <1>39, <2>1, <2>2 DEF TypeOK, TomaGrado, procesos, bloqueos, locales, exterior,
      kernel
<1>40. CASE SacaDeNew
  <2>1. sem' \in [Semaforos -> Nat]
    BY <1>40, SemsTipo DEF TypeOK, SacaDeNew
  <2>2. memoria' \in TMemoria
    <3>1. Head(cola["NEW"]) \in PidsOCero
      BY <1>40 DEF TypeOK, SacaDeNew, Colas, ColasFijas, PidsOCero
    <3>2. QED BY <1>40, <3>1, PideTipo DEF TypeOK, SacaDeNew
  <2>3. cola' \in [Colas -> Seq(Pids)]
    BY <1>40, PasaTipo DEF TypeOK, Colas, ColasFijas, SacaDeNew
  <2>4. largo' \in TLargo
    <3>1. Head(cola["NEW"]) \in PidsOCero
      BY <1>40 DEF TypeOK, SacaDeNew, Colas, ColasFijas, PidsOCero
    <3>2. largo' = [largo EXCEPT !.entrante = Head(cola["NEW"])]
      BY <1>40 DEF SacaDeNew
    <3>3. QED BY <3>1, <3>2 DEF TypeOK, TLargo
  <2>5. pc' \in [Hilos -> Etiquetas]
    BY <1>40, VaTipo DEF TypeOK, SacaDeNew, Etiquetas
  <2>6. QED BY <1>40, <2>1, <2>2, <2>3, <2>4, <2>5 DEF TypeOK, SacaDeNew, procesos, bloqueos,
      locales, exterior, kernel
<1>41. CASE NewVacia
  <2>1. sem' \in [Semaforos -> Nat]
    BY <1>41, SemsTipo DEF TypeOK, NewVacia
  <2>2. pc' \in [Hilos -> Etiquetas]
    BY <1>41, VaTipo DEF TypeOK, NewVacia, Etiquetas
  <2>3. QED BY <1>41, <2>1, <2>2 DEF TypeOK, NewVacia, procesos, bloqueos, locales, exterior, kernel
<1>42. CASE PasaAReady
  <2>1. memoria' \in TMemoria
    <3>1. QED BY <1>42, RecibeTipo DEF TypeOK, PasaAReady
  <2>2. pcb' \in [Pids -> PCBs]
    BY <1>42, CampoPCB DEF TypeOK, Estados, PasaAReady
  <2>3. cola' \in [Colas -> Seq(Pids)]
    BY <1>42, PasaTipo DEF TypeOK, Colas, ColasFijas, PasaAReady, Control, LargoEnOrden, En
  <2>4. largo' \in TLargo
    BY <1>42 DEF TypeOK, TLargo, PidsOCero, PasaAReady
  <2>5. sem' \in [Semaforos -> Nat]
    BY <1>42, SemsTipo DEF TypeOK, PasaAReady
  <2>6. pc' \in [Hilos -> Etiquetas]
    BY <1>42, VaTipo DEF TypeOK, PasaAReady, Etiquetas
  <2>7. QED BY <1>42, <2>1, <2>2, <2>3, <2>4, <2>5, <2>6 DEF TypeOK, PasaAReady, procesos,
      bloqueos, locales, exterior, kernel
<1>43. CASE EsperaOrdenExit
  <2>1. sem' \in [Semaforos -> Nat]
    BY <1>43, SemsTipo DEF TypeOK, EsperaOrdenExit
  <2>2. pc' \in [Hilos -> Etiquetas]
    BY <1>43, VaTipo DEF TypeOK, EsperaOrdenExit, Etiquetas
  <2>3. QED BY <1>43, <2>1, <2>2 DEF TypeOK, EsperaOrdenExit, procesos, bloqueos, locales,
      exterior, kernel
<1>44. CASE ExitDesdeNew
  <2>1. sem' \in [Semaforos -> Nat]
    BY <1>44, SemsTipo DEF TypeOK, ExitDesdeNew
  <2>2. pcb' \in [Pids -> PCBs]
    BY <1>44, CampoPCB DEF TypeOK, Estados, ExitDesdeNew
  <2>3. largo' \in TLargo
    <3>1. cola["EXIT"] \in Seq(Pids) /\ sem["exit"] \in Nat
      BY DEF TypeOK, Colas, ColasFijas, Semaforos, SemaforosFijos
    <3>2. cola["EXIT"] # <<>>
      BY <1>44, <3>1 DEF SinDespertarPerdido, ExitContado, Uno, En, ExitDesdeNew
    <3>3. Head(cola["EXIT"]) \in PidsOCero
      BY <3>1, <3>2 DEF PidsOCero
    <3>4. largo' = [largo EXCEPT !.saliente = Head(cola["EXIT"])]
      BY <1>44 DEF ExitDesdeNew
    <3>5. QED BY <3>1, <3>2, <3>3, <3>4 DEF TypeOK, TLargo
  <2>4. pc' \in [Hilos -> Etiquetas]
    BY <1>44, VaTipo DEF TypeOK, ExitDesdeNew, Etiquetas
  <2>5. QED BY <1>44, <2>1, <2>2, <2>3, <2>4 DEF TypeOK, ExitDesdeNew, procesos, bloqueos,
      locales, exterior, kernel
<1>45. CASE ExitDesdeOtro
  <2>1. sem' \in [Semaforos -> Nat]
    BY <1>45, SemsTipo DEF TypeOK, ExitDesdeOtro
  <2>2. largo' \in TLargo
    <3>1. cola["EXIT"] \in Seq(Pids) /\ sem["exit"] \in Nat
      BY DEF TypeOK, Colas, ColasFijas, Semaforos, SemaforosFijos
    <3>2. cola["EXIT"] # <<>>
      BY <1>45, <3>1 DEF SinDespertarPerdido, ExitContado, Uno, En, ExitDesdeOtro
    <3>3. Head(cola["EXIT"]) \in PidsOCero
      BY <3>1, <3>2 DEF PidsOCero
    <3>4. largo' = [largo EXCEPT !.saliente = Head(cola["EXIT"])]
      BY <1>45 DEF ExitDesdeOtro
    <3>5. QED BY <3>1, <3>2, <3>3, <3>4 DEF TypeOK, TLargo
  <2>3. pc' \in [Hilos -> Etiquetas]
    BY <1>45, VaTipo DEF TypeOK, ExitDesdeOtro, Etiquetas
  <2>4. QED BY <1>45, <2>1, <2>2, <2>3 DEF TypeOK, ExitDesdeOtro, procesos, bloqueos, locales,
      exterior, kernel
<1>46. CASE LiberaTomaInst
  <2>1. largo' \in TLargo
    BY <1>46, ZenonT(60) DEF TypeOK, TLargo, PidsOCero, LiberaTomaInst, Tenidos, Recursos, ToSet
  <2>2. sem' \in [Semaforos -> Nat]
    BY <1>46, SemsTipo DEF TypeOK, LiberaTomaInst
  <2>3. pc' \in [Hilos -> Etiquetas]
    BY <1>46, VaTipo DEF TypeOK, LiberaTomaInst, Etiquetas
  <2>4. QED BY <1>46, <2>1, <2>2, <2>3 DEF TypeOK, LiberaTomaInst, procesos, bloqueos, locales,
      exterior, kernel
<1>47. CASE LiberaInstancia
  <2>1. largo.recurso \in Recursos
    BY <1>47 DEF Control, LargoEnOrden, En, LiberaInstancia
  <2> DEFINE pcbs == [pcb EXCEPT ![largo.saliente].recursos[largo.recurso] = Devuelto(@)]
  <2>2. \A p \in Pids : Devuelto(pcb[p].recursos[largo.recurso]) \in Nat
    BY <2>1, ValorPCB DEF TypeOK, Devuelto
  <2>3. pcbs \in [Pids -> PCBs]
    BY <2>2, CampoPCB DEF TypeOK
  <2>4. EntregaInstancia(largo.recurso, pcbs)
    BY <1>47 DEF LiberaInstancia
  <2> HIDE DEF pcbs
  <2>5. /\ pcb' \in [Pids -> PCBs]
        /\ cola' \in [Colas -> Seq(Pids)]
        /\ sem' \in [Semaforos -> Nat]
        /\ instancias' \in [Recursos -> Nat]
    BY <2>1, <2>3, <2>4, EntregaTipo
  <2>6. pc' \in [Hilos -> Etiquetas]
    BY <1>47, VaTipo DEF TypeOK, Etiquetas, LiberaInstancia
  <2>7. QED BY <1>47, <2>5, <2>6 DEF TypeOK, LiberaInstancia, locales, exterior
<1>48. CASE LiberaMemoria
  <2>1. memoria' \in TMemoria
    <3>1. largo.saliente \in PidsOCero
      BY DEF TypeOK, TLargo
    <3>2. QED BY <1>48, <3>1, PideTipo DEF TypeOK, LiberaMemoria
  <2>2. pc' \in [Hilos -> Etiquetas]
    BY <1>48, VaTipo DEF TypeOK, LiberaMemoria, Etiquetas
  <2>3. QED BY <1>48, <2>1, <2>2 DEF TypeOK, LiberaMemoria, procesos, bloqueos, locales, exterior,
      kernel
<1>49. CASE MemoriaLiberada
  <2>1. memoria' \in TMemoria
    <3>1. QED BY <1>49, RecibeTipo DEF TypeOK, MemoriaLiberada
  <2>2. sem' \in [Semaforos -> Nat]
    BY <1>49, SemsTipo DEF TypeOK, MemoriaLiberada
  <2>3. pc' \in [Hilos -> Etiquetas]
    BY <1>49, VaTipo DEF TypeOK, MemoriaLiberada, Etiquetas
  <2>4. QED BY <1>49, <2>1, <2>2, <2>3 DEF TypeOK, MemoriaLiberada, procesos, bloqueos, locales,
      exterior, kernel
<1>50. CASE MarcaExit
  <2>1. pcb' \in [Pids -> PCBs]
    BY <1>50, CampoPCB DEF TypeOK, Estados, MarcaExit
  <2>2. sem' \in [Semaforos -> Nat]
    BY <1>50, SemsTipo DEF TypeOK, MarcaExit
  <2>3. pc' \in [Hilos -> Etiquetas]
    BY <1>50, VaTipo DEF TypeOK, MarcaExit, Etiquetas
  <2>4. QED BY <1>50, <2>1, <2>2, <2>3 DEF TypeOK, MarcaExit, procesos, bloqueos, locales,
      exterior, kernel
<1>51. CASE SacaDeExit
  <2>1. pcb' \in [Pids -> PCBs]
    BY <1>51, CampoPCB DEF TypeOK, Estados, SacaDeExit
  <2>2. cola' \in [Colas -> Seq(Pids)]
    BY <1>51, PasaTipo DEF TypeOK, Colas, ColasFijas, SacaDeExit, SinPrimero
  <2>3. largo' \in TLargo
    BY <1>51 DEF TypeOK, TLargo, PidsOCero, SacaDeExit
  <2>4. pc' \in [Hilos -> Etiquetas]
    BY <1>51, VaTipo DEF TypeOK, SacaDeExit, Etiquetas
  <2>5. QED BY <1>51, <2>1, <2>2, <2>3, <2>4 DEF TypeOK, SacaDeExit, procesos, bloqueos, locales,
      exterior, kernel
<1>52. ASSUME NEW i \in Interfaces, Conexion(i) PROVE TypeOK'
  <2>1. interfaz' \in [Interfaces -> TInterfaz]
    BY <1>52, CampoInterfaz DEF TypeOK, PidsOCero, Conexion, TInterfaz
  <2>2. QED BY <1>52, <2>1 DEF TypeOK, Conexion, procesos, bloqueos, locales, exterior, kernel
<1>53. ASSUME NEW i \in Interfaces, RecibeIOLiberar(i) PROVE TypeOK'
  <2>1. dispositivo' \in [Interfaces -> TDispositivo]
    BY <1>53, CampoDispositivo DEF TypeOK, RecibeIOLiberar, TDispositivo
  <2>2. pc' \in [Hilos -> Etiquetas]
    BY <1>53, VaTipo DEF TypeOK, RecibeIOLiberar, Etiquetas
  <2>3. QED BY <1>53, <2>1, <2>2 DEF TypeOK, RecibeIOLiberar, procesos, bloqueos, locales,
      exterior, kernel
<1>54. ASSUME NEW i \in Interfaces, TomaMediano(i) PROVE TypeOK'
  <2>1. sem' \in [Semaforos -> Nat]
    BY <1>54, SemsTipo DEF TypeOK, TomaMediano
  <2>2. pc' \in [Hilos -> Etiquetas]
    BY <1>54, VaTipo DEF TypeOK, TomaMediano, Etiquetas
  <2>3. QED BY <1>54, <2>1, <2>2 DEF TypeOK, TomaMediano, procesos, bloqueos, locales, exterior,
      kernel
<1>55. ASSUME NEW i \in Interfaces, DesbloqueaIO(i) PROVE TypeOK'
  <2>1. sem' \in [Semaforos -> Nat]
    BY <1>55, SemsTipo DEF TypeOK, DesbloqueaIO
  <2>2. pcb' \in [Pids -> PCBs]
    BY <1>55, CampoPCB DEF TypeOK, Estados, DesbloqueaIO
  <2>3. cola' \in [Colas -> Seq(Pids)]
    BY <1>55, PasaTipo DEF TypeOK, Colas, ColasFijas, DesbloqueaIO, Atendido
  <2>4. pc' \in [Hilos -> Etiquetas]
    BY <1>55, VaTipo DEF TypeOK, DesbloqueaIO, Etiquetas
  <2>5. QED BY <1>55, <2>1, <2>2, <2>3, <2>4 DEF TypeOK, DesbloqueaIO, procesos, bloqueos,
      locales, exterior, kernel
<1>56. ASSUME NEW i \in Interfaces, NadieQueDesbloquear(i) PROVE TypeOK'
  <2>1. sem' \in [Semaforos -> Nat]
    BY <1>56, SemsTipo DEF TypeOK, NadieQueDesbloquear
  <2>2. pc' \in [Hilos -> Etiquetas]
    BY <1>56, VaTipo DEF TypeOK, NadieQueDesbloquear, Etiquetas
  <2>3. QED BY <1>56, <2>1, <2>2 DEF TypeOK, NadieQueDesbloquear, procesos, bloqueos, locales,
      exterior, kernel
<1>57. ASSUME NEW i \in Interfaces, AtiendeSiguiente(i) PROVE TypeOK'
  <2>1. interfaz' \in [Interfaces -> TInterfaz]
    <3>1. Head(cola[i]) \in PidsOCero
      BY <1>57 DEF TypeOK, AtiendeSiguiente, Colas, PidsOCero
    <3>2. interfaz' = [interfaz EXCEPT ![i].pid_ejecutando = Head(cola[i])]
      BY <1>57 DEF AtiendeSiguiente
    <3>3. QED BY <1>57, <3>1, <3>2, CampoInterfaz DEF TypeOK
  <2>2. dispositivo' \in [Interfaces -> TDispositivo]
    <3>1. Head(cola[i]) \in Pids
      BY <1>57 DEF TypeOK, AtiendeSiguiente, Colas
    <3>2. QED BY <1>57, <3>1, OrdenaTipo DEF TypeOK, AtiendeSiguiente
  <2>3. pcb' \in [Pids -> PCBs]
    BY <1>57, CampoPCB DEF TypeOK, Estados, AtiendeSiguiente
  <2>4. sem' \in [Semaforos -> Nat]
    BY <1>57, SemsTipo DEF TypeOK, AtiendeSiguiente
  <2>5. pc' \in [Hilos -> Etiquetas]
    BY <1>57, VaTipo DEF TypeOK, AtiendeSiguiente, Etiquetas
  <2>6. QED BY <1>57, <2>1, <2>2, <2>3, <2>4, <2>5 DEF TypeOK, AtiendeSiguiente, procesos,
      bloqueos, locales, exterior, kernel
<1>58. ASSUME NEW i \in Interfaces, LiberaInterfaz(i) PROVE TypeOK'
  <2>1. interfaz' \in [Interfaces -> TInterfaz]
    BY <1>58, CampoInterfaz DEF TypeOK, PidsOCero, LiberaInterfaz
  <2>2. sem' \in [Semaforos -> Nat]
    BY <1>58, SemsTipo DEF TypeOK, LiberaInterfaz
  <2>3. pc' \in [Hilos -> Etiquetas]
    BY <1>58, VaTipo DEF TypeOK, LiberaInterfaz, Etiquetas
  <2>4. QED BY <1>58, <2>1, <2>2, <2>3 DEF TypeOK, LiberaInterfaz, procesos, bloqueos, locales,
      exterior, kernel
<1>59. CASE CpuRecibeProceso
  <2>1. dispatch' \in Seq(TDispatch)
    BY <1>59 DEF TypeOK, TDispatch, PidsOCero, CpuRecibeProceso
  <2>2. cpu' \in TCpu
    <3>1. Head(dispatch) \in TDispatch
      BY <1>59 DEF TypeOK, CpuRecibeProceso
    <3>2. Head(dispatch).pid \in PidsOCero
      BY <3>1 DEF TDispatch
    <3>3. cpu' = [cpu EXCEPT !.estado = "ejecuta", !.pid = Head(dispatch).pid]
      BY <1>59 DEF CpuRecibeProceso
    <3>4. QED BY <3>1, <3>2, <3>3, CampoCpu DEF TypeOK
  <2>3. QED BY <1>59, <2>1, <2>2 DEF TypeOK, CpuRecibeProceso, procesos, bloqueos, locales,
      exterior, kernel
<1>60. ASSUME NEW m \in {"EXIT_PROCESO", "OUT_OF_MEMORY", "IO"}, CpuTermina(m) PROVE TypeOK'
  <2>1. desalojos' \in Seq(TDesalojo)
    BY <1>60 DEF TypeOK, TDesalojo, Desaloja, Motivos, Fines, Argumentos, Nombres, CpuTermina
  <2>2. cpu' \in TCpu
    BY <1>60, LibreTipo DEF TypeOK, CpuTermina
  <2>3. QED BY <1>60, <2>1, <2>2 DEF TypeOK, CpuTermina, procesos, bloqueos, locales, exterior,
      kernel
<1>61. ASSUME NEW m \in {"WAIT_RECURSO", "SIGNAL_RECURSO"}, CpuPideRecurso(m) PROVE TypeOK'
  <2>1. desalojos' \in Seq(TDesalojo)
    BY <1>61 DEF TypeOK, TDesalojo, Desaloja, Motivos, Fines, Argumentos, Nombres, CpuPideRecurso
  <2>2. cpu' \in TCpu
    BY <1>61, CampoCpu, ZenonT(60) DEF TypeOK, TCpu, PidsOCero, CpuPideRecurso
  <2>3. QED BY <1>61, <2>1, <2>2 DEF TypeOK, CpuPideRecurso, procesos, bloqueos, locales,
      exterior, kernel
<1>62. CASE CpuRecibeRespuesta
  <2>1. dispatch' \in Seq(TDispatch)
    BY <1>62 DEF TypeOK, TDispatch, PidsOCero, CpuRecibeRespuesta
  <2>2. cpu' \in TCpu
    <3>1. cpu' \in {CpuLibre, [cpu EXCEPT !.estado = "ejecuta"],
        [cpu EXCEPT !.estado = "desfasada"]}
      BY <1>62 DEF CpuRecibeRespuesta
    <3>2. CpuLibre \in TCpu
      BY LibreTipo DEF TypeOK
    <3>3. QED BY <3>1, <3>2, CampoCpu, ZenonT(60) DEF TypeOK
  <2>3. QED BY <1>62, <2>1, <2>2 DEF TypeOK, CpuRecibeRespuesta, procesos, bloqueos, locales,
      exterior, kernel
<1>63. CASE CpuInterrumpida
  <2>1. desalojos' \in Seq(TDesalojo)
    BY <1>63 DEF TypeOK, TDesalojo, Desaloja, Motivos, Fines, Argumentos, Nombres, CpuInterrumpida
  <2>2. cpu' \in TCpu
    BY <1>63, CampoCpu, ZenonT(60) DEF TypeOK, TCpu, PidsOCero, CpuInterrumpida, CpuLibre, SinInterrupciones
  <2>3. QED BY <1>63, <2>1, <2>2 DEF TypeOK, CpuInterrumpida, procesos, bloqueos, locales,
      exterior, kernel
<1>64. CASE MemoriaAtiende
  <2>1. memoria' \in TMemoria
    <3>1. QED BY <1>64, AtiendeTipo DEF TypeOK
  <2>2. QED BY <1>64, <2>1 DEF TypeOK, MemoriaAtiende, procesos, bloqueos, locales, exterior, kernel
<1>65. ASSUME NEW i \in Interfaces, DispositivoTermina(i) PROVE TypeOK'
  <2>1. dispositivo' \in [Interfaces -> TDispositivo]
    <3>1. /\ dispositivo[i].avisos + 1 \in Nat
           /\ Tail(dispositivo[i].ordenes) \in Seq(Pids)
      BY <1>65 DEF TypeOK, TDispositivo, DispositivoTermina
    <3>2. dispositivo' = [dispositivo EXCEPT ![i].ordenes = Tail(dispositivo[i].ordenes),
                                      ![i].avisos = dispositivo[i].avisos + 1]
      BY <1>65 DEF DispositivoTermina
    <3>3. QED BY <1>65, <3>1, <3>2, CampoDispositivo DEF TypeOK
  <2>2. QED BY <1>65, <2>1 DEF TypeOK, DispositivoTermina, procesos, bloqueos, locales, exterior,
      kernel
<1>66. CASE UNCHANGED vars
  BY <1>66 DEF TypeOK, vars
<1>67. \A p \in Creados : p \in PidsOCero
  BY DEF TypeOK, Creados, Pids, PidsOCero
<1>68. ASSUME NEW i \in Interfaces, Desconexion(i) PROVE TypeOK'
  <2>1. interfaz' \in [Interfaces -> TInterfaz]
    BY <1>68, CampoInterfaz DEF TypeOK, PidsOCero, Desconexion, TInterfaz
  <2>2. QED BY <1>68, <2>1 DEF TypeOK, Desconexion, procesos, bloqueos, locales, exterior, kernel
<1>69. QED
  BY <1>1, <1>2, <1>3, <1>4, <1>5, <1>6, <1>7, <1>8, <1>9, <1>10, <1>11, <1>12, <1>13, <1>14,
      <1>15, <1>16, <1>17, <1>18, <1>19, <1>20, <1>21, <1>22, <1>23, <1>24, <1>25, <1>26, <1>27,
          <1>28, <1>29, <1>30, <1>31, <1>32, <1>33, <1>34, <1>35, <1>36, <1>37, <1>38, <1>39,
              <1>40, <1>41, <1>42, <1>43, <1>44, <1>45, <1>46, <1>47, <1>48, <1>49, <1>50, <1>51,
                  <1>52, <1>53, <1>54, <1>55, <1>56, <1>57, <1>58, <1>59, <1>60, <1>61, <1>62,
                      <1>63, <1>64, <1>65, <1>66, <1>67, <1>68
  DEF Next, Usuario, PideFinalizar, PideComandoGlobal, Consola, Corto, Largo, Exit, Manejador, Cpu,
      PidsOCero

-----------------------------------------------------------------------------
(* Whose variables a thread leaves alone *)

\* A command of the console moves no other thread.
LEMMA AjenoConsola ==
  ASSUME pc \in [Hilos -> Etiquetas], Usuario \/ Consola
  PROVE  /\ UNCHANGED <<corto, largo, hilo_quantum>>
         /\ \A h \in Hilos \ {"consola"} : pc'[h] = pc[h]
BY DEF Usuario, Consola, IniciarProceso, PideFinalizar, PideComando, PideComandoGlobal,
  IniciarPlanificacion, SubeMultiprogramacion, PideBajarMultiprogramacion, TomaPausada,
  DetenerPlanificacion, ProcesoEstado, FinalizarSinEfecto, FinalizarEnEjecucion,
  MarcaPedidoFinalizacion, FinalizarCuelga, FinalizarExtrae, FinalizarNulo,
  BajaMultiprogramacion, FinComando, Va, locales

\* A step of the short-term scheduler moves no other thread.
LEMMA AjenoCorto ==
  ASSUME pc \in [Hilos -> Etiquetas], Corto
  PROVE  /\ UNCHANGED <<consola, largo>>
         /\ \A h \in Hilos \ {"corto"} : pc'[h] = pc[h]
BY DEF Corto, EsperaOrdenCorto, EligeProceso, NoHayListos, EnviaProcesoACpu, RecibeDesalojo,
  TrataFin, TrataRecursoInvalido, AvisaExit, TrataWait, WaitBloquea, WaitConcede, TrataSignal,
  SignalDevuelve, SignalEntrega, TrataFinQuantum, TrataIOInvalida, TrataIO, IOBloquea, IOEnvia,
  RespondeCpu, LimpiaDesalojo, MandaAExit, Va, locales

\* A step of the NEW -> READY thread moves no other thread.
LEMMA AjenoLargo ==
  ASSUME pc \in [Hilos -> Etiquetas], Largo
  PROVE  /\ UNCHANGED <<consola, corto, hilo_quantum>>
         /\ \A h \in Hilos \ {"largo"} : pc'[h] = pc[h]
BY DEF Largo, EsperaOrdenLargo, TomaGrado, SacaDeNew, NewVacia, PasaAReady, Va, locales

\* A step of the EXIT thread moves no other thread.
LEMMA AjenoExit ==
  ASSUME pc \in [Hilos -> Etiquetas], Exit
  PROVE  /\ UNCHANGED <<consola, corto, hilo_quantum>>
         /\ \A h \in Hilos \ {"exit"} : pc'[h] = pc[h]
BY DEF Exit, EsperaOrdenExit, ExitDesdeNew, ExitDesdeOtro, LiberaTomaInst, LiberaInstancia,
  LiberaMemoria, MemoriaLiberada, MarcaExit, SacaDeExit, Va, locales

\* A step of the handler of an interface moves no other thread.
LEMMA AjenoManejador ==
  ASSUME pc \in [Hilos -> Etiquetas], NEW i \in Interfaces, Manejador(i)
  PROVE  /\ UNCHANGED locales
         /\ \A h \in Hilos \ {i} : pc'[h] = pc[h]
BY DEF Manejador, RecibeIOLiberar, TomaMediano, DesbloqueaIO, NadieQueDesbloquear,
  AtiendeSiguiente, LiberaInterfaz, Va, locales

\* The timer, connections and the processes behind the sockets.
Entorno ==
  \/ ControlQuantum \/ Cpu \/ MemoriaAtiende
  \/ \E i \in Interfaces : Conexion(i) \/ Desconexion(i) \/ DispositivoTermina(i)

\* A step outside the kernel moves no thread and no process.
LEMMA AjenoEntorno ==
  ASSUME Entorno
  PROVE  UNCHANGED <<procesos, sem, instancias, pc, consola, corto, largo>>
BY DEF Entorno, ControlQuantum, Cpu, CpuRecibeProceso, CpuRecibeRespuesta, CpuInterrumpida,
  CpuTermina, CpuPideRecurso, MemoriaAtiende, Conexion, Desconexion, DispositivoTermina, kernel,
  procesos, bloqueos, locales

\* The step is one of these.
LEMMA PasosDelKernel ==
  ASSUME [Next]_vars
  PROVE  \/ Usuario \/ Consola
         \/ Corto \/ Largo \/ Exit
         \/ \E i \in Interfaces : Manejador(i)
         \/ Entorno
         \/ UNCHANGED vars
BY DEF Next, Entorno

\* RUNNING is filled and emptied by the short-term scheduler only.
LEMMA AjenoRunning ==
  ASSUME TypeOK, Control,
         Usuario \/ Consola \/ Largo \/ Exit \/ \E i \in Interfaces : Manejador(i)
  PROVE  cola'["RUNNING"] = cola["RUNNING"]
<1> USE DEF Colas, ColasFijas
<1>1. cola \in [Colas -> Seq(Pids)]
  BY DEF TypeOK
<1>2. CASE Usuario
  BY <1>1, <1>2 DEF Usuario, IniciarProceso, PideFinalizar, PideComando, PideComandoGlobal,
    IniciarPlanificacion, SubeMultiprogramacion, PideBajarMultiprogramacion, procesos
<1>3. CASE Consola /\ ~FinalizarExtrae
  BY <1>1, <1>3 DEF Consola, TomaPausada, DetenerPlanificacion, ProcesoEstado,
    FinalizarSinEfecto, FinalizarEnEjecucion, MarcaPedidoFinalizacion, FinalizarCuelga,
    FinalizarNulo, BajaMultiprogramacion, procesos
<1>4. CASE FinalizarExtrae
  <2>1. consola.objetivo \in Pids
    BY <1>4 DEF FinalizarExtrae, ObjetivoEn, Control, ConsolaEnOrden
  <2>2. ColaDe(consola.objetivo) # "RUNNING"
    BY <2>1 DEF TypeOK, PCBs, ColaDe
  <2>3. QED BY <1>1, <1>4, <2>2 DEF FinalizarExtrae
<1>5. CASE Largo
  BY <1>1, <1>5 DEF Largo, EsperaOrdenLargo, TomaGrado, SacaDeNew, NewVacia, PasaAReady, procesos
<1>6. CASE Exit /\ ~LiberaInstancia
  BY <1>1, <1>6 DEF Exit, EsperaOrdenExit, ExitDesdeNew, ExitDesdeOtro, LiberaTomaInst,
    LiberaMemoria, MemoriaLiberada, MarcaExit, SacaDeExit, procesos
<1>7. CASE LiberaInstancia
  BY <1>1, <1>7 DEF LiberaInstancia, EntregaInstancia, Pasa, Control, LargoEnOrden, En
<1>8. CASE \E i \in Interfaces : Manejador(i)
  BY <1>1, <1>8 DEF Manejador, RecibeIOLiberar, TomaMediano, DesbloqueaIO,
    NadieQueDesbloquear, AtiendeSiguiente, LiberaInterfaz, Pasa, procesos
<1>9. QED BY <1>2, <1>3, <1>4, <1>5, <1>6, <1>7, <1>8 DEF Exit, Consola

-----------------------------------------------------------------------------
(* The locals of the threads *)

\* The locals of the console stay in order in every step.
LEMMA ConsolaPaso ==
  ASSUME TypeOK, Control, [Next]_vars
  PROVE  ConsolaEnOrden'
<1> USE DEF ConsolaEnOrden, En, Hilos, HilosFijos
<1>1. /\ ConsolaEnOrden
      /\ pc \in [Hilos -> Etiquetas]
      /\ consola \in TConsola
  BY DEF TypeOK, Control
<1>2. CASE IniciarProceso
  BY <1>1, <1>2 DEF IniciarProceso, locales
<1>3. ASSUME NEW c \in {"FINALIZAR_PROCESO", "DETENER_PLANIFICACION", "PROCESO_ESTADO"},
             NEW p \in Nat, c = "FINALIZAR_PROCESO" => p \in Pids, PideComando(c, p)
      PROVE  ConsolaEnOrden'
  BY <1>1, <1>3 DEF PideComando, Va, TConsola
<1>4. CASE IniciarPlanificacion
  BY <1>1, <1>4 DEF IniciarPlanificacion, TConsola
<1>5. ASSUME NEW g \in Grados, SubeMultiprogramacion(g) \/ PideBajarMultiprogramacion(g)
      PROVE  ConsolaEnOrden'
  BY <1>1, <1>5 DEF SubeMultiprogramacion, PideBajarMultiprogramacion, TConsola, Va
<1>6. CASE TomaPausada
  BY <1>1, <1>6 DEF TomaPausada, TConsola, Va
<1>7. CASE DetenerPlanificacion
  BY <1>1, <1>7 DEF DetenerPlanificacion, TConsola, Va
<1>8. ASSUME NEW avisos, FinComando(avisos) PROVE ConsolaEnOrden'
  BY <1>1, <1>8 DEF FinComando, TConsola, Va
<1>9. CASE FinalizarEnEjecucion \/ FinalizarCuelga \/ FinalizarNulo
  BY <1>1, <1>9 DEF FinalizarEnEjecucion, FinalizarCuelga, FinalizarNulo, ObjetivoEn, Va, locales
<1>10. CASE BajaMultiprogramacion
  BY <1>1, <1>10 DEF BajaMultiprogramacion, TConsola, Va
<1>11. CASE Usuario
  <2>1. \A p \in Creados : p \in Pids /\ p \in Nat
    BY DEF Creados, Pids, TypeOK
  <2>2. QED BY <1>2, <1>3, <1>4, <1>5, <1>11, <2>1
              DEF Usuario, PideFinalizar, PideComandoGlobal
<1>12. CASE Consola
  BY <1>6, <1>7, <1>8, <1>9, <1>10, <1>12
    DEF Consola, ProcesoEstado, FinalizarSinEfecto, MarcaPedidoFinalizacion, FinalizarExtrae
<1>13. UNCHANGED <<pc["consola"], consola>> => ConsolaEnOrden'
  BY <1>1
<1>14. CASE Corto \/ Largo \/ Exit \/ \E i \in Interfaces : Manejador(i)
  BY <1>1, <1>13, <1>14, AjenoCorto, AjenoLargo, AjenoExit, AjenoManejador DEF locales
<1>15. CASE Entorno \/ UNCHANGED vars
  BY <1>13, <1>15, AjenoEntorno DEF vars
<1>16. QED BY <1>11, <1>12, <1>14, <1>15, PasosDelKernel

\* So do those of the two long-term threads ...
LEMMA LargoPaso ==
  ASSUME TypeOK, Control, [Next]_vars
  PROVE  LargoEnOrden'
<1> USE DEF LargoEnOrden, En, Hilos, HilosFijos
<1>1. /\ LargoEnOrden
      /\ pc \in [Hilos -> Etiquetas]
      /\ largo \in TLargo
  BY DEF TypeOK, Control
<1>2. CASE SacaDeNew
  <2>1. Head(cola["NEW"]) \in Pids
    BY <1>2 DEF SacaDeNew, TypeOK, Colas, ColasFijas
  <2>2. QED BY <1>1, <1>2, <2>1 DEF SacaDeNew, TLargo, Va
<1>3. CASE Largo /\ ~SacaDeNew
  BY <1>1, <1>3 DEF Largo, EsperaOrdenLargo, TomaGrado, NewVacia, PasaAReady, Va, TLargo, locales
<1>4. CASE LiberaTomaInst
  <2>1. PICK k \in Tenidos(largo.saliente) : largo' = [largo EXCEPT !.recurso = RECURSOS[k]]
    BY <1>4 DEF LiberaTomaInst
  <2>2. RECURSOS[k] \in Recursos
    BY <2>1 DEF Tenidos, Recursos, ToSet
  <2>3. QED BY <1>1, <1>4, <2>1, <2>2 DEF LiberaTomaInst, TLargo, Va
<1>5. CASE Exit /\ ~LiberaTomaInst
  BY <1>1, <1>5 DEF Exit, EsperaOrdenExit, ExitDesdeNew, ExitDesdeOtro, LiberaInstancia,
    LiberaMemoria, MemoriaLiberada, MarcaExit, SacaDeExit, Va, TLargo, locales
<1>6. UNCHANGED <<pc["largo"], pc["exit"], largo>> => LargoEnOrden'
  BY <1>1
<1>7. CASE Usuario \/ Consola \/ Corto \/ \E i \in Interfaces : Manejador(i)
  BY <1>1, <1>6, <1>7, AjenoConsola, AjenoCorto, AjenoManejador DEF locales
<1>8. CASE Entorno \/ UNCHANGED vars
  BY <1>6, <1>8, AjenoEntorno DEF vars
<1>9. QED BY <1>2, <1>3, <1>4, <1>5, <1>7, <1>8, PasosDelKernel

\* ... and those of the short-term scheduler, given that RUNNING is not empty.
LEMMA CortoPaso ==
  ASSUME TypeOK, Control, [Next]_vars
  PROVE  CortoEnOrden' /\ HayRunning'
<1> USE DEF CortoEnOrden, HayRunning, En
<1>1. /\ CortoEnOrden /\ HayRunning
      /\ pc \in [Hilos -> Etiquetas] /\ "corto" \in Hilos
      /\ corto \in TCorto
      /\ cola \in [Colas -> Seq(Pids)] /\ "RUNNING" \in Colas
  BY DEF TypeOK, Control, Hilos, HilosFijos, Colas, ColasFijas
<1>2. CASE EsperaOrdenCorto \/ NoHayListos
  BY <1>1, <1>2 DEF EsperaOrdenCorto, NoHayListos, Va, procesos, locales
<1>3. CASE EligeProceso
  <2>1. Pasa(Head(cola[ColaDeListos]), ColaDeListos, "RUNNING")
    BY <1>3 DEF EligeProceso
  <2>2. ColaDeListos # "RUNNING"
    BY DEF ColaDeListos
  <2>3. cola'["RUNNING"] = Append(cola["RUNNING"], Head(cola[ColaDeListos]))
    BY <1>1, <2>1, <2>2 DEF Pasa
  <2>4. cola'["RUNNING"] # <<>>
    <3>1. \A s \in Seq(Pids), x \in Pids : Append(s, x) # <<>>
      OBVIOUS
    <3>2. Head(cola[ColaDeListos]) \in Pids
      BY <1>1, <1>3 DEF EligeProceso, ColaDeListos, Colas, ColasFijas
    <3>3. QED BY <1>1, <2>3, <3>1, <3>2
  <2>5. QED BY <1>1, <1>3, <2>4 DEF EligeProceso, Va, locales
<1>4. CASE EnviaProcesoACpu
  BY <1>1, <1>4 DEF EnviaProcesoACpu, Va, procesos
<1>5. CASE RecibeDesalojo
  <2>1. Head(cola["RUNNING"]) \in Pids
    BY <1>1, <1>5 DEF RecibeDesalojo
  <2>2. Head(desalojos).arg \in Argumentos(Head(desalojos).motivo)
    BY <1>5 DEF RecibeDesalojo, TypeOK, TDesalojo
  <2>3. QED BY <1>1, <1>5, <2>1, <2>2 DEF RecibeDesalojo, Va
<1>6. CASE TrataFin \/ TrataRecursoInvalido
  BY <1>1, <1>6 DEF TrataFin, TrataRecursoInvalido, Trata, MandaAExit, Va, TCorto
<1>7. CASE AvisaExit
  BY <1>1, <1>7 DEF AvisaExit, Va, locales
<1>8. CASE TrataWait \/ TrataSignal
  <2>1. corto.arg \in Recursos
    BY <1>1, <1>8 DEF TrataWait, TrataSignal, Trata, Motivo, Argumentos
  <2>2. QED BY <1>1, <1>8, <2>1 DEF TrataWait, TrataSignal, Trata, Va, procesos, locales
<1>9. CASE WaitBloquea
  BY <1>1, <1>9 DEF WaitBloquea, Va, TCorto
<1>10. CASE WaitConcede
  BY <1>1, <1>10 DEF WaitConcede, Va, TCorto
<1>11. CASE SignalDevuelve
  BY <1>1, <1>11 DEF SignalDevuelve, Va, locales
<1>12. CASE SignalEntrega
  <2>1. cola'["RUNNING"] = cola["RUNNING"]
    BY <1>1, <1>12 DEF SignalEntrega, EntregaInstancia, Pasa, Colas, ColasFijas
  <2>2. QED BY <1>1, <1>12, <2>1 DEF SignalEntrega, Va, TCorto
<1>13. CASE TrataFinQuantum \/ TrataIOInvalida
  BY <1>1, <1>13 DEF TrataFinQuantum, TrataIOInvalida, Trata, Va
<1>14. CASE TrataIO
  BY <1>1, <1>14 DEF TrataIO, Trata, Va
<1>15. CASE IOBloquea
  BY <1>1, <1>15 DEF IOBloquea, Va, locales
<1>16. CASE IOEnvia \/ RespondeCpu
  BY <1>1, <1>16 DEF IOEnvia, RespondeCpu, Va, locales, procesos
<1>17. CASE LimpiaDesalojo
  BY <1>1, <1>17 DEF LimpiaDesalojo, Va
<1>18. CASE Corto
  BY <1>2, <1>3, <1>4, <1>5, <1>6, <1>7, <1>8, <1>9, <1>10, <1>11, <1>12, <1>13, <1>14,
     <1>15, <1>16, <1>17, <1>18 DEF Corto
<1>19. UNCHANGED <<pc["corto"], corto, cola["RUNNING"]>> => CortoEnOrden' /\ HayRunning'
  BY <1>1
<1>20. CASE Usuario \/ Consola \/ Largo \/ Exit \/ \E i \in Interfaces : Manejador(i)
  <2>1. UNCHANGED cola["RUNNING"]
    BY <1>20, AjenoRunning
  <2>2. UNCHANGED <<pc["corto"], corto>>
    BY <1>1, <1>20, AjenoConsola, AjenoLargo, AjenoExit, AjenoManejador
       DEF locales, Hilos, HilosFijos
  <2>3. QED BY <1>19, <2>1, <2>2
<1>21. CASE Entorno \/ UNCHANGED vars
  BY <1>19, <1>21, AjenoEntorno DEF vars, procesos
<1>22. QED BY <1>18, <1>20, <1>21, PasosDelKernel

\* The locals of all threads together.
LEMMA ControlPaso ==
  ASSUME TypeOK, Control, [Next]_vars
  PROVE  Control'
BY ConsolaPaso, CortoPaso, LargoPaso DEF Control

-----------------------------------------------------------------------------
(* No lost wake-up *)

\* READY+ is used by VRR only: the thread that finds READY empty under FIFO
\* or RR has missed nobody.
PlusSoloEnVRR == ALGORITMO # "VRR" => cola["READY_VRR"] = <<>>

\* Arithmetic of a sum of two counts.
LEMMA Sumas ==
  /\ \A a, b \in Nat : a + b \in Nat
  /\ \A a, b, u \in Nat : (a + u) + b = (a + b) + u /\ a + (b + u) = (a + b) + u
  /\ \A a, b, x, y \in Nat : x <= a /\ y <= b => x + y <= a + b
OBVIOUS

\* The processes of the two ready queues, counted together.
LEMMA ListosSuma ==
  ASSUME Len(cola["READY"]) \in Nat, Len(cola["READY_VRR"]) \in Nat
  PROVE  /\ Listos \in Nat
         /\ \A u \in Nat :
              \/ /\ Len(cola'["READY"]) = Len(cola["READY"]) + u
                 /\ Len(cola'["READY_VRR"]) = Len(cola["READY_VRR"])
              \/ /\ Len(cola'["READY"]) = Len(cola["READY"])
                 /\ Len(cola'["READY_VRR"]) = Len(cola["READY_VRR"]) + u
              => Listos' = Listos + u
<1> DEFINE a  == Len(cola["READY"])
           b  == Len(cola["READY_VRR"])
           a1 == Len(cola'["READY"])
           b1 == Len(cola'["READY_VRR"])
<1>1. Listos = a + b /\ Listos' = a1 + b1
  BY DEF Listos
<1>2. a \in Nat /\ b \in Nat
  OBVIOUS
<1>3. ASSUME NEW u \in Nat,
             \/ a1 = a + u /\ b1 = b
             \/ a1 = a /\ b1 = b + u
      PROVE  Listos' = Listos + u
  <2> HIDE DEF a, b, a1, b1
  <2>1. a1 + b1 = (a + b) + u
    BY <1>2, <1>3
  <2>2. QED BY <1>1, <2>1, Zenon
<1>4. Listos \in Nat
  BY <1>1, <1>2, Sumas, Zenon
<1> HIDE DEF a, b, a1, b1
<1>5. \A u \in Nat : (\/ a1 = a + u /\ b1 = b
                      \/ a1 = a /\ b1 = b + u) => Listos' = Listos + u
  BY <1>3
<1>6. QED BY <1>4, <1>5 DEF a, b, a1, b1

\* Taking a process out of a ready queue does not make them grow.
LEMMA ListosMenos ==
  ASSUME Len(cola["READY"]) \in Nat, Len(cola["READY_VRR"]) \in Nat,
         Len(cola'["READY"]) \in Nat, Len(cola'["READY_VRR"]) \in Nat,
         Len(cola'["READY"]) <= Len(cola["READY"]),
         Len(cola'["READY_VRR"]) <= Len(cola["READY_VRR"])
  PROVE  Listos' \in Nat /\ Listos' <= Listos
BY Sumas, Zenon DEF Listos

\* Moving the head of one queue to another moves one unit of length.
LEMMA PasaLargo ==
  ASSUME cola \in [Colas -> Seq(Pids)], NEW p \in Pids, NEW a \in Colas, NEW b \in Colas,
         a # b, cola[a] # <<>>, Pasa(p, a, b)
  PROVE  /\ Len(cola'[a]) = Len(cola[a]) - 1
         /\ Len(cola'[b]) = Len(cola[b]) + 1
         /\ \A c \in Colas \ {a, b} : cola'[c] = cola[c]
<1>1. /\ cola'[a] = Tail(cola[a])
      /\ cola'[b] = Append(cola[b], p)
      /\ \A c \in Colas \ {a, b} : cola'[c] = cola[c]
  BY DEF Pasa, SinPrimero
<1>2. /\ Len(Tail(cola[a])) = Len(cola[a]) - 1
      /\ Len(Append(cola[b], p)) = Len(cola[b]) + 1
  OBVIOUS
<1>3. QED BY <1>1, <1>2

\* What handing over an instance does to the semaphores.
LEMMA EntregaSems ==
  ASSUME sem \in [Semaforos -> Nat], NEW r, NEW pcbs, EntregaInstancia(r, pcbs)
  PROVE  /\ sem["pausada2"] > 0
         /\ sem'["inst"] = sem["inst"] + 1
         /\ sem'["corto"] = sem["corto"] + Uno(HayBloqueado(r))
         /\ \A s \in Semaforos \ {"inst", "corto"} : sem'[s] = sem[s]
<1> USE DEF Semaforos, SemaforosFijos, Pausadas, Pausada, ToSet, Uno
<1>1. {"pausada2", "inst", "corto"} \subseteq Semaforos
  OBVIOUS
<1>2. CASE HayBloqueado(r)
  <2>1. Sems({"pausada2"}, {"pausada2", "inst"} \cup {"corto"})
    BY <1>2 DEF EntregaInstancia, AvisaReady
  <2>2. QED BY <1>1, <1>2, <2>1 DEF Sems
<1>3. CASE ~HayBloqueado(r)
  <2>1. Sems({"pausada2"}, {"pausada2", "inst"})
    BY <1>3 DEF EntregaInstancia
  <2>2. QED BY <1>1, <1>3, <2>1 DEF Sems
<1>4. QED BY <1>2, <1>3

\* What the three counts of SinDespertarPerdido are made of.
Avisos  == {"corto", "largo", "exit"}
Esperan == {"NEW", "READY", "READY_VRR", "EXIT"}

\* No mutex is one of the semaphores that wake a thread, and no blocked queue
\* is one of the queues they count.
LEMMA NombresDeAvisos ==
  /\ Avisos \subseteq Semaforos /\ Avisos \cap (Interfaces \cup Pausadas \cup {"inst",
      "grado"}) = {}
  /\ Esperan \subseteq Colas /\ Esperan \cap (Interfaces \cup Recursos \cup {"RUNNING"}) = {}
  /\ {"pausada0", "pausada1", "pausada2", "pausada3"} = Pausadas
BY DEF Avisos, Esperan, Semaforos, SemaforosFijos, Pausadas, Pausada, Colas, ColasFijas, ToSet

Neutros == Interfaces \cup Pausadas \cup {"inst", "grado"}

\* Waits and posts of mutexes move none of the semaphores that wake a thread.
LEMMA SemsNeutras ==
  ASSUME sem \in [Semaforos -> Nat], NEW esperas \in SUBSET Neutros, NEW avisos \in SUBSET Neutros,
         Sems(esperas, avisos)
  PROVE  \A s \in Avisos : sem'[s] = sem[s]
<1>1. \A s \in Avisos : s \in Semaforos /\ s \notin Neutros
  BY NombresDeAvisos DEF Neutros
<1>2. QED BY <1>1 DEF Sems

\* The mutexes and the degree of multiprogramming, by name.
LEMMA NombresNeutros ==
  /\ {"pausada0", "pausada1", "pausada2", "pausada3", "inst", "grado"} \subseteq Neutros
  /\ Pausadas \subseteq Neutros /\ Interfaces \subseteq Neutros
BY NombresDeAvisos DEF Neutros

\* A section under pausada1 that posts nothing else wakes nobody.
LEMMA PasoCortoNeutro ==
  ASSUME TypeOK, PasoCorto({})
  PROVE  \A s \in Avisos : sem'[s] = sem[s]
<1>1. sem \in [Semaforos -> Nat] /\ Sems({"pausada1"}, {"pausada1"} \cup {})
  BY DEF TypeOK, PasoCorto
<1>2. PICK e \in SUBSET Neutros, a \in SUBSET Neutros : Sems(e, a)
  BY <1>1, NombresNeutros
<1>3. QED BY <1>1, <1>2, SemsNeutras

\* The console: only INICIAR_PROCESO and the extraction of FINALIZAR_PROCESO
\* touch the counts.
LEMMA NeutrosConsola ==
  ASSUME TypeOK, Control,
                 \/ Usuario /\ ~IniciarProceso
                 \/ Consola /\ ~FinalizarExtrae
  PROVE  /\ \A s \in Avisos : sem'[s] = sem[s]
         /\ UNCHANGED cola
<1>1. /\ sem \in [Semaforos -> Nat] /\ Sueltas \subseteq Pausadas
      /\ consola \in TConsola
  BY DEF TypeOK, Sueltas
<1>2. UNCHANGED cola
  BY DEF Usuario, Consola, PideFinalizar, PideComando, PideComandoGlobal, IniciarPlanificacion,
    SubeMultiprogramacion, PideBajarMultiprogramacion, TomaPausada, DetenerPlanificacion,
    ProcesoEstado, FinalizarSinEfecto, FinalizarEnEjecucion, MarcaPedidoFinalizacion,
    FinalizarCuelga, FinalizarNulo, BajaMultiprogramacion, procesos
<1>3. ASSUME Usuario /\ ~IniciarProceso
      PROVE  \A s \in Avisos : sem'[s] = sem[s]
  <2>1. CASE IniciarPlanificacion
    BY <1>1, <2>1, SemsNeutras, NombresNeutros DEF IniciarPlanificacion
  <2>2. ASSUME NEW g \in Grados, SubeMultiprogramacion(g)
        PROVE  \A s \in Avisos : sem'[s] = sem[s]
    BY <1>1, <2>2, NombresDeAvisos DEF SubeMultiprogramacion
  <2>3. QED BY <1>3, <2>1, <2>2
    DEF Usuario, PideFinalizar, PideComando, PideComandoGlobal, PideBajarMultiprogramacion
<1>4. ASSUME TomaPausada
      PROVE  \A s \in Avisos : sem'[s] = sem[s]
  <2>1. consola.tomados + 1 \in 1 .. 4
    BY <1>1, <1>4 DEF TConsola, Control, ConsolaEnOrden, TomaPausada
  <2>2. \A j \in 1 .. 4 : Pausada[j] \in Pausadas
    BY DEF Pausadas, Pausada, ToSet
  <2>3. Pausada[consola.tomados + 1] \in Neutros
    BY <2>1, <2>2, NombresNeutros
  <2>4. QED BY <1>1, <1>4, <2>3, SemsNeutras DEF TomaPausada
<1>5. ASSUME Consola /\ ~FinalizarExtrae /\ ~TomaPausada
      PROVE  \A s \in Avisos : sem'[s] = sem[s]
  <2>1. CASE FinComando({})
    BY <1>1, <2>1, SemsNeutras, NombresNeutros DEF FinComando
  <2>2. CASE BajaMultiprogramacion
    BY <1>1, <2>2, SemsNeutras, NombresNeutros DEF BajaMultiprogramacion
  <2>3. QED BY <1>5, <2>1, <2>2
    DEF Consola, DetenerPlanificacion, ProcesoEstado, FinalizarSinEfecto, FinalizarEnEjecucion,
      MarcaPedidoFinalizacion, FinalizarCuelga, FinalizarNulo
<1>6. QED BY <1>2, <1>3, <1>4, <1>5

NeutroCorto ==
  \/ EnviaProcesoACpu \/ RecibeDesalojo \/ TrataWait \/ WaitBloquea \/ WaitConcede \/ TrataSignal
  \/ SignalDevuelve \/ TrataIO \/ IOBloquea \/ IOEnvia \/ RespondeCpu \/ LimpiaDesalojo

\* The steps of the short-term scheduler that touch no count.
LEMMA NeutrosCorto ==
  ASSUME TypeOK, Control, NeutroCorto
  PROVE  /\ \A s \in Avisos : sem'[s] = sem[s]
         /\ \A c \in Esperan : cola'[c] = cola[c]
         /\ UNCHANGED <<En("corto", "elige"), En("corto", "avisa_exit")>>
<1>1. /\ sem \in [Semaforos -> Nat]
      /\ cola \in [Colas -> Seq(Pids)]
      /\ pc \in [Hilos -> Etiquetas] /\ "corto" \in Hilos
      /\ pc["corto"] \in {"io", "io_envia"} => corto.arg \in Interfaces
      /\ pc["corto"] = "wait" => corto.arg \in Recursos
  BY DEF TypeOK, Hilos, HilosFijos, Control, CortoEnOrden, En
<1>2. /\ \A c \in Esperan : cola'[c] = cola[c]
      /\ UNCHANGED <<En("corto", "elige"), En("corto", "avisa_exit")>>
  BY <1>1, NombresDeAvisos, SMTT(30)
    DEF NeutroCorto, EnviaProcesoACpu, RecibeDesalojo, TrataWait, WaitBloquea, WaitConcede,
      TrataSignal, SignalDevuelve, TrataIO, IOBloquea, IOEnvia, RespondeCpu, LimpiaDesalojo,
      Trata, En, Va, Pasa, procesos
<1>3. ASSUME EnviaProcesoACpu \/ RecibeDesalojo \/ RespondeCpu \/ LimpiaDesalojo
      PROVE  \A s \in Avisos : sem'[s] = sem[s]
  BY <1>3 DEF EnviaProcesoACpu, RecibeDesalojo, RespondeCpu, LimpiaDesalojo
<1>4. ASSUME TrataWait \/ WaitBloquea \/ WaitConcede \/ TrataSignal \/ SignalDevuelve \/ TrataIO
      PROVE  \A s \in Avisos : sem'[s] = sem[s]
  <2>1. \/ Sems({"pausada1"}, {}) \/ Sems({"inst"}, {"inst", "pausada1"})
        \/ Sems({"pausada1"}, {"pausada1"} \cup {}) \/ Sems({"inst"}, {})
    BY <1>4 DEF TrataWait, WaitBloquea, WaitConcede, TrataSignal, SignalDevuelve, TrataIO, PasoCorto
  <2>2. PICK e \in SUBSET Neutros, a \in SUBSET Neutros : Sems(e, a)
    BY <2>1, NombresNeutros
  <2>3. QED BY <1>1, <2>2, SemsNeutras
<1>5. ASSUME IOBloquea \/ IOEnvia
      PROVE  \A s \in Avisos : sem'[s] = sem[s]
  <2>1. corto.arg \in Neutros
    BY <1>1, <1>5, NombresNeutros DEF IOBloquea, IOEnvia, En
  <2>2. Sems({corto.arg}, {"pausada1"}) \/ Sems({}, {corto.arg})
    BY <1>5 DEF IOBloquea, IOEnvia
  <2>3. PICK e \in SUBSET Neutros, a \in SUBSET Neutros : Sems(e, a)
    BY <2>1, <2>2, NombresNeutros
  <2>4. QED BY <1>1, <2>3, SemsNeutras
<1>6. QED BY <1>2, <1>3, <1>4, <1>5 DEF NeutroCorto

NeutroExit ==
  \/ ExitDesdeNew \/ ExitDesdeOtro \/ LiberaTomaInst \/ LiberaMemoria \/ MemoriaLiberada \/ MarcaExit

\* The steps of the EXIT thread between its order and the final removal.
LEMMA NeutrosExit ==
  ASSUME TypeOK, Control, NeutroExit
  PROVE  /\ \A s \in Avisos : sem'[s] = sem[s]
         /\ UNCHANGED cola
         /\ pc["exit"] # "orden" /\ pc'["exit"] # "orden"
<1>1. /\ sem \in [Semaforos -> Nat]
      /\ pc \in [Hilos -> Etiquetas] /\ "exit" \in Hilos
  BY DEF TypeOK, Hilos, HilosFijos
<1>2. UNCHANGED cola /\ pc["exit"] # "orden" /\ pc'["exit"] # "orden"
  BY <1>1 DEF NeutroExit, ExitDesdeNew, ExitDesdeOtro, LiberaTomaInst, LiberaMemoria,
    MemoriaLiberada, MarcaExit, En, Va, procesos
<1>3. \A s \in Avisos : sem'[s] = sem[s]
  BY <1>1, NombresDeAvisos
    DEF NeutroExit, ExitDesdeNew, ExitDesdeOtro, LiberaTomaInst, LiberaMemoria,
      MemoriaLiberada, MarcaExit, Sems, DevuelveGrado
<1>4. QED BY <1>2, <1>3

\* The steps of a handler that bring no process back to READY.
LEMMA NeutrosManejador ==
  ASSUME TypeOK, NEW i \in Interfaces, Manejador(i), ~DesbloqueaIO(i)
  PROVE  /\ \A s \in Avisos : sem'[s] = sem[s]
         /\ UNCHANGED cola
<1>1. sem \in [Semaforos -> Nat]
  BY DEF TypeOK
<1>2. UNCHANGED cola
  BY DEF Manejador, RecibeIOLiberar, TomaMediano, NadieQueDesbloquear, AtiendeSiguiente,
    LiberaInterfaz, procesos
<1>3. \A s \in Avisos : sem'[s] = sem[s]
  BY <1>1, NombresDeAvisos
    DEF Manejador, RecibeIOLiberar, TomaMediano, NadieQueDesbloquear, AtiendeSiguiente,
      LiberaInterfaz, Sems
<1>4. QED BY <1>2, <1>3

\* Every step keeps the three counts: whoever adds a process to a queue posts,
\* whoever consumes a post takes a process or has found the queue empty.
LEMMA DespertarPaso ==
  ASSUME TypeOK, Control, PlusSoloEnVRR, SinDespertarPerdido, [Next]_vars
  PROVE  PlusSoloEnVRR' /\ SinDespertarPerdido'
<1> DEFINE EnElige == En("corto", "elige")
           EnAvisa == En("corto", "avisa_exit")
           EnLargo == pc["largo"] \in {"grado", "pausa"}
           EnExit  == pc["exit"] # "orden"
<1>1. /\ cola \in [Colas -> Seq(Pids)]
      /\ sem \in [Semaforos -> Nat]
      /\ pc \in [Hilos -> Etiquetas] /\ {"consola", "corto", "largo", "exit"} \subseteq Hilos
      /\ {"corto", "largo", "exit"} \subseteq Semaforos
      /\ {"NEW", "READY", "READY_VRR", "EXIT", "RUNNING"} \subseteq Colas
  BY DEF TypeOK, Hilos, HilosFijos, Semaforos, SemaforosFijos, Colas, ColasFijas
<1>2. /\ sem["corto"] \in Nat /\ sem["largo"] \in Nat /\ sem["exit"] \in Nat
      /\ Len(cola["NEW"]) \in Nat /\ Len(cola["READY"]) \in Nat
      /\ Len(cola["READY_VRR"]) \in Nat /\ Len(cola["EXIT"]) \in Nat
  BY <1>1
<1>3. PlusSoloEnVRR /\ ReadyAvisado /\ NewAvisado /\ ExitContado
  BY DEF SinDespertarPerdido
\* What the leaves about READY need of the two.
<1>r. sem["corto"] \in Nat /\ Listos \in Nat /\ ReadyAvisado
  BY <1>2, <1>3, ListosSuma
\* A step that changes none of the terms of an inequality keeps it.
<1>4. UNCHANGED <<sem["corto"], cola["READY"], cola["READY_VRR"], EnElige>> =>
        PlusSoloEnVRR' /\ ReadyAvisado'
  BY <1>3 DEF PlusSoloEnVRR, ReadyAvisado, Listos, Uno
<1>5. UNCHANGED <<sem["largo"], cola["NEW"], EnLargo>> => NewAvisado'
  BY <1>3 DEF NewAvisado, Uno
<1>6. UNCHANGED <<sem["exit"], cola["EXIT"], EnExit, EnAvisa>> => ExitContado'
  BY <1>3 DEF ExitContado, Uno
<1>7. CASE /\ \A s \in Avisos : sem'[s] = sem[s]
           /\ \A c \in Esperan : cola'[c] = cola[c]
           /\ UNCHANGED <<EnElige, EnAvisa, EnLargo, EnExit>>
  BY <1>4, <1>5, <1>6, <1>7 DEF Avisos, Esperan, SinDespertarPerdido
<1>8. CASE IniciarProceso
  <2>1. /\ Len(cola'["NEW"]) = Len(cola["NEW"]) + 1
        /\ UNCHANGED <<cola["READY"], cola["READY_VRR"], cola["EXIT"]>>
    BY <1>1, <1>8 DEF IniciarProceso
  <2>2. /\ sem'["largo"] = sem["largo"] + 1
        /\ UNCHANGED <<sem["corto"], sem["exit"]>>
    BY <1>1, <1>8 DEF IniciarProceso, Sems
  <2>3. UNCHANGED pc
    BY <1>8 DEF IniciarProceso
  <2>4. NewAvisado'
    BY <1>2, <1>3, <2>1, <2>2, <2>3 DEF NewAvisado, Uno
  <2>5. QED BY <1>4, <1>6, <2>1, <2>2, <2>3, <2>4 DEF SinDespertarPerdido, En
<1>9. CASE FinalizarExtrae
  <2> DEFINE p == consola.objetivo
             c == ColaDe(p)
  <2>1. p \in Pids
    BY <1>9 DEF FinalizarExtrae, ObjetivoEn, Control, ConsolaEnOrden
  <2>2. /\ c # "EXIT"
        /\ c \in Recursos \cup Interfaces \cup {"NEW", "READY", "READY_VRR", Nulo}
    <3>1. pcb[p].cola_bloqueado \in Recursos \cup Interfaces \cup {Nulo}
      BY <2>1 DEF TypeOK, PCBs
    <3>2. c \in {pcb[p].cola_bloqueado, "NEW", "READY", "READY_VRR"}
      BY DEF ColaDe
    <3> HIDE DEF c
    <3>3. QED BY <3>1, <3>2 DEF ColasFijas
  <2>3. /\ cola' = [cola EXCEPT ![c] = Extraer(@, p), !["EXIT"] = Append(@, p)]
        /\ Contains(cola[c], p)
        /\ FinComando({"exit"})
    BY <1>9 DEF FinalizarExtrae
  <2> HIDE DEF c, p
  <2>4. \A s \in Seq(Pids) : Contains(s, p) => Len(Extraer(s, p)) = Len(s) - 1
    BY ExtraerTipo
  <2>5. \A d \in {"NEW", "READY", "READY_VRR"} :
          /\ cola'[d] = IF d = c THEN Extraer(cola[d], p) ELSE cola[d]
          /\ d = c => Len(cola'[d]) = Len(cola[d]) - 1
    BY <1>1, <2>2, <2>3, <2>4
  <2>6. Len(cola'["EXIT"]) = Len(cola["EXIT"]) + 1
    <3>1. cola'["EXIT"] = Append(cola["EXIT"], p)
      BY <1>1, <2>2, <2>3
    <3>2. QED BY <1>1, <2>1, <3>1
  <2>7. /\ sem'["exit"] = sem["exit"] + 1
        /\ UNCHANGED <<sem["corto"], sem["largo"]>>
    <3>1. "exit" \notin Pausadas /\ "corto" \notin Pausadas /\ "largo" \notin Pausadas
      BY DEF Pausadas, Pausada, ToSet
    <3>2. QED BY <1>1, <2>3, <3>1 DEF FinComando, Sems, Sueltas
  <2>8. UNCHANGED <<pc["corto"], pc["largo"], pc["exit"]>>
    BY <1>1, <2>3 DEF FinComando, Va
  <2>9. PlusSoloEnVRR'
    <3>1. CASE c = "READY_VRR" /\ ALGORITMO # "VRR"
      <4>1. cola[c] = <<>>
        BY <1>3, <3>1 DEF PlusSoloEnVRR
      <4>2. QED BY <2>3, <4>1 DEF Contains
    <3>2. CASE ~(c = "READY_VRR" /\ ALGORITMO # "VRR")
      BY <1>3, <2>5, <3>2 DEF PlusSoloEnVRR
    <3>3. QED BY <3>1, <3>2
  <2>10. ReadyAvisado'
    <3>1. /\ Len(cola'["READY"]) \in Nat /\ Len(cola'["READY"]) <= Len(cola["READY"])
          /\ Len(cola'["READY_VRR"]) \in Nat /\ Len(cola'["READY_VRR"]) <= Len(cola["READY_VRR"])
      BY <1>1, <1>2, <2>3, <2>5, ExtraerTipo
    <3>2. sem'["corto"] = sem["corto"] /\ EnElige' = EnElige
      BY <2>7, <2>8 DEF En
    <3>3. Listos' \in Nat /\ Listos' <= Listos
      BY <1>2, <3>1, ListosMenos
    <3>4. QED BY <3>3, <1>r, <3>1, <3>2 DEF ReadyAvisado, Uno
  <2>11. NewAvisado'
    BY <1>2, <1>3, <2>5, <2>7, <2>8 DEF NewAvisado, Uno
  <2>12. ExitContado'
    BY <1>2, <1>3, <2>6, <2>7, <2>8 DEF ExitContado, Uno, En
  <2>13. QED BY <2>9, <2>10, <2>11, <2>12 DEF SinDespertarPerdido
<1>10. CASE EsperaOrdenCorto
  <2>1. /\ sem["corto"] > 0 /\ sem'["corto"] = sem["corto"] - 1
        /\ UNCHANGED <<sem["largo"], sem["exit"]>>
    BY <1>1, <1>10 DEF EsperaOrdenCorto, Sems
  <2>2. /\ UNCHANGED <<cola, pc["largo"], pc["exit"], EnAvisa>>
        /\ ~EnElige /\ EnElige'
    BY <1>1, <1>10 DEF EsperaOrdenCorto, En, Va, procesos
  <2>3. ReadyAvisado'
    <3>1. sem["corto"] > 0 /\ sem'["corto"] = sem["corto"] - 1 /\ Listos' = Listos
      BY <2>1, <2>2 DEF Listos
    <3>2. ~EnElige /\ EnElige'
      BY <2>2
    <3>3. QED BY <1>r, <3>1, <3>2 DEF ReadyAvisado, Uno
  <2>4. QED BY <1>3, <1>5, <1>6, <2>1, <2>2, <2>3 DEF SinDespertarPerdido, PlusSoloEnVRR
<1>11. CASE EligeProceso
  <2> DEFINE o == ColaDeListos
  <2>1. o \in {"READY", "READY_VRR"}
    BY DEF ColaDeListos
  <2>2. Pasa(Head(cola[o]), o, "RUNNING") /\ cola[o] # <<>>
    BY <1>11 DEF EligeProceso
  <2> HIDE DEF o
  <2>3. /\ Len(cola'[o]) = Len(cola[o]) - 1
        /\ \A c \in Colas \ {o, "RUNNING"} : cola'[c] = cola[c]
    <3>1. Head(cola[o]) \in Pids /\ o \in Colas /\ o # "RUNNING"
      BY <1>1, <2>1, <2>2
    <3>2. QED BY <1>1, <2>2, <3>1, PasaLargo
  <2>4. \A s \in Avisos : sem'[s] = sem[s]
    BY <1>11, PasoCortoNeutro DEF EligeProceso
  <2>5. /\ UNCHANGED <<pc["largo"], pc["exit"], EnAvisa>>
        /\ EnElige /\ ~EnElige'
    BY <1>1, <1>11 DEF EligeProceso, En, Va
  <2>6. ReadyAvisado'
    <3>1. sem'["corto"] = sem["corto"] /\ EnElige /\ ~EnElige'
      BY <2>4, <2>5 DEF Avisos
    <3>2. CASE o = "READY"
      <4>1. Len(cola'["READY"]) = Len(cola["READY"]) - 1 /\ cola'["READY_VRR"] = cola["READY_VRR"]
        BY <1>1, <2>3, <3>2
      <4>2. Listos' = Listos - 1
        BY <1>2, <4>1 DEF Listos
      <4>3. QED BY <1>r, <3>1, <4>2 DEF ReadyAvisado, Uno
    <3>3. CASE o = "READY_VRR"
      <4>1. Len(cola'["READY_VRR"]) = Len(cola["READY_VRR"]) - 1 /\ cola'["READY"] = cola["READY"]
        BY <1>1, <2>3, <3>3
      <4>2. Listos' = Listos - 1
        BY <1>2, <4>1 DEF Listos
      <4>3. QED BY <1>r, <3>1, <4>2 DEF ReadyAvisado, Uno
    <3>4. QED BY <2>1, <3>2, <3>3
  <2>7. PlusSoloEnVRR'
    BY <1>1, <1>3, <2>1, <2>2, <2>3 DEF PlusSoloEnVRR
  <2>8. QED BY <1>1, <1>5, <1>6, <2>1, <2>3, <2>4, <2>5, <2>6, <2>7 DEF SinDespertarPerdido, Avisos
<1>12. CASE NoHayListos
  <2>1. /\ cola["READY"] = <<>> /\ cola["READY_VRR"] = <<>>
    BY <1>3, <1>12 DEF NoHayListos, ColaDeListos, PlusSoloEnVRR
  <2>2. \A s \in Avisos : sem'[s] = sem[s]
    BY <1>12, PasoCortoNeutro DEF NoHayListos
  <2>3. UNCHANGED <<cola, pc["largo"], pc["exit"], EnAvisa>>
    BY <1>1, <1>12 DEF NoHayListos, En, Va, procesos
  <2>4. ReadyAvisado' /\ PlusSoloEnVRR'
    <3>1. /\ Len(cola'["READY"]) = 0 /\ Len(cola'["READY_VRR"]) = 0
          /\ cola'["READY_VRR"] = <<>>
      BY <2>1, <2>3
    <3>2. sem'["corto"] \in Nat
      BY <1>r, <2>2 DEF Avisos
    <3>3. ReadyAvisado'
      BY <3>1, <3>2 DEF ReadyAvisado, Listos, Uno
    <3>4. QED BY <3>1, <3>3 DEF PlusSoloEnVRR
  <2>5. QED BY <1>5, <1>6, <2>2, <2>3, <2>4 DEF SinDespertarPerdido, Avisos
\* The three ways in which the running process is sent to EXIT.
<1>13. CASE TrataFin \/ TrataRecursoInvalido \/ TrataIOInvalida
  <2>1. /\ Pasa(corto.proceso, "RUNNING", "EXIT")
        /\ PasoCorto({}) /\ En("corto", "trata") /\ Va("corto", "avisa_exit")
    BY <1>13 DEF TrataFin, TrataRecursoInvalido, TrataIOInvalida, Trata, MandaAExit
  <2>2. corto.proceso \in Pids /\ cola["RUNNING"] # <<>>
    BY <2>1 DEF Control, CortoEnOrden, HayRunning, En
  <2>3. /\ Len(cola'["EXIT"]) = Len(cola["EXIT"]) + 1
        /\ UNCHANGED <<cola["NEW"], cola["READY"], cola["READY_VRR"]>>
    <3>1. Pasa(corto.proceso, "RUNNING", "EXIT") /\ "RUNNING" # "EXIT"
      BY <2>1
    <3>2. /\ Len(cola'["EXIT"]) = Len(cola["EXIT"]) + 1
          /\ \A c \in Colas \ {"RUNNING", "EXIT"} : cola'[c] = cola[c]
      BY <1>1, <2>2, <3>1, PasaLargo
    <3>3. QED BY <1>1, <3>2
  <2>4. \A s \in Avisos : sem'[s] = sem[s]
    BY <2>1, PasoCortoNeutro
  <2>5. /\ UNCHANGED <<pc["largo"], pc["exit"], EnElige>>
        /\ ~EnAvisa /\ EnAvisa'
    BY <1>1, <2>1 DEF En, Va
  <2>6. ExitContado'
    BY <1>2, <1>3, <2>3, <2>4, <2>5 DEF ExitContado, Uno, Avisos
  <2>7. QED BY <1>4, <1>5, <2>3, <2>4, <2>5, <2>6 DEF SinDespertarPerdido, Avisos
<1>14. CASE AvisaExit
  <2>1. /\ sem'["exit"] = sem["exit"] + 1
        /\ UNCHANGED <<sem["corto"], sem["largo"]>>
    BY <1>1, <1>14 DEF AvisaExit, Sems
  <2>2. /\ UNCHANGED <<cola, pc["largo"], pc["exit"], EnElige>>
        /\ EnAvisa /\ ~EnAvisa'
    BY <1>1, <1>14 DEF AvisaExit, En, Va
  <2>3. ExitContado'
    BY <1>2, <1>3, <2>1, <2>2 DEF ExitContado, Uno
  <2>4. QED BY <1>4, <1>5, <2>1, <2>2, <2>3 DEF SinDespertarPerdido
\* A process comes back from a resource ...
<1>15. ASSUME NEW r \in Recursos, NEW pcbs, EntregaInstancia(r, pcbs),
              UNCHANGED <<EnElige, EnAvisa, EnLargo, EnExit>>
       PROVE  PlusSoloEnVRR' /\ SinDespertarPerdido'
  <2>1. /\ sem'["corto"] = sem["corto"] + Uno(HayBloqueado(r))
        /\ UNCHANGED <<sem["largo"], sem["exit"]>>
    BY <1>1, <1>15, EntregaSems
  <2>2. r \in Colas /\ r \notin {"READY", "READY_VRR", "NEW", "EXIT"}
    BY DEF Colas, ColasFijas
  <2>3. /\ Len(cola'["READY"]) = Len(cola["READY"]) + Uno(HayBloqueado(r))
        /\ UNCHANGED <<cola["NEW"], cola["READY_VRR"], cola["EXIT"]>>
    <3>1. CASE HayBloqueado(r)
      <4>1. cola[r] # <<>> /\ Pasa(Head(cola[r]), r, "READY")
        BY <1>15, <3>1 DEF EntregaInstancia, HayBloqueado
      <4>2. Head(cola[r]) \in Pids
        BY <1>1, <2>2, <4>1
      <4>3. QED BY <1>1, <2>2, <3>1, <4>1, <4>2, PasaLargo DEF Uno
    <3>2. CASE ~HayBloqueado(r)
      BY <1>2, <1>15, <3>2 DEF EntregaInstancia, Uno
    <3>3. QED BY <3>1, <3>2
  <2>4. Uno(HayBloqueado(r)) \in Nat
    BY DEF Uno
  <2>5. PlusSoloEnVRR' /\ ReadyAvisado'
    <3> DEFINE u == Uno(HayBloqueado(r))
    <3> HIDE DEF u
    <3>1. u \in Nat /\ sem'["corto"] = sem["corto"] + u /\ Len(cola'["READY"]) = Len(cola["READY"]) + u
      BY <2>1, <2>3, <2>4 DEF u
    <3>2. EnElige' = EnElige /\ cola'["READY_VRR"] = cola["READY_VRR"]
      BY <1>15, <2>3
    <3>3. Listos' = Listos + u
      BY <1>2, <3>1, <3>2, ListosSuma
    <3>4. ReadyAvisado'
      BY <1>r, <3>1, <3>2, <3>3 DEF ReadyAvisado, Uno
    <3>5. QED BY <1>3, <3>2, <3>4 DEF PlusSoloEnVRR
  <2>6. QED BY <1>5, <1>6, <1>15, <2>1, <2>3, <2>5 DEF SinDespertarPerdido
<1>16. CASE SignalEntrega
  <2>1. corto.arg \in Recursos /\ EntregaInstancia(corto.arg, pcb)
    BY <1>16 DEF SignalEntrega, Control, CortoEnOrden, En
  <2>2. UNCHANGED <<EnElige, EnAvisa, EnLargo, EnExit>>
    BY <1>1, <1>16 DEF SignalEntrega, En, Va
  <2>3. QED BY <1>15, <2>1, <2>2
<1>17. CASE LiberaInstancia
  <2>1. PICK pcbs : largo.recurso \in Recursos /\ EntregaInstancia(largo.recurso, pcbs)
    BY <1>17 DEF LiberaInstancia, Control, LargoEnOrden, En
  <2>2. UNCHANGED <<EnElige, EnAvisa, EnLargo, EnExit>>
    BY <1>1, <1>17 DEF LiberaInstancia, En, Va
  <2>3. QED BY <1>15, <2>1, <2>2
\* ... from the CPU ...
<1>18. CASE TrataFinQuantum
  <2>1. corto.proceso \in Pids /\ cola["RUNNING"] # <<>>
    BY <1>18 DEF TrataFinQuantum, Trata, Control, CortoEnOrden, HayRunning, En
  <2>2. /\ Len(cola'["READY"]) = Len(cola["READY"]) + 1
        /\ UNCHANGED <<cola["NEW"], cola["READY_VRR"], cola["EXIT"]>>
    <3>1. Pasa(corto.proceso, "RUNNING", "READY") /\ "RUNNING" # "READY"
      BY <1>18 DEF TrataFinQuantum
    <3>2. /\ Len(cola'["READY"]) = Len(cola["READY"]) + 1
          /\ \A c \in Colas \ {"RUNNING", "READY"} : cola'[c] = cola[c]
      BY <1>1, <2>1, <3>1, PasaLargo
    <3>3. QED BY <1>1, <3>2
  <2>3. /\ sem'["corto"] = sem["corto"] + 1
        /\ UNCHANGED <<sem["largo"], sem["exit"]>>
    BY <1>1, <1>18 DEF TrataFinQuantum, PasoCorto, Sems
  <2>4. UNCHANGED <<EnElige, EnAvisa, EnLargo, EnExit>>
    BY <1>1, <1>18 DEF TrataFinQuantum, Trata, En, Va
  <2>5. PlusSoloEnVRR' /\ ReadyAvisado'
    <3>1. /\ Len(cola'["READY"]) = Len(cola["READY"]) + 1 /\ sem'["corto"] = sem["corto"] + 1
          /\ cola'["READY_VRR"] = cola["READY_VRR"]
      BY <2>2, <2>3
    <3>2. EnElige' = EnElige
      BY <2>4
    <3>3. Listos' = Listos + 1
      BY <1>2, <3>1, ListosSuma
    <3>4. ReadyAvisado'
      BY <1>r, <3>1, <3>2, <3>3 DEF ReadyAvisado, Uno
    <3>5. QED BY <1>3, <3>1, <3>4 DEF PlusSoloEnVRR
  <2>6. QED BY <1>5, <1>6, <2>2, <2>3, <2>4, <2>5 DEF SinDespertarPerdido
\* ... from NEW ...
<1>19. CASE PasaAReady
  <2>1. largo.entrante \in Pids
    BY <1>19 DEF PasaAReady, Control, LargoEnOrden, En
  <2>2. /\ Len(cola'["READY"]) = Len(cola["READY"]) + 1
        /\ UNCHANGED <<cola["NEW"], cola["READY_VRR"], cola["EXIT"]>>
    BY <1>1, <1>19, <2>1 DEF PasaAReady
  <2>3. /\ sem'["corto"] = sem["corto"] + 1
        /\ UNCHANGED <<sem["largo"], sem["exit"]>>
    BY <1>1, <1>19 DEF PasaAReady, Sems
  <2>4. UNCHANGED <<EnElige, EnAvisa, EnLargo, EnExit>>
    BY <1>1, <1>19 DEF PasaAReady, En, Va
  <2>5. PlusSoloEnVRR' /\ ReadyAvisado'
    <3>1. /\ Len(cola'["READY"]) = Len(cola["READY"]) + 1 /\ sem'["corto"] = sem["corto"] + 1
          /\ cola'["READY_VRR"] = cola["READY_VRR"]
      BY <2>2, <2>3
    <3>2. EnElige' = EnElige
      BY <2>4
    <3>3. Listos' = Listos + 1
      BY <1>2, <3>1, ListosSuma
    <3>4. ReadyAvisado'
      BY <1>r, <3>1, <3>2, <3>3 DEF ReadyAvisado, Uno
    <3>5. QED BY <1>3, <3>1, <3>4 DEF PlusSoloEnVRR
  <2>6. QED BY <1>5, <1>6, <2>2, <2>3, <2>4, <2>5 DEF SinDespertarPerdido
\* ... or from an interface.
<1>20. ASSUME NEW i \in Interfaces, DesbloqueaIO(i) PROVE PlusSoloEnVRR' /\ SinDespertarPerdido'
  <2> DEFINE d == IF ALGORITMO = "VRR" /\ pcb[Head(cola[i])].parcial THEN "READY_VRR" ELSE "READY"
  <2>1. /\ Pasa(Head(cola[i]), i, d) /\ cola[i] # <<>> /\ Sems({i}, {"pausada2", "corto"})
        /\ d \in {"READY", "READY_VRR"} /\ (ALGORITMO # "VRR" => d = "READY")
    BY <1>20 DEF DesbloqueaIO, Atendido
  <2> HIDE DEF d
  <2>2. i \in Colas /\ i \notin {"READY", "READY_VRR", "NEW", "EXIT"}
        /\ i \notin {"corto", "largo", "exit"}
    BY DEF Colas, ColasFijas, HilosFijos
  <2>3. Head(cola[i]) \in Pids
    BY <1>1, <2>1, <2>2
  <2>4. /\ Len(cola'[d]) = Len(cola[d]) + 1
        /\ \A c \in Colas \ {i, d} : cola'[c] = cola[c]
    BY <1>1, <2>1, <2>2, <2>3, PasaLargo, SMTT(30)
  <2>5. /\ sem'["corto"] = sem["corto"] + 1
        /\ UNCHANGED <<sem["largo"], sem["exit"]>>
    BY <1>1, <2>1, <2>2, SMTT(30) DEF Sems
  <2>6. UNCHANGED <<EnElige, EnAvisa, EnLargo, EnExit>>
    BY <1>1, <1>20, <2>2 DEF DesbloqueaIO, En, Va
  <2>7. PlusSoloEnVRR' /\ ReadyAvisado'
    <3>1. sem'["corto"] = sem["corto"] + 1 /\ EnElige' = EnElige
      BY <2>5, <2>6
    <3>2. CASE d = "READY"
      <4>1. Len(cola'["READY"]) = Len(cola["READY"]) + 1 /\ cola'["READY_VRR"] = cola["READY_VRR"]
        BY <1>1, <2>2, <2>4, <3>2
      <4>2. ReadyAvisado'
        <5>1. Listos' = Listos + 1
          BY <1>2, <4>1, ListosSuma
        <5>2. QED BY <1>r, <3>1, <5>1 DEF ReadyAvisado, Uno
      <4>3. QED BY <1>3, <4>1, <4>2 DEF PlusSoloEnVRR
    <3>3. CASE d = "READY_VRR"
      <4>1. Len(cola'["READY_VRR"]) = Len(cola["READY_VRR"]) + 1 /\ cola'["READY"] = cola["READY"]
        BY <1>1, <2>2, <2>4, <3>3
      <4>2. ReadyAvisado'
        <5>1. Listos' = Listos + 1
          BY <1>2, <4>1, ListosSuma
        <5>2. QED BY <1>r, <3>1, <5>1 DEF ReadyAvisado, Uno
      <4>3. QED BY <2>1, <3>3, <4>2 DEF PlusSoloEnVRR
    <3>4. QED BY <2>1, <3>2, <3>3
  <2>8. QED BY <1>1, <1>5, <1>6, <2>1, <2>2, <2>4, <2>5, <2>6, <2>7 DEF SinDespertarPerdido
\* The long-term threads.
<1>21. CASE EsperaOrdenLargo
  <2>1. /\ sem["largo"] > 0 /\ sem'["largo"] = sem["largo"] - 1
        /\ UNCHANGED <<sem["corto"], sem["exit"]>>
    BY <1>1, <1>21 DEF EsperaOrdenLargo, Sems
  <2>2. /\ UNCHANGED <<cola, EnElige, EnAvisa, EnExit>>
        /\ ~EnLargo /\ EnLargo'
    BY <1>1, <1>21 DEF EsperaOrdenLargo, En, Va, procesos
  <2>3. NewAvisado'
    BY <1>2, <1>3, <2>1, <2>2 DEF NewAvisado, Uno
  <2>4. QED BY <1>4, <1>6, <2>1, <2>2, <2>3 DEF SinDespertarPerdido
<1>22. CASE TomaGrado
  <2>1. \A s \in Avisos : sem'[s] = sem[s]
    BY <1>1, <1>22, SemsNeutras, NombresNeutros DEF TomaGrado
  <2>2. UNCHANGED <<cola, EnElige, EnAvisa, EnLargo, EnExit>>
    BY <1>1, <1>22 DEF TomaGrado, En, Va, procesos
  <2>3. QED BY <1>7, <2>1, <2>2
<1>23. CASE SacaDeNew
  <2>1. \A s \in Avisos : sem'[s] = sem[s]
    BY <1>1, <1>23, SemsNeutras, NombresNeutros DEF SacaDeNew
  <2>2. /\ Len(cola'["NEW"]) = Len(cola["NEW"]) - 1
        /\ UNCHANGED <<cola["READY"], cola["READY_VRR"], cola["EXIT"]>>
    BY <1>1, <1>23 DEF SacaDeNew
  <2>3. /\ UNCHANGED <<EnElige, EnAvisa, EnExit>>
        /\ EnLargo /\ ~EnLargo'
    BY <1>1, <1>23 DEF SacaDeNew, En, Va
  <2>4. NewAvisado'
    BY <1>2, <1>3, <2>1, <2>2, <2>3 DEF NewAvisado, Uno, Avisos
  <2>5. QED BY <1>4, <1>6, <2>1, <2>2, <2>3, <2>4 DEF SinDespertarPerdido, Avisos
<1>24. CASE NewVacia
  <2>1. \A s \in Avisos : sem'[s] = sem[s]
    <3>1. Sems({"pausada0"}, {"pausada0", "grado"})
      BY <1>24 DEF NewVacia
    <3>2. PICK e \in SUBSET Neutros, a \in SUBSET Neutros : Sems(e, a)
      BY <3>1, NombresNeutros
    <3>3. QED BY <1>1, <3>2, SemsNeutras
  <2>2. UNCHANGED <<cola, EnElige, EnAvisa, EnExit>> /\ cola["NEW"] = <<>>
    BY <1>1, <1>24 DEF NewVacia, En, Va, procesos
  <2>3. NewAvisado'
    BY <1>2, <2>1, <2>2 DEF NewAvisado, Uno, Avisos
  <2>4. QED BY <1>4, <1>6, <2>1, <2>2, <2>3 DEF SinDespertarPerdido, Avisos
<1>25. CASE EsperaOrdenExit
  <2>1. /\ sem["exit"] > 0 /\ sem'["exit"] = sem["exit"] - 1
        /\ UNCHANGED <<sem["corto"], sem["largo"]>>
    BY <1>1, <1>25 DEF EsperaOrdenExit, Sems
  <2>2. /\ UNCHANGED <<cola, EnElige, EnAvisa, EnLargo>>
        /\ ~EnExit /\ EnExit'
    BY <1>1, <1>25 DEF EsperaOrdenExit, En, Va, procesos
  <2>3. ExitContado'
    BY <1>2, <1>3, <2>1, <2>2 DEF ExitContado, Uno
  <2>4. QED BY <1>4, <1>5, <2>1, <2>2, <2>3 DEF SinDespertarPerdido
<1>26. CASE SacaDeExit
  <2>1. /\ UNCHANGED <<EnElige, EnAvisa, EnLargo, sem>>
        /\ EnExit /\ ~EnExit'
    BY <1>1, <1>26 DEF SacaDeExit, En, Va
  <2>2. cola["EXIT"] # <<>>
    BY <1>1, <1>2, <1>3, <2>1 DEF ExitContado, Uno
  <2>3. /\ Len(cola'["EXIT"]) = Len(cola["EXIT"]) - 1
        /\ UNCHANGED <<cola["NEW"], cola["READY"], cola["READY_VRR"]>>
    BY <1>1, <1>26, <2>2 DEF SacaDeExit, SinPrimero
  <2>4. ExitContado'
    BY <1>2, <1>3, <2>1, <2>3 DEF ExitContado, Uno
  <2>5. QED BY <1>4, <1>5, <2>1, <2>3, <2>4 DEF SinDespertarPerdido
\* The steps that none of the three counts sees.
<1>27. CASE (Usuario /\ ~IniciarProceso) \/ (Consola /\ ~FinalizarExtrae)
  <2>1. UNCHANGED <<EnElige, EnAvisa, EnLargo, EnExit>>
    BY <1>1, <1>27, AjenoConsola DEF En
  <2>2. QED BY <1>7, <1>27, <2>1, NeutrosConsola
<1>28. CASE NeutroCorto
  <2>1. UNCHANGED <<EnElige, EnAvisa>>
    BY <1>28, NeutrosCorto
  <2>2. UNCHANGED <<EnLargo, EnExit>>
    BY <1>1, <1>28, AjenoCorto DEF NeutroCorto, Corto
  <2>3. QED BY <1>7, <1>28, <2>1, <2>2, NeutrosCorto
<1>29. CASE NeutroExit
  <2>1. UNCHANGED <<EnElige, EnAvisa, EnLargo>>
    BY <1>1, <1>29, AjenoExit DEF NeutroExit, Exit, En
  <2>2. UNCHANGED EnExit
    BY <1>29, NeutrosExit
  <2>3. QED BY <1>7, <1>29, <2>1, <2>2, NeutrosExit
<1>30. ASSUME NEW i \in Interfaces, Manejador(i), ~DesbloqueaIO(i)
       PROVE  PlusSoloEnVRR' /\ SinDespertarPerdido'
  <2>1. i \notin {"corto", "largo", "exit"}
    BY DEF HilosFijos
  <2>2. UNCHANGED <<EnElige, EnAvisa, EnLargo, EnExit>>
    BY <1>1, <1>30, <2>1, AjenoManejador DEF En
  <2>3. QED BY <1>7, <1>30, <2>2, NeutrosManejador
<1>31. CASE Entorno \/ UNCHANGED vars
  BY <1>7, <1>31, AjenoEntorno DEF vars, procesos, En
<1>32. CASE Corto
  BY <1>10, <1>11, <1>12, <1>13, <1>14, <1>16, <1>18, <1>28, <1>32 DEF Corto, NeutroCorto
<1>33. CASE Largo
  BY <1>19, <1>21, <1>22, <1>23, <1>24, <1>33 DEF Largo
<1>34. CASE Exit
  BY <1>17, <1>25, <1>26, <1>29, <1>34 DEF Exit, NeutroExit
<1>35. QED BY <1>8, <1>9, <1>20, <1>27, <1>30, <1>31, <1>32, <1>33, <1>34, PasosDelKernel

-----------------------------------------------------------------------------
(* The theorems *)

\* The types, the locals of each thread and the counts of the queues are
\* inductive only together: EXIT finds a process to end because its count says
\* so, and the counts are right because every push is of a process.
Inv == TypeOK /\ Control /\ PlusSoloEnVRR /\ SinDespertarPerdido

\* The kernel starts with empty queues and no order pending.
LEMMA InvInicial == Init => Inv
<1> SUFFICES ASSUME Init PROVE Inv
  OBVIOUS
<1>1. TypeOK
  <2>1. /\ pid \in 1 .. (MaxPid + 1) /\ pcb \in [Pids -> PCBs]
    BY ConstantesBienFormadas DEF Init, PCBNuevo, PCBs, Estados, Pids
  <2>2. /\ cola \in [Colas -> Seq(Pids)] /\ instancias \in [Recursos -> Nat]
        /\ pc \in [Hilos -> Etiquetas]
    BY ConstantesBienFormadas DEF Init, Etiquetas
  <2>3. sem \in [Semaforos -> Nat]
    BY ConstantesBienFormadas DEF Init
  <2>4. interfaz \in [Interfaces -> TInterfaz]
    BY DEF Init, TInterfaz, PidsOCero
  <2>5. consola \in TConsola
    BY ConstantesBienFormadas DEF Init, TConsola, PidsOCero
  <2>6. corto \in TCorto
    BY DEF Init, TCorto, PidsOCero, Motivos, Nombres
  <2>7. largo \in TLargo
    BY DEF Init, TLargo, PidsOCero, Nombres
  <2>8. hilo_quantum \in TQuantum /\ cpu \in TCpu
    BY DEF Init, TQuantum, TCpu, PidsOCero
  <2>9. /\ dispatch \in Seq(TDispatch) /\ desalojos \in Seq(TDesalojo)
        /\ memoria \in TMemoria
    BY DEF Init, TMemoria, TPedido
  <2>10. dispositivo \in [Interfaces -> TDispositivo]
    BY DEF Init, TDispositivo
  <2>11. QED BY <2>1, <2>2, <2>3, <2>4, <2>5, <2>6, <2>7, <2>8, <2>9, <2>10 DEF TypeOK
<1>2. Control
  BY DEF Init, Control, ConsolaEnOrden, CortoEnOrden, HayRunning, LargoEnOrden, En, Hilos,
      HilosFijos
<1>3. PlusSoloEnVRR /\ SinDespertarPerdido
  BY DEF Init, PlusSoloEnVRR, SinDespertarPerdido, ReadyAvisado, Listos, NewAvisado, ExitContado,
      Uno, En,
    Hilos, HilosFijos, Colas, ColasFijas, Semaforos, SemaforosFijos
<1>4. QED BY <1>1, <1>2, <1>3 DEF Inv

\* The three step lemmas together: the invariant is inductive.
LEMMA InvPaso == Inv /\ [Next]_vars => Inv'
BY TipoPaso, ControlPaso, DespertarPaso DEF Inv

\* The inductive invariant holds in every behaviour of the kernel.
THEOREM Invariante == Spec => []Inv
BY InvInicial, InvPaso, PTL DEF Spec

\* Every variable of the kernel keeps its type, whatever the number of
\* processes, resources and interfaces.
THEOREM TipoCorrecto == Spec => []TypeOK
BY Invariante, PTL DEF Inv

\* No thread sleeps while a process waits in the queue it serves: every path
\* that puts a process in NEW, READY, READY+ or EXIT posts the semaphore, and
\* none posts EXIT twice.
THEOREM DespertarCorrecto == Spec => []SinDespertarPerdido
BY Invariante, PTL DEF Inv

-----------------------------------------------------------------------------
(* Who is inside *)

\* What each thread is inside of, by the point of its code.
LEMMA DuenosPorHilo ==
  ASSUME NEW s
  PROVE  /\ "consola" \in Duenos(s) <=> \E j \in 1 .. 4 : s = Pausada[j] /\ consola.tomados >= j
         /\ "largo" \in Duenos(s) <=> s = "pausada0" /\ pc["largo"] = "creando"
         /\ "corto" \in Duenos(s) <=>
              \/ s = "pausada1" /\ pc["corto"] \in {"wait", "io"}
              \/ s = "inst" /\ pc["corto"] = "signal_mediano"
              \/ s = corto.arg /\ pc["corto"] = "io_envia"
         /\ "exit" \in Duenos(s) <=>
              \/ s = "pausada3" /\ pc["exit"] \in {"libera", "mediano", "eliminando"}
              \/ s = "inst" /\ pc["exit"] = "mediano"
         /\ \A i \in Interfaces :
              i \in Duenos(s) <=> \/ s = "pausada2" /\ pc[i] = "cola"
                                  \/ s = i /\ pc[i] = "siguiente"
BY DEF Duenos, Hilos, HilosFijos

\* The same after the step.
LEMMA DuenosPorHiloDespues ==
  ASSUME NEW s
  PROVE  /\ "consola" \in Duenos(s)' <=> \E j \in 1 .. 4 : s = Pausada[j] /\ consola'.tomados >= j
         /\ "largo" \in Duenos(s)' <=> s = "pausada0" /\ pc'["largo"] = "creando"
         /\ "corto" \in Duenos(s)' <=>
              \/ s = "pausada1" /\ pc'["corto"] \in {"wait", "io"}
              \/ s = "inst" /\ pc'["corto"] = "signal_mediano"
              \/ s = corto'.arg /\ pc'["corto"] = "io_envia"
         /\ "exit" \in Duenos(s)' <=>
              \/ s = "pausada3" /\ pc'["exit"] \in {"libera", "mediano", "eliminando"}
              \/ s = "inst" /\ pc'["exit"] = "mediano"
         /\ \A i \in Interfaces :
              i \in Duenos(s)' <=> \/ s = "pausada2" /\ pc'[i] = "cola"
                                   \/ s = i /\ pc'[i] = "siguiente"
BY DEF Duenos, Hilos, HilosFijos

\* The handler of an interface, before and after the step.
LEMMA DuenosManejador ==
  ASSUME NEW i \in Interfaces, NEW s
  PROVE  /\ i \in Duenos(s) <=> (s = "pausada2" /\ pc[i] = "cola") \/ (s = i /\ pc[i] = "siguiente")
         /\ i \in Duenos(s)' <=> (s = "pausada2" /\ pc'[i] = "cola") \/ (s = i /\ pc'[i] = "siguiente")
<1>1. i \in Hilos /\ i \notin {"consola", "corto", "largo", "exit"} BY DEF Hilos, HilosFijos
<1>2. QED BY <1>1 DEF Duenos, Hilos, HilosFijos

\* A step of one thread leaves every other one inside of what it was.
LEMMA DuenosAjenos ==
  ASSUME NEW h \in Hilos, \A g \in Hilos \ {h} : pc'[g] = pc[g],
         h # "consola" => consola' = consola,
         h # "corto" => corto' = corto
  PROVE  \A s \in Mutexes : \A g \in Hilos \ {h} : g \in Duenos(s)' <=> g \in Duenos(s)
<1> TAKE s \in Mutexes
<1> TAKE g \in Hilos \ {h}
<1>1. CASE g \in Interfaces
  BY <1>1, DuenosPorHilo, DuenosPorHiloDespues
<1>2. CASE g \in HilosFijos
  BY <1>2, DuenosPorHilo, DuenosPorHiloDespues DEF HilosFijos
<1>3. QED BY <1>1, <1>2 DEF Hilos

\* Only threads are inside.
LEMMA DuenosHilos == \A s : Duenos(s) \subseteq Hilos /\ Duenos(s)' \subseteq Hilos
BY DEF Duenos, Hilos

-----------------------------------------------------------------------------
(* Steps *)

\* A step that moves no mutex and nobody in or out.
LEMMA MutexQuieto ==
  ASSUME MutexCoherente, \A s \in Mutexes : sem'[s] = sem[s],
         \A s \in Mutexes : \A g \in Hilos : g \in Duenos(s)' <=> g \in Duenos(s)
  PROVE  MutexCoherente'
<1>1. Mutexes' = Mutexes BY DEF Mutexes
<1>2. \A s \in Mutexes : Duenos(s)' = Duenos(s) BY DuenosHilos
<1>3. QED BY <1>1, <1>2 DEF MutexCoherente

\* Thread h waits for the semaphores of e and posts those of a; it comes to be
\* inside of what it waits for and leaves what it posts, which it was inside
\* of or has just waited for.
LEMMA MutexPasa ==
  ASSUME sem \in [Semaforos -> Nat], MutexCoherente, NEW h \in Hilos,
         NEW e, NEW a, Sems(e, a),
         \A s \in Mutexes : \A g \in Hilos \ {h} : g \in Duenos(s)' <=> g \in Duenos(s),
         \A s \in Mutexes : h \in Duenos(s)' <=> (h \in Duenos(s) \/ s \in e) /\ s \notin a,
         \A s \in Mutexes : s \in a => s \in e \/ h \in Duenos(s)
  PROVE  MutexCoherente'
<1>1. Mutexes \subseteq Semaforos BY DEF Mutexes, Semaforos, SemaforosFijos
<1>2. SUFFICES ASSUME NEW s \in Mutexes
               PROVE  \/ sem'[s] = 1 /\ Duenos(s)' = {}
                      \/ sem'[s] = 0 /\ \E g \in Hilos : Duenos(s)' = {g}
  BY DEF MutexCoherente, Mutexes
<1>3. /\ s \in Semaforos /\ sem[s] \in Nat
      /\ s \in e => sem[s] > 0
      /\ sem'[s] = (sem[s] - (IF s \in e THEN 1 ELSE 0)) + (IF s \in a THEN 1 ELSE 0)
  BY <1>1 DEF Sems
<1>4. /\ \/ sem[s] = 1 /\ Duenos(s) = {}
         \/ sem[s] = 0 /\ \E g \in Hilos : Duenos(s) = {g}
      /\ Duenos(s) \subseteq Hilos /\ Duenos(s)' \subseteq Hilos
  BY DuenosHilos DEF MutexCoherente
<1>5. CASE s \in e
  <2>1. sem[s] = 1 /\ Duenos(s) = {} BY <1>3, <1>4, <1>5
  <2>2. CASE s \in a
    <3>1. Duenos(s)' = {} BY <1>4, <2>1, <2>2
    <3>2. QED BY <1>3, <1>5, <2>1, <2>2, <3>1
  <2>3. CASE s \notin a
    <3>1. Duenos(s)' = {h} BY <1>4, <1>5, <2>1, <2>3
    <3>2. QED BY <1>3, <1>5, <2>1, <2>3, <3>1
  <2>4. QED BY <2>2, <2>3
<1>6. CASE s \notin e /\ s \in a
  <2>1. h \in Duenos(s) BY <1>6
  <2>2. sem[s] = 0 /\ Duenos(s) = {h} BY <1>4, <2>1
  <2>3. Duenos(s)' = {} BY <1>4, <1>6, <2>2
  <2>4. QED BY <1>3, <1>6, <2>2, <2>3
<1>7. CASE s \notin e /\ s \notin a
  <2>1. \A g \in Hilos : g \in Duenos(s)' <=> g \in Duenos(s)
    <3>1. h \in Duenos(s)' <=> h \in Duenos(s) BY <1>7
    <3>2. \A g \in Hilos \ {h} : g \in Duenos(s)' <=> g \in Duenos(s) OBVIOUS
    <3>3. QED BY <3>1, <3>2
  <2>2. Duenos(s)' = Duenos(s) BY <1>4, <2>1
  <2>3. QED BY <1>3, <1>4, <1>7, <2>2
<1>8. QED BY <1>5, <1>6, <1>7

\* The mutexes by name.
LEMMA NombresDeMutexes ==
  /\ Mutexes = {"pausada0", "pausada1", "pausada2", "pausada3", "inst"} \cup Interfaces
  /\ Pausadas = {"pausada0", "pausada1", "pausada2", "pausada3"}
  /\ Interfaces \cap {"pausada0", "pausada1", "pausada2", "pausada3", "inst", "grado",
                      "corto", "largo", "exit", "consola"} = {}
  /\ Pausada[1] = "pausada0" /\ Pausada[2] = "pausada1"
  /\ Pausada[3] = "pausada2" /\ Pausada[4] = "pausada3"
BY DEF Mutexes, Pausadas, Pausada, ToSet, SemaforosFijos, HilosFijos

\* The console takes the four pausada one by one and gives all back.
LEMMA MutexConsola ==
  ASSUME Inv, MutexCoherente, Usuario \/ Consola
  PROVE  MutexCoherente'
<1> DEFINE Tiene(j) == consola.tomados >= j
<1>1. /\ pc \in [Hilos -> Etiquetas] /\ "consola" \in Hilos /\ consola \in TConsola
      /\ sem \in [Semaforos -> Nat] /\ ConsolaEnOrden
  BY DEF Inv, TypeOK, Control, Hilos, HilosFijos
<1>2. \A s \in Mutexes : \A g \in Hilos \ {"consola"} : g \in Duenos(s)' <=> g \in Duenos(s)
  <2>1. corto' = corto /\ \A g \in Hilos \ {"consola"} : pc'[g] = pc[g]
    BY <1>1, AjenoConsola
  <2>2. QED BY <1>1, <2>1, DuenosAjenos
<1>3. consola.tomados \in 0 .. 4 BY <1>1 DEF TConsola
<1>4. ASSUME consola'.tomados = consola.tomados, \A s \in Mutexes : sem'[s] = sem[s]
      PROVE  MutexCoherente'
  <2>1. \A s \in Mutexes : "consola" \in Duenos(s)' <=> "consola" \in Duenos(s)
    BY <1>4, DuenosPorHilo, DuenosPorHiloDespues
  <2>2. QED BY <1>2, <1>4, <2>1, MutexQuieto
<1>5. ASSUME NEW avisos, avisos \cap Mutexes = {}, Sems({}, avisos \cup Pausadas),
             consola.tomados = 4, consola'.tomados = 0
      PROVE  MutexCoherente'
  <2>1. \A s \in Mutexes : "consola" \in Duenos(s) <=> s \in Pausadas
    BY <1>5, DuenosPorHilo, NombresDeMutexes
  <2>2. \A s \in Mutexes : ~("consola" \in Duenos(s)')
    BY <1>5, DuenosPorHiloDespues
  <2> DEFINE a == avisos \cup Pausadas
  <2>3. \A s \in Mutexes : s \in a <=> s \in Pausadas BY <1>5
  <2>4. Sems({}, a) BY <1>5
  <2> HIDE DEF a
  <2>5. \A s \in Mutexes : "consola" \in Duenos(s)' <=>
                             ("consola" \in Duenos(s) \/ s \in {}) /\ s \notin a
    BY <2>1, <2>2, <2>3
  <2>6. \A s \in Mutexes : s \in a => s \in {} \/ "consola" \in Duenos(s) BY <2>1, <2>3
  <2>7. QED BY <1>1, <1>2, <2>4, <2>5, <2>6, MutexPasa
<1>6. ASSUME NEW avisos, avisos \subseteq {"exit"}, FinComando(avisos),
             pc["consola"] \in {"ejecuta", "marca"}
      PROVE  MutexCoherente'
  <2>1. consola.tomados = 4 BY <1>1, <1>6 DEF ConsolaEnOrden
  <2>2. avisos \cap Mutexes = {} BY <1>6, NombresDeMutexes
  <2>3. CASE consola.pausada
    <3>1. consola'.tomados = 4 /\ Sems({}, avisos \cup {})
      BY <1>1, <1>6, <2>3 DEF FinComando, Sueltas, TConsola
    <3>2. \A s \in Mutexes : sem'[s] = sem[s]
      BY <1>1, <2>2, <3>1 DEF Sems, Mutexes, Semaforos, SemaforosFijos
    <3>3. QED BY <1>4, <2>1, <3>1, <3>2
  <2>4. CASE ~consola.pausada
    <3>1. consola'.tomados = 0 /\ Sems({}, avisos \cup Pausadas)
      BY <1>1, <1>6, <2>4 DEF FinComando, Sueltas, TConsola
    <3>2. QED BY <1>5, <2>1, <2>2, <3>1
  <2>5. QED BY <2>3, <2>4
<1>7. CASE TomaPausada
  <2> DEFINE n == consola.tomados + 1
  <2>1. /\ Sems({Pausada[n]}, {}) /\ consola'.tomados = n /\ n \in 1 .. 4
    BY <1>1, <1>3, <1>7 DEF TomaPausada, TConsola, ConsolaEnOrden
  <2>2. \A s \in Mutexes : "consola" \in Duenos(s)' <=> "consola" \in Duenos(s) \/ s = Pausada[n]
    <3>1. \A j \in 1 .. 4 : consola'.tomados >= j <=> consola.tomados >= j \/ j = n
      BY <2>1, <1>3
    <3>2. QED BY <2>1, <3>1, DuenosPorHilo, DuenosPorHiloDespues
  <2> HIDE DEF n
  <2>3. QED BY <1>1, <1>2, <2>1, <2>2, MutexPasa
<1>8. CASE IniciarPlanificacion
  <2>1. consola.tomados = 4 /\ consola'.tomados = 0 /\ Sems({}, {} \cup Pausadas)
    BY <1>1, <1>8 DEF IniciarPlanificacion, ConsolaEnOrden, TConsola
  <2>2. QED BY <1>5, <2>1
<1>9. CASE IniciarProceso \/ BajaMultiprogramacion
  <2>1. consola'.tomados = consola.tomados
    BY <1>1, <1>9 DEF IniciarProceso, BajaMultiprogramacion, locales, TConsola
  <2>2. Sems({}, {"largo"}) \/ Sems({"grado"}, {})
    BY <1>9 DEF IniciarProceso, BajaMultiprogramacion
  <2>3. \A s \in Mutexes : sem'[s] = sem[s]
    BY <1>1, <2>2, NombresDeMutexes, SMTT(30) DEF Sems, Semaforos, SemaforosFijos
  <2>4. QED BY <1>4, <2>1, <2>3
<1>10. ASSUME NEW g \in Grados, SubeMultiprogramacion(g) \/ PideBajarMultiprogramacion(g)
       PROVE  MutexCoherente'
  <2>1. consola'.tomados = consola.tomados
    BY <1>1, <1>10 DEF SubeMultiprogramacion, PideBajarMultiprogramacion, TConsola
  <2>2. \A s \in Mutexes : sem'[s] = sem[s]
    <3>1. \A s \in Mutexes : s \in Semaforos /\ s # "grado"
      BY NombresDeMutexes DEF Semaforos, SemaforosFijos
    <3>2. QED BY <1>1, <1>10, <3>1 DEF SubeMultiprogramacion, PideBajarMultiprogramacion
  <2>3. QED BY <1>4, <2>1, <2>2
<1>11. ASSUME NEW c, NEW p, PideComando(c, p) PROVE MutexCoherente'
  BY <1>1, <1>4, <1>11 DEF PideComando, TConsola
<1>12. CASE DetenerPlanificacion \/ FinalizarEnEjecucion \/ FinalizarCuelga \/ FinalizarNulo
  BY <1>1, <1>4, <1>12
  DEF DetenerPlanificacion, FinalizarEnEjecucion, FinalizarCuelga, FinalizarNulo, TConsola, locales
<1>13. CASE ProcesoEstado \/ FinalizarSinEfecto \/ MarcaPedidoFinalizacion \/ FinalizarExtrae
  BY <1>6, <1>13
  DEF ProcesoEstado, FinalizarSinEfecto, MarcaPedidoFinalizacion, FinalizarExtrae, ObjetivoEn, En
<1>14. CASE Usuario
  BY <1>8, <1>9, <1>10, <1>11, <1>14 DEF Usuario, PideFinalizar, PideComandoGlobal
<1>15. CASE Consola
  BY <1>7, <1>9, <1>12, <1>13, <1>15 DEF Consola
<1>16. QED BY <1>14, <1>15

\* Nobody else moves when a thread takes a step, nor enters or leaves anything.
LEMMA MutexHilo ==
  ASSUME Inv, NEW h \in Hilos \ {"consola"},
         \/ h = "corto" /\ Corto
         \/ h = "largo" /\ Largo
         \/ h = "exit" /\ Exit
         \/ h \in Interfaces /\ Manejador(h)
  PROVE  \A s \in Mutexes : \A g \in Hilos \ {h} : g \in Duenos(s)' <=> g \in Duenos(s)
<1>1. pc \in [Hilos -> Etiquetas] BY DEF Inv, TypeOK
<1>2. \A g \in Hilos \ {h} : pc'[g] = pc[g]
  BY <1>1, AjenoCorto, AjenoLargo, AjenoExit, AjenoManejador
<1>3. consola' = consola /\ (h # "corto" => corto' = corto)
  BY <1>1, AjenoCorto, AjenoLargo, AjenoExit, AjenoManejador DEF locales, HilosFijos
<1>4. QED BY <1>2, <1>3, DuenosAjenos

\* A step that neither waits nor posts and keeps its thread where it was.
LEMMA MutexMismo ==
  ASSUME MutexCoherente, NEW h \in Hilos, sem' = sem,
         \A s \in Mutexes : \A g \in Hilos \ {h} : g \in Duenos(s)' <=> g \in Duenos(s),
         \A s \in Mutexes : h \in Duenos(s)' <=> h \in Duenos(s)
  PROVE  MutexCoherente'
<1>1. \A s \in Mutexes : \A g \in Hilos : g \in Duenos(s)' <=> g \in Duenos(s)
  <2> TAKE s \in Mutexes
  <2> TAKE g \in Hilos
  <2>1. CASE g = h BY <2>1
  <2>2. CASE g # h BY <2>2
  <2>3. QED BY <2>1, <2>2
<1>2. QED BY <1>1, MutexQuieto

\* The short-term scheduler keeps pausada1 into the wait for the instances or
\* for the queue of an interface, and gives it back there.
LEMMA MutexCorto ==
  ASSUME Inv, MutexCoherente, Corto
  PROVE  MutexCoherente'
<1>1. /\ pc \in [Hilos -> Etiquetas] /\ "corto" \in Hilos \ {"consola"}
      /\ sem \in [Semaforos -> Nat] /\ CortoEnOrden /\ corto \in TCorto
      /\ MutexCoherente
  BY DEF Inv, TypeOK, Control, Hilos, HilosFijos
<1>2. \A s \in Mutexes : \A g \in Hilos \ {"corto"} : g \in Duenos(s)' <=> g \in Duenos(s)
  BY <1>1, MutexHilo
<1>3. \A s \in Mutexes :
        /\ "corto" \in Duenos(s) <=>
             \/ s = "pausada1" /\ pc["corto"] \in {"wait", "io"}
             \/ s = "inst" /\ pc["corto"] = "signal_mediano"
             \/ s = corto.arg /\ pc["corto"] = "io_envia"
        /\ "corto" \in Duenos(s)' <=>
             \/ s = "pausada1" /\ pc'["corto"] \in {"wait", "io"}
             \/ s = "inst" /\ pc'["corto"] = "signal_mediano"
             \/ s = corto'.arg /\ pc'["corto"] = "io_envia"
  BY DuenosPorHilo, DuenosPorHiloDespues
<1>4. ASSUME NEW e, NEW a, Sems(e, a),
             \A s \in Mutexes : "corto" \in Duenos(s)' <=>
                                  ("corto" \in Duenos(s) \/ s \in e) /\ s \notin a,
             \A s \in Mutexes : s \in a => s \in e \/ "corto" \in Duenos(s)
      PROVE  MutexCoherente'
  BY <1>1, <1>2, <1>4, MutexPasa
\* Outside every section, before and after.
<1>5. ASSUME pc["corto"] \notin {"wait", "io", "signal_mediano", "io_envia"},
             pc'["corto"] \notin {"wait", "io", "signal_mediano", "io_envia"},
             NEW e, NEW a, Sems(e, a), e \cap Mutexes = a \cap Mutexes
      PROVE  MutexCoherente'
  <2>1. \A s \in Mutexes : ~("corto" \in Duenos(s)) /\ ~("corto" \in Duenos(s)')
    BY <1>3, <1>5
  <2>2. \A s \in Mutexes : s \in e <=> s \in a BY <1>5
  <2>3. QED BY <1>4, <1>5, <2>1, <2>2, SMTT(30)
<1>6. CASE EnviaProcesoACpu \/ RecibeDesalojo \/ RespondeCpu \/ LimpiaDesalojo
  <2>1. /\ sem' = sem
        /\ pc["corto"] \notin {"wait", "io", "signal_mediano", "io_envia"}
        /\ pc'["corto"] \notin {"wait", "io", "signal_mediano", "io_envia"}
    BY <1>1, <1>6 DEF EnviaProcesoACpu, RecibeDesalojo, RespondeCpu, LimpiaDesalojo, En, Va
  <2>2. \A s \in Mutexes : "corto" \in Duenos(s)' <=> "corto" \in Duenos(s)
    BY <1>3, <2>1
  <2>3. QED BY <1>1, <1>2, <2>1, <2>2, MutexMismo
<1>7. CASE EsperaOrdenCorto \/ AvisaExit
  <2>1. /\ pc["corto"] \notin {"wait", "io", "signal_mediano", "io_envia"}
        /\ pc'["corto"] \notin {"wait", "io", "signal_mediano", "io_envia"}
    BY <1>1, <1>7 DEF EsperaOrdenCorto, AvisaExit, En, Va
  <2>2. Sems({"corto"}, {}) \/ Sems({}, {"exit"}) BY <1>7 DEF EsperaOrdenCorto, AvisaExit
  <2>3. {"corto"} \cap Mutexes = {} /\ {"exit"} \cap Mutexes = {} BY NombresDeMutexes
  <2>4. QED BY <1>5, <2>1, <2>2, <2>3
<1>8. CASE \/ EligeProceso \/ NoHayListos \/ TrataFin \/ TrataRecursoInvalido
           \/ TrataSignal \/ TrataFinQuantum \/ TrataIOInvalida
  <2>1. /\ pc["corto"] \notin {"wait", "io", "signal_mediano", "io_envia"}
        /\ pc'["corto"] \notin {"wait", "io", "signal_mediano", "io_envia"}
    BY <1>1, <1>8 DEF EligeProceso, NoHayListos, TrataFin, TrataRecursoInvalido, TrataSignal,
       TrataFinQuantum, TrataIOInvalida, MandaAExit, Trata, En, Va
  <2>2. PICK a \in {{}, {"corto"}} : Sems({"pausada1"}, {"pausada1"} \cup a)
    BY <1>8 DEF EligeProceso, NoHayListos, TrataFin, TrataRecursoInvalido, TrataSignal,
       TrataFinQuantum, TrataIOInvalida, MandaAExit, PasoCorto
  <2>3. {"pausada1"} \cap Mutexes = ({"pausada1"} \cup a) \cap Mutexes
    BY <2>2, NombresDeMutexes
  <2>4. QED BY <1>5, <2>1, <2>2, <2>3
<1>9. CASE TrataWait \/ TrataIO
  <2>1. /\ pc["corto"] = "trata" /\ pc'["corto"] \in {"wait", "io"}
        /\ Sems({"pausada1"}, {})
    BY <1>1, <1>9 DEF TrataWait, TrataIO, Trata, En, Va
  <2>2. QED
    <3>1. \A s \in Mutexes : "corto" \in Duenos(s)' <=>
             ("corto" \in Duenos(s) \/ s \in {"pausada1"}) /\ s \notin {}
      BY <1>3, <2>1
    <3>2. \A s \in Mutexes : s \in {} => s \in {"pausada1"} \/ "corto" \in Duenos(s)
      BY <1>3, <2>1
    <3>3. QED BY <1>4, <3>1, <3>2, <2>1
<1>10. CASE WaitBloquea \/ WaitConcede
  <2>1. /\ pc["corto"] = "wait" /\ pc'["corto"] = "responde"
        /\ Sems({"inst"}, {"inst", "pausada1"})
    BY <1>1, <1>10 DEF WaitBloquea, WaitConcede, En, Va
  <2>2. QED BY <1>3, <1>4, <2>1, SMTT(30)
<1>11. CASE SignalDevuelve
  <2>1. /\ pc["corto"] = "signal" /\ pc'["corto"] = "signal_mediano"
        /\ Sems({"inst"}, {})
    BY <1>1, <1>11 DEF SignalDevuelve, En, Va
  <2>2. QED BY <1>3, <1>4, <2>1, SMTT(30)
<1>12. CASE SignalEntrega
  <2>1. pc["corto"] = "signal_mediano" /\ pc'["corto"] = "responde"
    BY <1>1, <1>12 DEF SignalEntrega, En, Va
  <2>2. PICK a \in {{}, {"corto"}} : Sems({"pausada2"}, {"pausada2", "inst"} \cup a)
    <3>1. Sems({"pausada2"}, {"pausada2", "inst"} \cup {"corto"})
            \/ Sems({"pausada2"}, {"pausada2", "inst"})
      BY <1>12 DEF SignalEntrega, EntregaInstancia, AvisaReady
    <3>2. {"pausada2", "inst"} = {"pausada2", "inst"} \cup {} OBVIOUS
    <3>3. QED BY <3>1, <3>2
  <2>3. "corto" \notin Mutexes BY NombresDeMutexes
  <2> DEFINE b == {"pausada2", "inst"} \cup a
  <2>4. \A s \in Mutexes : s \in b <=> s \in {"pausada2", "inst"} BY <2>2, <2>3
  <2>5. Sems({"pausada2"}, b) BY <2>2
  <2> HIDE DEF b
  <2>6. QED BY <1>3, <1>4, <2>1, <2>4, <2>5, SMTT(30)
<1>13. CASE IOBloquea
  <2>1. PICK i \in Interfaces : i = corto.arg
    BY <1>1, <1>13 DEF IOBloquea, CortoEnOrden, En
  <2>2. /\ pc["corto"] = "io" /\ pc'["corto"] = "io_envia" /\ corto'.arg = i
        /\ Sems({i}, {"pausada1"}) /\ i # "pausada1"
    BY <1>1, <1>13, <2>1, NombresDeMutexes DEF IOBloquea, En, Va, locales
  <2>3. \A s \in Mutexes : "corto" \in Duenos(s)' <=>
          ("corto" \in Duenos(s) \/ s \in {i}) /\ s \notin {"pausada1"}
    BY <1>3, <2>2
  <2>4. \A s \in Mutexes : s \in {"pausada1"} => s \in {i} \/ "corto" \in Duenos(s)
    BY <1>3, <2>2
  <2>5. QED BY <1>4, <2>2, <2>3, <2>4
<1>14. CASE IOEnvia
  <2>1. PICK i \in Interfaces : i = corto.arg
    BY <1>1, <1>14 DEF IOEnvia, CortoEnOrden, En
  <2>2. /\ pc["corto"] = "io_envia" /\ pc'["corto"] = "limpia" /\ Sems({}, {i})
    BY <1>1, <1>14, <2>1 DEF IOEnvia, En, Va
  <2>3. \A s \in Mutexes : "corto" \in Duenos(s)' <=>
          ("corto" \in Duenos(s) \/ s \in {}) /\ s \notin {i}
    BY <1>3, <2>1, <2>2, NombresDeMutexes
  <2>4. \A s \in Mutexes : s \in {i} => s \in {} \/ "corto" \in Duenos(s)
    BY <1>3, <2>1, <2>2
  <2>5. QED BY <1>4, <2>2, <2>3, <2>4
<1>15. QED
  BY <1>6, <1>7, <1>8, <1>9, <1>10, <1>11, <1>12, <1>13, <1>14 DEF Corto

\* The NEW -> READY thread keeps pausada0 until memory answers.
LEMMA MutexLargo ==
  ASSUME Inv, MutexCoherente, Largo
  PROVE  MutexCoherente'
<1>1. /\ pc \in [Hilos -> Etiquetas] /\ "largo" \in Hilos \ {"consola"}
      /\ sem \in [Semaforos -> Nat] /\ MutexCoherente
  BY DEF Inv, TypeOK, Hilos, HilosFijos
<1>2. \A s \in Mutexes : \A g \in Hilos \ {"largo"} : g \in Duenos(s)' <=> g \in Duenos(s)
  BY <1>1, MutexHilo
<1>3. \A s \in Mutexes :
        /\ "largo" \in Duenos(s) <=> s = "pausada0" /\ pc["largo"] = "creando"
        /\ "largo" \in Duenos(s)' <=> s = "pausada0" /\ pc'["largo"] = "creando"
  BY DuenosPorHilo, DuenosPorHiloDespues
<1>4. ASSUME NEW e, NEW a, Sems(e, a),
             \A s \in Mutexes : "largo" \in Duenos(s)' <=>
                                  ("largo" \in Duenos(s) \/ s \in e) /\ s \notin a,
             \A s \in Mutexes : s \in a => s \in e \/ "largo" \in Duenos(s)
      PROVE  MutexCoherente'
  BY <1>1, <1>2, <1>4, MutexPasa
<1>5. "largo" \notin Mutexes /\ "grado" \notin Mutexes /\ "corto" \notin Mutexes
  BY NombresDeMutexes
<1>6. CASE EsperaOrdenLargo \/ TomaGrado
  <2>1. /\ pc["largo"] # "creando" /\ pc'["largo"] # "creando"
        /\ Sems({"largo"}, {}) \/ Sems({"grado"}, {})
    BY <1>1, <1>6 DEF EsperaOrdenLargo, TomaGrado, En, Va
  <2>2. QED BY <1>3, <1>4, <1>5, <2>1
<1>7. CASE SacaDeNew
  <2>1. pc["largo"] = "pausa" /\ pc'["largo"] = "creando" /\ Sems({"pausada0"}, {})
    BY <1>1, <1>7 DEF SacaDeNew, En, Va
  <2>2. QED
    <3>1. \A s \in Mutexes : "largo" \in Duenos(s)' <=>
             ("largo" \in Duenos(s) \/ s \in {"pausada0"}) /\ s \notin {}
      BY <1>3, <2>1
    <3>2. \A s \in Mutexes : s \in {} => s \in {"pausada0"} \/ "largo" \in Duenos(s)
      BY <1>3, <2>1
    <3>3. QED BY <1>4, <3>1, <3>2, <2>1
<1>8. CASE NewVacia
  <2>1. /\ pc["largo"] = "pausa" /\ pc'["largo"] = "orden"
        /\ Sems({"pausada0"}, {"pausada0", "grado"})
    BY <1>1, <1>8 DEF NewVacia, En, Va
  <2>2. QED BY <1>3, <1>4, <1>5, <2>1
<1>9. CASE PasaAReady
  <2>1. /\ pc["largo"] = "creando" /\ pc'["largo"] = "orden"
        /\ Sems({}, {"corto", "pausada0"})
    BY <1>1, <1>9 DEF PasaAReady, En, Va
  <2>2. QED BY <1>3, <1>4, <1>5, <2>1
<1>10. QED BY <1>6, <1>7, <1>8, <1>9 DEF Largo

\* The EXIT thread keeps pausada3 through the release of the resources, each
\* in the section of the instances, until memory answers.
LEMMA MutexExit ==
  ASSUME Inv, MutexCoherente, Exit
  PROVE  MutexCoherente'
<1>1. /\ pc \in [Hilos -> Etiquetas] /\ "exit" \in Hilos \ {"consola"}
      /\ sem \in [Semaforos -> Nat] /\ MutexCoherente
  BY DEF Inv, TypeOK, Hilos, HilosFijos
<1>2. \A s \in Mutexes : \A g \in Hilos \ {"exit"} : g \in Duenos(s)' <=> g \in Duenos(s)
  BY <1>1, MutexHilo
<1>3. \A s \in Mutexes :
        /\ "exit" \in Duenos(s) <=>
             \/ s = "pausada3" /\ pc["exit"] \in {"libera", "mediano", "eliminando"}
             \/ s = "inst" /\ pc["exit"] = "mediano"
        /\ "exit" \in Duenos(s)' <=>
             \/ s = "pausada3" /\ pc'["exit"] \in {"libera", "mediano", "eliminando"}
             \/ s = "inst" /\ pc'["exit"] = "mediano"
  BY DuenosPorHilo, DuenosPorHiloDespues
<1>4. ASSUME NEW e, NEW a, Sems(e, a),
             \A s \in Mutexes : "exit" \in Duenos(s)' <=>
                                  ("exit" \in Duenos(s) \/ s \in e) /\ s \notin a,
             \A s \in Mutexes : s \in a => s \in e \/ "exit" \in Duenos(s)
      PROVE  MutexCoherente'
  BY <1>1, <1>2, <1>4, MutexPasa
<1>5. "exit" \notin Mutexes /\ "grado" \notin Mutexes /\ "corto" \notin Mutexes
  BY NombresDeMutexes
<1>6. CASE EsperaOrdenExit
  <2>1. pc["exit"] = "orden" /\ pc'["exit"] = "pausa" /\ Sems({"exit"}, {})
    BY <1>1, <1>6 DEF EsperaOrdenExit, En, Va
  <2>2. QED BY <1>3, <1>4, <1>5, <2>1
<1>7. CASE ExitDesdeNew
  <2>1. /\ pc["exit"] = "pausa" /\ pc'["exit"] = "saca"
        /\ Sems({"pausada3"}, {"pausada3"})
    BY <1>1, <1>7 DEF ExitDesdeNew, En, Va
  <2>2. QED BY <1>3, <1>4, <2>1
<1>8. CASE ExitDesdeOtro
  <2>1. pc["exit"] = "pausa" /\ pc'["exit"] = "libera" /\ Sems({"pausada3"}, {})
    BY <1>1, <1>8 DEF ExitDesdeOtro, En, Va
  <2>2. QED
    <3>1. \A s \in Mutexes : "exit" \in Duenos(s)' <=>
             ("exit" \in Duenos(s) \/ s \in {"pausada3"}) /\ s \notin {}
      BY <1>3, <2>1
    <3>2. \A s \in Mutexes : s \in {} => s \in {"pausada3"} \/ "exit" \in Duenos(s)
      BY <1>3, <2>1
    <3>3. QED BY <1>4, <3>1, <3>2, <2>1
<1>9. CASE LiberaTomaInst
  <2>1. pc["exit"] = "libera" /\ pc'["exit"] = "mediano" /\ Sems({"inst"}, {})
    BY <1>1, <1>9 DEF LiberaTomaInst, En, Va
  <2>2. QED
    <3>1. \A s \in Mutexes : "exit" \in Duenos(s)' <=>
             ("exit" \in Duenos(s) \/ s \in {"inst"}) /\ s \notin {}
      BY <1>3, <2>1
    <3>2. \A s \in Mutexes : s \in {} => s \in {"inst"} \/ "exit" \in Duenos(s)
      BY <1>3, <2>1
    <3>3. QED BY <1>4, <3>1, <3>2, <2>1
<1>10. CASE LiberaInstancia
  <2>1. pc["exit"] = "mediano" /\ pc'["exit"] = "libera"
    BY <1>1, <1>10 DEF LiberaInstancia, En, Va
  <2>2. PICK a \in {{}, {"corto"}} : Sems({"pausada2"}, {"pausada2", "inst"} \cup a)
    <3>1. Sems({"pausada2"}, {"pausada2", "inst"} \cup {"corto"})
            \/ Sems({"pausada2"}, {"pausada2", "inst"})
      BY <1>10 DEF LiberaInstancia, EntregaInstancia, AvisaReady
    <3>2. {"pausada2", "inst"} = {"pausada2", "inst"} \cup {} OBVIOUS
    <3>3. QED BY <3>1, <3>2
  <2> DEFINE b == {"pausada2", "inst"} \cup a
  <2>3. \A s \in Mutexes : s \in b <=> s \in {"pausada2", "inst"} BY <1>5, <2>2
  <2>4. Sems({"pausada2"}, b) BY <2>2
  <2> HIDE DEF b
  <2>5. QED
    <3>1. \A s \in Mutexes : "exit" \in Duenos(s)' <=>
             ("exit" \in Duenos(s) \/ s \in {"pausada2"}) /\ s \notin b
      BY <1>3, <2>1, <2>3, <2>4
    <3>2. \A s \in Mutexes : s \in b => s \in {"pausada2"} \/ "exit" \in Duenos(s)
      BY <1>3, <2>1, <2>3, <2>4
    <3>3. QED BY <1>4, <3>1, <3>2, <2>1, <2>3, <2>4, SMTT(30)
<1>11. CASE LiberaMemoria
  <2>1. pc["exit"] = "libera" /\ pc'["exit"] = "eliminando" /\ sem' = sem
    BY <1>1, <1>11 DEF LiberaMemoria, En, Va
  <2>2. \A s \in Mutexes : "exit" \in Duenos(s)' <=> "exit" \in Duenos(s) BY <1>3, <2>1
  <2>3. QED BY <1>1, <1>2, <2>1, <2>2, MutexMismo
<1>12. CASE MemoriaLiberada
  <2>1. pc["exit"] = "eliminando" /\ pc'["exit"] = "marca" /\ Sems({}, {"pausada3"})
    BY <1>1, <1>12 DEF MemoriaLiberada, En, Va
  <2>2. QED
    <3>1. \A s \in Mutexes : "exit" \in Duenos(s)' <=>
             ("exit" \in Duenos(s) \/ s \in {}) /\ s \notin {"pausada3"}
      BY <1>3, <2>1
    <3>2. \A s \in Mutexes : s \in {"pausada3"} => s \in {} \/ "exit" \in Duenos(s)
      BY <1>3, <2>1
    <3>3. QED BY <1>4, <3>1, <3>2, <2>1, SMTT(30)
<1>13. CASE MarcaExit
  <2>1. pc["exit"] = "marca" /\ pc'["exit"] = "saca" /\ Sems({}, {"grado"})
    BY <1>1, <1>13 DEF MarcaExit, DevuelveGrado, En, Va
  <2>2. QED BY <1>3, <1>4, <1>5, <2>1
<1>14. CASE SacaDeExit
  <2>1. pc["exit"] = "saca" /\ pc'["exit"] = "orden" /\ sem' = sem
    BY <1>1, <1>14 DEF SacaDeExit, En, Va
  <2>2. \A s \in Mutexes : "exit" \in Duenos(s)' <=> "exit" \in Duenos(s) BY <1>3, <2>1
  <2>3. QED BY <1>1, <1>2, <2>1, <2>2, MutexMismo
<1>15. QED
  BY <1>6, <1>7, <1>8, <1>9, <1>10, <1>11, <1>12, <1>13, <1>14 DEF Exit

\* The handler of an interface keeps its queue from the return of a process to
\* the start of the next one.
LEMMA MutexManejador ==
  ASSUME Inv, MutexCoherente, NEW i \in Interfaces, Manejador(i)
  PROVE  MutexCoherente'
<1>1. /\ pc \in [Hilos -> Etiquetas] /\ i \in Hilos \ {"consola"}
      /\ sem \in [Semaforos -> Nat] /\ MutexCoherente
  BY DEF Inv, TypeOK, Hilos, HilosFijos
<1>2. \A s \in Mutexes : \A g \in Hilos \ {i} : g \in Duenos(s)' <=> g \in Duenos(s)
  BY <1>1, MutexHilo
<1>3. \A s \in Mutexes :
        /\ i \in Duenos(s) <=> (s = "pausada2" /\ pc[i] = "cola") \/ (s = i /\ pc[i] = "siguiente")
        /\ i \in Duenos(s)' <=> (s = "pausada2" /\ pc'[i] = "cola") \/ (s = i /\ pc'[i] = "siguiente")
  BY DuenosManejador
<1>4. ASSUME NEW e, NEW a, Sems(e, a),
             \A s \in Mutexes : i \in Duenos(s)' <=> (i \in Duenos(s) \/ s \in e) /\ s \notin a,
             \A s \in Mutexes : s \in a => s \in e \/ i \in Duenos(s)
      PROVE  MutexCoherente'
  BY <1>1, <1>2, <1>4, MutexPasa
<1>5. "corto" \notin Mutexes /\ i # "pausada2" BY NombresDeMutexes
<1>6. CASE RecibeIOLiberar(i)
  <2>1. pc[i] = "libre" /\ pc'[i] = "mediano" /\ sem' = sem
    BY <1>1, <1>6 DEF RecibeIOLiberar, En, Va
  <2>2. \A s \in Mutexes : i \in Duenos(s)' <=> i \in Duenos(s) BY <1>3, <2>1
  <2>3. QED BY <1>1, <1>2, <2>1, <2>2, MutexMismo
<1>7. CASE TomaMediano(i)
  <2>1. pc[i] = "mediano" /\ pc'[i] = "cola" /\ Sems({"pausada2"}, {})
    BY <1>1, <1>7 DEF TomaMediano, En, Va
  <2>2. QED
    <3>1. \A s \in Mutexes : i \in Duenos(s)' <=>
             (i \in Duenos(s) \/ s \in {"pausada2"}) /\ s \notin {}
      BY <1>3, <2>1
    <3>2. \A s \in Mutexes : s \in {} => s \in {"pausada2"} \/ i \in Duenos(s)
      BY <1>3, <2>1
    <3>3. QED BY <1>4, <3>1, <3>2, <2>1
<1>8. CASE DesbloqueaIO(i) \/ NadieQueDesbloquear(i)
  <2>1. /\ pc[i] = "cola" /\ pc'[i] = "siguiente"
        /\ Sems({i}, {"pausada2", "corto"}) \/ Sems({i}, {"pausada2"})
    BY <1>1, <1>8 DEF DesbloqueaIO, NadieQueDesbloquear, En, Va
  <2>2. CASE Sems({i}, {"pausada2", "corto"})
    <3>1. \A s \in Mutexes : i \in Duenos(s)' <=>
             (i \in Duenos(s) \/ s \in {i}) /\ s \notin {"pausada2", "corto"}
      BY <1>3, <1>5, <2>1, <2>2
    <3>2. \A s \in Mutexes : s \in {"pausada2", "corto"} => s \in {i} \/ i \in Duenos(s)
      BY <1>3, <1>5, <2>1, <2>2
    <3>3. QED BY <1>4, <3>1, <3>2, <2>1, <2>2
  <2>3. CASE Sems({i}, {"pausada2"})
    <3>1. \A s \in Mutexes : i \in Duenos(s)' <=>
             (i \in Duenos(s) \/ s \in {i}) /\ s \notin {"pausada2"}
      BY <1>3, <1>5, <2>1, <2>3
    <3>2. \A s \in Mutexes : s \in {"pausada2"} => s \in {i} \/ i \in Duenos(s)
      BY <1>3, <1>5, <2>1, <2>3
    <3>3. QED BY <1>4, <3>1, <3>2, <2>1, <2>3
  <2>4. QED BY <2>1, <2>2, <2>3
<1>9. CASE AtiendeSiguiente(i) \/ LiberaInterfaz(i)
  <2>1. pc[i] = "siguiente" /\ pc'[i] = "libre" /\ Sems({}, {i})
    BY <1>1, <1>9 DEF AtiendeSiguiente, LiberaInterfaz, En, Va
  <2>2. QED BY <1>3, <1>4, <2>1
<1>10. QED BY <1>6, <1>7, <1>8, <1>9 DEF Manejador

\* Every step keeps the mutual exclusion.
LEMMA MutexPaso ==
  ASSUME Inv, MutexCoherente, [Next]_vars
  PROVE  MutexCoherente'
<1>1. CASE Entorno \/ UNCHANGED vars
  <2>1. UNCHANGED <<sem, pc, consola, corto>>
    <3>1. Entorno => UNCHANGED <<sem, pc, consola, corto>>
      BY AjenoEntorno
    <3>2. UNCHANGED vars => UNCHANGED <<sem, pc, consola, corto>>
      BY DEF vars, kernel, procesos, locales
    <3>3. QED BY <1>1, <3>1, <3>2
  <2>2. QED BY <2>1, SMTT(30) DEF MutexCoherente, Duenos, Mutexes
<1>2. QED
  BY <1>1, PasosDelKernel, MutexConsola, MutexCorto, MutexLargo, MutexExit, MutexManejador

-----------------------------------------------------------------------------
(* Theorem *)

\* Nobody is inside at the start.
LEMMA MutexInicial == Init => MutexCoherente
<1> SUFFICES ASSUME Init PROVE MutexCoherente OBVIOUS
<1>1. \A s \in Mutexes : sem[s] = 1
  <2>1. \A s \in Mutexes : s \in Semaforos /\ s \notin {"corto", "largo", "exit", "grado"}
    BY NombresDeMutexes DEF Semaforos, SemaforosFijos
  <2>2. QED BY <2>1 DEF Init
<1>2. \A h \in Hilos : pc[h] \in {"libre", "orden"} BY DEF Init
<1>3. consola.tomados = 0 BY DEF Init
<1>4. \A s \in Mutexes : Duenos(s) = {} BY <1>2, <1>3 DEF Duenos
<1>5. QED BY <1>1, <1>4 DEF MutexCoherente

\* No branch of any thread posts a mutex it does not hold, leaves with one it
\* took, or enters where another is: pausada0..3, the mutex of the instances
\* and the one of each interface's queue.
THEOREM ExclusionMutua == Spec => []MutexCoherente
<1>1. Inv /\ MutexCoherente /\ [Next]_vars => MutexCoherente'
  BY MutexPaso
<1>2. QED BY <1>1, MutexInicial, Invariante, PTL DEF Spec
=============================================================================
