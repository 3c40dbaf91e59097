------------------------ MODULE KernelRefinementProofs ------------------------
(***************************************************************************)
(* The threads of the kernel do what the five-state scheduler promises,    *)
(* for every value of the constants: the initial states map to initial     *)
(* states and every step maps to a step of Planificador or to none.        *)
(***************************************************************************)
EXTENDS KernelCountProofs

USE ConstantesBienFormadas, NombresDistintos

-----------------------------------------------------------------------------
(* The new processes wait in the order of their pids *)

Creciente(s) == \A i, j \in 1 .. Len(s) : i < j => s[i] < s[j]

\* The queue is in order, and the process that memory is creating goes before
\* all of it.
OrdenNew ==
  /\ Creciente(cola["NEW"])
  /\ En("largo", "creando") => \A i \in 1 .. Len(cola["NEW"]) : largo.entrante < cola["NEW"][i]

\* A greater pid at the end keeps the order.
LEMMA CrecienteAppend ==
  ASSUME NEW s \in Seq(Pids), Creciente(s), NEW p \in Pids, \A i \in 1 .. Len(s) : s[i] < p
  PROVE  /\ Creciente(Append(s, p))
         /\ \A x \in Nat : x < p /\ (\A i \in 1 .. Len(s) : x < s[i])
                             => \A i \in 1 .. Len(Append(s, p)) : x < Append(s, p)[i]
<1>1. PICK t : t = Append(s, p)
  OBVIOUS
<1>2. PICK n \in Nat : n = Len(s)
  OBVIOUS
<1>3. Len(t) = n + 1 /\ t[n + 1] = p /\ \A i \in 1 .. n : t[i] = s[i]
  BY <1>1, <1>2
<1>4. \A i \in 1 .. n + 1 : i \in 1 .. n \/ i = n + 1
  BY <1>2
<1>5. ASSUME NEW i \in 1 .. n + 1, NEW j \in 1 .. n + 1, i < j PROVE t[i] < t[j]
  <2>1. i \in 1 .. n
    BY <1>2, <1>4, <1>5
  <2>2. CASE j \in 1 .. n
    BY <1>2, <1>3, <1>5, <2>1, <2>2 DEF Creciente
  <2>3. CASE j = n + 1
    BY <1>2, <1>3, <2>1, <2>3
  <2>4. QED BY <1>4, <2>2, <2>3
<1>6. ASSUME NEW x \in Nat, x < p, \A i \in 1 .. n : x < s[i], NEW i \in 1 .. n + 1 PROVE x < t[i]
  BY <1>3, <1>4, <1>6
<1>7. QED BY <1>1, <1>2, <1>3, <1>5, <1>6 DEF Creciente

\* The first one is less than the others, and without it they are in order.
LEMMA CrecienteTail ==
  ASSUME NEW s \in Seq(Pids), Creciente(s), s # <<>>
  PROVE  Creciente(Tail(s)) /\ \A i \in 1 .. Len(Tail(s)) : Head(s) < Tail(s)[i]
<1>1. PICK t : t = Tail(s)
  OBVIOUS
<1>2. PICK n \in Nat : n = Len(s)
  OBVIOUS
<1>3. n >= 1 /\ Len(t) = n - 1 /\ Head(s) = s[1] /\ \A i \in 1 .. n - 1 : t[i] = s[i + 1]
  BY <1>1, <1>2
<1>4. \A i \in 1 .. n - 1 : i + 1 \in 1 .. n /\ 1 \in 1 .. n /\ 1 < i + 1
  BY <1>2
<1>5. ASSUME NEW i \in 1 .. n - 1, NEW j \in 1 .. n - 1, i < j PROVE t[i] < t[j]
  BY <1>2, <1>3, <1>4, <1>5 DEF Creciente
<1>6. \A i \in 1 .. n - 1 : s[1] < t[i]
  BY <1>2, <1>3, <1>4 DEF Creciente
<1>7. QED BY <1>1, <1>3, <1>5, <1>6 DEF Creciente

\* Taking one out of the middle keeps the order.
LEMMA CrecienteExtraer ==
  ASSUME NEW s \in Seq(Pids), Creciente(s), NEW p, Contains(s, p)
  PROVE  /\ Creciente(Extraer(s, p))
         /\ \A x : (\A i \in 1 .. Len(s) : x < s[i])
                     => \A i \in 1 .. Len(Extraer(s, p)) : x < Extraer(s, p)[i]
<1>1. PICK n \in Nat : n = Len(s)
  OBVIOUS
<1>2. PICK t : t = Extraer(s, p)
  OBVIOUS
<1>3. PICK k \in 1 .. n : Len(t) = n - 1 /\ \A i \in 1 .. n - 1 : t[i] = IF i < k THEN s[i] ELSE s[i + 1]
  <2>1. \E k \in 1 .. Len(s) :
          /\ s[k] = p
          /\ Extraer(s, p) \in Seq(Pids) /\ Len(Extraer(s, p)) = Len(s) - 1
          /\ \A i \in 1 .. Len(s) - 1 : Extraer(s, p)[i] = IF i < k THEN s[i] ELSE s[i + 1]
    BY ExtraerPosiciones
  <2>2. QED BY <1>1, <1>2, <2>1
<1>4. \A i \in 1 .. n - 1 : i \in 1 .. n /\ i + 1 \in 1 .. n
  BY <1>1
<1>5. ASSUME NEW i \in 1 .. n - 1, NEW j \in 1 .. n - 1, i < j PROVE t[i] < t[j]
  BY <1>1, <1>3, <1>4, <1>5 DEF Creciente
<1>6. ASSUME NEW x, \A i \in 1 .. n : x < s[i], NEW i \in 1 .. n - 1 PROVE x < t[i]
  BY <1>3, <1>4, <1>6
<1>7. QED BY <1>1, <1>2, <1>3, <1>5, <1>6 DEF Creciente

\* The steps after which the queue is what it was, and memory is not about to
\* create another process.
LEMMA OrdenQuieto ==
  ASSUME OrdenNew, cola'["NEW"] = cola["NEW"],
         pc'["largo"] = "creando" => pc["largo"] = "creando" /\ largo'.entrante = largo.entrante
  PROVE  OrdenNew'
BY DEF OrdenNew, En, Creciente

\* Who is in NEW has been created.
LEMMA NuevosCreados ==
  ASSUME TypeOK, EnLugar
  PROVE  /\ cola["NEW"] \in Seq(Pids) /\ pid \in Nat
         /\ \A i \in 1 .. Len(cola["NEW"]) : cola["NEW"][i] \in Pids /\ cola["NEW"][i] < pid
         /\ En("largo", "creando") => largo.entrante \in Nat /\ largo.entrante < pid
<1>1. "NEW" \in Colas \ {"EXIT"} /\ cola["NEW"] \in Seq(Pids) /\ pid \in Nat
  BY DEF TypeOK, Colas, ColasFijas
<1>2. ASSUME NEW p \in Creados PROVE p \in Nat /\ p < pid
  BY <1>1, <1>2 DEF Creados
<1>3. ASSUME NEW i \in 1 .. Len(cola["NEW"]) PROVE cola["NEW"][i] \in Pids /\ cola["NEW"][i] < pid
  <2>1. PICK p \in Pids : p = cola["NEW"][i]
    BY <1>1
  <2>2. Contains(cola["NEW"], p)
    BY <2>1 DEF Contains
  <2>3. p \in Creados
    BY <1>1, <2>2, EnCola
  <2>4. QED BY <1>2, <2>1, <2>3
<1>4. En("largo", "creando") => largo.entrante \in Creados
  BY DeLargo DEF En
<1>5. QED BY <1>1, <1>2, <1>3, <1>4

\* Every step keeps the order.
LEMMA OrdenPaso ==
  ASSUME InvLugar, OrdenNew, [Next]_vars
  PROVE  OrdenNew'
<1>1. /\ TypeOK /\ Control /\ EnLugar /\ SinDespertarPerdido /\ ObjetivoCreado
      /\ cola \in [Colas -> Seq(Pids)]
      /\ pc \in [Hilos -> Etiquetas] /\ {"largo", "exit", "corto", "consola"} \subseteq Hilos
      /\ {"largo", "exit", "corto", "consola"} \cap Interfaces = {}
      /\ ColasFijas \subseteq Colas /\ Recursos \cup Interfaces \subseteq Colas \ ColasFijas
      /\ "NEW" \in ColasFijas
  BY DEF InvLugar, Inv, TypeOK, Hilos, HilosFijos, Colas, ColasFijas
<1>2. CASE IniciarProceso
  <2>1. PICK p \in Pids : p = pid
    BY <1>2 DEF IniciarProceso
  <2>2. PICK s \in Seq(Pids) : s = cola["NEW"]
    BY <1>1
  <2>3. cola'["NEW"] = Append(s, p) /\ UNCHANGED <<pc, largo>>
    BY <1>1, <1>2, <2>1, <2>2 DEF IniciarProceso, locales
  <2>4. Creciente(s) /\ \A i \in 1 .. Len(s) : s[i] < p
    BY <1>1, <2>1, <2>2, NuevosCreados DEF OrdenNew
  <2>5. En("largo", "creando") =>
          largo.entrante \in Nat /\ largo.entrante < p /\ \A i \in 1 .. Len(s) : largo.entrante < s[i]
    BY <1>1, <2>1, <2>2, NuevosCreados DEF OrdenNew
  <2>6. QED BY <2>3, <2>4, <2>5, CrecienteAppend DEF OrdenNew, Creciente, En
<1>3. CASE SacaDeNew
  <2>1. PICK s \in Seq(Pids) : s = cola["NEW"]
    BY <1>1
  <2>2. s # <<>> /\ cola'["NEW"] = Tail(s) /\ largo'.entrante = Head(s)
    BY <1>1, <1>3, <2>1 DEF SacaDeNew, InvLugar, Inv, TypeOK, TLargo
  <2>3. QED BY <2>1, <2>2, CrecienteTail DEF OrdenNew, Creciente
<1>4. CASE FinalizarExtrae
  <2>1. PICK p : p = consola.objetivo
    OBVIOUS
  <2>2. PICK c : c = ColaDe(p)
    OBVIOUS
  <2>3. /\ Contains(cola[c], p) /\ UNCHANGED largo /\ pc' = [pc EXCEPT !["consola"] = "libre"]
        /\ cola' = [cola EXCEPT ![c] = Extraer(@, p), !["EXIT"] = Append(@, p)]
    BY <1>4, <2>1, <2>2 DEF FinalizarExtrae, FinComando, Va
  <2>4. pc'["largo"] = pc["largo"]
    BY <1>1, <2>3
  <2>5. CASE c # "NEW"
    <3>1. cola'["NEW"] = cola["NEW"]
      BY <1>1, <2>3, <2>5
    <3>2. QED BY <2>3, <2>4, <3>1, OrdenQuieto
  <2>6. CASE c = "NEW"
    <3>1. PICK s \in Seq(Pids) : s = cola["NEW"]
      BY <1>1
    <3>2. cola'["NEW"] = Extraer(s, p) /\ Contains(s, p)
      BY <1>1, <2>3, <2>6, <3>1
    <3>3. QED BY <2>3, <2>4, <3>1, <3>2, CrecienteExtraer DEF OrdenNew, Creciente, En
  <2>7. QED BY <2>5, <2>6
<1>5. CASE NadieSeVa
  <2>1. UNCHANGED cola /\ Etapas
    BY <1>1, <1>5, Quietos
  <2>2. QED BY <2>1, OrdenQuieto DEF Etapas
\* A move between two other queues.
<1>6. ASSUME NEW p, NEW a \in Colas \ {"NEW"}, NEW b \in Colas \ {"NEW"}, Pasa(p, a, b)
      PROVE  cola'["NEW"] = cola["NEW"]
  BY <1>1, <1>6 DEF Pasa
<1>7. CASE Corto /\ ~NadieSeVa
  <2>1. Etapas
    BY <1>1, <1>7, EtapasAjenas
  <2>2. cola'["NEW"] = cola["NEW"]
    <3>1. /\ ColaDeListos \in Colas \ {"NEW"} /\ {"RUNNING", "READY", "EXIT"} \subseteq Colas \ {"NEW"}
      BY <1>1 DEF ColaDeListos, ColasFijas
    <3>2. CASE EligeProceso
      BY <1>6, <3>1, <3>2 DEF EligeProceso
    <3>3. CASE TrataFin \/ TrataRecursoInvalido \/ TrataIOInvalida \/ TrataFinQuantum
      BY <1>6, <3>1, <3>3 DEF TrataFin, TrataRecursoInvalido, TrataIOInvalida, TrataFinQuantum, MandaAExit
    <3>4. CASE WaitBloquea
      <4>1. corto.arg \in Colas \ {"NEW"}
        BY <1>1, <3>4 DEF WaitBloquea, En, Control, CortoEnOrden
      <4>2. QED BY <1>6, <3>1, <3>4, <4>1 DEF WaitBloquea
    <3>5. CASE IOBloquea
      <4>1. corto.arg \in Colas \ {"NEW"}
        BY <1>1, <3>5 DEF IOBloquea, En, Control, CortoEnOrden
      <4>2. QED BY <1>6, <3>1, <3>5, <4>1 DEF IOBloquea
    <3>6. CASE SignalEntrega
      <4>1. corto.arg \in Colas \ {"NEW"}
        BY <1>1, <3>6 DEF SignalEntrega, En, Control, CortoEnOrden
      <4>2. QED BY <1>6, <3>1, <3>6, <4>1 DEF SignalEntrega, EntregaInstancia
    <3>7. QED BY <1>7, <3>2, <3>3, <3>4, <3>5, <3>6 DEF Corto, NadieSeVa
  <2>3. QED BY <2>1, <2>2, OrdenQuieto DEF Etapas
<1>8. CASE Largo /\ ~SacaDeNew
  <2>1. pc'["largo"] # "creando"
    BY <1>1, <1>8 DEF Largo, EsperaOrdenLargo, TomaGrado, NewVacia, PasaAReady, Va
  <2>2. cola'["NEW"] = cola["NEW"]
    BY <1>1, <1>8 DEF Largo, EsperaOrdenLargo, TomaGrado, NewVacia, PasaAReady, procesos
  <2>3. QED BY <2>1, <2>2, OrdenQuieto
<1>9. CASE Exit
  <2>1. pc'["largo"] = pc["largo"] /\ largo'.entrante = largo.entrante
    <3>1. largo \in TLargo
      BY <1>1, DeLargo
    <3>2. QED BY <1>1, <1>9, <3>1 DEF Exit, EsperaOrdenExit, ExitDesdeNew, ExitDesdeOtro, LiberaTomaInst,
      LiberaInstancia, LiberaMemoria, MemoriaLiberada, MarcaExit, SacaDeExit, Va, locales, TLargo
  <2>2. cola'["NEW"] = cola["NEW"]
    <3>1. CASE LiberaInstancia
      <4>1. largo.recurso \in Colas \ {"NEW"} /\ "READY" \in Colas \ {"NEW"}
        BY <1>1, <3>1 DEF LiberaInstancia, En, Control, LargoEnOrden, ColasFijas
      <4>2. QED BY <1>6, <3>1, <4>1 DEF LiberaInstancia, EntregaInstancia
    <3>2. CASE SacaDeExit
      BY <1>1, <3>2 DEF SacaDeExit
    <3>3. CASE ~LiberaInstancia /\ ~SacaDeExit
      BY <1>9, <3>3 DEF Exit, EsperaOrdenExit, ExitDesdeNew, ExitDesdeOtro, LiberaTomaInst,
        LiberaMemoria, MemoriaLiberada, MarcaExit, procesos
    <3>4. QED BY <3>1, <3>2, <3>3
  <2>3. QED BY <2>1, <2>2, OrdenQuieto
<1>10. ASSUME NEW i \in Interfaces, DesbloqueaIO(i) PROVE OrdenNew'
  <2>1. cola'["NEW"] = cola["NEW"]
    <3>1. i \in Colas \ {"NEW"} /\ {"READY", "READY_VRR"} \subseteq Colas \ {"NEW"}
      BY <1>1 DEF ColasFijas
    <3>2. QED BY <1>6, <1>10, <3>1 DEF DesbloqueaIO
  <2>2. pc'["largo"] = pc["largo"] /\ UNCHANGED largo
    BY <1>1, <1>10 DEF DesbloqueaIO, Va, locales
  <2>3. QED BY <2>1, <2>2, OrdenQuieto
<1>11. CASE Usuario \/ Consola
  BY <1>2, <1>4, <1>5, <1>11 DEF NadieSeVa
<1>12. ASSUME NEW i \in Interfaces, Manejador(i) PROVE OrdenNew'
  BY <1>5, <1>10, <1>12 DEF NadieSeVa
<1>13. CASE Entorno \/ UNCHANGED vars
  BY <1>5, <1>13 DEF NadieSeVa
<1>14. CASE Corto
  BY <1>5, <1>7, <1>14
<1>15. CASE Largo
  BY <1>3, <1>8, <1>15
<1>16. QED BY <1>9, <1>11, <1>12, <1>13, <1>14, <1>15, PasosDelKernel

\* In the beginning it is empty.
LEMMA OrdenInicial == Init => OrdenNew
BY DEF Init, OrdenNew, Creciente, En, Colas, ColasFijas, Hilos, HilosFijos

-----------------------------------------------------------------------------
(* The values the instance P gives to the variables of Planificador *)

Visible == [p \in Pids |-> EstadoVisible(p)]

\* What is seen of a process, of what it depends on: whether it has been
\* created, the state in its PCB and whether it is in the queue EXIT.
Aspecto(creado, estado, sale) ==
  IF ~creado THEN "NINGUNO"
  ELSE IF estado # "EXIT" /\ sale THEN (IF estado = "NEW" THEN "CANCELADO" ELSE "SALE")
  ELSE estado

\* What is seen of each process, before and after a step.
LEMMA VisibleFormula ==
  /\ Visible = [p \in Pids |-> Aspecto(p \in Creados, pcb[p].estado, Contains(cola["EXIT"], p))]
  /\ Visible' = [p \in Pids |-> Aspecto(p \in Creados', pcb'[p].estado, Contains(cola'["EXIT"], p))]
<1>1. ASSUME NEW p
      PROVE  EstadoVisible(p) = Aspecto(p \in Creados, pcb[p].estado, Contains(cola["EXIT"], p))
  BY DEF EstadoVisible, Aspecto
<1>2. ASSUME NEW p
      PROVE  EstadoVisible(p)' = Aspecto(p \in Creados', pcb'[p].estado, Contains(cola'["EXIT"], p))
  BY DEF EstadoVisible, Aspecto, Contains
<1>3. QED BY <1>1, <1>2 DEF Visible

\* A process in a queue other than EXIT is seen in its state.
LEMMA VisibleEnCola ==
  ASSUME TypeOK, EnLugar, NEW c \in Colas \ {"EXIT"}, NEW p \in Pids, Contains(cola[c], p)
  PROVE  Visible[p] = pcb[p].estado /\ Donde(p) = {c} /\ p \in Creados
<1>1. p \in Creados /\ Donde(p) = {c}
  BY EnCola
<1>2. ~Contains(cola["EXIT"], p)
  BY <1>1, DondeFormula DEF Colas, ColasFijas
<1>3. QED BY <1>1, <1>2, VisibleFormula DEF Aspecto

\* The others stay in their states.
SoloEstado(p) == \A q \in Pids : q # p => pcb'[q].estado = pcb[q].estado

\* The step is about process p: of the others the same is seen.
LEMMA VisibleUno ==
  ASSUME NEW p \in Pids, Aparte(p), Creados' \ {p} = Creados \ {p},
         SoloEstado(p),
         NEW sale \in BOOLEAN, sale <=> "EXIT" \in Donde(p)'
  PROVE  Visible' = [Visible EXCEPT ![p] = Aspecto(p \in Creados', pcb'[p].estado, sale)]
<1>1. "EXIT" \in Colas
  BY DEF Colas, ColasFijas
<1>2. ASSUME NEW q \in Pids, q # p
      PROVE  /\ Contains(cola'["EXIT"], q) <=> Contains(cola["EXIT"], q)
             /\ q \in Creados' <=> q \in Creados
  <2>1. Donde(q)' = Donde(q)
    BY <1>2 DEF Aparte
  <2>2. Contains(cola'["EXIT"], q) <=> Contains(cola["EXIT"], q)
    BY <1>1, <2>1, DondeFormula
  <2>3. QED BY <1>2, <2>2
<1>3. Contains(cola'["EXIT"], p) <=> sale
  BY <1>1, DondeFormula
<1>4. ASSUME NEW q \in Pids, q # p
      PROVE  Aspecto(q \in Creados', pcb'[q].estado, Contains(cola'["EXIT"], q))
               = Aspecto(q \in Creados, pcb[q].estado, Contains(cola["EXIT"], q))
  BY <1>2, <1>4 DEF Aspecto, SoloEstado
<1>5. Aspecto(p \in Creados', pcb'[p].estado, Contains(cola'["EXIT"], p))
        = Aspecto(p \in Creados', pcb'[p].estado, sale)
  BY <1>3 DEF Aspecto
<1>6. QED BY <1>4, <1>5, VisibleFormula

\* Nobody moves: the same is seen of everybody.
LEMMA VisibleIgual ==
  ASSUME Creados' = Creados, \A q \in Pids : pcb'[q].estado = pcb[q].estado,
         \A q \in Pids : Contains(cola'["EXIT"], q) <=> Contains(cola["EXIT"], q)
  PROVE  Visible' = Visible
<1>1. ASSUME NEW q \in Pids
      PROVE  Aspecto(q \in Creados', pcb'[q].estado, Contains(cola'["EXIT"], q))
               = Aspecto(q \in Creados, pcb[q].estado, Contains(cola["EXIT"], q))
  BY DEF Aspecto
<1>2. QED BY <1>1, VisibleFormula

\* The instance counts as FiniteSets does.
LEMMA MismoCardinal == \A S : P!Cardinality(S) = Cardinality(S)
BY DEF P!Cardinality, Cardinality

\* The loaded processes are those of Planificador.
LEMMA CargadosVistos ==
  ASSUME TypeOK
  PROVE  P!Cargados = Cargados
<1>1. Creados \subseteq Pids
  BY DEF TypeOK, Creados, Pids
<1>2. ASSUME NEW p \in Pids
      PROVE  Visible[p] \in {"READY", "EXEC", "BLOCKED", "SALE"} <=> p \in Cargados
  <2>1. pcb[p].estado \in {"NEW", "READY", "EXEC", "BLOCKED", "EXIT"}
    BY DEF TypeOK, PCBs, Estados
  <2>2. QED BY <2>1, VisibleFormula DEF Cargados, Aspecto
<1>3. P!Cargados = {p \in Pids : Visible[p] \in {"READY", "EXEC", "BLOCKED", "SALE"}}
  BY DEF P!Cargados, Visible
<1>4. Cargados \subseteq Pids
  BY <1>1 DEF Cargados
<1>5. QED BY <1>2, <1>3, <1>4

-----------------------------------------------------------------------------
(* The steps of Planificador, in the values of the instance *)

Listas == <<cola["READY_VRR"], cola["READY"]>>

\* A step that shows nothing of this changes nothing in Planificador.
LEMMA PasoInvisible ==
  ASSUME UNCHANGED <<Visible, Listas, consola.grado>>
  PROVE  UNCHANGED P!vars
BY Zenon DEF P!vars, Visible, Listas

\* The first step of a process.
LEMMA PasoCrear ==
  ASSUME NEW p \in Pids, Visible[p] = "NINGUNO", \A q \in Pids : q < p => Visible[q] # "NINGUNO",
         Visible' = [Visible EXCEPT ![p] = "NEW"], UNCHANGED <<Listas, consola.grado>>
  PROVE  P!Next
<1>1. P!Crear(p)
  BY DEF P!Crear, P!Pasa, Visible, Listas
<1>2. QED BY <1>1 DEF P!Next

\* The oldest of the new ones is admitted.
LEMMA PasoAdmitir ==
  ASSUME NEW p \in Pids, Visible[p] = "NEW", \A q \in Pids : Visible[q] = "NEW" => p <= q,
         Visible' = [Visible EXCEPT ![p] = "READY"],
         TypeOK, Cardinality(Cargados) < consola.grado,
         cola'["READY"] = Append(cola["READY"], p), cola'["READY_VRR"] = cola["READY_VRR"],
         UNCHANGED consola.grado
  PROVE  P!Next
<1>1. P!Admitir(p)
  BY CargadosVistos, MismoCardinal DEF P!Admitir, P!Pasa, Visible
<1>2. QED BY <1>1 DEF P!Next

\* The first of READY+ or READY is executed.
LEMMA PasoEjecutar ==
  ASSUME NEW p \in Pids, Visible[p] = "READY", \A q \in Pids : Visible[q] # "EXEC",
         Visible' = [Visible EXCEPT ![p] = "EXEC"],
         Head(cola["READY_VRR"] \o cola["READY"]) = p,
         cola'["READY_VRR"] = P!SinEl(cola["READY_VRR"], p),
         cola'["READY"] = P!SinEl(cola["READY"], p), UNCHANGED consola.grado
  PROVE  P!Next
<1>1. P!Ejecutar(p)
  BY DEF P!Ejecutar, P!Pasa, Visible
<1>2. QED BY <1>1 DEF P!Next

\* It stops running and waits.
LEMMA PasoBloquear ==
  ASSUME NEW p \in Pids, Visible[p] = "EXEC", Visible' = [Visible EXCEPT ![p] = "BLOCKED"],
         UNCHANGED <<Listas, consola.grado>>
  PROVE  P!Next
<1>1. P!Bloquear(p)
  BY DEF P!Bloquear, P!Pasa, Visible, Listas
<1>2. QED BY <1>1 DEF P!Next

\* It is ready again.
LEMMA PasoVolver ==
  ASSUME NEW p \in Pids, Visible[p] \in {"BLOCKED", "EXEC"},
         Visible' = [Visible EXCEPT ![p] = "READY"], UNCHANGED consola.grado,
         \/ cola'["READY"] = Append(cola["READY"], p) /\ cola'["READY_VRR"] = cola["READY_VRR"]
         \/ /\ ALGORITMO = "VRR" /\ Visible[p] = "BLOCKED"
            /\ cola'["READY_VRR"] = Append(cola["READY_VRR"], p) /\ cola'["READY"] = cola["READY"]
  PROVE  P!Next
<1>1. P!Volver(p)
  BY DEF P!Volver, P!Pasa, Visible
<1>2. QED BY <1>1 DEF P!Next

\* It is sent to EXIT.
LEMMA PasoSalir ==
  ASSUME NEW p \in Pids,
         \/ Visible[p] = "NEW" /\ Visible' = [Visible EXCEPT ![p] = "CANCELADO"]
         \/ Visible[p] \in {"READY", "EXEC", "BLOCKED"} /\ Visible' = [Visible EXCEPT ![p] = "SALE"],
         cola'["READY_VRR"] = P!SinEl(cola["READY_VRR"], p),
         cola'["READY"] = P!SinEl(cola["READY"], p), UNCHANGED consola.grado
  PROVE  P!Next
<1>1. P!Salir(p)
  BY DEF P!Salir, P!Pasa, Visible
<1>2. QED BY <1>1 DEF P!Next

\* It ends.
LEMMA PasoTerminar ==
  ASSUME NEW p \in Pids, Visible[p] \in {"SALE", "CANCELADO"},
         Visible' = [Visible EXCEPT ![p] = "EXIT"], UNCHANGED <<Listas, consola.grado>>
  PROVE  P!Next
<1>1. P!Terminar(p)
  BY DEF P!Terminar, P!Pasa, Visible, Listas
<1>2. QED BY <1>1 DEF P!Next

\* The degree changes, not below what is loaded.
LEMMA PasoCambiarGrado ==
  ASSUME TypeOK, consola'.grado \in Nat, Cardinality(Cargados) <= consola'.grado,
         UNCHANGED <<Visible, Listas>>
  PROVE  P!Next
<1>1. P!CambiarGrado
  BY CargadosVistos, MismoCardinal DEF P!CambiarGrado, Visible, Listas
<1>2. QED BY <1>1 DEF P!Next

-----------------------------------------------------------------------------
(* Queues, as Planificador writes them *)

\* A process is taken out of a queue it is in, and out of no other.
LEMMA SinElDe ==
  ASSUME NEW s, NEW p
  PROVE  /\ ~Contains(s, p) => P!SinEl(s, p) = s
         /\ Contains(s, p) => P!SinEl(s, p) = Extraer(s, p)
BY DEF P!SinEl, P!Contains, Contains, P!RemoveAt, RemoveAt, Extraer

\* The first one is taken out from the front.
LEMMA ExtraerElPrimero ==
  ASSUME NEW s \in Seq(Pids), s # <<>>, IsInjective(s)
  PROVE  Extraer(s, Head(s)) = Tail(s)
<1>1. PICK n \in Nat : n = Len(s)
  OBVIOUS
<1>2. n >= 1 /\ Head(s) = s[1] /\ DOMAIN s = 1 .. n /\ Contains(s, Head(s))
  BY <1>1, PrimeroDeCola
<1>3. PICK t : t = Extraer(s, Head(s))
  OBVIOUS
<1>4. PICK k \in 1 .. n : /\ s[k] = s[1] /\ t \in Seq(Pids) /\ Len(t) = n - 1
                          /\ \A i \in 1 .. n - 1 : t[i] = IF i < k THEN s[i] ELSE s[i + 1]
  <2>1. \E k \in 1 .. Len(s) :
          /\ s[k] = Head(s)
          /\ Extraer(s, Head(s)) \in Seq(Pids) /\ Len(Extraer(s, Head(s))) = Len(s) - 1
          /\ \A i \in 1 .. Len(s) - 1 : Extraer(s, Head(s))[i] = IF i < k THEN s[i] ELSE s[i + 1]
    BY <1>2, ExtraerPosiciones
  <2>2. QED BY <1>1, <1>2, <1>3, <2>1
<1>5. k = 1
  <2>1. \A x, y \in DOMAIN s : s[x] = s[y] => x = y
    BY DEF IsInjective
  <2>2. 1 \in DOMAIN s /\ k \in DOMAIN s
    BY <1>1, <1>2
  <2>3. QED BY <1>4, <2>1, <2>2
<1>6. PICK u : u = Tail(s)
  OBVIOUS
<1>7. u \in Seq(Pids) /\ Len(u) = n - 1 /\ \A i \in 1 .. n - 1 : u[i] = s[i + 1]
  BY <1>1, <1>6
<1>8. \A i \in 1 .. n - 1 : t[i] = u[i]
  BY <1>4, <1>5, <1>7
<1>9. t = u
  BY <1>4, <1>7, <1>8, SeqEqual
<1>10. QED BY <1>3, <1>6, <1>9

\* Process h, in the queue of its state, goes from a to b: what is seen of it.
Trasladado(h, a, b) ==
  /\ h \in Pids /\ Visible[h] = pcb[h].estado /\ Donde(h) = {a} /\ a \in LugaresDe(h)
  /\ Visible' = [Visible EXCEPT ![h] = Aspecto(TRUE, pcb'[h].estado, b = "EXIT")]
  /\ cola'[a] = Tail(cola[a]) /\ cola'[b] = Append(cola[b], h)
  /\ Fuera(a, b)

\* That is what happens when the first of a queue goes to another one.
LEMMA VisiblePasa ==
  ASSUME TypeOK, EnLugar, NEW a \in Colas \ {"EXIT"}, NEW b \in Colas, a # b,
         NEW h, h = Head(cola[a]), cola[a] # <<>>, Pasa(h, a, b), UNCHANGED pid, SoloEstado(h)
  PROVE  Trasladado(h, a, b)
<1>1. EnColas /\ "EXIT" \in Colas
  BY DeLargo
<1>2. h \in Pids /\ Contains(cola[a], h)
  BY <1>1, PrimeroDeCola DEF EnColas
<1>3. Visible[h] = pcb[h].estado /\ Donde(h) = {a} /\ h \in Creados /\ a \in LugaresDe(h)
  BY <1>2, VisibleEnCola, EnCola
<1>4. /\ EnColas' /\ Donde(h)' = {b}
      /\ Aparte(h)
      /\ cola'[a] = Tail(cola[a]) /\ cola'[b] = Append(cola[b], h)
      /\ Fuera(a, b)
  <2>1. a \in Colas /\ EnColas
    BY <1>1
  <2>2. Donde(h) = {a}
    BY <1>3
  <2>3. EnColas'
    BY <2>1, <2>2, DondePasa
  <2>4. Donde(h)' = {b}
    BY <2>1, <2>2, DondePasa
  <2>5. Aparte(h)
    BY <2>1, <2>2, DondePasa
  <2>6. cola'[a] = Tail(cola[a]) /\ cola'[b] = Append(cola[b], h)
    BY <2>1, <2>2, DondePasa
  <2>7. Fuera(a, b)
    BY <2>1, <2>2, DondePasa
  <2>8. QED BY <2>3, <2>4, <2>5, <2>6, <2>7
<1>5. Creados' = Creados
  BY DEF Creados
<1>6. ASSUME NEW sale \in BOOLEAN, sale = (b = "EXIT")
      PROVE  Visible' = [Visible EXCEPT ![h] = Aspecto(TRUE, pcb'[h].estado, sale)]
  <2>1. sale <=> "EXIT" \in Donde(h)'
    BY <1>4, <1>6
  <2>2. h \in Creados'
    BY <1>3, <1>5
  <2>3. Visible' = [Visible EXCEPT ![h] = Aspecto(h \in Creados', pcb'[h].estado, sale)]
    BY <1>2, <1>4, <1>5, <2>1, VisibleUno
  <2>4. Aspecto(h \in Creados', pcb'[h].estado, sale) = Aspecto(TRUE, pcb'[h].estado, sale)
    BY <2>2 DEF Aspecto
  <2>5. QED BY <2>3, <2>4
<1>7. QED BY <1>2, <1>3, <1>4, <1>6 DEF Trasladado

\* The names of the queues.
LEMMA NombresDeColas ==
  /\ {"NEW", "READY", "READY_VRR", "RUNNING", "EXIT"} \subseteq Colas
  /\ Recursos \cup Interfaces \subseteq Colas
  /\ {"NEW", "READY", "READY_VRR", "RUNNING", "EXIT"} \cap (Recursos \cup Interfaces) = {}
BY DEF Colas, ColasFijas

-----------------------------------------------------------------------------
(* The simulation: short-term scheduler *)

\* Nobody is executing when the next process is chosen.
LEMMA NadieEnExec ==
  ASSUME TypeOK, EnLugar, cola["RUNNING"] = <<>>, NEW q \in Pids
  PROVE  Visible[q] # "EXEC"
<1> SUFFICES ASSUME Visible[q] = "EXEC" PROVE FALSE
  OBVIOUS
<1>1. q \in Creados /\ pcb[q].estado = "EXEC" /\ ~Contains(cola["EXIT"], q)
  BY VisibleFormula DEF Aspecto
<1>2. EnSuLugar(q)
  BY <1>1 DEF EnLugar, UnSoloLugar
<1>3. largo.entrante # q
  BY <1>1, <1>2, LugarFormula
<1>4. PICK c \in LugaresDe(q) \cup {"EXIT"} : Donde(q) = {c}
  BY <1>1, <1>2, <1>3, LugarFormula
<1>5. LugaresDe(q) = {"RUNNING"}
  BY <1>1 DEF LugaresDe
<1>6. c # "EXIT"
  BY <1>1, <1>4, DondeFormula, NombresDeColas
<1>7. Contains(cola["RUNNING"], q)
  BY <1>4, <1>5, <1>6, DondeFormula, NombresDeColas
<1>8. QED BY <1>7 DEF Contains

\* EligeProceso executes the first of READY+ or READY.
LEMMA SimulaElige ==
  ASSUME InvLugar, EligeProceso
  PROVE  P!Next
<1>1. /\ TypeOK /\ EnLugar /\ PlusSoloEnVRR /\ EnColas /\ pcb \in [Pids -> PCBs]
      /\ cola["RUNNING"] = <<>> /\ UNCHANGED <<pid, consola>>
  BY DeLargo DEF InvLugar, Inv, RunningEnOrden, EligeProceso, En, locales, TypeOK
<1>2. PICK o \in {"READY", "READY_VRR"} : o = ColaDeListos
  BY DEF ColaDeListos
<1>3. PICK p : p = Head(cola[o])
  OBVIOUS
<1>4. /\ cola[o] # <<>> /\ Pasa(p, o, "RUNNING")
      /\ pcb' = [pcb EXCEPT ![p].estado = "EXEC",
                            ![p].parcial = IF o = "READY_VRR" THEN @ ELSE FALSE]
  BY <1>2, <1>3 DEF EligeProceso
<1>5. SoloEstado(p)
  BY <1>1, <1>4 DEF SoloEstado
<1>6. o \in Colas \ {"EXIT"} /\ "RUNNING" \in Colas /\ o # "RUNNING"
  BY NombresDeColas
<1>7. /\ p \in Pids /\ Visible[p] = pcb[p].estado /\ Donde(p) = {o} /\ o \in LugaresDe(p)
      /\ Visible' = [Visible EXCEPT ![p] = Aspecto(TRUE, pcb'[p].estado, "RUNNING" = "EXIT")]
      /\ cola'[o] = Tail(cola[o]) /\ Fuera(o, "RUNNING")
  <2>1. PICK r \in Colas : r = "RUNNING"
    BY <1>6
  <2>2. o # r /\ Pasa(p, o, r) /\ o \in Colas \ {"EXIT"}
    BY <1>4, <1>6, <2>1
  <2>3. Trasladado(p, o, r)
    BY <1>1, <1>3, <1>4, <1>5, <2>2, VisiblePasa
  <2>4. QED BY <2>1, <2>3 DEF Trasladado
<1>8. pcb[p].estado = "READY" /\ pcb'[p].estado = "EXEC"
  BY <1>1, <1>4, <1>6, <1>7, EstadoDeCola DEF PCBs
<1>9. Visible' = [Visible EXCEPT ![p] = "EXEC"] /\ Visible[p] = "READY"
  BY <1>7, <1>8 DEF Aspecto
<1>10. /\ cola["READY"] \in Seq(Pids) /\ cola["READY_VRR"] \in Seq(Pids)
       /\ IsInjective(cola[o]) /\ cola[o] \in Seq(Pids) /\ Contains(cola[o], p)
  BY <1>1, <1>3, <1>4, <1>6, NombresDeColas, PrimeroDeCola DEF EnColas
<1>11. cola'[o] = P!SinEl(cola[o], p)
  BY <1>3, <1>4, <1>7, <1>10, SinElDe, ExtraerElPrimero
<1>12. ASSUME NEW c \in {"READY", "READY_VRR"}, c # o
       PROVE  cola'[c] = P!SinEl(cola[c], p)
  <2>1. cola'[c] = cola[c] /\ ~Contains(cola[c], p)
    BY <1>7, <1>12, DondeFormula, NombresDeColas DEF Fuera
  <2>2. QED BY <2>1, SinElDe
<1>13. Head(cola["READY_VRR"] \o cola["READY"]) = p
  <2>1. PICK s \in Seq(Pids) : s = cola["READY_VRR"]
    BY <1>10
  <2>2. PICK t \in Seq(Pids) : t = cola["READY"]
    BY <1>10
  <2>3. s # <<>> => Head(s \o t) = Head(s)
    OBVIOUS
  <2>4. s = <<>> => s \o t = t
    OBVIOUS
  <2>5. CASE o = "READY_VRR"
    BY <1>3, <1>4, <2>1, <2>2, <2>3, <2>5
  <2>6. CASE o = "READY"
    <3>1. s = <<>>
      BY <1>1, <1>2, <2>1, <2>6 DEF ColaDeListos, PlusSoloEnVRR
    <3>2. QED BY <1>3, <2>1, <2>2, <2>4, <2>6, <3>1
  <2>7. QED BY <2>5, <2>6
<1>14. \A q \in Pids : Visible[q] # "EXEC"
  BY <1>1, NadieEnExec
<1>15. cola'["READY"] = P!SinEl(cola["READY"], p) /\ cola'["READY_VRR"] = P!SinEl(cola["READY_VRR"], p)
  BY <1>11, <1>12
<1>16. QED BY <1>1, <1>7, <1>9, <1>13, <1>14, <1>15, PasoEjecutar

\* What does not touch the ready queues.
LEMMA ListasAjenas ==
  ASSUME NEW a \in Colas \ {"READY", "READY_VRR"}, NEW b \in Colas, NEW h, Trasladado(h, a, b)
  PROVE  /\ b # "READY" => cola'["READY"] = cola["READY"]
         /\ b # "READY_VRR" => cola'["READY_VRR"] = cola["READY_VRR"]
         /\ b \notin {"READY", "READY_VRR"} =>
              /\ UNCHANGED Listas
              /\ cola'["READY"] = P!SinEl(cola["READY"], h)
              /\ cola'["READY_VRR"] = P!SinEl(cola["READY_VRR"], h)
<1>1. Donde(h) = {a} /\ Fuera(a, b)
  BY DEF Trasladado
<1>2. ASSUME NEW c \in {"READY", "READY_VRR"}, b # c
      PROVE  cola'[c] = cola[c] /\ P!SinEl(cola[c], h) = cola[c]
  <2>1. cola'[c] = cola[c] /\ ~Contains(cola[c], h)
    BY <1>1, <1>2, DondeFormula, NombresDeColas DEF Fuera
  <2>2. QED BY <2>1, SinElDe
<1>3. QED BY <1>2 DEF Listas

\* The process being treated leaves RUNNING.
LEMMA SimulaFinDeRafaga ==
  ASSUME InvLugar, UNCHANGED <<pid, consola>>,
         \/ TrataFin \/ TrataRecursoInvalido \/ TrataIOInvalida
         \/ TrataFinQuantum \/ WaitBloquea \/ IOBloquea
  PROVE  P!Next
<1>1. /\ TypeOK /\ Control /\ EnLugar /\ RunningEnOrden /\ pcb \in [Pids -> PCBs]
      /\ "RUNNING" \in Colas \ {"EXIT", "READY", "READY_VRR"}
  BY NombresDeColas DEF InvLugar, Inv, TypeOK
<1>2. PICK p : p = corto.proceso
  OBVIOUS
<1>3. pc["corto"] \in {"trata", "wait", "io"}
  BY DEF TrataFin, TrataRecursoInvalido, TrataIOInvalida, TrataFinQuantum, WaitBloquea, IOBloquea,
    Trata, En
<1>4. /\ p \in Pids /\ pcb[p].estado = "EXEC"
      /\ p = Head(cola["RUNNING"]) /\ cola["RUNNING"] # <<>>
  BY <1>1, <1>2, <1>3, Tratado
<1>5. ASSUME NEW b \in Colas, b # "RUNNING", Pasa(p, "RUNNING", b), SoloEstado(p)
      PROVE  Trasladado(p, "RUNNING", b) /\ Visible[p] = "EXEC"
  <2>1. PICK a \in Colas \ {"EXIT"} : a = "RUNNING"
    BY <1>1
  <2>2. a # b /\ p = Head(cola[a]) /\ cola[a] # <<>> /\ Pasa(p, a, b)
    BY <1>4, <1>5, <2>1
  <2>3. Trasladado(p, a, b)
    BY <1>1, <1>5, <2>2, VisiblePasa
  <2>4. QED BY <1>4, <2>1, <2>3 DEF Trasladado
<1>6. CASE TrataFin \/ TrataRecursoInvalido \/ TrataIOInvalida
  <2>1. Pasa(p, "RUNNING", "EXIT") /\ \/ pcb' = pcb
                                      \/ \E resto : pcb' = [pcb EXCEPT ![p].parcial = resto]
    BY <1>2, <1>6 DEF TrataFin, TrataRecursoInvalido, TrataIOInvalida, MandaAExit
  <2>2. SoloEstado(p) /\ pcb'[p].estado = "EXEC"
    <3>1. ASSUME NEW resto, pcb' = [pcb EXCEPT ![p].parcial = resto]
          PROVE  SoloEstado(p) /\ pcb'[p].estado = "EXEC"
      BY <1>1, <1>4, <3>1 DEF PCBs, SoloEstado
    <3>2. QED BY <1>4, <2>1, <3>1 DEF SoloEstado
  <2>3. PICK b \in Colas : b = "EXIT"
    BY NombresDeColas
  <2>4. Trasladado(p, "RUNNING", b) /\ Visible[p] = "EXEC"
    BY <1>5, <2>1, <2>2, <2>3
  <2>5. Visible' = [Visible EXCEPT ![p] = "SALE"]
    BY <2>2, <2>3, <2>4 DEF Trasladado, Aspecto
  <2>6. /\ cola'["READY"] = P!SinEl(cola["READY"], p)
        /\ cola'["READY_VRR"] = P!SinEl(cola["READY_VRR"], p)
    BY <1>1, <2>3, <2>4, ListasAjenas
  <2>7. QED BY <1>4, <2>4, <2>5, <2>6, PasoSalir
<1>7. CASE TrataFinQuantum
  <2>1. Pasa(p, "RUNNING", "READY") /\ SoloEstado(p) /\ pcb'[p].estado = "READY"
    <3>1. /\ Pasa(p, "RUNNING", "READY")
          /\ pcb' = [pcb EXCEPT ![p].estado = "READY", ![p].parcial = ReiniciaQuantum(@)]
      BY <1>2, <1>7 DEF TrataFinQuantum
    <3>2. QED BY <1>1, <1>4, <3>1 DEF PCBs, SoloEstado
  <2>2. PICK b \in Colas : b = "READY"
    BY NombresDeColas
  <2>3. Trasladado(p, "RUNNING", b) /\ Visible[p] = "EXEC"
    BY <1>5, <2>1, <2>2
  <2>4. Visible' = [Visible EXCEPT ![p] = "READY"] /\ cola'["READY"] = Append(cola["READY"], p)
    BY <2>1, <2>2, <2>3 DEF Trasladado, Aspecto
  <2>5. cola'["READY_VRR"] = cola["READY_VRR"]
    BY <1>1, <2>2, <2>3, ListasAjenas
  <2>6. QED BY <1>4, <2>3, <2>4, <2>5, PasoVolver
<1>8. CASE WaitBloquea \/ IOBloquea
  <2>1. PICK b : b = corto.arg
    OBVIOUS
  <2>2. b \in Recursos \cup Interfaces
    BY <1>1, <1>8, <2>1 DEF WaitBloquea, IOBloquea, Control, CortoEnOrden, En
  <2>3. Pasa(p, "RUNNING", b) /\ pcb' = [pcb EXCEPT ![p].estado = "BLOCKED", ![p].cola_bloqueado = b]
    BY <1>2, <1>8, <2>1 DEF WaitBloquea, IOBloquea
  <2>4. SoloEstado(p) /\ pcb'[p].estado = "BLOCKED"
    BY <1>1, <1>4, <2>3 DEF PCBs, SoloEstado
  <2>5. b \in Colas /\ b \notin {"RUNNING", "READY", "READY_VRR", "EXIT"}
    BY <2>2, NombresDeColas
  <2>6. Trasladado(p, "RUNNING", b) /\ Visible[p] = "EXEC"
    BY <1>5, <2>3, <2>4, <2>5
  <2>7. Visible' = [Visible EXCEPT ![p] = "BLOCKED"]
    BY <2>4, <2>5, <2>6 DEF Trasladado, Aspecto
  <2>8. UNCHANGED Listas
    BY <1>1, <2>5, <2>6, ListasAjenas
  <2>9. QED BY <1>4, <2>6, <2>7, <2>8, PasoBloquear
<1>9. QED BY <1>6, <1>7, <1>8

\* A returned instance: the first process blocked for it is ready again, or
\* nothing is seen.
LEMMA SimulaEntrega ==
  ASSUME TypeOK, EnLugar, NEW r \in Recursos, NEW pcbs \in [Pids -> PCBs],
         \A q \in Pids : pcbs[q].estado = pcb[q].estado,
         EntregaInstancia(r, pcbs), UNCHANGED <<pid, consola>>
  PROVE  P!Next \/ UNCHANGED P!vars
<1>1. r \in Colas \ {"EXIT", "READY", "READY_VRR"} /\ pcb \in [Pids -> PCBs]
  BY NombresDeColas DEF TypeOK
<1>2. CASE HayBloqueado(r)
  <2>1. PICK q : q = Head(cola[r])
    OBVIOUS
  <2>2. /\ pcb' = [pcbs EXCEPT ![q].recursos[r] = @ + 1, ![q].estado = "READY",
                               ![q].cola_bloqueado = Nulo]
        /\ Pasa(q, r, "READY") /\ cola[r] # <<>>
    BY <1>2, <2>1 DEF EntregaInstancia, HayBloqueado
  <2>3. q \in Pids
    BY <1>1, <2>1, <2>2 DEF TypeOK
  <2>4. SoloEstado(q) /\ pcb'[q].estado = "READY"
    BY <2>2, <2>3 DEF SoloEstado, PCBs
  <2>5. PICK b \in Colas : b = "READY"
    BY NombresDeColas
  <2>6. r # b /\ Pasa(q, r, b)
    BY <1>1, <2>2, <2>5
  <2>7. Trasladado(q, r, b)
    BY <1>1, <2>1, <2>2, <2>4, <2>6, VisiblePasa
  <2>8. Visible[q] = "BLOCKED"
    BY <1>1, <2>3, <2>7, EstadoDeCola DEF Trasladado
  <2>9. Visible' = [Visible EXCEPT ![q] = "READY"] /\ cola'["READY"] = Append(cola["READY"], q)
    BY <2>4, <2>5, <2>7 DEF Trasladado, Aspecto
  <2>10. cola'["READY_VRR"] = cola["READY_VRR"]
    BY <1>1, <2>5, <2>7, ListasAjenas
  <2>11. QED BY <2>3, <2>8, <2>9, <2>10, PasoVolver
<1>3. CASE ~HayBloqueado(r)
  <2>1. pcb' = pcbs /\ cola' = cola /\ Creados' = Creados
    BY <1>3 DEF EntregaInstancia, Creados
  <2>2. Visible' = Visible
    BY <2>1, VisibleIgual
  <2>3. QED BY <2>1, <2>2, PasoInvisible DEF Listas
<1>4. QED BY <1>2, <1>3

\* The steps of the short-term scheduler that move a process.
LEMMA SimulaCorto ==
  ASSUME InvLugar, Corto, ~NadieSeVa
  PROVE  P!Next \/ UNCHANGED P!vars
<1>1. TypeOK /\ Control /\ EnLugar /\ pcb \in [Pids -> PCBs] /\ UNCHANGED <<pid, consola>>
  <2>1. TypeOK /\ pc \in [Hilos -> Etiquetas]
    BY DEF InvLugar, Inv, TypeOK
  <2>2. UNCHANGED consola
    BY <2>1, AjenoCorto
  <2>3. Etapas
    BY <2>1, EtapasAjenas
  <2>4. QED BY <2>2, <2>3 DEF InvLugar, Inv, TypeOK, Etapas
<1>2. CASE SignalEntrega
  <2>1. PICK r \in Recursos : r = corto.arg
    BY <1>1, <1>2 DEF SignalEntrega, Control, CortoEnOrden, En
  <2>2. EntregaInstancia(r, pcb)
    BY <1>2, <2>1 DEF SignalEntrega
  <2>3. QED BY <1>1, <2>2, SimulaEntrega
<1>3. \/ EligeProceso \/ SignalEntrega
      \/ TrataFin \/ TrataRecursoInvalido \/ TrataIOInvalida
      \/ TrataFinQuantum \/ WaitBloquea \/ IOBloquea
  BY DEF Corto, NadieSeVa
<1>4. QED BY <1>1, <1>2, <1>3, SimulaElige, SimulaFinDeRafaga

-----------------------------------------------------------------------------
(* The simulation: handlers of the interfaces and EXIT *)

\* DesbloqueaIO makes the process the interface worked for ready again, in
\* READY+ if part of its quantum is left.
LEMMA SimulaDesbloquea ==
  ASSUME InvLugar, NEW i \in Interfaces, DesbloqueaIO(i)
  PROVE  P!Next
<1>1. /\ TypeOK /\ EnLugar /\ pcb \in [Pids -> PCBs] /\ UNCHANGED <<pid, consola>>
      /\ i \in Colas \ {"EXIT", "READY", "READY_VRR"}
  BY NombresDeColas DEF InvLugar, Inv, TypeOK, DesbloqueaIO, locales
<1>2. PICK p : p = Head(cola[i])
  OBVIOUS
<1>3. PICK b \in {"READY", "READY_VRR"} : Pasa(p, i, b) /\ (b = "READY_VRR" => ALGORITMO = "VRR")
  BY <1>2 DEF DesbloqueaIO
<1>4. cola[i] # <<>> /\ pcb' = [pcb EXCEPT ![p].estado = "READY"]
  BY <1>2 DEF DesbloqueaIO, Atendido
<1>5. p \in Pids
  BY <1>1, <1>2, <1>4 DEF TypeOK
<1>6. SoloEstado(p) /\ pcb'[p].estado = "READY"
  BY <1>1, <1>4, <1>5 DEF SoloEstado, PCBs
<1>7. b \in Colas /\ i # b
  BY <1>1, NombresDeColas
<1>8. Trasladado(p, i, b)
  BY <1>1, <1>2, <1>3, <1>4, <1>6, <1>7, VisiblePasa
<1>9. Visible[p] = "BLOCKED"
  BY <1>1, <1>5, <1>8, EstadoDeCola DEF Trasladado
<1>10. Visible' = [Visible EXCEPT ![p] = "READY"] /\ cola'[b] = Append(cola[b], p)
  BY <1>3, <1>6, <1>8 DEF Trasladado, Aspecto
<1>11. /\ b # "READY" => cola'["READY"] = cola["READY"]
       /\ b # "READY_VRR" => cola'["READY_VRR"] = cola["READY_VRR"]
  BY <1>1, <1>7, <1>8, ListasAjenas
<1>12. QED BY <1>1, <1>3, <1>5, <1>9, <1>10, <1>11, PasoVolver

\* The EXIT thread ends a process, hands its instances out or shows nothing.
LEMMA SimulaExit ==
  ASSUME InvLugar, Exit
  PROVE  P!Next \/ UNCHANGED P!vars
<1>1. /\ TypeOK /\ Control /\ EnLugar /\ SinDespertarPerdido /\ EnColas /\ Creados \subseteq Pids
      /\ pcb \in [Pids -> PCBs] /\ pc \in [Hilos -> Etiquetas] /\ "EXIT" \in Colas
  BY DeLargo, NombresDeColas DEF InvLugar, Inv, TypeOK
<1>2. UNCHANGED <<pid, consola>>
  <2>1. UNCHANGED consola
    BY <1>1, AjenoExit
  <2>2. UNCHANGED pid
    BY DEF Exit, EsperaOrdenExit, ExitDesdeNew, ExitDesdeOtro, LiberaTomaInst, LiberaInstancia,
      LiberaMemoria, MemoriaLiberada, MarcaExit, SacaDeExit, procesos
  <2>3. QED BY <2>1, <2>2
<1>3. Creados' = Creados
  BY <1>2 DEF Creados
<1>4. CASE EsperaOrdenExit \/ ExitDesdeOtro \/ LiberaTomaInst \/ LiberaMemoria \/ MemoriaLiberada
  <2>1. UNCHANGED <<cola, pcb>>
    BY <1>4 DEF EsperaOrdenExit, ExitDesdeOtro, LiberaTomaInst, LiberaMemoria, MemoriaLiberada, procesos
  <2>2. Visible' = Visible
    BY <1>3, <2>1, VisibleIgual
  <2>3. QED BY <1>2, <2>1, <2>2, PasoInvisible DEF Listas
\* The state of the first of EXIT becomes EXIT.
<1>5. ASSUME NEW h, h = Head(cola["EXIT"]), cola["EXIT"] # <<>>, UNCHANGED cola,
             pcb[h].estado # "EXIT", pcb' = [pcb EXCEPT ![h].estado = "EXIT"]
      PROVE  P!Next
  <2>1. h \in Creados /\ h \in Pids /\ Donde(h) = {"EXIT"}
    BY <1>1, <1>5, PrimeroDeExit
  <2>2. Visible[h] \in {"SALE", "CANCELADO"}
    <3>1. Contains(cola["EXIT"], h)
      BY <1>1, <2>1, DondeFormula
    <3>2. QED BY <1>5, <2>1, <3>1, VisibleFormula DEF Aspecto
  <2>3. SoloEstado(h) /\ pcb'[h].estado = "EXIT"
    BY <1>1, <1>5, <2>1 DEF SoloEstado, PCBs
  <2>4. Aparte(h) /\ Donde(h)' = {"EXIT"}
    BY <1>5, <2>1 DEF Aparte, Donde, Colas
  <2>5. Visible' = [Visible EXCEPT ![h] = Aspecto(h \in Creados', pcb'[h].estado, TRUE)]
    BY <1>3, <2>1, <2>3, <2>4, VisibleUno
  <2>6. Visible' = [Visible EXCEPT ![h] = "EXIT"]
    BY <1>3, <2>1, <2>3, <2>5 DEF Aspecto
  <2>7. QED BY <1>2, <1>5, <2>1, <2>2, <2>6, PasoTerminar DEF Listas
<1>6. CASE ExitDesdeNew
  <2>1. pc["exit"] = "pausa"
    BY <1>6 DEF ExitDesdeNew, En
  <2>2. /\ sem["exit"] \in Nat /\ cola["EXIT"] \in Seq(Pids)
        /\ Len(cola["EXIT"]) = sem["exit"] + 1 + Uno(En("corto", "avisa_exit"))
    BY <1>1, <2>1 DEF TypeOK, Semaforos, SemaforosFijos, Colas, ColasFijas, SinDespertarPerdido,
      ExitContado, Uno
  <2>3. cola["EXIT"] # <<>>
    BY <2>2 DEF Uno
  <2>4. PICK h : h = Head(cola["EXIT"])
    OBVIOUS
  <2>5. pcb[h].estado = "NEW" /\ pcb' = [pcb EXCEPT ![h].estado = "EXIT"] /\ UNCHANGED cola
    BY <1>6, <2>4 DEF ExitDesdeNew
  <2>6. QED BY <1>5, <2>3, <2>4, <2>5
<1>7. CASE MarcaExit
  <2>1. PICK h : h = largo.saliente
    OBVIOUS
  <2>2. pc["exit"] = "marca" /\ pcb' = [pcb EXCEPT ![h].estado = "EXIT"] /\ UNCHANGED cola
    BY <1>7, <2>1 DEF MarcaExit, En
  <2>3. h = Head(cola["EXIT"]) /\ cola["EXIT"] # <<>> /\ pcb[h].estado # "EXIT"
    BY <1>1, <2>1, <2>2, DeLargo
  <2>4. QED BY <1>5, <2>2, <2>3
<1>8. CASE SacaDeExit
  <2>1. PICK h : h = largo.saliente
    OBVIOUS
  <2>2. /\ pc["exit"] = "saca" /\ pcb' = [pcb EXCEPT ![h].instruccion_io = FALSE]
        /\ cola' = [cola EXCEPT !["EXIT"] = SinPrimero(@)]
    BY <1>8, <2>1 DEF SacaDeExit, En
  <2>3. /\ h = Head(cola["EXIT"]) /\ cola["EXIT"] # <<>> /\ pcb[h].estado = "EXIT"
        /\ h \in Creados /\ h \in Pids /\ Donde(h) = {"EXIT"}
    BY <1>1, <2>1, <2>2, DeLargo, PrimeroDeExit
  <2>4. Donde(h)' = {} /\ Aparte(h)
    <3>1. PICK a \in Colas : a = "EXIT"
      BY <1>1
    <3>2. cola' = [cola EXCEPT ![a] = Tail(@)] /\ Donde(h) = {a} /\ cola[a] # <<>> /\ h = Head(cola[a])
      BY <2>2, <2>3, <3>1 DEF SinPrimero
    <3>3. QED BY <1>1, <3>2, DondeSale
  <2>5. SoloEstado(h) /\ pcb'[h].estado = "EXIT"
    BY <1>1, <2>2, <2>3 DEF SoloEstado, PCBs
  <2>6. Visible' = [Visible EXCEPT ![h] = Aspecto(h \in Creados', pcb'[h].estado, FALSE)]
    BY <1>3, <2>3, <2>4, <2>5, VisibleUno
  <2>7. Aspecto(h \in Creados', pcb'[h].estado, FALSE) = Visible[h]
    BY <1>3, <2>3, <2>5, VisibleFormula DEF Aspecto
  <2>8. Visible' = Visible
    BY <2>6, <2>7, VisibleFormula
  <2>9. UNCHANGED Listas
    BY <2>2, NombresDeColas DEF Listas
  <2>10. QED BY <1>2, <2>8, <2>9, PasoInvisible
<1>9. CASE LiberaInstancia
  <2>1. PICK s : s = largo.saliente
    OBVIOUS
  <2>2. PICK r : r = largo.recurso
    OBVIOUS
  <2>3. PICK pcbs : pcbs = [pcb EXCEPT ![s].recursos[r] = Devuelto(@)]
    OBVIOUS
  <2>4. r \in Recursos /\ s \in Pids /\ EntregaInstancia(r, pcbs)
    BY <1>1, <1>9, <2>1, <2>2, <2>3, DeLargo DEF LiberaInstancia, Control, LargoEnOrden, En
  <2>5. pcbs \in [Pids -> PCBs]
    <3>1. PICK n : n = Devuelto(pcb[s].recursos[r])
      OBVIOUS
    <3>2. pcb[s].recursos[r] \in Nat
      BY <1>1, <2>4, ValorPCB
    <3>3. n \in Nat
      BY <3>1, <3>2 DEF Devuelto
    <3>4. [pcb[s] EXCEPT !.recursos[r] = n] \in PCBs
      BY <1>1, <2>4, <3>3, CampoPCB
    <3>5. pcbs = [pcb EXCEPT ![s] = [pcb[s] EXCEPT !.recursos[r] = n]]
      BY <2>3, <3>1
    <3>6. QED BY <1>1, <2>4, <3>4, <3>5
  <2>6. \A q \in Pids : pcbs[q].estado = pcb[q].estado
    BY <1>1, <2>3 DEF PCBs
  <2>7. QED BY <1>1, <1>2, <2>4, <2>5, <2>6, SimulaEntrega
<1>10. QED BY <1>4, <1>6, <1>7, <1>8, <1>9 DEF Exit

-----------------------------------------------------------------------------
(* The simulation: console and NEW -> READY *)

\* INICIAR_PROCESO gives the next pid.
LEMMA SimulaIniciar ==
  ASSUME InvLugar, IniciarProceso
  PROVE  P!Next
<1>1. /\ TypeOK /\ EnLugar /\ EnColas /\ pcb \in [Pids -> PCBs]
      /\ UNCHANGED consola
  BY DeLargo DEF InvLugar, Inv, TypeOK, IniciarProceso, locales
<1>2. PICK h : h = pid
  OBVIOUS
<1>3. /\ h \in Pids /\ h \notin Creados /\ Creados' = Creados \cup {h} /\ Creados \subseteq Pids
      /\ \A q \in Pids : q < h => q \in Creados
  BY <1>2 DEF IniciarProceso, TypeOK, Creados, Pids
<1>4. /\ cola' = [cola EXCEPT !["NEW"] = Append(@, h)]
      /\ pcb' = [pcb EXCEPT ![h] = PCBNuevo]
  BY <1>2 DEF IniciarProceso
<1>5. Donde(h) = {}
  BY <1>1, <1>3 DEF EnLugar, PidsCreados
<1>6. Donde(h)' = {"NEW"} /\ Aparte(h)
  <2>1. PICK b \in Colas : b = "NEW"
    BY NombresDeColas
  <2>2. cola' = [cola EXCEPT ![b] = Append(@, h)]
    BY <1>4, <2>1
  <2>3. Donde(h)' = {b} /\ Aparte(h)
    BY <1>1, <1>3, <1>5, <2>2, DondeEntra
  <2>4. QED BY <2>1, <2>3
<1>7. pcb'[h].estado = "NEW" /\ SoloEstado(h)
  BY <1>1, <1>3, <1>4 DEF SoloEstado, PCBNuevo
<1>8. Visible' = [Visible EXCEPT ![h] = Aspecto(h \in Creados', pcb'[h].estado, FALSE)]
  <2>1. Creados' \ {h} = Creados \ {h}
    BY <1>3
  <2>2. FALSE <=> "EXIT" \in Donde(h)'
    BY <1>6
  <2>3. QED BY <1>3, <1>6, <1>7, <2>1, <2>2, VisibleUno
<1>9. Visible' = [Visible EXCEPT ![h] = "NEW"] /\ Visible[h] = "NINGUNO"
  BY <1>3, <1>7, <1>8, VisibleFormula DEF Aspecto
<1>10. ASSUME NEW q \in Pids, q < h PROVE Visible[q] # "NINGUNO"
  <2>1. q \in Creados /\ pcb[q].estado \in {"NEW", "READY", "EXEC", "BLOCKED", "EXIT"}
    BY <1>1, <1>3, <1>10 DEF PCBs, Estados
  <2>2. QED BY <2>1, VisibleFormula DEF Aspecto
<1>11. UNCHANGED Listas
  BY <1>4, NombresDeColas DEF Listas
<1>12. QED BY <1>1, <1>3, <1>9, <1>10, <1>11, PasoCrear

\* FINALIZAR_PROCESO takes a process out of its queue.
LEMMA SimulaExtrae ==
  ASSUME InvLugar, FinalizarExtrae
  PROVE  P!Next
<1>1. /\ TypeOK /\ Control /\ EnLugar /\ EnColas /\ pcb \in [Pids -> PCBs] /\ ObjetivoCreado
  BY DeLargo DEF InvLugar, Inv, TypeOK
<1>2. PICK p : p = consola.objetivo
  OBVIOUS
<1>3. p \in Pids /\ p \in Creados
  BY <1>1, <1>2 DEF FinalizarExtrae, ObjetivoEn, Control, ConsolaEnOrden, ObjetivoCreado
<1>4. PICK c : c = ColaDe(p)
  OBVIOUS
<1>5. /\ Contains(cola[c], p)
      /\ cola' = [cola EXCEPT ![c] = Extraer(@, p), !["EXIT"] = Append(@, p)]
      /\ pcb' = [pcb EXCEPT ![p].pedido_exit = TRUE]
      /\ pcb[p].estado \in {"NEW", "READY", "BLOCKED"}
      /\ UNCHANGED pid
  BY <1>2, <1>4 DEF FinalizarExtrae, ObjetivoEn, Detenibles
<1>6. consola'.grado = consola.grado
  BY <1>1 DEF FinalizarExtrae, FinComando, TypeOK, TConsola
<1>7. c \in {"NEW", "READY", "READY_VRR"} \/ (c = pcb[p].cola_bloqueado /\ pcb[p].estado = "BLOCKED")
  BY <1>4, <1>5 DEF ColaDe
<1>8. c \in Colas \ {"EXIT"}
  <2>1. pcb[p].estado = "BLOCKED" => pcb[p].cola_bloqueado \in Recursos \cup Interfaces
    BY <1>1, <1>3 DEF EnLugar, BloqueadoEn
  <2>2. QED BY <1>7, <2>1, NombresDeColas
<1>9. Visible[p] = pcb[p].estado /\ Donde(p) = {c}
  BY <1>1, <1>3, <1>5, <1>8, VisibleEnCola
<1>10. Donde(p)' = {"EXIT"} /\ Aparte(p) /\ Fuera(c, "EXIT")
  <2>1. PICK b \in Colas : b = "EXIT"
    BY NombresDeColas
  <2>2. c \in Colas /\ c # b
    BY <1>8, <2>1
  <2>3. PICK s : s = Extraer(cola[c], p)
    OBVIOUS
  <2>4. cola' = [cola EXCEPT ![c] = s, ![b] = Append(@, p)]
    BY <1>5, <2>1, <2>3
  <2>5. Donde(p)' = {b} /\ Aparte(p) /\ Fuera(c, b)
    BY <1>1, <1>3, <1>9, <2>2, <2>3, <2>4, DondeExtrae
  <2>6. QED BY <2>1, <2>5
<1>11. SoloEstado(p) /\ pcb'[p].estado = pcb[p].estado
  BY <1>1, <1>3, <1>5 DEF SoloEstado, PCBs
<1>12. Creados' = Creados
  BY <1>5 DEF Creados
<1>13. Visible' = [Visible EXCEPT ![p] = Aspecto(p \in Creados', pcb'[p].estado, TRUE)]
  BY <1>3, <1>10, <1>11, <1>12, VisibleUno
<1>14. \/ Visible[p] = "NEW" /\ Visible' = [Visible EXCEPT ![p] = "CANCELADO"]
       \/ Visible[p] \in {"READY", "EXEC", "BLOCKED"} /\ Visible' = [Visible EXCEPT ![p] = "SALE"]
  BY <1>3, <1>5, <1>9, <1>11, <1>12, <1>13 DEF Aspecto
<1>15. ASSUME NEW d \in {"READY", "READY_VRR"}
       PROVE  cola'[d] = P!SinEl(cola[d], p)
  <2>1. d \in Colas /\ d # "EXIT"
    BY NombresDeColas
  <2>2. CASE d = c
    <3>1. cola'[d] = Extraer(cola[d], p)
      BY <1>1, <1>5, <2>1, <2>2 DEF EnColas
    <3>2. QED BY <1>5, <2>2, <3>1, SinElDe
  <2>3. CASE d # c
    <3>1. cola'[d] = cola[d] /\ ~Contains(cola[d], p)
      BY <1>9, <1>10, <2>1, <2>3, DondeFormula DEF Fuera
    <3>2. QED BY <3>1, SinElDe
  <2>4. QED BY <2>2, <2>3
<1>16. cola'["READY"] = P!SinEl(cola["READY"], p) /\ cola'["READY_VRR"] = P!SinEl(cola["READY_VRR"], p)
  BY <1>15
<1>17. QED BY <1>3, <1>6, <1>14, <1>16, PasoSalir

\* PasaAReady admits the oldest of the new ones, and there is room for it.
LEMMA SimulaAdmite ==
  ASSUME InvLugar, ConservacionGrado, OrdenNew, PasaAReady
  PROVE  P!Next
<1>1. /\ TypeOK /\ EnLugar /\ EnColas /\ pcb \in [Pids -> PCBs] /\ Creados \subseteq Pids
      /\ UNCHANGED <<pid, consola>>
  BY DeLargo DEF InvLugar, Inv, TypeOK, PasaAReady
<1>2. PICK h : h = largo.entrante
  OBVIOUS
<1>3. /\ cola' = [cola EXCEPT !["READY"] = Append(@, h)]
      /\ pcb' = [pcb EXCEPT ![h].estado = "READY"]
      /\ pc["largo"] = "creando"
  BY <1>2 DEF PasaAReady, En
<1>4. h \in Creados /\ h \in Pids /\ Donde(h) = {} /\ pcb[h].estado = "NEW"
  BY <1>1, <1>2, <1>3, DeLargo DEF EnLugar, EntranteEnOrden
<1>5. Donde(h)' = {"READY"} /\ Aparte(h)
  <2>1. PICK b \in Colas : b = "READY"
    BY NombresDeColas
  <2>2. cola' = [cola EXCEPT ![b] = Append(@, h)]
    BY <1>3, <2>1
  <2>3. Donde(h)' = {b} /\ Aparte(h)
    BY <1>1, <1>4, <2>2, DondeEntra
  <2>4. QED BY <2>1, <2>3
<1>6. SoloEstado(h) /\ pcb'[h].estado = "READY" /\ Creados' = Creados
  BY <1>1, <1>3, <1>4 DEF SoloEstado, PCBs, Creados
<1>7. Visible' = [Visible EXCEPT ![h] = Aspecto(h \in Creados', pcb'[h].estado, FALSE)]
  <2>1. FALSE <=> "EXIT" \in Donde(h)'
    BY <1>5
  <2>2. QED BY <1>4, <1>5, <1>6, <2>1, VisibleUno
<1>8. Visible' = [Visible EXCEPT ![h] = "READY"]
  BY <1>4, <1>6, <1>7 DEF Aspecto
<1>9. Visible[h] = "NEW"
  <2>1. ~Contains(cola["EXIT"], h)
    BY <1>4, DondeFormula, NombresDeColas
  <2>2. QED BY <1>4, <2>1, VisibleFormula DEF Aspecto
<1>10. ASSUME NEW q \in Pids, Visible[q] = "NEW" PROVE h <= q
  <2>1. q \in Creados /\ pcb[q].estado = "NEW" /\ ~Contains(cola["EXIT"], q)
    BY <1>1, <1>10, VisibleFormula DEF Aspecto, PCBs, Estados
  <2>2. CASE q = h
    BY <1>4, <2>2 DEF Pids
  <2>3. CASE q # h
    <3>1. EnSuLugar(q) /\ LugaresDe(q) = {"NEW"}
      BY <1>1, <2>1 DEF EnLugar, UnSoloLugar, LugaresDe
    <3>2. PICK c \in {"NEW", "EXIT"} : Donde(q) = {c}
      BY <1>2, <2>1, <2>3, <3>1, LugarFormula
    <3>3. Contains(cola["NEW"], q)
      BY <2>1, <3>2, DondeFormula, NombresDeColas
    <3>4. PICK i \in 1 .. Len(cola["NEW"]) : cola["NEW"][i] = q
      BY <1>1, <3>3, NombresDeColas DEF Contains, EnColas
    <3>5. h < q
      BY <1>2, <1>3, <3>4 DEF OrdenNew, En
    <3>6. QED BY <1>4, <3>5 DEF Pids
  <2>4. QED BY <2>2, <2>3
<1>11. Cardinality(Cargados) < consola.grado
  <2>1. Cardinality(Cargados) \in Nat /\ sem["grado"] \in Nat /\ EnMano = 1
    BY <1>1, <1>3, CargadosFinitos, NombreGrado DEF EnMano, TypeOK
  <2>2. sem["grado"] + Cardinality(Cargados) + 1 = consola.grado
    BY <2>1, GradoFormula
  <2>3. \A a, b, g \in Nat : a + b + 1 = g => b < g
    OBVIOUS
  <2>4. consola.grado \in Nat
    BY <1>1 DEF TypeOK, TConsola
  <2>5. QED BY <2>1, <2>2, <2>3, <2>4
<1>12. cola'["READY"] = Append(cola["READY"], h) /\ cola'["READY_VRR"] = cola["READY_VRR"]
  BY <1>1, <1>3, NombresDeColas DEF EnColas
<1>13. QED BY <1>1, <1>4, <1>8, <1>9, <1>10, <1>11, <1>12, PasoAdmitir

\* The NEW -> READY thread admits a process or shows nothing.
LEMMA SimulaLargo ==
  ASSUME InvLugar, ConservacionGrado, OrdenNew, Largo
  PROVE  P!Next \/ UNCHANGED P!vars
<1>1. CASE Largo /\ ~PasaAReady
  <2>1. UNCHANGED <<pid, pcb, consola>>
    BY <1>1 DEF Largo, EsperaOrdenLargo, TomaGrado, SacaDeNew, NewVacia, procesos, locales
  <2>2. \A c \in Colas \ {"NEW"} : cola'[c] = cola[c]
    BY <1>1 DEF Largo, EsperaOrdenLargo, TomaGrado, SacaDeNew, NewVacia, procesos, InvLugar, Inv, TypeOK
  <2>3. UNCHANGED <<cola["READY"], cola["READY_VRR"], cola["EXIT"]>> /\ Creados' = Creados
    BY <2>1, <2>2, NombresDeColas DEF Creados
  <2>4. Visible' = Visible
    BY <2>1, <2>3, VisibleIgual
  <2>5. QED BY <2>1, <2>3, <2>4, PasoInvisible DEF Listas
<1>2. QED BY <1>1, SimulaAdmite

\* In the steps in which nobody moves only the degree may change, and never
\* below what is loaded.
LEMMA SimulaNadie ==
  ASSUME InvLugar, InvLugar', ConservacionGrado', NadieSeVa
  PROVE  P!Next
<1>1. TypeOK /\ Control /\ TypeOK'
  BY DEF InvLugar, Inv
<1>2. /\ UNCHANGED <<cola, pid>>
      /\ \A q \in Pids : pcb'[q].estado = pcb[q].estado
  BY <1>1, Quietos DEF Etapas
<1>3. Visible' = Visible
  BY <1>2, VisibleIgual DEF Creados
<1>4. Cargados' = Cargados
  BY <1>1, <1>2, CargadosIguales DEF CargaIgual
<1>5. Cardinality(Cargados) <= consola'.grado
  <2>1. Cardinality(Cargados) \in Nat /\ EnMano' \in Nat
    BY <1>1, CargadosFinitos DEF EnMano
  <2>2. sem'["grado"] \in Nat /\ consola'.grado \in Nat
    BY <1>1, NombreGrado DEF TypeOK, TConsola, Semaforos
  <2>3. sem'["grado"] + Cardinality(Cargados) + EnMano' = consola'.grado
    BY <1>4, GradoFormula
  <2>4. \A a, b, c, g \in Nat : a + b + c = g => b <= g
    OBVIOUS
  <2>5. QED BY <2>1, <2>2, <2>3, <2>4
<1>6. consola'.grado \in Nat
  BY <1>1 DEF TypeOK, TConsola
<1>7. QED BY <1>1, <1>2, <1>3, <1>5, <1>6, PasoCambiarGrado DEF Listas

-----------------------------------------------------------------------------
(* Theorem *)

\* Every step is a step of Planificador or shows nothing.
LEMMA SimulaPlanificador ==
  ASSUME InvLugar, InvLugar', ConservacionGrado, ConservacionGrado', OrdenNew, [Next]_vars
  PROVE  P!Next \/ UNCHANGED P!vars
<1>1. CASE Usuario \/ Consola
  BY <1>1, SimulaIniciar, SimulaExtrae, SimulaNadie DEF NadieSeVa
<1>2. CASE Corto
  BY <1>2, SimulaCorto, SimulaNadie
<1>3. ASSUME NEW i \in Interfaces, Manejador(i) PROVE P!Next
  BY <1>3, SimulaDesbloquea, SimulaNadie DEF NadieSeVa
<1>4. CASE Entorno \/ UNCHANGED vars
  BY <1>4, SimulaNadie DEF NadieSeVa
<1>5. QED BY <1>1, <1>2, <1>3, <1>4, SimulaLargo, SimulaExit, PasosDelKernel

\* There is no process in the beginning.
LEMMA InicioPlanificador == Init => P!Init
<1> SUFFICES ASSUME Init PROVE P!Init
  OBVIOUS
<1>1. Creados = {} /\ cola["READY"] = <<>> /\ cola["READY_VRR"] = <<>> /\ consola.grado \in Nat
  BY NombresDeColas DEF Init, Creados
<1>2. Visible = [p \in Pids |-> "NINGUNO"]
  BY <1>1, VisibleFormula DEF Aspecto
<1>3. QED BY <1>1, <1>2 DEF P!Init, Visible

\* The threads of the kernel, in any interleaving and with the user at any
\* moment, implement the five-state scheduler.
THEOREM ElKernelPlanifica == Spec => ImplementaPlanificador
<1>1. InvLugar /\ InvLugar' /\ ConservacionGrado /\ ConservacionGrado' /\ OrdenNew /\ [Next]_vars
        => [P!Next]_(P!vars)
  BY SimulaPlanificador
<1>2. InvLugar /\ OrdenNew /\ [Next]_vars => OrdenNew'
  BY OrdenPaso
<1>3. QED
  BY <1>1, <1>2, OrdenInicial, InicioPlanificador, InvarianteLugar, GradoConservado, PTL
  DEF Spec, ImplementaPlanificador, P!Spec
=============================================================================
