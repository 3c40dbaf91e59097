-------------------------- MODULE KernelCountProofs --------------------------
(***************************************************************************)
(* What the kernel counts, for every value of the constants: the units of  *)
(* the degree of multiprogramming, the messages between the short-term     *)
(* scheduler and the CPU, and the processes each of them speaks of.        *)
(***************************************************************************)
EXTENDS KernelQueueProofs, SequenceTheorems

-----------------------------------------------------------------------------
(* The messages in a socket *)

\* A sequence of one element after another one is added.
LEMMA TrasAgregar ==
  ASSUME NEW S, NEW a \in S, NEW b \in S, NEW s \in Seq(S)
  PROVE  Len(s) = 1 /\ s[1] = a
         => Append(s, b) \in Seq(S) /\ Len(Append(s, b)) = 2 /\ Append(s, b)[1] = a /\ Append(s, b)[2] = b
<1>1. /\ Append(s, b) \in Seq(S) /\ Len(Append(s, b)) = Len(s) + 1 /\ Append(s, b)[Len(s) + 1] = b
      /\ \A i \in 1 .. Len(s) : Append(s, b)[i] = s[i]
  BY AppendProperties
<1>2. PICK w : w = Append(s, b)
  OBVIOUS
<1>3. /\ w \in Seq(S) /\ Len(w) = Len(s) + 1 /\ w[Len(s) + 1] = b
      /\ \A i \in 1 .. Len(s) : w[i] = s[i]
  BY <1>1, <1>2, Zenon
<1> SUFFICES ASSUME Len(s) = 1, s[1] = a
             PROVE  w \in Seq(S) /\ Len(w) = 2 /\ w[1] = a /\ w[2] = b
  BY <1>2, Zenon
<1>4. Len(s) + 1 = 2 /\ 1 \in 1 .. Len(s)
  OBVIOUS
<1>5. QED BY <1>3, <1>4, Zenon

\* The sequence of one element and another after it.
LEMMA AgregarAUno ==
  ASSUME NEW S, NEW a \in S, NEW b \in S
  PROVE  Append(<<a>>, b) = <<a, b>>
<1>1. PICK t : t = <<a>>
  OBVIOUS
<1>2. PICK u : u = <<a, b>>
  OBVIOUS
<1>3. t \in Seq(S) /\ Len(t) = 1 /\ t[1] = a
  BY <1>1
<1>4. u \in Seq(S) /\ Len(u) = 2 /\ u[1] = a /\ u[2] = b
  BY <1>2
<1>5. PICK w : w = Append(t, b)
  OBVIOUS
<1>6. w \in Seq(S) /\ Len(w) = 2 /\ w[1] = a /\ w[2] = b
  BY <1>3, <1>5, TrasAgregar
<1>7. w = u
  BY <1>4, <1>6, SeqEqual
<1>8. QED BY <1>1, <1>2, <1>5, <1>7

\* The sockets hold one or two messages.
LEMMA Mensajes ==
  ASSUME NEW a, NEW b
  PROVE  /\ Append(<<>>, a) = <<a>> /\ Append(<<a>>, b) = <<a, b>>
         /\ <<a>> # <<>> /\ <<a, b>> # <<>> /\ Head(<<a>>) = a /\ Tail(<<a>>) = <<>>
         /\ Head(<<a, b>>) = a /\ Tail(<<a, b>>) = <<b>>
<1>1. Append(<<>>, a) = <<a>>
  OBVIOUS
<1>2. Append(<<a>>, b) = <<a, b>>
  <2>1. a \in {a, b} /\ b \in {a, b}
    OBVIOUS
  <2>2. QED BY <2>1, AgregarAUno
<1>3. <<a>> # <<>> /\ <<a, b>> # <<>>
  OBVIOUS
<1>4. Head(<<a>>) = a /\ Head(<<a, b>>) = a
  OBVIOUS
<1>5. Tail(<<a>>) = <<>>
  OBVIOUS
<1>6. Tail(<<a, b>>) = <<b>>
  OBVIOUS
<1>7. QED BY <1>1, <1>2, <1>3, <1>4, <1>5, <1>6

\* Only an empty sequence has one element after one is added.
LEMMA AgregadoUnico ==
  ASSUME NEW S, NEW s \in Seq(S), NEW a, NEW b
  PROVE  Append(s, a) = <<b>> => s = <<>> /\ a = b
<1>1. PICK T : T = S \cup {a}
  OBVIOUS
<1>2. s \in Seq(T) /\ a \in T
  BY <1>1
<1>3. Len(Append(s, a)) = Len(s) + 1 /\ Append(s, a)[Len(s) + 1] = a /\ Len(s) \in Nat
  BY <1>2, AppendProperties
<1>4. Len(<<b>>) = 1 /\ <<b>>[1] = b
  OBVIOUS
<1> SUFFICES ASSUME Append(s, a) = <<b>> PROVE s = <<>> /\ a = b
  OBVIOUS
<1>5. Len(s) + 1 = 1
  BY <1>3, <1>4, Zenon
<1>6. Len(s) = 0
  BY <1>3, <1>5
<1>7. s = <<>>
  BY <1>6
<1>8. <<b>>[Len(s) + 1] = a /\ Len(s) + 1 = 1
  BY <1>3, <1>5, Zenon
<1>9. a = b
  BY <1>4, <1>8, Zenon
<1>10. QED BY <1>7, <1>9

\* A request more at the end of the socket.
LEMMA ServirUltimo ==
  ASSUME NEW ps, NEW s \in Seq(TPedido), NEW m \in TPedido
  PROVE  TrasServir(ps, Append(s, m)) =
           IF m.op = "INICIAR_PROCESO" THEN TrasServir(ps, s) \cup {m.pid} ELSE TrasServir(ps, s) \ {m.pid}
<1>1. PICK t : t = Append(s, m)
  OBVIOUS
<1>2. PICK n \in Nat : n = Len(s)
  OBVIOUS
<1>3. /\ t \in Seq(TPedido) /\ DOMAIN s = 1 .. n /\ DOMAIN t = 1 .. (n + 1) /\ t[n + 1] = m
      /\ \A i \in 1 .. n : t[i] = s[i]
  BY <1>1, <1>2
<1>4. m.pid \in PidsOCero /\ m = [op |-> m.op, pid |-> m.pid]
  BY DEF TPedido
<1>5. ASSUME NEW p \in PidsOCero, p = m.pid
      PROVE  p \in TrasServir(ps, t) <=> m.op = "INICIAR_PROCESO"
  <2>1. ASSUME NEW j \in 1 .. (n + 1), \A k \in 1 .. (n + 1) : k > j => t[k].pid # p
        PROVE  j = n + 1
    BY <1>3, <1>5, <2>1
  <2>2. t[n + 1] = [op |-> "INICIAR_PROCESO", pid |-> p] <=> m.op = "INICIAR_PROCESO"
    BY <1>3, <1>4, <1>5
  <2>3. n + 1 \in 1 .. (n + 1) /\ t[n + 1].pid = p /\ \A k \in 1 .. (n + 1) : ~(k > n + 1)
    BY <1>3, <1>5
  <2>4. QED BY <1>3, <2>1, <2>2, <2>3 DEF TrasServir
<1>6. ASSUME NEW p \in PidsOCero, p # m.pid
      PROVE  p \in TrasServir(ps, t) <=> p \in TrasServir(ps, s)
  <2>1. \A j \in 1 .. (n + 1) : j \in 1 .. n \/ (j = n + 1 /\ t[j].pid # p)
    BY <1>3, <1>6
  <2>2. \A j \in 1 .. n : j \in 1 .. (n + 1)
    OBVIOUS
  <2>3. (\A j \in DOMAIN t : t[j].pid # p) <=> (\A j \in DOMAIN s : s[j].pid # p)
    BY <1>3, <2>1, <2>2
  <2>4. ASSUME NEW j \in 1 .. n
        PROVE  (\A k \in DOMAIN t : k > j => t[k].pid # p) <=> (\A k \in DOMAIN s : k > j => s[k].pid # p)
    BY <1>3, <2>1, <2>2
  <2>5. t[n + 1] # [op |-> "INICIAR_PROCESO", pid |-> p]
    BY <1>3, <1>6
  <2>6. QED BY <1>3, <2>1, <2>2, <2>3, <2>4, <2>5 DEF TrasServir
<1>7. \A p : p \in TrasServir(ps, t) \/ p \in TrasServir(ps, s) => p \in PidsOCero
  BY DEF TrasServir
<1>8. QED BY <1>1, <1>4, <1>5, <1>6, <1>7

\* The first request is served.
LEMMA ServirPrimero ==
  ASSUME NEW ps, NEW s \in Seq(TPedido), s # <<>>
  PROVE  TrasServir(IF Head(s).op = "INICIAR_PROCESO" THEN ps \cup {Head(s).pid} ELSE ps \ {Head(s).pid},
                    Tail(s))
         = TrasServir(ps, s)
<1>1. PICK t : t = Tail(s)
  OBVIOUS
<1>2. PICK n \in Nat : n = Len(s)
  OBVIOUS
<1>3. PICK m \in TPedido : m = Head(s)
  OBVIOUS
<1>4. PICK qs : qs = IF m.op = "INICIAR_PROCESO" THEN ps \cup {m.pid} ELSE ps \ {m.pid}
  OBVIOUS
<1>5. /\ n >= 1 /\ DOMAIN s = 1 .. n /\ DOMAIN t = 1 .. (n - 1) /\ s[1] = m
      /\ \A i \in 1 .. (n - 1) : t[i] = s[i + 1]
  BY <1>1, <1>2, <1>3
<1>6. m.pid \in PidsOCero /\ m = [op |-> m.op, pid |-> m.pid]
  BY DEF TPedido
<1>7. ASSUME NEW p \in PidsOCero
      PROVE  p \in TrasServir(qs, t) <=> p \in TrasServir(ps, s)
  <2>1. ASSUME NEW j \in 1 .. n, j # 1
        PROVE  j - 1 \in 1 .. (n - 1) /\ t[j - 1] = s[j]
    <3>1. PICK i \in 1 .. (n - 1) : j = i + 1
      <4>1. j - 1 \in 1 .. (n - 1) /\ j = (j - 1) + 1
        BY <1>5, <2>1
      <4>2. QED BY <4>1
    <3>2. j - 1 = i
      BY <3>1
    <3>3. QED BY <1>5, <3>1, <3>2
  <2>2. ASSUME NEW i \in DOMAIN t PROVE i \in Nat /\ i + 1 \in DOMAIN s /\ s[i + 1] = t[i] /\ i + 1 > 1
    BY <1>5
  <2>3. (\A j \in DOMAIN s : s[j].pid # p) <=> m.pid # p /\ (\A j \in DOMAIN t : t[j].pid # p)
    <3>1. ASSUME \A j \in DOMAIN s : s[j].pid # p PROVE m.pid # p /\ \A j \in DOMAIN t : t[j].pid # p
      <4>1. 1 \in DOMAIN s
        BY <1>5
      <4>2. ASSUME NEW j \in DOMAIN t PROVE t[j].pid # p
        BY <2>2, <3>1
      <4>3. QED BY <1>5, <3>1, <4>1, <4>2
    <3>2. ASSUME m.pid # p, \A j \in DOMAIN t : t[j].pid # p, NEW j \in DOMAIN s PROVE s[j].pid # p
      <4>1. CASE j = 1
        BY <1>5, <3>2, <4>1
      <4>2. CASE j # 1
        BY <1>5, <2>1, <3>2, <4>2
      <4>3. QED BY <4>1, <4>2
    <3>3. QED BY <3>1, <3>2
  <2>4. ASSUME NEW j \in 1 .. (n - 1)
        PROVE  (\A k \in DOMAIN s : k > j + 1 => s[k].pid # p) <=> (\A k \in DOMAIN t : k > j => t[k].pid # p)
    <3>1. ASSUME \A k \in DOMAIN s : k > j + 1 => s[k].pid # p, NEW k \in DOMAIN t, k > j
          PROVE  t[k].pid # p
      <4>1. k + 1 > j + 1
        BY <2>2, <3>1
      <4>2. QED BY <2>2, <3>1, <4>1
    <3>2. ASSUME \A k \in DOMAIN t : k > j => t[k].pid # p, NEW k \in DOMAIN s, k > j + 1
          PROVE  s[k].pid # p
      <4>1. k \in 1 .. n /\ k # 1 /\ k - 1 > j
        BY <1>5, <3>2
      <4>2. k - 1 \in DOMAIN t /\ t[k - 1] = s[k]
        BY <1>5, <2>1, <4>1
      <4>3. QED BY <3>2, <4>1, <4>2
    <3>3. QED BY <3>1, <3>2
  <2>5. (\A k \in DOMAIN s : k > 1 => s[k].pid # p) <=> (\A k \in DOMAIN t : t[k].pid # p)
    <3>1. ASSUME \A k \in DOMAIN s : k > 1 => s[k].pid # p, NEW k \in DOMAIN t
          PROVE  t[k].pid # p
      BY <2>2, <3>1
    <3>2. ASSUME \A k \in DOMAIN t : t[k].pid # p, NEW k \in DOMAIN s, k > 1
          PROVE  s[k].pid # p
      <4>1. k - 1 \in DOMAIN t /\ t[k - 1] = s[k]
        BY <1>5, <2>1, <3>2
      <4>2. QED BY <3>2, <4>1
    <3>3. QED BY <3>1, <3>2
  <2>6. p \in qs <=> IF m.pid = p THEN m.op = "INICIAR_PROCESO" ELSE p \in ps
    BY <1>4
  <2>7. s[1] = [op |-> "INICIAR_PROCESO", pid |-> p] <=> m.op = "INICIAR_PROCESO" /\ m.pid = p
    BY <1>5, <1>6
  <2> DEFINE Inicia(f, D) == \E j \in D : /\ f[j] = [op |-> "INICIAR_PROCESO", pid |-> p]
                                         /\ \A k \in D : k > j => f[k].pid # p
  <2>8. Inicia(s, DOMAIN s) <=>
          \/ m.op = "INICIAR_PROCESO" /\ m.pid = p /\ \A k \in DOMAIN t : t[k].pid # p
          \/ Inicia(t, DOMAIN t)
    <3>1. ASSUME NEW j \in DOMAIN t, t[j] = [op |-> "INICIAR_PROCESO", pid |-> p],
                 \A k \in DOMAIN t : k > j => t[k].pid # p
          PROVE  Inicia(s, DOMAIN s)
      <4>1. j + 1 \in DOMAIN s /\ s[j + 1] = [op |-> "INICIAR_PROCESO", pid |-> p]
        BY <1>5, <2>2, <3>1
      <4>2. \A k \in DOMAIN s : k > j + 1 => s[k].pid # p
        BY <1>5, <2>4, <3>1
      <4>3. QED BY <4>1, <4>2
    <3>2. ASSUME NEW j \in DOMAIN s, s[j] = [op |-> "INICIAR_PROCESO", pid |-> p],
                 \A k \in DOMAIN s : k > j => s[k].pid # p, j # 1
          PROVE  Inicia(t, DOMAIN t)
      <4>1. PICK i : i = j - 1
        OBVIOUS
      <4>2. i \in DOMAIN t /\ i \in 1 .. (n - 1) /\ t[i] = [op |-> "INICIAR_PROCESO", pid |-> p] /\ j = i + 1
        BY <1>5, <2>1, <3>2, <4>1
      <4>3. \A k \in DOMAIN t : k > i => t[k].pid # p
        BY <2>4, <3>2, <4>2
      <4>4. QED BY <4>2, <4>3
    <3>3. 1 \in DOMAIN s
      BY <1>5
    <3>4. QED BY <2>5, <2>7, <3>1, <3>2, <3>3
  <2>9. /\ p \in TrasServir(qs, t) <=> (p \in qs /\ \A j \in DOMAIN t : t[j].pid # p) \/ Inicia(t, DOMAIN t)
        /\ p \in TrasServir(ps, s) <=> (p \in ps /\ \A j \in DOMAIN s : s[j].pid # p) \/ Inicia(s, DOMAIN s)
    BY DEF TrasServir
  <2> HIDE DEF Inicia
  <2>10. QED BY <2>3, <2>6, <2>8, <2>9
<1>8. \A p : p \in TrasServir(qs, t) \/ p \in TrasServir(ps, s) => p \in PidsOCero
  BY DEF TrasServir
<1>9. TrasServir(qs, t) = TrasServir(ps, s)
  BY <1>7, <1>8
<1>10. QED BY <1>1, <1>3, <1>4, <1>9, Zenon
USE ConstantesBienFormadas, NombresDistintos

-----------------------------------------------------------------------------
(* The degree of multiprogramming *)

EstadosCargados == {"READY", "EXEC", "BLOCKED"}

\* The loaded processes.
Cargados == {p \in Creados : pcb[p].estado \in {"READY", "EXEC", "BLOCKED"}}

\* The unit in the hands of the NEW -> READY thread.
EnMano == IF pc["largo"] \in {"pausa", "creando"} THEN 1 ELSE 0

\* They are finitely many.
LEMMA CargadosFinitos ==
  ASSUME TypeOK
  PROVE  IsFiniteSet(Cargados) /\ Cardinality(Cargados) \in Nat /\ Cargados \subseteq Pids
<1>1. Cargados \subseteq 1 .. MaxPid
  BY DEF TypeOK, Cargados, Creados
<1>2. IsFiniteSet(1 .. MaxPid)
  BY FS_Interval
<1>3. QED BY <1>1, <1>2, FS_Subset, FS_CardinalityType DEF Pids

\* Nobody is loaded or leaves.
CargaIgual == \A q \in Pids : (pcb'[q].estado \in EstadosCargados) <=> (pcb[q].estado \in EstadosCargados)

\* Then the set is the same.
LEMMA CargadosIguales ==
  ASSUME TypeOK, CargaIgual, UNCHANGED pid
  PROVE  Cargados' = Cargados
<1>1. Creados' = Creados /\ Creados \subseteq Pids
  BY DEF TypeOK, Creados, Pids
<1>2. QED BY <1>1 DEF CargaIgual, Cargados, EstadosCargados

\* A new process is not loaded.
LEMMA CargadosIniciar ==
  ASSUME TypeOK, IniciarProceso
  PROVE  Cargados' = Cargados
<1>1. /\ pid \in Pids /\ pcb' = [pcb EXCEPT ![pid] = PCBNuevo] /\ pid' = pid + 1
      /\ pcb \in [Pids -> PCBs]
  BY DEF IniciarProceso, TypeOK
<1>2. Creados' = Creados \cup {pid} /\ pid \notin Creados /\ Creados \subseteq Pids
  BY <1>1 DEF Creados, Pids
<1>3. pcb'[pid].estado = "NEW" /\ \A q \in Creados : pcb'[q] = pcb[q]
  BY <1>1, <1>2 DEF PCBNuevo
<1>4. QED BY <1>2, <1>3 DEF Cargados

\* From READY, RUNNING and the blocked queues to one another nobody is loaded
\* or leaves.
LEMMA CargaMovida ==
  ASSUME TypeOK, Control, InvLugar,
         \/ FinalizarExtrae
         \/ EligeProceso \/ TrataFin \/ TrataRecursoInvalido \/ TrataIOInvalida \/ TrataFinQuantum
         \/ WaitBloquea \/ IOBloquea \/ SignalEntrega \/ LiberaInstancia
         \/ \E i \in Interfaces : DesbloqueaIO(i)
  PROVE  CargaIgual
<1>1. /\ pcb \in [Pids -> PCBs] /\ cola \in [Colas -> Seq(Pids)] /\ EnLugar /\ RunningEnOrden
      /\ {"READY", "READY_VRR", "RUNNING"} \subseteq Colas \ {"EXIT"}
      /\ Recursos \cup Interfaces \subseteq Colas \ {"EXIT"}
  BY DEF TypeOK, InvLugar, Colas, ColasFijas
\* The first of a queue of loaded processes is loaded.
<1>2. ASSUME NEW c \in Colas \ {"EXIT", "NEW"}, NEW p, p = Head(cola[c]), cola[c] # <<>>
      PROVE  p \in Pids /\ pcb[p].estado \in EstadosCargados
  <2>1. cola[c] \in Seq(Pids)
    BY <1>1
  <2>2. p \in Pids /\ Contains(cola[c], p)
    BY <1>2, <2>1, PrimeroDeCola
  <2>3. c \in LugaresDe(p)
    BY <1>1, <1>2, <2>2, EnCola
  <2>4. QED BY <1>2, <2>2, <2>3, EstadoDeCola DEF EstadosCargados, Colas, ColasFijas
\* One that is loaded gets another such state.
<1>3. ASSUME NEW p \in Pids, pcb[p].estado \in EstadosCargados,
             pcb'[p].estado \in EstadosCargados, \A q \in Pids : q # p => pcb'[q].estado = pcb[q].estado
      PROVE  CargaIgual
  BY <1>3 DEF CargaIgual
<1>4. CASE FinalizarExtrae \/ TrataFin \/ TrataRecursoInvalido \/ TrataIOInvalida
  <2>1. \/ pcb' = pcb
        \/ \E p, resto : pcb' = [pcb EXCEPT ![p].parcial = resto]
        \/ \E p : pcb' = [pcb EXCEPT ![p].pedido_exit = TRUE]
    BY <1>4 DEF FinalizarExtrae, TrataFin, TrataRecursoInvalido, TrataIOInvalida, MandaAExit
  <2>2. ASSUME NEW p, NEW resto, pcb' = [pcb EXCEPT ![p].parcial = resto] PROVE CargaIgual
    BY <1>1, <2>2 DEF CargaIgual, PCBs
  <2>3. ASSUME NEW p, pcb' = [pcb EXCEPT ![p].pedido_exit = TRUE] PROVE CargaIgual
    BY <1>1, <2>3 DEF CargaIgual, PCBs
  <2>4. QED BY <2>1, <2>2, <2>3 DEF CargaIgual
<1>5. CASE EligeProceso
  <2>1. PICK o \in {"READY", "READY_VRR"} : o = ColaDeListos
    BY DEF ColaDeListos
  <2>2. PICK p : p = Head(cola[o])
    OBVIOUS
  <2>3. PICK b : b = IF o = "READY_VRR" THEN pcb[p].parcial ELSE FALSE
    OBVIOUS
  <2>4. cola[o] # <<>> /\ pcb' = [pcb EXCEPT ![p].estado = "EXEC", ![p].parcial = b]
    BY <1>5, <2>1, <2>2, <2>3 DEF EligeProceso
  <2>5. p \in Pids /\ pcb[p].estado \in EstadosCargados
    BY <1>1, <1>2, <2>2, <2>4
  <2>6. QED BY <1>1, <1>3, <2>4, <2>5 DEF PCBs, EstadosCargados
<1>6. CASE TrataFinQuantum \/ WaitBloquea \/ IOBloquea
  <2>1. PICK p : p = corto.proceso
    OBVIOUS
  <2>2. p \in Pids /\ pcb[p].estado = "EXEC"
    <3>1. pc["corto"] \in {"trata", "wait", "io"}
      BY <1>6 DEF TrataFinQuantum, WaitBloquea, IOBloquea, Trata, En
    <3>2. QED BY <1>1, <2>1, <3>1, Tratado
  <2>3. \/ \E b : pcb' = [pcb EXCEPT ![p].estado = "READY", ![p].parcial = b]
        \/ \E b : pcb' = [pcb EXCEPT ![p].estado = "BLOCKED", ![p].cola_bloqueado = b]
    <3>1. PICK b : b = ReiniciaQuantum(pcb[p].parcial)
      OBVIOUS
    <3>2. PICK a : a = corto.arg
      OBVIOUS
    <3>3. \/ pcb' = [pcb EXCEPT ![p].estado = "READY", ![p].parcial = b]
          \/ pcb' = [pcb EXCEPT ![p].estado = "BLOCKED", ![p].cola_bloqueado = a]
      BY <1>6, <2>1, <3>1, <3>2 DEF TrataFinQuantum, WaitBloquea, IOBloquea
    <3>4. QED BY <3>3
  <2>4. ASSUME NEW b, pcb' = [pcb EXCEPT ![p].estado = "READY", ![p].parcial = b] PROVE CargaIgual
    BY <1>1, <1>3, <2>2, <2>4 DEF PCBs, EstadosCargados
  <2>5. ASSUME NEW b, pcb' = [pcb EXCEPT ![p].estado = "BLOCKED", ![p].cola_bloqueado = b]
        PROVE  CargaIgual
    BY <1>1, <1>3, <2>2, <2>5 DEF PCBs, EstadosCargados
  <2>6. QED BY <2>3, <2>4, <2>5
<1>7. ASSUME NEW r \in Recursos, NEW pcbs \in [Pids -> PCBs],
             \A q \in Pids : pcbs[q].estado = pcb[q].estado, EntregaInstancia(r, pcbs)
      PROVE  CargaIgual
  <2>1. CASE HayBloqueado(r)
    <3>1. PICK q : q = Head(cola[r])
      OBVIOUS
    <3>2. /\ pcb' = [pcbs EXCEPT ![q].recursos[r] = @ + 1, ![q].estado = "READY",
                                 ![q].cola_bloqueado = Nulo]
          /\ cola[r] # <<>>
      BY <1>7, <2>1, <3>1 DEF EntregaInstancia, HayBloqueado
    <3>3. r \in Colas \ {"EXIT", "NEW"}
      BY <1>1 DEF ColasFijas
    <3>4. q \in Pids /\ pcb[q].estado \in EstadosCargados
      BY <1>2, <3>1, <3>2, <3>3
    <3>5. pcb'[q].estado = "READY" /\ \A x \in Pids : x # q => pcb'[x].estado = pcb[x].estado
      BY <1>7, <3>2, <3>4 DEF PCBs
    <3>6. QED BY <1>3, <3>4, <3>5 DEF EstadosCargados
  <2>2. CASE ~HayBloqueado(r)
    BY <1>7, <2>2 DEF EntregaInstancia, CargaIgual
  <2>3. QED BY <2>1, <2>2
<1>8. CASE SignalEntrega
  BY <1>1, <1>7, <1>8 DEF SignalEntrega, Control, CortoEnOrden, En
<1>9. CASE LiberaInstancia
  <2>1. PICK s : s = largo.saliente
    OBVIOUS
  <2>2. PICK r : r = largo.recurso
    OBVIOUS
  <2>3. PICK pcbs : pcbs = [pcb EXCEPT ![s].recursos[r] = Devuelto(@)]
    OBVIOUS
  <2>4. r \in Recursos /\ EntregaInstancia(r, pcbs)
    BY <1>9, <2>1, <2>2, <2>3 DEF LiberaInstancia, Control, LargoEnOrden, En
  <2>5. \A q \in Pids : pcbs[q].estado = pcb[q].estado
    BY <1>1, <2>3 DEF PCBs
  <2>6. pcbs \in [Pids -> PCBs]
    <3>1. s \in Pids
      BY <1>1, <1>9, <2>1, DeLargo DEF LiberaInstancia, En
    <3>2. PICK n : n = Devuelto(pcb[s].recursos[r])
      OBVIOUS
    <3>3. n \in Nat
      <4>1. pcb[s].recursos[r] \in Nat
        BY <1>1, <2>4, <3>1, ValorPCB
      <4>2. QED BY <3>2, <4>1 DEF Devuelto
    <3>4. [pcb[s] EXCEPT !.recursos[r] = n] \in PCBs
      BY <1>1, <2>4, <3>1, <3>3, CampoPCB
    <3>5. pcbs = [pcb EXCEPT ![s] = [pcb[s] EXCEPT !.recursos[r] = n]]
      BY <2>3, <3>2
    <3>6. QED BY <1>1, <3>1, <3>4, <3>5
  <2>7. QED BY <1>7, <2>4, <2>5, <2>6
<1>10. ASSUME NEW i \in Interfaces, DesbloqueaIO(i) PROVE CargaIgual
  <2>1. PICK p : p = Head(cola[i])
    OBVIOUS
  <2>2. cola[i] # <<>> /\ pcb' = [pcb EXCEPT ![p].estado = "READY"]
    BY <1>10, <2>1 DEF DesbloqueaIO, Atendido
  <2>3. i \in Colas \ {"EXIT", "NEW"}
    BY <1>1 DEF ColasFijas
  <2>4. p \in Pids /\ pcb[p].estado \in EstadosCargados
    BY <1>2, <2>1, <2>2, <2>3
  <2>5. QED BY <1>1, <1>3, <2>2, <2>4 DEF PCBs, EstadosCargados
<1>11. QED BY <1>4, <1>5, <1>6, <1>8, <1>9, <1>10

\* sem_wait and sem_post on other semaphores leave the units as they are.
LEMMA GradoAjeno ==
  ASSUME sem \in [Semaforos -> Nat], NEW e, NEW a, Sems(e, a), "grado" \notin e, "grado" \notin a
  PROVE  sem'["grado"] = sem["grado"]
<1>1. "grado" \in Semaforos
  BY DEF Semaforos, SemaforosFijos
<1>2. QED BY <1>1 DEF Sems

\* The name of the semaphore is no mutex.
LEMMA NombreGrado ==
  /\ "grado" \in Semaforos /\ "grado" \notin Pausadas \cup Interfaces
  /\ "grado" \notin {"pausada0", "pausada1", "pausada2", "pausada3", "corto", "largo", "exit", "inst"}
  /\ {"pausada0", "pausada1", "pausada2", "pausada3"} = Pausadas
BY DEF Semaforos, SemaforosFijos, Pausadas, Pausada, ToSet

\* Only the console changes the configured degree, and takes or gives as many
\* units as it changes it by.
LEMMA GradoConsola ==
  ASSUME TypeOK, Control, Usuario \/ Consola
  PROVE  \E d \in Int : /\ sem'["grado"] = sem["grado"] + d /\ consola'.grado = consola.grado + d
                        /\ sem["grado"] \in Nat /\ consola.grado \in Nat
<1>1. /\ sem \in [Semaforos -> Nat] /\ consola \in TConsola /\ Sueltas \subseteq Pausadas
      /\ sem["grado"] \in Nat /\ consola.grado \in Nat
  BY NombreGrado DEF TypeOK, Sueltas, TConsola
<1>2. CASE sem'["grado"] = sem["grado"] /\ consola'.grado = consola.grado
  BY <1>1, <1>2
<1>3. CASE PideComandoGlobal \/ \E p \in Creados : PideFinalizar(p)
  BY <1>1, <1>2, <1>3 DEF PideComandoGlobal, PideFinalizar, PideComando, TConsola
<1>4. CASE IniciarProceso
  BY <1>1, <1>2, <1>4, NombreGrado, GradoAjeno DEF IniciarProceso, locales
<1>5. CASE IniciarPlanificacion
  BY <1>1, <1>2, <1>5, NombreGrado, GradoAjeno DEF IniciarPlanificacion, TConsola
<1>6. ASSUME NEW g \in Grados, SubeMultiprogramacion(g) \/ PideBajarMultiprogramacion(g)
      PROVE  \E d \in Int : /\ sem'["grado"] = sem["grado"] + d /\ consola'.grado = consola.grado + d
                            /\ sem["grado"] \in Nat /\ consola.grado \in Nat
  <2>1. CASE PideBajarMultiprogramacion(g)
    BY <1>1, <1>2, <2>1 DEF PideBajarMultiprogramacion, TConsola
  <2>2. CASE SubeMultiprogramacion(g)
    <3>1. g \in Nat
      OBVIOUS
    <3>2. PICK d \in Int : d = g - consola.grado
      BY <1>1, <3>1
    <3>3. sem'["grado"] = sem["grado"] + d
      BY <1>1, <2>2, <3>2, NombreGrado DEF SubeMultiprogramacion
    <3>4. consola'.grado = g
      BY <1>1, <2>2 DEF SubeMultiprogramacion, TConsola
    <3>5. consola'.grado = consola.grado + d
      BY <1>1, <3>1, <3>2, <3>4
    <3>6. QED BY <1>1, <3>3, <3>5
  <2>3. QED BY <1>6, <2>1, <2>2
<1>7. CASE TomaPausada
  <2>1. consola.tomados + 1 \in 1 .. 4
    BY <1>1, <1>7 DEF TConsola, Control, ConsolaEnOrden, TomaPausada
  <2>2. \A j \in 1 .. 4 : Pausada[j] \in Pausadas
    BY DEF Pausadas, Pausada, ToSet
  <2>3. PICK s : s = Pausada[consola.tomados + 1]
    OBVIOUS
  <2>4. s \in Pausadas /\ Sems({s}, {})
    BY <1>7, <2>1, <2>2, <2>3 DEF TomaPausada
  <2>5. sem'["grado"] = sem["grado"]
    BY <1>1, <2>4, NombreGrado, GradoAjeno
  <2>6. consola'.grado = consola.grado
    BY <1>1, <1>7 DEF TomaPausada, TConsola
  <2>7. QED BY <1>2, <2>5, <2>6
<1>8. CASE \E a \in SUBSET {"exit"} : FinComando(a)
  <2>1. PICK a \in SUBSET {"exit"} : FinComando(a)
    BY <1>8
  <2>2. sem'["grado"] = sem["grado"]
    <3>1. PICK t : t = a \cup Sueltas
      OBVIOUS
    <3>2. Sems({}, t) /\ "grado" \notin t
      BY <1>1, <2>1, <3>1, NombreGrado DEF FinComando
    <3>3. QED BY <1>1, <3>2, GradoAjeno
  <2>3. consola'.grado = consola.grado
    BY <1>1, <2>1 DEF FinComando, TConsola
  <2>4. QED BY <1>2, <2>2, <2>3
<1>9. CASE DetenerPlanificacion \/ FinalizarEnEjecucion \/ FinalizarCuelga \/ FinalizarNulo
  BY <1>1, <1>2, <1>9 DEF DetenerPlanificacion, FinalizarEnEjecucion, FinalizarCuelga, FinalizarNulo,
    locales, TConsola
<1>10. CASE BajaMultiprogramacion
  <2>1. sem["grado"] > 0 /\ sem'["grado"] = (sem["grado"] - 1) + 0
    BY <1>10, NombreGrado DEF BajaMultiprogramacion, Sems
  <2>2. consola'.grado = consola.grado - 1
    BY <1>1, <1>10 DEF BajaMultiprogramacion, TConsola
  <2>3. PICK d \in Int : d = -1
    OBVIOUS
  <2>4. sem'["grado"] = sem["grado"] + d /\ consola'.grado = consola.grado + d
    BY <1>1, <2>1, <2>2, <2>3
  <2>5. QED BY <1>1, <2>4
<1>11. CASE ProcesoEstado \/ FinalizarSinEfecto \/ MarcaPedidoFinalizacion \/ FinalizarExtrae
  BY <1>8, <1>11 DEF ProcesoEstado, FinalizarSinEfecto, MarcaPedidoFinalizacion, FinalizarExtrae
<1>12. QED BY <1>3, <1>4, <1>5, <1>6, <1>7, <1>9, <1>10, <1>11 DEF Usuario, Consola

\* Nor do the short-term scheduler and the handlers touch the units.
LEMMA GradoCorto ==
  ASSUME TypeOK, Control, Corto \/ LiberaInstancia \/ \E i \in Interfaces : Manejador(i)
  PROVE  sem'["grado"] = sem["grado"]
<1>1. sem \in [Semaforos -> Nat] /\ (pc["corto"] \in {"io", "io_envia"} => corto.arg \in Interfaces)
  BY DEF TypeOK, Control, CortoEnOrden
<1>2. CASE EnviaProcesoACpu \/ RecibeDesalojo \/ RespondeCpu \/ LimpiaDesalojo
  BY <1>2 DEF EnviaProcesoACpu, RecibeDesalojo, RespondeCpu, LimpiaDesalojo
<1>3. CASE \/ EsperaOrdenCorto \/ EligeProceso \/ NoHayListos \/ TrataFin \/ TrataRecursoInvalido
           \/ AvisaExit \/ TrataWait \/ WaitBloquea \/ WaitConcede \/ TrataSignal \/ SignalDevuelve
           \/ TrataFinQuantum \/ TrataIOInvalida \/ TrataIO
  <2>1. \E e, a \in SUBSET {"pausada1", "corto", "exit", "inst"} : Sems(e, a)
    BY <1>3 DEF EsperaOrdenCorto, EligeProceso, NoHayListos, TrataFin, TrataRecursoInvalido,
      AvisaExit, TrataWait, WaitBloquea, WaitConcede, TrataSignal, SignalDevuelve, TrataFinQuantum,
      TrataIOInvalida, TrataIO, MandaAExit, PasoCorto
  <2>2. PICK e \in SUBSET {"pausada1", "corto", "exit", "inst"},
             a \in SUBSET {"pausada1", "corto", "exit", "inst"} : Sems(e, a)
    BY <2>1
  <2>3. QED BY <1>1, <2>2, NombreGrado, GradoAjeno
<1>4. CASE SignalEntrega \/ LiberaInstancia
  <2>1. PICK r, pcbs : EntregaInstancia(r, pcbs)
    BY <1>4 DEF SignalEntrega, LiberaInstancia
  <2>2. "grado" \in Semaforos \ {"inst", "corto"}
    BY NombreGrado
  <2>3. QED BY <1>1, <2>1, <2>2, EntregaSems
<1>5. CASE IOBloquea \/ IOEnvia
  <2>1. PICK i \in Interfaces : i = corto.arg
    BY <1>1, <1>5 DEF IOBloquea, IOEnvia, En
  <2>2. Sems({i}, {"pausada1"}) \/ Sems({}, {i})
    BY <1>5, <2>1 DEF IOBloquea, IOEnvia
  <2>3. QED BY <1>1, <2>2, NombreGrado, GradoAjeno
<1>6. ASSUME NEW i \in Interfaces, Manejador(i) PROVE sem'["grado"] = sem["grado"]
  <2>1. \/ UNCHANGED sem \/ Sems({"pausada2"}, {}) \/ Sems({i}, {"pausada2", "corto"})
        \/ Sems({i}, {"pausada2"}) \/ Sems({}, {i})
    BY <1>6 DEF Manejador, RecibeIOLiberar, TomaMediano, DesbloqueaIO, NadieQueDesbloquear,
      AtiendeSiguiente, LiberaInterfaz
  <2>2. QED BY <1>1, <2>1, NombreGrado, GradoAjeno
<1>7. QED BY <1>2, <1>3, <1>4, <1>5, <1>6 DEF Corto

\* The sum, with the loaded processes by their name.
LEMMA GradoFormula ==
  /\ ConservacionGrado <=> sem["grado"] + Cardinality(Cargados) + EnMano = consola.grado
  /\ ConservacionGrado' <=> sem'["grado"] + Cardinality(Cargados') + EnMano' = consola'.grado
BY DEF ConservacionGrado, Cargados, EnMano

\* Nothing moves between the addends.
LEMMA GradoQuieto ==
  ASSUME TypeOK, ConservacionGrado, Cargados' = Cargados, EnMano' = EnMano, NEW d \in Int,
         sem'["grado"] = sem["grado"] + d, consola'.grado = consola.grado + d,
         sem["grado"] \in Nat, consola.grado \in Nat
  PROVE  ConservacionGrado'
<1>1. Cardinality(Cargados) \in Nat /\ EnMano \in Nat
  BY CargadosFinitos DEF EnMano
<1>2. \A a, b, c, g \in Nat : a + b + c = g => (a + d) + b + c = g + d
  OBVIOUS
<1>3. sem["grado"] + Cardinality(Cargados) + EnMano = consola.grado
  BY GradoFormula
<1>4. (sem["grado"] + d) + Cardinality(Cargados) + EnMano = consola.grado + d
  BY <1>1, <1>2, <1>3
<1>5. QED BY <1>4, GradoFormula

\* The NEW -> READY thread loads a process.
LEMMA CargadosEntra ==
  ASSUME InvLugar, PasaAReady
  PROVE  largo.entrante \notin Cargados /\ Cargados' = Cargados \cup {largo.entrante}
<1>1. TypeOK /\ EnLugar /\ pcb \in [Pids -> PCBs]
  BY DEF InvLugar, Inv, TypeOK
<1>2. PICK p : p = largo.entrante
  OBVIOUS
<1>3. p \in Creados /\ pcb[p].estado = "NEW" /\ p \in Pids
  BY <1>1, <1>2, DeLargo DEF PasaAReady, En
<1>4. pcb' = [pcb EXCEPT ![p].estado = "READY"] /\ UNCHANGED pid
  BY <1>2 DEF PasaAReady
<1>5. Creados' = Creados /\ Creados \subseteq Pids
  BY <1>1, <1>4, DeLargo DEF Creados
<1>6. pcb'[p].estado = "READY" /\ \A q \in Pids : q # p => pcb'[q].estado = pcb[q].estado
  BY <1>1, <1>3, <1>4 DEF PCBs
<1>7. QED BY <1>2, <1>3, <1>5, <1>6 DEF Cargados

\* The EXIT thread says that a process has ended.
LEMMA CargadosSale ==
  ASSUME InvLugar, MarcaExit
  PROVE  largo.saliente \in Cargados /\ Cargados' = Cargados \ {largo.saliente}
<1>1. TypeOK /\ EnLugar /\ pcb \in [Pids -> PCBs]
  BY DEF InvLugar, Inv, TypeOK
<1>2. PICK p : p = largo.saliente
  OBVIOUS
<1>3. p \in Creados /\ pcb[p].estado \in EstadosCargados /\ p \in Pids
  BY <1>1, <1>2, DeLargo DEF MarcaExit, En, EstadosCargados
<1>4. pcb' = [pcb EXCEPT ![p].estado = "EXIT"] /\ UNCHANGED pid
  BY <1>2 DEF MarcaExit
<1>5. Creados' = Creados /\ Creados \subseteq Pids
  BY <1>1, <1>4, DeLargo DEF Creados
<1>6. pcb'[p].estado = "EXIT" /\ \A q \in Pids : q # p => pcb'[q].estado = pcb[q].estado
  BY <1>1, <1>3, <1>4 DEF PCBs
<1>7. QED BY <1>2, <1>3, <1>5, <1>6 DEF Cargados, EstadosCargados

\* The NEW -> READY thread takes a unit, returns it or loads a process with it.
LEMMA GradoLargo ==
  ASSUME InvLugar, ConservacionGrado, Largo
  PROVE  ConservacionGrado'
<1> DEFINE g == sem["grado"]
           n == Cardinality(Cargados)
<1>1. /\ TypeOK /\ Control /\ EnLugar /\ sem \in [Semaforos -> Nat] /\ g \in Nat
      /\ consola.grado \in Nat /\ n \in Nat /\ IsFiniteSet(Cargados)
      /\ pc \in [Hilos -> Etiquetas] /\ "largo" \in Hilos /\ pcb \in [Pids -> PCBs]
  BY CargadosFinitos, NombreGrado DEF InvLugar, Inv, TypeOK, TConsola, Hilos, HilosFijos
<1>2. consola' = consola
  BY <1>1, AjenoLargo
<1>3. g + n + EnMano = consola.grado
  BY GradoFormula
<1>4. ASSUME NEW m \in Nat, NEW k \in Nat, NEW h \in Nat,
             sem'["grado"] = m, Cardinality(Cargados') = k, EnMano' = h, m + k + h = g + n + EnMano
      PROVE  ConservacionGrado'
  BY <1>2, <1>3, <1>4, GradoFormula
<1> HIDE DEF g, n
<1>5. CASE EsperaOrdenLargo \/ SacaDeNew
  <2>1. UNCHANGED <<pid, pcb>>
    BY <1>5 DEF EsperaOrdenLargo, SacaDeNew, procesos
  <2>2. Cargados' = Cargados
    BY <1>1, <2>1, CargadosIguales DEF CargaIgual
  <2>3. sem'["grado"] = g
    BY <1>1, <1>5, NombreGrado, GradoAjeno DEF EsperaOrdenLargo, SacaDeNew, g
  <2>4. EnMano' = EnMano
    BY <1>1, <1>5 DEF EsperaOrdenLargo, SacaDeNew, En, Va, EnMano
  <2>5. EnMano \in Nat
    BY DEF EnMano
  <2>6. QED BY <1>1, <1>4, <2>2, <2>3, <2>4, <2>5 DEF n
<1>6. CASE TomaGrado \/ NewVacia
  <2>1. UNCHANGED <<pid, pcb>>
    BY <1>6 DEF TomaGrado, NewVacia, procesos
  <2>2. Cargados' = Cargados
    BY <1>1, <2>1, CargadosIguales DEF CargaIgual
  <2>3. CASE TomaGrado
    <3>1. g > 0 /\ sem'["grado"] = g - 1
      <4>1. g > 0 /\ sem'["grado"] = (g - 1) + 0
        BY <2>3, NombreGrado DEF TomaGrado, Sems, g
      <4>2. QED BY <1>1, <4>1
    <3>2. EnMano = 0 /\ EnMano' = 1
      BY <1>1, <2>3 DEF TomaGrado, En, Va, EnMano
    <3>3. g - 1 \in Nat /\ (g - 1) + n + 1 = g + n + 0
      BY <1>1, <3>1
    <3>4. QED BY <1>1, <1>4, <2>2, <3>1, <3>2, <3>3 DEF n
  <2>4. CASE NewVacia
    <3>1. sem'["grado"] = g + 1
      <4>1. sem'["grado"] = (g - 0) + 1
        BY <2>4, NombreGrado DEF NewVacia, Sems, g
      <4>2. QED BY <1>1, <4>1
    <3>2. EnMano = 1 /\ EnMano' = 0
      BY <1>1, <2>4 DEF NewVacia, En, Va, EnMano
    <3>3. g + 1 \in Nat /\ (g + 1) + n + 0 = g + n + 1
      BY <1>1
    <3>4. QED BY <1>1, <1>4, <2>2, <3>1, <3>2, <3>3 DEF n
  <2>5. QED BY <1>6, <2>3, <2>4
<1>7. CASE PasaAReady
  <2>1. PICK p : p = largo.entrante
    OBVIOUS
  <2>4. p \notin Cargados /\ Cargados' = Cargados \cup {p}
    BY <1>7, <2>1, CargadosEntra
  <2>5. Cardinality(Cargados') = n + 1
    BY <1>1, <2>4, FS_AddElement DEF n
  <2>6. sem'["grado"] = g
    BY <1>1, <1>7, NombreGrado, GradoAjeno DEF PasaAReady, g
  <2>7. EnMano = 1 /\ EnMano' = 0
    BY <1>1, <1>7 DEF PasaAReady, En, Va, EnMano
  <2>8. n + 1 \in Nat /\ g + (n + 1) + 0 = g + n + 1
    BY <1>1
  <2>9. QED BY <1>1, <1>4, <2>5, <2>6, <2>7, <2>8
<1>8. QED BY <1>5, <1>6, <1>7 DEF Largo

\* The EXIT thread returns the unit of the process it unloads.
LEMMA GradoExit ==
  ASSUME InvLugar, ConservacionGrado, Exit
  PROVE  ConservacionGrado'
<1> DEFINE g == sem["grado"]
           n == Cardinality(Cargados)
<1>1. /\ TypeOK /\ Control /\ EnLugar /\ sem \in [Semaforos -> Nat] /\ g \in Nat
      /\ consola.grado \in Nat /\ n \in Nat /\ IsFiniteSet(Cargados) /\ EnMano \in Nat
      /\ pc \in [Hilos -> Etiquetas] /\ {"largo", "exit"} \subseteq Hilos /\ pcb \in [Pids -> PCBs]
  BY CargadosFinitos, NombreGrado DEF InvLugar, Inv, TypeOK, TConsola, Hilos, HilosFijos, EnMano
<1>2. consola' = consola /\ EnMano' = EnMano
  BY <1>1, AjenoExit DEF EnMano
<1>3. ASSUME Cargados' = Cargados, sem'["grado"] = g PROVE ConservacionGrado'
  BY <1>1, <1>2, <1>3, GradoQuieto
<1>4. CASE LiberaInstancia
  <2>1. Cargados' = Cargados
    BY <1>1, <1>4, CargaMovida, CargadosIguales DEF LiberaInstancia
  <2>2. QED BY <1>1, <1>3, <1>4, <2>1, GradoCorto
<1>5. CASE EsperaOrdenExit \/ ExitDesdeOtro \/ LiberaTomaInst \/ LiberaMemoria \/ MemoriaLiberada
  <2>1. UNCHANGED <<pid, pcb>>
    BY <1>5 DEF EsperaOrdenExit, ExitDesdeOtro, LiberaTomaInst, LiberaMemoria, MemoriaLiberada, procesos
  <2>2. Cargados' = Cargados
    BY <1>1, <2>1, CargadosIguales DEF CargaIgual
  <2>3. sem'["grado"] = g
    BY <1>1, <1>5, NombreGrado, GradoAjeno
      DEF EsperaOrdenExit, ExitDesdeOtro, LiberaTomaInst, LiberaMemoria, MemoriaLiberada
  <2>4. QED BY <1>3, <2>2, <2>3
<1>6. CASE ExitDesdeNew
  <2>1. PICK p : p = Head(cola["EXIT"])
    OBVIOUS
  <2>2. pcb' = [pcb EXCEPT ![p].estado = "EXIT"] /\ pcb[p].estado = "NEW" /\ UNCHANGED pid
    BY <1>6, <2>1 DEF ExitDesdeNew
  <2>3. CargaIgual
    BY <1>1, <2>2 DEF CargaIgual, EstadosCargados, PCBs
  <2>4. sem'["grado"] = g
    BY <1>1, <1>6, NombreGrado, GradoAjeno DEF ExitDesdeNew
  <2>5. QED BY <1>1, <1>3, <2>2, <2>3, <2>4, CargadosIguales
<1>7. CASE SacaDeExit
  <2>1. PICK p : p = largo.saliente
    OBVIOUS
  <2>2. pcb' = [pcb EXCEPT ![p].instruccion_io = FALSE] /\ UNCHANGED <<pid, sem>>
    BY <1>7, <2>1 DEF SacaDeExit
  <2>3. CargaIgual
    BY <1>1, <2>2 DEF CargaIgual, PCBs
  <2>4. QED BY <1>1, <1>3, <2>2, <2>3, CargadosIguales
<1>8. CASE MarcaExit
  <2>1. PICK p : p = largo.saliente
    OBVIOUS
  <2>4. p \in Cargados /\ Cargados' = Cargados \ {p}
    BY <1>8, <2>1, CargadosSale
  <2>5. Cardinality(Cargados') = n - 1 /\ n - 1 \in Nat
    <3>1. Cardinality(Cargados') = n - 1 /\ IsFiniteSet(Cargados')
      BY <1>1, <2>4, FS_RemoveElement
    <3>2. QED BY <3>1, FS_CardinalityType
  <2>6. sem'["grado"] = g + 1
    <3>1. sem'["grado"] = (g - 0) + 1
      BY <1>8, NombreGrado DEF MarcaExit, DevuelveGrado, Sems
    <3>2. QED BY <1>1, <3>1
  <2>7. g + n + EnMano = consola.grado
    BY GradoFormula
  <2>8. \A a, b, c \in Nat : (a + 1) + (b - 1) + c = a + b + c
    OBVIOUS
  <2>9. (g + 1) + (n - 1) + EnMano = consola.grado
    <3>1. ASSUME NEW a \in Nat, NEW b \in Nat, NEW c \in Nat, a + b + c = consola.grado
          PROVE  (a + 1) + (b - 1) + c = consola.grado
      BY <2>8, <3>1
    <3> HIDE DEF g, n
    <3>2. QED BY <1>1, <2>7, <3>1
  <2>10. QED BY <1>2, <2>5, <2>6, <2>9, GradoFormula
<1>9. QED BY <1>4, <1>5, <1>6, <1>7, <1>8 DEF Exit

\* Every step keeps the sum.
LEMMA GradoPaso ==
  ASSUME InvLugar, ConservacionGrado, [Next]_vars
  PROVE  ConservacionGrado'
<1>1. /\ TypeOK /\ Control /\ pc \in [Hilos -> Etiquetas] /\ "largo" \in Hilos
      /\ "largo" \notin Interfaces /\ sem["grado"] \in Nat /\ consola.grado \in Nat
      /\ pcb \in [Pids -> PCBs]
  BY NombreGrado DEF InvLugar, Inv, TypeOK, TConsola, Hilos, HilosFijos
\* The NEW -> READY thread is where it was, and who is loaded too.
<1>2. ASSUME pc'["largo"] = pc["largo"], CargaIgual, UNCHANGED pid, NEW d \in Int,
             sem'["grado"] = sem["grado"] + d, consola'.grado = consola.grado + d
      PROVE  ConservacionGrado'
  <2>1. Cargados' = Cargados /\ EnMano' = EnMano
    BY <1>1, <1>2, CargadosIguales DEF EnMano
  <2>2. QED BY <1>1, <1>2, <2>1, GradoQuieto
<1>3. ASSUME NadieSeVa PROVE CargaIgual /\ UNCHANGED pid
  BY <1>1, <1>3, Quietos DEF CargaIgual, Etapas
<1>4. ASSUME sem'["grado"] = sem["grado"], consola'.grado = consola.grado
      PROVE  \E d \in Int : sem'["grado"] = sem["grado"] + d /\ consola'.grado = consola.grado + d
  BY <1>1, <1>4
<1>5. CASE Usuario \/ Consola
  <2>1. PICK d \in Int : sem'["grado"] = sem["grado"] + d /\ consola'.grado = consola.grado + d
    BY <1>1, <1>5, GradoConsola
  <2>2. pc'["largo"] = pc["largo"]
    BY <1>1, <1>5, AjenoConsola
  <2>3. CASE IniciarProceso
    <3>1. Cargados' = Cargados /\ EnMano' = EnMano
      BY <1>1, <2>2, <2>3, CargadosIniciar DEF EnMano
    <3>2. QED BY <1>1, <2>1, <3>1, GradoQuieto
  <2>4. CASE ~IniciarProceso
    <3>1. CargaIgual /\ UNCHANGED pid
      <4>1. CASE FinalizarExtrae
        BY <1>1, <4>1, CargaMovida DEF FinalizarExtrae
      <4>2. CASE ~FinalizarExtrae
        BY <1>3, <1>5, <2>4, <4>2 DEF NadieSeVa
      <4>3. QED BY <4>1, <4>2
    <3>2. QED BY <1>2, <2>1, <2>2, <3>1
  <2>5. QED BY <2>3, <2>4
<1>6. CASE Corto
  <2>1. sem'["grado"] = sem["grado"]
    BY <1>1, <1>6, GradoCorto
  <2>2. consola' = consola /\ pc'["largo"] = pc["largo"]
    BY <1>1, <1>6, AjenoCorto
  <2>3. PICK d \in Int : sem'["grado"] = sem["grado"] + d /\ consola'.grado = consola.grado + d
    BY <1>4, <2>1, <2>2
  <2>4. Etapas
    BY <1>1, <1>6, EtapasAjenas
  <2>5. CargaIgual
    BY <1>1, <1>3, <1>6, CargaMovida DEF Corto, NadieSeVa
  <2>6. QED BY <1>2, <2>2, <2>3, <2>4, <2>5 DEF Etapas
<1>7. CASE Largo
  BY <1>7, GradoLargo
<1>8. CASE Exit
  BY <1>8, GradoExit
<1>9. ASSUME NEW i \in Interfaces, Manejador(i) PROVE ConservacionGrado'
  <2>1. sem'["grado"] = sem["grado"]
    BY <1>1, <1>9, GradoCorto
  <2>2. consola' = consola /\ pc'["largo"] = pc["largo"]
    BY <1>1, <1>9, AjenoManejador DEF locales
  <2>3. PICK d \in Int : sem'["grado"] = sem["grado"] + d /\ consola'.grado = consola.grado + d
    BY <1>4, <2>1, <2>2
  <2>4. Etapas
    BY <1>1, <1>9, EtapasAjenas
  <2>5. CargaIgual
    BY <1>1, <1>3, <1>9, CargaMovida DEF NadieSeVa
  <2>6. QED BY <1>2, <2>2, <2>3, <2>4, <2>5 DEF Etapas
<1>10. CASE Entorno \/ UNCHANGED vars
  <2>1. UNCHANGED <<sem, consola, pc>>
    BY <1>10, AjenoEntorno DEF vars
  <2>2. PICK d \in Int : sem'["grado"] = sem["grado"] + d /\ consola'.grado = consola.grado + d
    BY <1>4, <2>1
  <2>3. CargaIgual /\ UNCHANGED pid
    BY <1>3, <1>10 DEF NadieSeVa
  <2>4. QED BY <1>2, <2>1, <2>2, <2>3
<1>11. QED BY <1>5, <1>6, <1>7, <1>8, <1>9, <1>10, PasosDelKernel

\* In the beginning every unit is free.
LEMMA GradoInicial == Init => ConservacionGrado
<1> SUFFICES ASSUME Init PROVE ConservacionGrado
  OBVIOUS
<1>1. sem["grado"] = GRADO /\ consola.grado = GRADO /\ EnMano = 0
  BY NombreGrado DEF Init, EnMano, Hilos, HilosFijos
<1>2. Cargados = {}
  BY DEF Init, Cargados, Creados
<1>3. GRADO + 0 + 0 = GRADO
  OBVIOUS
<1>4. QED BY <1>1, <1>2, <1>3, GradoFormula, FS_EmptySet

\* The units free, in the hands of the NEW -> READY thread and taken by loaded
\* processes are as many as the configured degree, with MULTIPROGRAMACION and
\* FINALIZAR_PROCESO at any moment.
THEOREM GradoConservado == Spec => []ConservacionGrado
<1>1. InvLugar /\ ConservacionGrado /\ [Next]_vars => ConservacionGrado'
  BY GradoPaso
<1>2. QED BY <1>1, GradoInicial, InvarianteLugar, PTL DEF Spec

-----------------------------------------------------------------------------
(* The messages between the short-term scheduler and the CPU *)

Ejecutar(p) == [op |-> "EJECUTAR_PROCESO", pid |-> p]
Continuar   == [op |-> "CONTINUAR", pid |-> 0]
Desalojar   == [op |-> "DESALOJAR", pid |-> 0]

PedidosDeRecurso == {"WAIT_RECURSO", "SIGNAL_RECURSO"}

\* Nothing is under way: the CPU has nothing to do, or it waits for an answer
\* that is on its way or that the kernel will never send (HallazgoPedidoPerdido).
EnReposo ==
  /\ desalojos = <<>>
  /\ \/ cpu.estado = "libre" /\ dispatch = <<>>
     \/ cpu.estado = "pide" /\ dispatch \in {<<>>, <<Desalojar>>}

\* Process p is on its way to the CPU, or what the CPU reads is out of step.
Enviado(p) ==
  /\ desalojos = <<>>
  /\ \/ cpu.estado = "libre" /\ dispatch = <<Ejecutar(p)>>
     \/ cpu.estado = "pide" /\ dispatch \in {<<Ejecutar(p)>>, <<Desalojar, Ejecutar(p)>>}
     \/ cpu.estado = "desfasada" /\ dispatch = <<>>

\* The CPU executes p, has sent the reason of its eviction, or goes on with it.
EnRafaga(p) ==
  \/ cpu.estado = "ejecuta" /\ cpu.pid = p /\ dispatch = <<>> /\ desalojos = <<>>
  \/ /\ cpu.estado = "libre" /\ dispatch = <<>>
     /\ \E m \in TDesalojo : desalojos = <<m>> /\ m.motivo \notin PedidosDeRecurso
  \/ /\ cpu.estado = "pide" /\ cpu.pid = p /\ dispatch = <<>>
     /\ \E m \in TDesalojo : desalojos = <<m>> /\ m.motivo \in PedidosDeRecurso
  \/ cpu.estado = "pide" /\ cpu.pid = p /\ dispatch = <<Continuar>> /\ desalojos = <<>>

\* The kernel has read the eviction and not answered yet.
EnTrato ==
  /\ dispatch = <<>> /\ desalojos = <<>>
  /\ \/ pc["corto"] \in {"wait", "signal", "signal_mediano", "responde"}
     \/ En("corto", "trata") /\ corto.motivo \in PedidosDeRecurso
     \/ En("corto", "avisa_exit") /\ corto.respuesta = "DESALOJAR"
     => cpu.estado = "pide" /\ cpu.pid = corto.proceso
  /\ \/ pc["corto"] \in {"io", "io_envia"}
     \/ En("corto", "trata") /\ corto.motivo \notin PedidosDeRecurso
     => cpu.estado = "libre"
  /\ En("corto", "avisa_exit") => cpu.estado \in {"libre", "pide"}

\* Where the CPU and the two ways of its socket are at each point of the
\* short-term scheduler.
Protocolo ==
  /\ pc["corto"] \in {"orden", "elige", "envia"} => EnReposo
  /\ En("corto", "recibe") => Enviado(Head(cola["RUNNING"])) \/ EnRafaga(Head(cola["RUNNING"]))
  /\ En("corto", "limpia") => IF corto.respuesta = "CONTINUAR" THEN EnRafaga(corto.proceso) ELSE EnReposo
  /\ pc["corto"] \in {"trata", "wait", "signal", "signal_mediano", "io", "io_envia",
                      "avisa_exit", "responde"} => EnTrato

\* What the CPU is doing, for who does not look at its interrupts.
MismaCpu == cpu'.estado = cpu.estado /\ cpu'.pid = cpu.pid

\* Nobody else touches the protocol.
LEMMA ProtocoloAjeno ==
  ASSUME Protocolo, MismaCpu, UNCHANGED <<corto, dispatch, desalojos>>, pc'["corto"] = pc["corto"],
         cola'["RUNNING"] = cola["RUNNING"]
  PROVE  Protocolo'
<1>1. EnReposo' = EnReposo /\ EnTrato' = EnTrato
  BY DEF EnReposo, EnTrato, En, MismaCpu
<1>2. \A p : Enviado(p)' = Enviado(p) /\ EnRafaga(p)' = EnRafaga(p)
  BY DEF Enviado, EnRafaga, MismaCpu
<1>3. PICK p : p = Head(cola["RUNNING"])
  OBVIOUS
<1>4. PICK q : q = corto.proceso
  OBVIOUS
<1>5. Head(cola'["RUNNING"]) = p /\ corto'.proceso = q
  BY <1>3, <1>4
<1>6. /\ Enviado(p)' = Enviado(Head(cola["RUNNING"]))' /\ EnRafaga(p)' = EnRafaga(Head(cola["RUNNING"]))'
      /\ EnRafaga(q)' = EnRafaga(corto.proceso)'
  BY <1>5 DEF Enviado, EnRafaga
<1>7. QED BY <1>1, <1>2, <1>3, <1>4, <1>6 DEF Protocolo, En

\* What the thread has to keep at the point it reaches.
LEMMA ProtocoloEn ==
  ASSUME \/ pc'["corto"] \in {"orden", "elige", "envia"} /\ EnReposo'
         \/ pc'["corto"] = "limpia" /\ corto'.respuesta # "CONTINUAR" /\ EnReposo'
         \/ pc'["corto"] \in {"trata", "wait", "signal", "signal_mediano", "io", "io_envia",
                              "avisa_exit", "responde"} /\ EnTrato'
  PROVE  Protocolo'
BY DEF Protocolo, En

\* The same, at the points at which a burst goes on.
LEMMA ProtocoloRafaga ==
  ASSUME NEW p, \/ pc'["corto"] = "recibe" /\ p = Head(cola'["RUNNING"]) /\ (Enviado(p)' \/ EnRafaga(p)')
                \/ pc'["corto"] = "limpia" /\ p = corto'.proceso /\ corto'.respuesta = "CONTINUAR" /\ EnRafaga(p)'
  PROVE  Protocolo'
<1>1. CASE pc'["corto"] = "recibe" /\ p = Head(cola'["RUNNING"])
  <2>1. Enviado(p)' = Enviado(Head(cola["RUNNING"]))' /\ EnRafaga(p)' = EnRafaga(Head(cola["RUNNING"]))'
    BY <1>1 DEF Enviado, EnRafaga
  <2>2. QED BY <1>1, <2>1 DEF Protocolo, En
<1>2. CASE pc'["corto"] = "limpia" /\ p = corto'.proceso
  <2>1. EnRafaga(p)' = EnRafaga(corto.proceso)'
    BY <1>2 DEF EnRafaga
  <2>2. QED BY <1>2, <2>1 DEF Protocolo, En
<1>3. QED BY <1>1, <1>2

\* The short-term scheduler between two bursts.
LEMMA ProtocoloElige ==
  ASSUME TypeOK, Control, Protocolo, EsperaOrdenCorto \/ NoHayListos \/ EligeProceso \/ EnviaProcesoACpu
  PROVE  Protocolo'
<1>1. pc \in [Hilos -> Etiquetas] /\ "corto" \in Hilos /\ pc["corto"] \in {"orden", "elige", "envia"}
  BY DEF TypeOK, Hilos, HilosFijos, EsperaOrdenCorto, NoHayListos, EligeProceso, EnviaProcesoACpu, En
<1>2. EnReposo
  BY <1>1 DEF Protocolo
<1>3. CASE EsperaOrdenCorto \/ NoHayListos \/ EligeProceso
  <2>1. pc'["corto"] \in {"orden", "elige", "envia"} /\ UNCHANGED exterior
    BY <1>1, <1>3 DEF EsperaOrdenCorto, NoHayListos, EligeProceso, Va
  <2>2. EnReposo'
    BY <1>2, <2>1 DEF EnReposo, exterior
  <2>3. QED BY <2>1, <2>2, ProtocoloEn
<1>4. CASE EnviaProcesoACpu
  <2>1. PICK p : p = Head(cola["RUNNING"])
    OBVIOUS
  <2>2. /\ dispatch' = Append(dispatch, Ejecutar(p)) /\ UNCHANGED <<cpu, desalojos, cola>>
        /\ pc'["corto"] = "recibe"
    BY <1>1, <1>4, <2>1 DEF EnviaProcesoACpu, Ejecutar, procesos, Va
  <2>3. Enviado(p)'
    BY <1>2, <2>2, Mensajes DEF EnReposo, Enviado
  <2>4. p = Head(cola'["RUNNING"])
    BY <2>1, <2>2
  <2>5. QED BY <2>2, <2>3, <2>4, ProtocoloRafaga
<1>5. QED BY <1>3, <1>4

\* The short-term scheduler reads why the burst ended.
LEMMA ProtocoloRecibe ==
  ASSUME TypeOK, Control, Protocolo, RecibeDesalojo
  PROVE  Protocolo'
<1>1. /\ pc \in [Hilos -> Etiquetas] /\ "corto" \in Hilos /\ pc["corto"] = "recibe"
      /\ pc' = [pc EXCEPT !["corto"] = "trata"]
  BY DEF TypeOK, Hilos, HilosFijos, RecibeDesalojo, En, Va
<1>2. PICK p : p = Head(cola["RUNNING"])
  OBVIOUS
<1>3. Enviado(p) \/ EnRafaga(p)
  BY <1>1, <1>2 DEF Protocolo, En
<1>4. desalojos # <<>> /\ desalojos' = Tail(desalojos) /\ UNCHANGED <<cpu, dispatch>>
  BY DEF RecibeDesalojo
<1>5. PICK m \in TDesalojo :
        /\ desalojos = <<m>> /\ dispatch = <<>>
        /\ m.motivo \notin PedidosDeRecurso => cpu.estado = "libre"
        /\ m.motivo \in PedidosDeRecurso => cpu.estado = "pide" /\ cpu.pid = p
  BY <1>3, <1>4 DEF Enviado, EnRafaga
<1>6. desalojos' = <<>>
  BY <1>4, <1>5, Mensajes
<1>7. corto'.proceso = p /\ corto'.motivo = m.motivo
  BY <1>2, <1>5, Mensajes DEF RecibeDesalojo
<1>8. pc'["corto"] = "trata"
  BY <1>1
<1>9. EnTrato'
  BY <1>4, <1>5, <1>6, <1>7, <1>8 DEF EnTrato, En
<1>10. QED BY <1>8, <1>9, ProtocoloEn

\* The short-term scheduler treats the end of the burst.
LEMMA ProtocoloTrata ==
  ASSUME TypeOK, Control, Protocolo,
         \/ TrataFin \/ TrataRecursoInvalido \/ AvisaExit
         \/ TrataWait \/ WaitBloquea \/ WaitConcede
         \/ TrataSignal \/ SignalDevuelve \/ SignalEntrega
         \/ TrataFinQuantum \/ TrataIOInvalida \/ TrataIO \/ IOBloquea \/ IOEnvia
  PROVE  Protocolo'
<1>1. /\ pc \in [Hilos -> Etiquetas] /\ "corto" \in Hilos
      /\ corto \in TCorto
  BY DEF TypeOK, Hilos, HilosFijos
<1>2. UNCHANGED <<cpu, dispatch, desalojos>>
  BY DEF TrataFin, TrataRecursoInvalido, MandaAExit, AvisaExit, TrataWait, WaitBloquea, WaitConcede,
    TrataSignal, SignalDevuelve, SignalEntrega, TrataFinQuantum, TrataIOInvalida, TrataIO, IOBloquea,
    IOEnvia, exterior
<1>3. pc["corto"] \in {"trata", "wait", "signal", "signal_mediano", "io", "io_envia", "avisa_exit"}
  BY DEF TrataFin, TrataRecursoInvalido, MandaAExit, AvisaExit, TrataWait, WaitBloquea, WaitConcede,
    TrataSignal, SignalDevuelve, SignalEntrega, TrataFinQuantum, TrataIOInvalida, TrataIO, IOBloquea,
    IOEnvia, Trata, En
<1>4. EnTrato
  BY <1>3 DEF Protocolo
<1>5. Motivo \notin Fines => Motivo = corto.motivo
  BY DEF Motivo, Fines
<1>6. dispatch' = <<>> /\ desalojos' = <<>> /\ cpu' = cpu
  BY <1>2, <1>4 DEF EnTrato
<1>7. CASE TrataFin \/ TrataIOInvalida
  <2>1. pc["corto"] = "trata" /\ pc'["corto"] = "avisa_exit" /\ corto'.respuesta = "NINGUNA"
    BY <1>1, <1>7 DEF TrataFin, TrataIOInvalida, MandaAExit, Trata, En, Va, TCorto, Control, CortoEnOrden
  <2>2. cpu.estado \in {"libre", "pide"}
    BY <1>4, <2>1 DEF EnTrato, En
  <2>3. EnTrato'
    BY <1>6, <2>1, <2>2 DEF EnTrato, En
  <2>4. QED BY <2>1, <2>3, ProtocoloEn
<1>8. CASE TrataRecursoInvalido
  <2>1. /\ pc["corto"] = "trata" /\ pc'["corto"] = "avisa_exit" /\ corto'.proceso = corto.proceso
        /\ Motivo \in PedidosDeRecurso
    BY <1>1, <1>8 DEF TrataRecursoInvalido, MandaAExit, Trata, En, Va, TCorto, PedidosDeRecurso
  <2>2. corto.motivo \in PedidosDeRecurso
    BY <1>5, <2>1 DEF PedidosDeRecurso, Fines
  <2>3. cpu.estado = "pide" /\ cpu.pid = corto.proceso
    BY <1>4, <2>1, <2>2 DEF EnTrato, En
  <2>4. EnTrato'
    BY <1>6, <2>1, <2>3 DEF EnTrato, En
  <2>5. QED BY <2>1, <2>4, ProtocoloEn
<1>9. CASE AvisaExit
  <2>1. /\ pc["corto"] = "avisa_exit" /\ UNCHANGED corto /\ corto.respuesta # "CONTINUAR"
        /\ pc'["corto"] = IF corto.respuesta = "NINGUNA" THEN "limpia" ELSE "responde"
        /\ corto.respuesta \in {"NINGUNA", "CONTINUAR", "DESALOJAR"}
    BY <1>1, <1>9 DEF AvisaExit, En, Va, TCorto, Control, CortoEnOrden, locales
  <2>2. CASE corto.respuesta = "NINGUNA"
    <3>1. EnReposo'
      BY <1>4, <1>6, <2>1, <2>2 DEF EnTrato, EnReposo, En
    <3>2. QED BY <2>1, <2>2, <3>1, ProtocoloEn
  <2>3. CASE corto.respuesta = "DESALOJAR"
    <3>1. cpu.estado = "pide" /\ cpu.pid = corto.proceso
      BY <1>4, <2>1, <2>3 DEF EnTrato, En
    <3>2. EnTrato'
      BY <1>6, <2>1, <2>3, <3>1 DEF EnTrato, En
    <3>3. QED BY <2>1, <2>3, <3>2, ProtocoloEn
  <2>4. QED BY <2>1, <2>2, <2>3
\* WAIT and SIGNAL: the CPU waits for the answer all along.
<1>10. CASE TrataWait \/ WaitBloquea \/ WaitConcede \/ TrataSignal \/ SignalDevuelve \/ SignalEntrega
  <2>1. CASE TrataWait \/ TrataSignal
    <3>1. pc["corto"] = "trata" /\ Motivo \in PedidosDeRecurso
      BY <2>1 DEF TrataWait, TrataSignal, Trata, En, PedidosDeRecurso
    <3>2. corto.motivo \in PedidosDeRecurso
      BY <1>5, <3>1 DEF PedidosDeRecurso, Fines
    <3>3. cpu.estado = "pide" /\ cpu.pid = corto.proceso
      BY <1>4, <3>1, <3>2 DEF EnTrato, En
    <3>4. pc'["corto"] \in {"wait", "signal"} /\ corto' = corto
      BY <1>1, <2>1 DEF TrataWait, TrataSignal, Va, locales
    <3>5. EnTrato'
      BY <1>6, <3>3, <3>4 DEF EnTrato, En
    <3>6. QED BY <3>4, <3>5, ProtocoloEn
  <2>2. CASE WaitBloquea \/ WaitConcede \/ SignalDevuelve \/ SignalEntrega
    <3>1. pc["corto"] \in {"wait", "signal", "signal_mediano"}
      BY <2>2 DEF WaitBloquea, WaitConcede, SignalDevuelve, SignalEntrega, En
    <3>2. cpu.estado = "pide" /\ cpu.pid = corto.proceso
      BY <1>4, <3>1 DEF EnTrato, En
    <3>3. pc'["corto"] \in {"signal_mediano", "responde"} /\ corto'.proceso = corto.proceso
      BY <1>1, <2>2 DEF WaitBloquea, WaitConcede, SignalDevuelve, SignalEntrega, Va, locales, TCorto
    <3>4. EnTrato'
      BY <1>6, <3>2, <3>3 DEF EnTrato, En
    <3>5. QED BY <3>3, <3>4, ProtocoloEn
  <2>3. QED BY <1>10, <2>1, <2>2
\* An I/O, the end of the quantum: the CPU is free.
<1>11. CASE TrataFinQuantum \/ TrataIO
  <2>1. pc["corto"] = "trata" /\ Motivo \in {"FIN_QUANTUM", "IO"}
    BY <1>11 DEF TrataFinQuantum, TrataIO, Trata, En
  <2>2. corto.motivo \notin PedidosDeRecurso
    BY <1>5, <2>1 DEF PedidosDeRecurso, Fines
  <2>3. cpu.estado = "libre"
    BY <1>4, <2>1, <2>2 DEF EnTrato, En
  <2>4. corto' = corto /\ corto.respuesta = "NINGUNA"
    BY <1>11, <2>1 DEF TrataFinQuantum, TrataIO, Control, CortoEnOrden
  <2>5. CASE TrataFinQuantum
    <3>1. pc'["corto"] = "limpia"
      BY <1>1, <2>5 DEF TrataFinQuantum, Va
    <3>2. EnReposo'
      BY <1>6, <2>3 DEF EnReposo
    <3>3. QED BY <2>4, <3>1, <3>2, ProtocoloEn
  <2>6. CASE TrataIO
    <3>1. pc'["corto"] = "io"
      BY <1>1, <2>6 DEF TrataIO, Va
    <3>2. EnTrato'
      BY <1>6, <2>3, <3>1 DEF EnTrato, En
    <3>3. QED BY <3>1, <3>2, ProtocoloEn
  <2>7. QED BY <1>11, <2>5, <2>6
<1>12. CASE IOBloquea \/ IOEnvia
  <2>1. pc["corto"] \in {"io", "io_envia"}
    BY <1>12 DEF IOBloquea, IOEnvia, En
  <2>2. cpu.estado = "libre"
    BY <1>4, <2>1 DEF EnTrato, En
  <2>3. corto' = corto /\ corto.respuesta = "NINGUNA"
    BY <1>12, <2>1 DEF IOBloquea, IOEnvia, Control, CortoEnOrden, locales
  <2>4. CASE IOBloquea
    <3>1. pc'["corto"] = "io_envia"
      BY <1>1, <2>4 DEF IOBloquea, Va
    <3>2. EnTrato'
      BY <1>6, <2>2, <3>1 DEF EnTrato, En
    <3>3. QED BY <3>1, <3>2, ProtocoloEn
  <2>5. CASE IOEnvia
    <3>1. pc'["corto"] = "limpia"
      BY <1>1, <2>5 DEF IOEnvia, Va
    <3>2. EnReposo'
      BY <1>6, <2>2 DEF EnReposo
    <3>3. QED BY <2>3, <3>1, <3>2, ProtocoloEn
  <2>6. QED BY <1>12, <2>4, <2>5
<1>13. QED BY <1>7, <1>8, <1>9, <1>10, <1>11, <1>12

\* The short-term scheduler answers the CPU and goes on with the same process
\* or with the next order.
LEMMA ProtocoloResponde ==
  ASSUME TypeOK, Control, RunningEnOrden, Protocolo, RespondeCpu \/ LimpiaDesalojo
  PROVE  Protocolo'
<1>1. pc \in [Hilos -> Etiquetas] /\ "corto" \in Hilos /\ corto \in TCorto
  BY DEF TypeOK, Hilos, HilosFijos
<1>2. PICK p : p = corto.proceso
  OBVIOUS
<1>3. CASE RespondeCpu
  <2>1. /\ pc["corto"] = "responde" /\ pc'["corto"] = "limpia" /\ UNCHANGED <<corto, cpu, desalojos>>
        /\ dispatch' = Append(dispatch, [op |-> corto.respuesta, pid |-> 0])
        /\ corto.respuesta \in {"CONTINUAR", "DESALOJAR"}
    BY <1>1, <1>3 DEF RespondeCpu, En, Va, locales, TCorto, Control, CortoEnOrden
  <2>2. dispatch = <<>> /\ desalojos = <<>> /\ cpu.estado = "pide" /\ cpu.pid = p
    BY <1>2, <2>1 DEF Protocolo, EnTrato
  <2>3. dispatch' = <<[op |-> corto.respuesta, pid |-> 0]>>
    BY <2>1, <2>2, Mensajes
  <2>4. CASE corto.respuesta = "CONTINUAR"
    <3>1. EnRafaga(p)'
      BY <2>1, <2>2, <2>3, <2>4 DEF EnRafaga, Continuar
    <3>2. QED BY <1>2, <2>1, <2>4, <3>1, ProtocoloRafaga
  <2>5. CASE corto.respuesta = "DESALOJAR"
    <3>1. EnReposo'
      BY <2>1, <2>2, <2>3, <2>5 DEF EnReposo, Desalojar
    <3>2. QED BY <2>1, <2>5, <3>1, ProtocoloEn
  <2>6. QED BY <2>1, <2>4, <2>5
<1>4. CASE LimpiaDesalojo
  <2>1. /\ pc["corto"] = "limpia" /\ UNCHANGED <<cola, cpu, dispatch, desalojos>>
        /\ pc'["corto"] = IF corto.respuesta = "CONTINUAR" THEN "recibe" ELSE "orden"
    BY <1>1, <1>4 DEF LimpiaDesalojo, En, Va, exterior
  <2>2. CASE corto.respuesta = "CONTINUAR"
    <3>1. EnRafaga(p)
      BY <1>2, <2>1, <2>2 DEF Protocolo, En
    <3>2. EnRafaga(p)'
      BY <2>1, <3>1 DEF EnRafaga
    <3>3. p = Head(cola'["RUNNING"])
      BY <1>2, <2>1, <2>2, Mensajes DEF RunningEnOrden
    <3>4. QED BY <2>1, <2>2, <3>2, <3>3, ProtocoloRafaga
  <2>3. CASE corto.respuesta # "CONTINUAR"
    <3>1. EnReposo
      BY <2>1, <2>3 DEF Protocolo, En
    <3>2. EnReposo'
      BY <2>1, <3>1 DEF EnReposo
    <3>3. QED BY <2>1, <2>3, <3>2, ProtocoloEn
  <2>4. QED BY <2>2, <2>3
<1>5. QED BY <1>3, <1>4

\* The steps of the CPU, by what it is doing.
LEMMA PasosDeCpu ==
  ASSUME TypeOK, Cpu
  PROVE  /\ UNCHANGED <<cola, corto, pc>> /\ cpu.estado # "desfasada"
         /\ cpu.estado = "libre" => CpuRecibeProceso /\ dispatch # <<>>
         /\ cpu.estado = "pide" => CpuRecibeRespuesta /\ dispatch # <<>>
         /\ cpu.estado = "ejecuta" =>
              /\ dispatch' = dispatch
              /\ \E m : /\ desalojos' = Append(desalojos, m)
                        /\ \/ cpu'.estado = "libre" /\ m.motivo \notin PedidosDeRecurso
                           \/ cpu'.estado = "pide" /\ cpu'.pid = cpu.pid /\ m.motivo \in PedidosDeRecurso
<1>1. cpu \in TCpu
  BY DEF TypeOK
<1>2. CASE CpuRecibeProceso \/ CpuRecibeRespuesta
  BY <1>2 DEF CpuRecibeProceso, CpuRecibeRespuesta, kernel, procesos, locales
<1>3. CASE CpuInterrumpida
  <2>1. PICK o \in {"FINALIZAR_PROCESO", "FIN_QUANTUM"} : desalojos' = Append(desalojos, [motivo |-> o, arg |-> Nulo])
    BY <1>3 DEF CpuInterrumpida, Desaloja
  <2>2. o \notin PedidosDeRecurso
    BY DEF PedidosDeRecurso
  <2>3. cpu.estado = "ejecuta" /\ cpu'.estado = "libre" /\ UNCHANGED <<cola, corto, pc, dispatch>>
    BY <1>3 DEF CpuInterrumpida, CpuLibre, kernel, procesos, locales
  <2>4. [motivo |-> o, arg |-> Nulo].motivo \notin PedidosDeRecurso
    BY <2>2
  <2>5. QED BY <2>1, <2>3, <2>4
<1>4. ASSUME NEW o \in Programa \cap {"EXIT_PROCESO", "OUT_OF_MEMORY", "IO"}, CpuTermina(o)
      PROVE  /\ cpu.estado = "ejecuta" /\ UNCHANGED <<cola, corto, pc, dispatch>> /\ cpu'.estado = "libre"
             /\ \E m : desalojos' = Append(desalojos, m) /\ m.motivo \notin PedidosDeRecurso
  <2>1. cpu.estado = "ejecuta" /\ cpu'.estado = "libre" /\ UNCHANGED <<cola, corto, pc, dispatch>>
    BY <1>4 DEF CpuTermina, CpuLibre, kernel, procesos, locales
  <2>2. PICK a : desalojos' = Append(desalojos, [motivo |-> o, arg |-> a])
    BY <1>4 DEF CpuTermina, Desaloja
  <2>3. [motivo |-> o, arg |-> a].motivo \notin PedidosDeRecurso
    BY DEF PedidosDeRecurso
  <2>4. QED BY <2>1, <2>2, <2>3
<1>5. ASSUME NEW o \in Programa \cap {"WAIT_RECURSO", "SIGNAL_RECURSO"}, CpuPideRecurso(o)
      PROVE  /\ cpu.estado = "ejecuta" /\ UNCHANGED <<cola, corto, pc, dispatch>>
             /\ cpu'.estado = "pide" /\ cpu'.pid = cpu.pid
             /\ \E m : desalojos' = Append(desalojos, m) /\ m.motivo \in PedidosDeRecurso
  <2>1. /\ cpu.estado = "ejecuta" /\ cpu'.estado = "pide" /\ cpu'.pid = cpu.pid
        /\ UNCHANGED <<cola, corto, pc, dispatch>>
    BY <1>1, <1>5 DEF CpuPideRecurso, kernel, procesos, locales, TCpu
  <2>2. PICK a : desalojos' = Append(desalojos, [motivo |-> o, arg |-> a])
    BY <1>5 DEF CpuPideRecurso, Desaloja
  <2>3. [motivo |-> o, arg |-> a].motivo \in PedidosDeRecurso
    BY DEF PedidosDeRecurso
  <2>4. QED BY <2>1, <2>2, <2>3
<1>6. QED BY <1>2, <1>3, <1>4, <1>5 DEF Cpu

\* While a burst goes on, whatever the CPU does is part of it.
LEMMA CpuEnRafaga ==
  ASSUME TypeOK, TypeOK', NEW p, EnRafaga(p), Cpu
  PROVE  EnRafaga(p)'
<1>1. cpu \in TCpu /\ desalojos' \in Seq(TDesalojo)
  BY DEF TypeOK
<1>2. CASE cpu.estado = "ejecuta" /\ cpu.pid = p /\ dispatch = <<>> /\ desalojos = <<>>
  <2>1. PICK m : /\ desalojos' = Append(desalojos, m)
                 /\ \/ cpu'.estado = "libre" /\ m.motivo \notin PedidosDeRecurso
                    \/ cpu'.estado = "pide" /\ cpu'.pid = cpu.pid /\ m.motivo \in PedidosDeRecurso
    BY <1>2, PasosDeCpu
  <2>2. desalojos' = <<m>> /\ dispatch' = <<>>
    BY <1>2, <2>1, Mensajes, PasosDeCpu
  <2>3. m \in TDesalojo
    <3>1. Head(desalojos') \in TDesalojo
      BY <1>1, <2>2, Mensajes
    <3>2. QED BY <2>2, <3>1, Mensajes
  <2>4. QED BY <1>2, <2>1, <2>2, <2>3 DEF EnRafaga
<1>3. CASE cpu.estado \in {"libre", "pide"} /\ dispatch = <<>>
  BY <1>3, PasosDeCpu
<1>4. CASE cpu.estado = "pide" /\ cpu.pid = p /\ dispatch = <<Continuar>> /\ desalojos = <<>>
  <2>1. CpuRecibeRespuesta
    BY <1>4, PasosDeCpu
  <2>2. Head(dispatch) = Continuar /\ dispatch' = <<>> /\ desalojos' = <<>>
    BY <1>4, <2>1, Mensajes DEF CpuRecibeRespuesta
  <2>3. cpu' = [cpu EXCEPT !.estado = "ejecuta"]
    BY <2>1, <2>2 DEF CpuRecibeRespuesta, Continuar
  <2>4. QED BY <1>1, <1>4, <2>2, <2>3 DEF EnRafaga, TCpu
<1>5. QED BY <1>2, <1>3, <1>4 DEF EnRafaga

\* What the CPU reads while a process is on its way to it.
LEMMA CpuEnviado ==
  ASSUME TypeOK, NEW p, Enviado(p), Cpu
  PROVE  Enviado(p)' \/ EnRafaga(p)'
<1>1. cpu \in TCpu /\ desalojos = <<>>
  BY DEF TypeOK, Enviado
<1>2. CASE cpu.estado = "libre" /\ dispatch = <<Ejecutar(p)>>
  <2>1. CpuRecibeProceso
    BY <1>2, PasosDeCpu
  <2>2. Head(dispatch) = Ejecutar(p) /\ dispatch' = <<>> /\ desalojos' = <<>>
    BY <1>1, <1>2, <2>1, Mensajes DEF CpuRecibeProceso
  <2>3. cpu'.estado = "ejecuta" /\ cpu'.pid = p
    BY <1>1, <2>1, <2>2 DEF CpuRecibeProceso, Ejecutar, TCpu
  <2>4. QED BY <2>2, <2>3 DEF EnRafaga
<1>3. CASE cpu.estado = "pide" /\ dispatch = <<Ejecutar(p)>>
  <2>1. CpuRecibeRespuesta
    BY <1>3, PasosDeCpu
  <2>2. Head(dispatch).op = "EJECUTAR_PROCESO" /\ dispatch' = <<>> /\ desalojos' = <<>>
    BY <1>1, <1>3, <2>1, Mensajes DEF CpuRecibeRespuesta, Ejecutar
  <2>3. cpu'.estado = "desfasada"
    BY <1>1, <2>1, <2>2 DEF CpuRecibeRespuesta, TCpu
  <2>4. QED BY <2>2, <2>3 DEF Enviado
<1>4. CASE cpu.estado = "pide" /\ dispatch = <<Desalojar, Ejecutar(p)>>
  <2>1. CpuRecibeRespuesta
    BY <1>4, PasosDeCpu
  <2>2. Head(dispatch).op = "DESALOJAR" /\ dispatch' = <<Ejecutar(p)>> /\ desalojos' = <<>>
    BY <1>1, <1>4, <2>1, Mensajes DEF CpuRecibeRespuesta, Desalojar
  <2>3. cpu'.estado = "libre"
    BY <2>1, <2>2 DEF CpuRecibeRespuesta, CpuLibre
  <2>4. QED BY <2>2, <2>3 DEF Enviado
<1>5. CASE cpu.estado = "desfasada"
  BY <1>5, PasosDeCpu
<1>6. QED BY <1>2, <1>3, <1>4, <1>5 DEF Enviado

\* Between two bursts the CPU can only read that it was evicted.
LEMMA CpuEnReposo ==
  ASSUME TypeOK, EnReposo, Cpu
  PROVE  EnReposo'
<1>1. CASE cpu.estado = "libre" /\ dispatch = <<>>
  BY <1>1, PasosDeCpu
<1>2. CASE cpu.estado = "pide" /\ dispatch \in {<<>>, <<Desalojar>>}
  <2>1. CpuRecibeRespuesta /\ dispatch = <<Desalojar>>
    BY <1>2, PasosDeCpu
  <2>2. Head(dispatch).op = "DESALOJAR" /\ dispatch' = <<>> /\ desalojos' = desalojos
    BY <2>1, Mensajes DEF CpuRecibeRespuesta, Desalojar
  <2>3. cpu'.estado = "libre"
    BY <2>1, <2>2 DEF CpuRecibeRespuesta, CpuLibre
  <2>4. QED BY <2>2, <2>3 DEF EnReposo
<1>3. QED BY <1>1, <1>2 DEF EnReposo

\* The steps of the CPU keep the protocol.
LEMMA ProtocoloCpu ==
  ASSUME TypeOK, TypeOK', Control, Protocolo, Cpu
  PROVE  Protocolo'
<1>1. /\ UNCHANGED <<cola, corto, pc>>
      /\ pc["corto"] \in {"orden", "elige", "envia", "recibe", "trata", "avisa_exit", "wait",
                          "signal", "signal_mediano", "io", "io_envia", "responde", "limpia"}
  BY PasosDeCpu DEF Control, CortoEnOrden
<1>2. CASE pc["corto"] \in {"orden", "elige", "envia"}
  <2>1. EnReposo
    BY <1>2 DEF Protocolo
  <2>2. QED BY <1>1, <1>2, <2>1, CpuEnReposo, ProtocoloEn
<1>3. CASE pc["corto"] = "recibe"
  <2>1. PICK p : p = Head(cola["RUNNING"])
    OBVIOUS
  <2>2. Enviado(p) \/ EnRafaga(p)
    BY <1>3, <2>1 DEF Protocolo, En
  <2>3. Enviado(p)' \/ EnRafaga(p)'
    BY <2>2, CpuEnviado, CpuEnRafaga
  <2>4. QED BY <1>1, <1>3, <2>1, <2>3, ProtocoloRafaga
<1>4. CASE pc["corto"] = "limpia" /\ corto.respuesta = "CONTINUAR"
  <2>1. PICK p : p = corto.proceso
    OBVIOUS
  <2>2. EnRafaga(p)
    BY <1>4, <2>1 DEF Protocolo, En
  <2>3. EnRafaga(p)'
    BY <2>2, CpuEnRafaga
  <2>4. QED BY <1>1, <1>4, <2>1, <2>3, ProtocoloRafaga
\* While the kernel treats an eviction the CPU has nothing to read.
<1>5. CASE pc["corto"] \in {"trata", "avisa_exit", "wait", "signal", "signal_mediano", "io",
                            "io_envia", "responde"}
  <2>1. EnTrato
    BY <1>5 DEF Protocolo
  <2>2. cpu.estado \in {"libre", "pide"} /\ dispatch = <<>>
    BY <1>5, <2>1 DEF EnTrato, En
  <2>3. QED BY <2>2, PasosDeCpu
<1>6. CASE pc["corto"] = "limpia" /\ corto.respuesta # "CONTINUAR"
  <2>1. EnReposo
    BY <1>6 DEF Protocolo, En
  <2>2. QED BY <1>1, <1>6, <2>1, CpuEnReposo, ProtocoloEn
<1>7. CASE pc["corto"] = "limpia"
  BY <1>4, <1>6, <1>7
<1>8. QED BY <1>1, <1>2, <1>3, <1>5, <1>7, Zenon

\* The console and the timer put interrupts in the list of the CPU; nobody but
\* the scheduler and the CPU touches anything else of them.
LEMMA AjenoCpu ==
  ASSUME TypeOK,
         \/ Usuario \/ Consola \/ Largo \/ Exit \/ ControlQuantum \/ MemoriaAtiende
         \/ \E i \in Interfaces : Manejador(i) \/ Conexion(i) \/ Desconexion(i) \/ DispositivoTermina(i)
  PROVE  MismaCpu /\ UNCHANGED <<dispatch, desalojos>>
<1>1. cpu \in TCpu
  BY DEF TypeOK
<1>2. CASE FinalizarEnEjecucion \/ ControlQuantum
  <2>1. UNCHANGED <<dispatch, desalojos>>
    BY <1>2 DEF FinalizarEnEjecucion, ControlQuantum
  <2>2. PICK x : cpu' = [cpu EXCEPT !.interrupciones = x] \/ cpu' = cpu
    BY <1>2 DEF FinalizarEnEjecucion, InterrumpeCpu, ControlQuantum
  <2>3. QED BY <1>1, <2>1, <2>2 DEF MismaCpu, TCpu
<1>3. CASE Usuario
  BY <1>3 DEF Usuario, IniciarProceso, PideFinalizar, PideComandoGlobal, PideComando, IniciarPlanificacion,
    SubeMultiprogramacion, PideBajarMultiprogramacion, exterior, MismaCpu
<1>4. CASE Consola
  BY <1>2, <1>4 DEF Consola, TomaPausada, DetenerPlanificacion, ProcesoEstado, FinalizarSinEfecto,
    MarcaPedidoFinalizacion, FinalizarCuelga, FinalizarExtrae, FinalizarNulo, BajaMultiprogramacion,
    exterior, MismaCpu
<1>5. CASE Largo
  BY <1>5 DEF Largo, EsperaOrdenLargo, TomaGrado, SacaDeNew, NewVacia, PasaAReady, exterior, MismaCpu
<1>6. CASE Exit
  BY <1>6 DEF Exit, EsperaOrdenExit, ExitDesdeNew, ExitDesdeOtro, LiberaTomaInst, LiberaInstancia,
    LiberaMemoria, MemoriaLiberada, MarcaExit, SacaDeExit, exterior, MismaCpu
<1>7. CASE MemoriaAtiende
  BY <1>7 DEF MemoriaAtiende, MismaCpu
<1>8. ASSUME NEW i \in Interfaces, Manejador(i) \/ Conexion(i) \/ Desconexion(i) \/ DispositivoTermina(i)
      PROVE  MismaCpu /\ UNCHANGED <<dispatch, desalojos>>
  BY <1>8 DEF Manejador, RecibeIOLiberar, TomaMediano, DesbloqueaIO, NadieQueDesbloquear, AtiendeSiguiente,
    LiberaInterfaz, Conexion, Desconexion, DispositivoTermina, exterior, MismaCpu
<1>9. QED BY <1>2, <1>3, <1>4, <1>5, <1>6, <1>7, <1>8

\* Every step keeps the protocol.
LEMMA ProtocoloPaso ==
  ASSUME TypeOK, TypeOK', Control, RunningEnOrden, Protocolo, [Next]_vars
  PROVE  Protocolo'
<1>1. pc \in [Hilos -> Etiquetas] /\ "corto" \in Hilos /\ "corto" \notin Interfaces
  BY DEF TypeOK, Hilos, HilosFijos
<1>2. CASE Usuario \/ Consola
  <2>1. pc'["corto"] = pc["corto"] /\ corto' = corto
    BY <1>1, <1>2, AjenoConsola
  <2>2. QED BY <1>2, <2>1, AjenoCpu, AjenoRunning, ProtocoloAjeno
<1>3. CASE Largo \/ Exit
  <2>1. pc'["corto"] = pc["corto"] /\ corto' = corto
    BY <1>1, <1>3, AjenoLargo, AjenoExit
  <2>2. QED BY <1>3, <2>1, AjenoCpu, AjenoRunning, ProtocoloAjeno
<1>4. ASSUME NEW i \in Interfaces, Manejador(i) PROVE Protocolo'
  <2>1. pc'["corto"] = pc["corto"] /\ corto' = corto
    BY <1>1, <1>4, AjenoManejador DEF locales
  <2>2. QED BY <1>4, <2>1, AjenoCpu, AjenoRunning, ProtocoloAjeno
<1>5. CASE Entorno /\ ~Cpu
  <2>1. UNCHANGED <<pc, corto, cola>>
    BY <1>5, AjenoEntorno DEF procesos
  <2>2. MismaCpu /\ UNCHANGED <<dispatch, desalojos>>
    BY <1>5, AjenoCpu DEF Entorno
  <2>3. QED BY <2>1, <2>2, ProtocoloAjeno
<1>6. CASE UNCHANGED vars
  <2>1. MismaCpu /\ UNCHANGED <<pc, corto, cola, dispatch, desalojos>>
    BY <1>6 DEF vars, MismaCpu
  <2>2. QED BY <2>1, ProtocoloAjeno
<1>7. CASE Corto
  BY <1>7, ProtocoloElige, ProtocoloRecibe, ProtocoloTrata, ProtocoloResponde DEF Corto
<1>8. QED BY <1>2, <1>3, <1>4, <1>5, <1>6, <1>7, ProtocoloCpu, PasosDelKernel

\* At first nothing is under way.
LEMMA ProtocoloInicial == Init => Protocolo
BY DEF Init, Protocolo, EnReposo, En, Hilos, HilosFijos

\* The CPU executes the process in RUNNING and no other, although after an
\* answer that was never sent it reads the socket out of step.
THEOREM CpuEjecutaElDeRunning == Spec => []CpuEjecutaElRunning
<1>1. InvLugar /\ InvLugar' /\ Protocolo /\ [Next]_vars => Protocolo'
  BY ProtocoloPaso DEF InvLugar, Inv
<1>2. ASSUME InvLugar, Protocolo PROVE CpuEjecutaElRunning
  <2>1. /\ TypeOK /\ Control /\ RunningEnOrden /\ cola \in [Colas -> Seq(Pids)] /\ "RUNNING" \in Colas
    BY <1>2 DEF InvLugar, Inv, TypeOK, Colas, ColasFijas
  <2>2. PICK s \in Seq(Pids) : s = cola["RUNNING"]
    BY <2>1
  <2>3. Len(s) <= 1
    <3>1. \A p : Len(<<p>>) = 1
      OBVIOUS
    <3>2. Len(s) = 1 \/ s = <<>> \/ s = <<corto.proceso>>
      BY <2>1, <2>2 DEF RunningEnOrden
    <3>3. CASE s = <<corto.proceso>>
      BY <3>1, <3>3
    <3>4. CASE s = <<>>
      <4>1. Len(<<>>) = 0
        OBVIOUS
      <4>2. QED BY <3>4, <4>1
    <3>5. CASE Len(s) = 1
      BY <3>5
    <3>6. QED BY <3>2, <3>3, <3>4, <3>5
  <2>4. ASSUME cpu.estado = "ejecuta" PROVE s = <<cpu.pid>>
    <3>1. pc["corto"] = "recibe" \/ (pc["corto"] = "limpia" /\ corto.respuesta = "CONTINUAR")
      <4>1. ~EnReposo
        BY <2>4 DEF EnReposo
      <4>2. pc["corto"] \in {"trata", "avisa_exit", "wait", "signal", "signal_mediano", "io",
                             "io_envia", "responde"} => ~EnTrato
        BY <2>4 DEF EnTrato, En
      <4>3. pc["corto"] \in {"orden", "elige", "envia", "recibe", "trata", "avisa_exit", "wait", "signal",
                             "signal_mediano", "io", "io_envia", "responde", "limpia"}
        BY <2>1 DEF Control, CortoEnOrden
      <4>4. pc["corto"] \notin {"orden", "elige", "envia"} /\ (pc["corto"] = "limpia" => corto.respuesta = "CONTINUAR")
        BY <1>2, <4>1 DEF Protocolo, En
      <4>5. pc["corto"] \notin {"trata", "avisa_exit", "wait", "signal", "signal_mediano", "io",
                                "io_envia", "responde"}
        BY <1>2, <4>2 DEF Protocolo
      <4>6. QED BY <4>3, <4>4, <4>5, Zenon
    <3>2. CASE pc["corto"] = "recibe"
      <4>1. cpu.pid = Head(s)
        BY <1>2, <2>2, <2>4, <3>2 DEF Protocolo, Enviado, EnRafaga, En
      <4>2. Len(s) = 1
        BY <2>1, <2>2, <3>2 DEF RunningEnOrden
      <4>3. QED BY <4>1, <4>2, UnoSolo
    <3>3. CASE pc["corto"] = "limpia" /\ corto.respuesta = "CONTINUAR"
      <4>1. cpu.pid = corto.proceso
        BY <1>2, <2>4, <3>3 DEF Protocolo, EnRafaga, En
      <4>2. QED BY <2>1, <2>2, <3>3, <4>1 DEF RunningEnOrden
    <3>4. QED BY <3>1, <3>2, <3>3
  <2>5. QED BY <2>2, <2>3, <2>4 DEF CpuEjecutaElRunning
<1>3. QED BY <1>1, <1>2, ProtocoloInicial, InvarianteLugar, PTL DEF Spec

-----------------------------------------------------------------------------
(* The socket to memory *)

\* The process memory is creating.
Entrando == IF pc["largo"] = "creando" THEN {largo.entrante} ELSE {}

\* The process memory has been told to remove, until its PCB says so.
Despedido == IF pc["exit"] \in {"eliminando", "marca"} THEN {largo.saliente} ELSE {}

\* The threads that wait for an answer of memory.
QuienesEsperan == Uno(pc["largo"] = "creando") + Uno(pc["exit"] = "eliminando")

\* MemoriaAlDia, with the loaded processes by their name.
SocketAlDia ==
  /\ Len(memoria.pedidos) + memoria.respuestas = QuienesEsperan
  /\ EnMemoria = (Cargados \ Despedido) \cup Entrando

\* They are the same.
LEMMA MemoriaFormula ==
  ASSUME InvLugar
  PROVE  MemoriaAlDia <=> SocketAlDia
<1>1. TypeOK /\ EnLugar
  BY DEF InvLugar, Inv
<1>2. Len(memoria.pedidos) + memoria.respuestas = QuienesEsperan <=>
        Len(memoria.pedidos) + memoria.respuestas
          = Uno(En("largo", "creando")) + Uno(En("exit", "eliminando"))
  BY DEF QuienesEsperan, En
<1>3. \A p \in Creados : largo.entrante = p <=> p \in Entrando
  BY <1>1, DeLargo DEF Entrando, Creados
<1>4. Entrando \subseteq Creados
  BY <1>1, DeLargo DEF Entrando
<1>5. \A p \in Cargados : (largo.saliente = p => pc["exit"] \notin {"eliminando", "marca"}) <=> p \notin Despedido
  BY DEF Despedido
<1>6. {p \in Creados :
         \/ largo.entrante = p
         \/ /\ pcb[p].estado \in {"READY", "EXEC", "BLOCKED"}
            /\ largo.saliente = p => pc["exit"] \notin {"eliminando", "marca"}}
      = (Cargados \ Despedido) \cup Entrando
  BY <1>3, <1>4, <1>5 DEF Cargados
<1>7. QED BY <1>2, <1>6 DEF MemoriaAlDia, SocketAlDia

\* The process coming in and the one leaving are two.
LEMMA EntraOSale ==
  ASSUME InvLugar, pc["largo"] = "creando", pc["exit"] \notin {"orden", "pausa"}
  PROVE  largo.entrante # largo.saliente
<1>1. TypeOK /\ EnLugar
  BY DEF InvLugar, Inv
<1>2. pcb[largo.entrante].estado = "NEW" /\ pcb[largo.saliente].estado \in {"READY", "EXEC", "BLOCKED", "EXIT"}
  BY <1>1, DeLargo
<1>3. QED BY <1>2

\* A step that neither asks memory for anything nor reads an answer.
LEMMA SocketQuieto ==
  ASSUME SocketAlDia, UNCHANGED memoria, Cargados' = Cargados, Entrando' = Entrando, Despedido' = Despedido,
         QuienesEsperan' = QuienesEsperan
  PROVE  SocketAlDia'
BY DEF SocketAlDia, EnMemoria, TrasServir

\* Nobody else talks to memory.
LEMMA MemoriaAjena ==
  ASSUME \/ Usuario \/ Consola \/ Corto \/ \E i \in Interfaces : Manejador(i)
         \/ EsperaOrdenLargo \/ TomaGrado \/ NewVacia
         \/ EsperaOrdenExit \/ ExitDesdeNew \/ ExitDesdeOtro \/ LiberaTomaInst \/ LiberaInstancia
         \/ MarcaExit \/ SacaDeExit
         \/ Entorno /\ ~MemoriaAtiende
         \/ UNCHANGED vars
  PROVE  UNCHANGED memoria
<1> USE DEF exterior
<1>1. CASE Usuario \/ Consola
  BY <1>1 DEF Usuario, Consola, IniciarProceso, PideFinalizar, PideComando, PideComandoGlobal,
    IniciarPlanificacion, SubeMultiprogramacion, PideBajarMultiprogramacion, TomaPausada,
    DetenerPlanificacion, ProcesoEstado, FinalizarSinEfecto, FinalizarEnEjecucion,
    MarcaPedidoFinalizacion, FinalizarCuelga, FinalizarExtrae, FinalizarNulo, BajaMultiprogramacion
<1>2. CASE Corto
  BY <1>2 DEF Corto, EsperaOrdenCorto, EligeProceso, NoHayListos, EnviaProcesoACpu, RecibeDesalojo,
    TrataFin, TrataRecursoInvalido, AvisaExit, TrataWait, WaitBloquea, WaitConcede, TrataSignal,
    SignalDevuelve, SignalEntrega, TrataFinQuantum, TrataIOInvalida, TrataIO, IOBloquea, IOEnvia,
    RespondeCpu, LimpiaDesalojo, MandaAExit, Ordena
<1>3. ASSUME NEW i \in Interfaces, Manejador(i) PROVE UNCHANGED memoria
  BY <1>3 DEF Manejador, RecibeIOLiberar, TomaMediano, DesbloqueaIO, NadieQueDesbloquear,
    AtiendeSiguiente, LiberaInterfaz, Ordena
<1>4. CASE EsperaOrdenLargo \/ TomaGrado \/ NewVacia \/ EsperaOrdenExit \/ ExitDesdeNew \/ ExitDesdeOtro
             \/ LiberaTomaInst \/ LiberaInstancia \/ MarcaExit \/ SacaDeExit
  BY <1>4 DEF EsperaOrdenLargo, TomaGrado, NewVacia, EsperaOrdenExit, ExitDesdeNew, ExitDesdeOtro,
    LiberaTomaInst, LiberaInstancia, MarcaExit, SacaDeExit
<1>5. CASE Entorno /\ ~MemoriaAtiende
  BY <1>5 DEF Entorno, ControlQuantum, Cpu, CpuRecibeProceso, CpuRecibeRespuesta, CpuInterrumpida,
    CpuTermina, CpuPideRecurso, Conexion, Desconexion, DispositivoTermina
<1>6. CASE UNCHANGED vars
  BY <1>6 DEF vars
<1>7. QED BY <1>1, <1>2, <1>3, <1>4, <1>5, <1>6

\* A thread asks memory for something.
LEMMA PedidoAMemoria ==
  ASSUME TypeOK, NEW op \in {"INICIAR_PROCESO", "ELIMINAR_PROCESO"}, NEW p \in Pids, PideAMemoria(op, p)
  PROVE  /\ Len(memoria'.pedidos) + memoria'.respuestas = Len(memoria.pedidos) + memoria.respuestas + 1
         /\ EnMemoria' = IF op = "INICIAR_PROCESO" THEN EnMemoria \cup {p} ELSE EnMemoria \ {p}
<1>1. PICK s \in Seq(TPedido) : s = memoria.pedidos
  BY DEF TypeOK, TMemoria
<1>2. PICK m : m = [op |-> op, pid |-> p]
  OBVIOUS
<1>3. m \in TPedido /\ m.op = op /\ m.pid = p
  BY <1>2 DEF TPedido, PidsOCero
<1>4. /\ memoria'.pedidos = Append(s, m) /\ memoria'.respuestas = memoria.respuestas
      /\ memoria'.procesos = memoria.procesos
  BY <1>1, <1>2 DEF PideAMemoria, TypeOK, TMemoria
<1>5. Len(memoria'.pedidos) = Len(s) + 1 /\ Len(s) \in Nat /\ memoria.respuestas \in Nat
  BY <1>3, <1>4 DEF TypeOK, TMemoria
<1>6. Len(memoria'.pedidos) + memoria'.respuestas = Len(memoria.pedidos) + memoria.respuestas + 1
  BY <1>1, <1>4, <1>5
<1>7. EnMemoria' = TrasServir(memoria.procesos, Append(s, m))
  BY <1>4 DEF EnMemoria, TrasServir
<1>8. EnMemoria' = IF op = "INICIAR_PROCESO" THEN TrasServir(memoria.procesos, s) \cup {p}
                   ELSE TrasServir(memoria.procesos, s) \ {p}
  <2>1. PICK ps : ps = memoria.procesos
    OBVIOUS
  <2>2. TrasServir(ps, Append(s, m)) =
          IF m.op = "INICIAR_PROCESO" THEN TrasServir(ps, s) \cup {m.pid} ELSE TrasServir(ps, s) \ {m.pid}
    <3>1. s \in Seq(TPedido) /\ m \in TPedido
      BY <1>1, <1>3
    <3>2. QED BY ONLY <3>1, ServirUltimo, Zenon
  <2>3. m.op = op /\ m.pid = p
    BY <1>3
  <2>4. EnMemoria' = TrasServir(ps, Append(s, m))
    BY <1>7, <2>1
  <2>5. EnMemoria' = IF op = "INICIAR_PROCESO" THEN TrasServir(ps, s) \cup {p} ELSE TrasServir(ps, s) \ {p}
    BY <2>2, <2>3, <2>4, Zenon
  <2>6. QED BY <2>1, <2>5, Zenon
<1>9. TrasServir(memoria.procesos, s) = EnMemoria
  BY <1>1 DEF EnMemoria
<1>10. QED BY <1>6, <1>8, <1>9

\* A thread takes an answer.
LEMMA RespuestaDeMemoria ==
  ASSUME TypeOK, RecibeDeMemoria
  PROVE  /\ Len(memoria'.pedidos) + memoria'.respuestas = (Len(memoria.pedidos) + memoria.respuestas) - 1
         /\ EnMemoria' = EnMemoria
<1>1. /\ memoria'.pedidos = memoria.pedidos /\ memoria'.respuestas = memoria.respuestas - 1
      /\ memoria'.procesos = memoria.procesos
      /\ memoria.respuestas \in Nat /\ Len(memoria.pedidos) \in Nat
  BY DEF RecibeDeMemoria, TypeOK, TMemoria
<1>2. EnMemoria' = EnMemoria
  BY <1>1 DEF EnMemoria, TrasServir
<1>3. \A a, b \in Nat : a + (b - 1) = (a + b) - 1
  OBVIOUS
<1>4. Len(memoria.pedidos) + (memoria.respuestas - 1) = (Len(memoria.pedidos) + memoria.respuestas) - 1
  BY <1>1, <1>3, Zenon
<1>5. Len(memoria'.pedidos) + memoria'.respuestas = Len(memoria.pedidos) + (memoria.respuestas - 1)
  BY <1>1, Zenon
<1>6. QED BY <1>2, <1>4, <1>5, Zenon

\* Memory serves a request: it was already counted on.
LEMMA SocketAtiende ==
  ASSUME InvLugar, SocketAlDia, MemoriaAtiende
  PROVE  SocketAlDia'
<1>1. PICK s \in Seq(TPedido) : s = memoria.pedidos
  BY DEF InvLugar, Inv, TypeOK, TMemoria
<1>2. PICK ps : ps = memoria.procesos
  OBVIOUS
<1>3. s # <<>>
  BY <1>1 DEF MemoriaAtiende
<1>4. /\ memoria'.pedidos = Tail(s) /\ memoria'.respuestas = memoria.respuestas + 1
      /\ memoria'.procesos = IF Head(s).op = "INICIAR_PROCESO" THEN ps \cup {Head(s).pid}
                             ELSE ps \ {Head(s).pid}
  BY <1>1, <1>2 DEF MemoriaAtiende
<1>5. Len(s) \in Nat /\ Len(Tail(s)) = Len(s) - 1 /\ memoria.respuestas \in Nat
  BY <1>3 DEF InvLugar, Inv, TypeOK, TMemoria
<1>6. Len(memoria'.pedidos) + memoria'.respuestas = Len(memoria.pedidos) + memoria.respuestas
  <2>1. \A a, b \in Nat : (a - 1) + (b + 1) = a + b
    OBVIOUS
  <2>2. QED BY <1>1, <1>4, <1>5, <2>1
<1>7. EnMemoria' = EnMemoria
  <2>1. EnMemoria' = TrasServir(memoria'.procesos, Tail(s))
    BY <1>4 DEF EnMemoria, TrasServir
  <2>2. EnMemoria' = TrasServir(ps, s)
    BY <1>3, <1>4, <2>1, ServirPrimero
  <2>3. QED BY <1>1, <1>2, <2>2 DEF EnMemoria
<1>8. Cargados' = Cargados /\ Entrando' = Entrando /\ Despedido' = Despedido /\ QuienesEsperan' = QuienesEsperan
  BY DEF MemoriaAtiende, kernel, procesos, locales, Cargados, Creados, Entrando, Despedido, QuienesEsperan
<1>9. QED BY <1>6, <1>7, <1>8 DEF SocketAlDia

\* The NEW -> READY thread has memory create a process.
LEMMA SocketLargo ==
  ASSUME InvLugar, SocketAlDia, Largo
  PROVE  SocketAlDia'
<1>1. /\ TypeOK /\ EnLugar /\ pc \in [Hilos -> Etiquetas] /\ {"largo", "exit"} \subseteq Hilos
      /\ cola["NEW"] \in Seq(Pids) /\ largo \in TLargo
  BY DEF InvLugar, Inv, TypeOK, Hilos, HilosFijos, Colas, ColasFijas
<1>2. pc'["exit"] = pc["exit"]
  BY <1>1, AjenoLargo
<1>3. CASE EsperaOrdenLargo \/ TomaGrado \/ NewVacia
  <2>1. UNCHANGED <<pid, pcb, largo>> /\ pc["largo"] # "creando" /\ pc'["largo"] # "creando"
    BY <1>1, <1>3 DEF EsperaOrdenLargo, TomaGrado, NewVacia, procesos, locales, En, Va
  <2>2. Cargados' = Cargados
    BY <1>1, <2>1, CargadosIguales DEF CargaIgual
  <2>3. Entrando' = Entrando /\ Despedido' = Despedido /\ QuienesEsperan' = QuienesEsperan
    BY <1>2, <2>1 DEF Entrando, Despedido, QuienesEsperan
  <2>4. QED BY <1>3, <2>2, <2>3, MemoriaAjena, SocketQuieto
<1>4. CASE SacaDeNew
  <2>1. PICK p : p = Head(cola["NEW"])
    OBVIOUS
  <2>2. p \in Pids /\ PideAMemoria("INICIAR_PROCESO", p)
    BY <1>1, <1>4, <2>1 DEF SacaDeNew
  <2>3. /\ pc["largo"] = "pausa" /\ pc'["largo"] = "creando" /\ UNCHANGED <<pid, pcb>>
        /\ largo'.entrante = p /\ largo'.saliente = largo.saliente
    BY <1>1, <1>4, <2>1 DEF SacaDeNew, En, Va, TLargo
  <2>4. Cargados' = Cargados
    BY <1>1, <2>3, CargadosIguales DEF CargaIgual
  <2>5. Entrando = {} /\ Entrando' = {p} /\ Despedido' = Despedido
    BY <1>2, <2>3 DEF Entrando, Despedido
  <2>6. QuienesEsperan' = QuienesEsperan + 1
    BY <1>2, <2>3 DEF QuienesEsperan, Uno
  <2>7. Len(memoria'.pedidos) + memoria'.respuestas = QuienesEsperan'
    BY <1>1, <2>2, <2>6, PedidoAMemoria DEF SocketAlDia
  <2>8. EnMemoria' = EnMemoria \cup {p}
    BY <1>1, <2>2, PedidoAMemoria
  <2>9. QED BY <2>4, <2>5, <2>7, <2>8 DEF SocketAlDia
<1>5. CASE PasaAReady
  <2>1. PICK p : p = largo.entrante
    OBVIOUS
  <2>2. /\ pc["largo"] = "creando" /\ pc'["largo"] = "orden" /\ largo'.saliente = largo.saliente
        /\ RecibeDeMemoria
    BY <1>1, <1>5 DEF PasaAReady, En, Va, TLargo
  <2>3. Cargados' = Cargados \cup {p}
    BY <1>5, <2>1, CargadosEntra
  <2>4. Entrando = {p} /\ Entrando' = {} /\ Despedido' = Despedido
    BY <1>2, <2>1, <2>2 DEF Entrando, Despedido
  <2>5. p \notin Despedido
    BY <2>1, <2>2, EntraOSale DEF Despedido
  <2>6. QuienesEsperan' = QuienesEsperan - 1
    BY <1>2, <2>2 DEF QuienesEsperan, Uno
  <2>7. Len(memoria'.pedidos) + memoria'.respuestas = QuienesEsperan'
    <3>1. Len(memoria'.pedidos) + memoria'.respuestas = (Len(memoria.pedidos) + memoria.respuestas) - 1
      BY <1>1, <2>2, RespuestaDeMemoria
    <3>2. Len(memoria.pedidos) + memoria.respuestas = QuienesEsperan
      BY DEF SocketAlDia
    <3>3. Len(memoria'.pedidos) + memoria'.respuestas = QuienesEsperan - 1
      BY <3>1, <3>2
    <3>4. QED BY <2>6, <3>3
  <2>8. EnMemoria' = EnMemoria
    BY <1>1, <2>2, RespuestaDeMemoria
  <2>9. QED BY <2>3, <2>4, <2>5, <2>7, <2>8 DEF SocketAlDia
<1>6. QED BY <1>3, <1>4, <1>5 DEF Largo

\* The EXIT thread has it remove one.
LEMMA SocketExit ==
  ASSUME InvLugar, SocketAlDia, Exit
  PROVE  SocketAlDia'
<1>1. /\ TypeOK /\ Control /\ EnLugar /\ pc \in [Hilos -> Etiquetas] /\ {"largo", "exit"} \subseteq Hilos
      /\ largo \in TLargo /\ pcb \in [Pids -> PCBs]
  BY DEF InvLugar, Inv, TypeOK, Hilos, HilosFijos
<1>2. pc'["largo"] = pc["largo"]
  BY <1>1, AjenoExit
<1>3. CASE EsperaOrdenExit \/ ExitDesdeNew \/ ExitDesdeOtro \/ LiberaTomaInst \/ LiberaInstancia \/ SacaDeExit
  <2>1. /\ pc["exit"] \notin {"eliminando", "marca"} /\ pc'["exit"] \notin {"eliminando", "marca"}
        /\ largo'.entrante = largo.entrante
    BY <1>1, <1>3 DEF EsperaOrdenExit, ExitDesdeNew, ExitDesdeOtro, LiberaTomaInst, LiberaInstancia,
      SacaDeExit, locales, En, Va, TLargo
  <2>2. Cargados' = Cargados
    <3>1. CASE LiberaInstancia
      BY <1>1, <3>1, CargaMovida, CargadosIguales DEF LiberaInstancia
    <3>2. CASE EsperaOrdenExit \/ ExitDesdeOtro \/ LiberaTomaInst
      <4>1. UNCHANGED <<pid, pcb>>
        BY <3>2 DEF EsperaOrdenExit, ExitDesdeOtro, LiberaTomaInst, procesos
      <4>2. QED BY <1>1, <4>1, CargadosIguales DEF CargaIgual
    <3>3. CASE ExitDesdeNew
      <4>1. PICK p : p = Head(cola["EXIT"])
        OBVIOUS
      <4>2. pcb' = [pcb EXCEPT ![p].estado = "EXIT"] /\ pcb[p].estado = "NEW" /\ UNCHANGED pid
        BY <3>3, <4>1 DEF ExitDesdeNew
      <4>3. CargaIgual
        BY <1>1, <4>2 DEF CargaIgual, EstadosCargados, PCBs
      <4>4. QED BY <1>1, <4>2, <4>3, CargadosIguales
    <3>4. CASE SacaDeExit
      <4>1. PICK p : p = largo.saliente
        OBVIOUS
      <4>2. pcb' = [pcb EXCEPT ![p].instruccion_io = FALSE] /\ UNCHANGED pid
        BY <3>4, <4>1 DEF SacaDeExit
      <4>3. CargaIgual
        BY <1>1, <4>2 DEF CargaIgual, PCBs
      <4>4. QED BY <1>1, <4>2, <4>3, CargadosIguales
    <3>5. QED BY <1>3, <3>1, <3>2, <3>3, <3>4
  <2>3. Entrando' = Entrando /\ Despedido' = Despedido /\ QuienesEsperan' = QuienesEsperan
    BY <1>2, <2>1 DEF Entrando, Despedido, QuienesEsperan
  <2>4. QED BY <1>3, <2>2, <2>3, MemoriaAjena, SocketQuieto
<1>4. CASE LiberaMemoria
  <2>1. PICK p : p = largo.saliente
    OBVIOUS
  <2>2. PideAMemoria("ELIMINAR_PROCESO", p)
    BY <1>4, <2>1 DEF LiberaMemoria
  <2>3. /\ pc["exit"] = "libera" /\ pc'["exit"] = "eliminando" /\ UNCHANGED <<pid, pcb, largo>>
    BY <1>1, <1>4 DEF LiberaMemoria, En, Va, procesos, locales
  <2>4. p \in Pids
    BY <1>1, <2>1, <2>3, DeLargo
  <2>5. Cargados' = Cargados
    BY <1>1, <2>3, CargadosIguales DEF CargaIgual
  <2>6. Despedido = {} /\ Despedido' = {p} /\ Entrando' = Entrando
    BY <1>2, <2>1, <2>3 DEF Entrando, Despedido
  <2>7. p \notin Entrando
    BY <2>1, <2>3, EntraOSale DEF Entrando
  <2>8. QuienesEsperan' = QuienesEsperan + 1
    BY <1>2, <2>3 DEF QuienesEsperan, Uno
  <2>9. Len(memoria'.pedidos) + memoria'.respuestas = QuienesEsperan'
    BY <1>1, <2>2, <2>4, <2>8, PedidoAMemoria DEF SocketAlDia
  <2>10. EnMemoria' = EnMemoria \ {p}
    BY <1>1, <2>2, <2>4, PedidoAMemoria
  <2>11. QED BY <2>5, <2>6, <2>7, <2>9, <2>10 DEF SocketAlDia
<1>5. CASE MemoriaLiberada
  <2>1. /\ pc["exit"] = "eliminando" /\ pc'["exit"] = "marca" /\ UNCHANGED <<pid, pcb, largo>>
        /\ RecibeDeMemoria
    BY <1>1, <1>5 DEF MemoriaLiberada, En, Va, procesos, locales
  <2>2. Cargados' = Cargados
    BY <1>1, <2>1, CargadosIguales DEF CargaIgual
  <2>3. Despedido' = Despedido /\ Entrando' = Entrando
    BY <1>2, <2>1 DEF Entrando, Despedido
  <2>4. QuienesEsperan' = QuienesEsperan - 1
    BY <1>2, <2>1 DEF QuienesEsperan, Uno
  <2>5. Len(memoria'.pedidos) + memoria'.respuestas = QuienesEsperan'
    <3>1. Len(memoria'.pedidos) + memoria'.respuestas = (Len(memoria.pedidos) + memoria.respuestas) - 1
      BY <1>1, <2>1, RespuestaDeMemoria
    <3>2. Len(memoria.pedidos) + memoria.respuestas = QuienesEsperan
      BY DEF SocketAlDia
    <3>3. Len(memoria'.pedidos) + memoria'.respuestas = QuienesEsperan - 1
      BY <3>1, <3>2
    <3>4. QED BY <2>4, <3>3
  <2>6. EnMemoria' = EnMemoria
    BY <1>1, <2>1, RespuestaDeMemoria
  <2>7. QED BY <2>2, <2>3, <2>5, <2>6 DEF SocketAlDia
<1>6. CASE MarcaExit
  <2>1. PICK p : p = largo.saliente
    OBVIOUS
  <2>2. pc["exit"] = "marca" /\ pc'["exit"] = "saca" /\ UNCHANGED largo
    BY <1>1, <1>6 DEF MarcaExit, En, Va, locales
  <2>3. Cargados' = Cargados \ {p}
    BY <1>6, <2>1, CargadosSale
  <2>4. Despedido = {p} /\ Despedido' = {} /\ Entrando' = Entrando
    BY <1>2, <2>1, <2>2 DEF Entrando, Despedido
  <2>5. QuienesEsperan' = QuienesEsperan
    BY <1>2, <2>2 DEF QuienesEsperan
  <2>6. UNCHANGED memoria
    BY <1>6, MemoriaAjena
  <2>7. EnMemoria' = EnMemoria
    BY <2>6 DEF EnMemoria, TrasServir
  <2>8. QED BY <2>3, <2>4, <2>5, <2>6, <2>7 DEF SocketAlDia
<1>7. QED BY <1>3, <1>4, <1>5, <1>6 DEF Exit

\* Every step keeps it.
LEMMA SocketPaso ==
  ASSUME InvLugar, SocketAlDia, [Next]_vars
  PROVE  SocketAlDia'
<1>1. /\ TypeOK /\ Control /\ EnLugar /\ pc \in [Hilos -> Etiquetas] /\ {"largo", "exit"} \subseteq Hilos
      /\ {"largo", "exit"} \cap Interfaces = {} /\ pcb \in [Pids -> PCBs]
  BY DEF InvLugar, Inv, TypeOK, Hilos, HilosFijos
<1>2. ASSUME Usuario \/ Consola \/ Corto \/ (\E i \in Interfaces : Manejador(i)) \/ Entorno \/ UNCHANGED vars
      PROVE  UNCHANGED largo /\ pc'["largo"] = pc["largo"] /\ pc'["exit"] = pc["exit"]
  <2>1. CASE Usuario \/ Consola \/ Corto \/ \E i \in Interfaces : Manejador(i)
    BY <1>1, <2>1, AjenoConsola, AjenoCorto, AjenoManejador DEF locales
  <2>2. CASE Entorno \/ UNCHANGED vars
    BY <2>2, AjenoEntorno DEF vars
  <2>3. QED BY <1>2, <2>1, <2>2
<1>3. ASSUME Usuario \/ Consola \/ Corto \/ (\E i \in Interfaces : Manejador(i))
               \/ (Entorno /\ ~MemoriaAtiende) \/ UNCHANGED vars,
             Cargados' = Cargados
      PROVE  SocketAlDia'
  <2>1. UNCHANGED largo /\ pc'["largo"] = pc["largo"] /\ pc'["exit"] = pc["exit"]
    BY <1>2, <1>3
  <2>2. Entrando' = Entrando /\ Despedido' = Despedido /\ QuienesEsperan' = QuienesEsperan
    BY <2>1 DEF Entrando, Despedido, QuienesEsperan
  <2>3. QED BY <1>3, <2>2, MemoriaAjena, SocketQuieto
<1>4. ASSUME NadieSeVa PROVE Cargados' = Cargados
  <2>1. CargaIgual /\ UNCHANGED pid
    BY <1>1, <1>4, Quietos DEF CargaIgual, Etapas
  <2>2. QED BY <1>1, <2>1, CargadosIguales
<1>5. ASSUME CargaIgual, Etapas PROVE Cargados' = Cargados
  BY <1>1, <1>5, CargadosIguales DEF Etapas
<1>6. CASE Usuario \/ Consola
  <2>1. CASE IniciarProceso
    BY <1>1, <1>3, <1>6, <2>1, CargadosIniciar
  <2>2. CASE FinalizarExtrae
    <3>1. CargaIgual /\ UNCHANGED pid
      BY <1>1, <2>2, CargaMovida DEF FinalizarExtrae
    <3>2. QED BY <1>1, <1>3, <1>6, <3>1, CargadosIguales
  <2>3. CASE ~IniciarProceso /\ ~FinalizarExtrae
    BY <1>3, <1>4, <1>6, <2>3 DEF NadieSeVa
  <2>4. QED BY <2>1, <2>2, <2>3
<1>7. CASE Corto
  <2>1. Etapas
    BY <1>1, <1>7, EtapasAjenas
  <2>2. CargaIgual \/ NadieSeVa
    BY <1>1, <1>7, CargaMovida DEF Corto, NadieSeVa
  <2>3. QED BY <1>3, <1>4, <1>5, <1>7, <2>1, <2>2
<1>8. ASSUME NEW i \in Interfaces, Manejador(i) PROVE SocketAlDia'
  <2>1. Etapas
    BY <1>1, <1>8, EtapasAjenas
  <2>2. CargaIgual \/ NadieSeVa
    BY <1>1, <1>8, CargaMovida DEF NadieSeVa
  <2>3. QED BY <1>3, <1>4, <1>5, <1>8, <2>1, <2>2
<1>9. CASE Entorno \/ UNCHANGED vars
  BY <1>3, <1>4, <1>9, SocketAtiende DEF NadieSeVa
<1>10. QED BY <1>6, <1>7, <1>8, <1>9, SocketLargo, SocketExit, PasosDelKernel

\* Memory starts empty.
LEMMA SocketInicial == Init => SocketAlDia
<1> SUFFICES ASSUME Init PROVE SocketAlDia
  OBVIOUS
<1>1. memoria.pedidos = <<>> /\ memoria.respuestas = 0 /\ memoria.procesos = {}
  BY DEF Init
<1>2. pc["largo"] = "orden" /\ pc["exit"] = "orden"
  BY DEF Init, Hilos, HilosFijos
<1>3. Cargados = {} /\ Entrando = {} /\ QuienesEsperan = 0
  <2>1. pid = 1
    BY DEF Init
  <2>2. Creados = {}
    BY <2>1 DEF Creados
  <2>3. QED BY <1>2, <2>2 DEF Cargados, Entrando, QuienesEsperan, Uno
<1>4. EnMemoria = {}
  BY <1>1 DEF EnMemoria, TrasServir
<1>5. Len(<<>>) + 0 = 0
  OBVIOUS
<1>6. QED BY <1>1, <1>3, <1>4, <1>5 DEF SocketAlDia

\* Two threads use the socket to memory without a lock and each may take the
\* answer to the other: still each gets one, and memory ends up with the
\* loaded processes and no other.
THEOREM MemoriaSigueAlKernel == Spec => []MemoriaAlDia
<1>1. InvLugar /\ SocketAlDia /\ [Next]_vars => SocketAlDia'
  BY SocketPaso
<1>2. InvLugar /\ SocketAlDia => MemoriaAlDia
  BY MemoriaFormula
<1>3. QED BY <1>1, <1>2, SocketInicial, InvarianteLugar, PTL DEF Spec

-----------------------------------------------------------------------------
(* The instances of the resources *)

\* The instances of r that the processes hold in a table of PCBs.
TenidasEn(t, r) == {x \in Pids \X Nat : x[2] \in 1 .. t[x[1]].recursos[r]}

\* They are the ones that ConservacionRecursos counts.
LEMMA TenidasFormula ==
  ASSUME NEW t, NEW r, \A p \in Pids : t[p].recursos[r] \in Nat
  PROVE  UNION {{p} \X (1 .. t[p].recursos[r]) : p \in Pids} = TenidasEn(t, r)
<1>1. ASSUME NEW p \in Pids, NEW k \in 1 .. t[p].recursos[r] PROVE <<p, k>> \in TenidasEn(t, r)
  BY <1>1 DEF TenidasEn
<1>2. ASSUME NEW x \in TenidasEn(t, r) PROVE \E p \in Pids : x \in {p} \X (1 .. t[p].recursos[r])
  BY <1>2 DEF TenidasEn
<1>3. QED BY <1>1, <1>2

\* One process holds one instance more, and the others what they held.
UnaMas(t, u, q, r) ==
  /\ q \in Pids /\ t[q].recursos[r] \in Nat /\ u[q].recursos[r] = t[q].recursos[r] + 1
  /\ \A p \in Pids : p # q => u[p].recursos[r] = t[p].recursos[r]

\* Then there is one more, and one fewer the other way round.
LEMMA CuentaMas ==
  ASSUME NEW t, NEW u, NEW q, NEW r, UnaMas(t, u, q, r)
  PROVE  /\ IsFiniteSet(TenidasEn(t, r)) => /\ IsFiniteSet(TenidasEn(u, r))
                                           /\ Cardinality(TenidasEn(u, r)) = Cardinality(TenidasEn(t, r)) + 1
         /\ IsFiniteSet(TenidasEn(u, r)) => /\ IsFiniteSet(TenidasEn(t, r))
                                           /\ Cardinality(TenidasEn(t, r)) = Cardinality(TenidasEn(u, r)) - 1
<1>1. PICK n \in Nat : n = t[q].recursos[r]
  BY DEF UnaMas
<1>2. q \in Pids /\ u[q].recursos[r] = n + 1 /\ \A p \in Pids : p # q => u[p].recursos[r] = t[p].recursos[r]
  BY <1>1 DEF UnaMas
<1>3. PICK x : x = <<q, n + 1>>
  OBVIOUS
<1>4. x \notin TenidasEn(t, r) /\ x \in TenidasEn(u, r)
  BY <1>1, <1>2, <1>3 DEF TenidasEn
<1>5. ASSUME NEW y \in Pids \X Nat, y # x PROVE y \in TenidasEn(u, r) <=> y \in TenidasEn(t, r)
  <2>1. PICK p \in Pids, k \in Nat : y = <<p, k>>
    BY <1>5
  <2>2. CASE p = q
    <3>1. k # n + 1
      BY <1>3, <1>5, <2>1, <2>2
    <3>2. k \in 1 .. (n + 1) <=> k \in 1 .. n
      BY <3>1
    <3>3. QED BY <1>1, <1>2, <2>1, <2>2, <3>2 DEF TenidasEn
  <2>3. CASE p # q
    BY <1>2, <2>1, <2>3 DEF TenidasEn
  <2>4. QED BY <2>2, <2>3
<1>6. TenidasEn(t, r) \subseteq Pids \X Nat /\ TenidasEn(u, r) \subseteq Pids \X Nat
  BY DEF TenidasEn
<1>7. TenidasEn(u, r) = TenidasEn(t, r) \cup {x} /\ TenidasEn(t, r) = TenidasEn(u, r) \ {x}
  BY <1>4, <1>5, <1>6
<1> DEFINE T == TenidasEn(t, r)
           U == TenidasEn(u, r)
<1> HIDE DEF T, U
<1>8. x \notin T /\ x \in U /\ U = T \cup {x} /\ T = U \ {x}
  BY <1>4, <1>7 DEF T, U
<1>9. IsFiniteSet(T) => IsFiniteSet(U) /\ Cardinality(U) = Cardinality(T) + 1
  BY <1>8, FS_AddElement
<1>10. IsFiniteSet(U) => IsFiniteSet(T) /\ Cardinality(T) = Cardinality(U) - 1
  <2>1. IsFiniteSet(U) => IsFiniteSet(U \ {x}) /\ Cardinality(U \ {x}) = Cardinality(U) - 1
    BY <1>8, FS_RemoveElement
  <2>2. QED BY <1>8, <2>1, Zenon
<1>11. QED BY <1>9, <1>10 DEF T, U

\* A SIGNAL under way, from the message of the CPU to the return of the
\* instance, is of one that the process holds, and so is one that the EXIT
\* thread is about to return.
SenalFundada ==
  /\ \A m \in TDesalojo :
       desalojos = <<m>> /\ m.motivo = "SIGNAL_RECURSO" /\ m.arg \in Recursos => pcb[cpu.pid].recursos[m.arg] > 0
  /\ pc["corto"] = "trata" /\ corto.motivo = "SIGNAL_RECURSO" /\ corto.arg \in Recursos =>
       pcb[corto.proceso].recursos[corto.arg] > 0
  /\ pc["corto"] = "signal" => pcb[corto.proceso].recursos[corto.arg] > 0
  /\ pc["exit"] = "mediano" => pcb[largo.saliente].recursos[largo.recurso] > 0

\* A PCB not given to anybody yet holds nothing.
SinEstrenar == \A p \in Pids : p \notin Creados => \A r \in Recursos : pcb[p].recursos[r] = 0

\* The instance that the short-term scheduler took from its process and has
\* not given to anybody yet.
Devolviendo(r) == Uno(pc["corto"] = "signal_mediano" /\ corto.arg = r)

Cuadra(r) ==
  /\ IsFiniteSet(Tenidas(r))
  /\ instancias[r] + Cardinality(Tenidas(r)) + Devolviendo(r) = INSTANCIAS[r]

RecursosAlDia == SenalFundada /\ SinEstrenar /\ \A r \in Recursos : Cuadra(r)

\* What a process holds of a resource is a number.
LEMMA NumeroTenido ==
  ASSUME TypeOK
  PROVE  /\ \A p \in Pids, r \in Recursos : pcb[p].recursos[r] \in Nat
         /\ \A r \in Recursos : Tenidas(r) = TenidasEn(pcb, r) /\ instancias[r] \in Nat /\ INSTANCIAS[r] \in Nat
<1>1. \A p \in Pids, r \in Recursos : pcb[p].recursos[r] \in Nat
  BY ValorPCB DEF TypeOK
<1>2. \A r \in Recursos : Tenidas(r) = TenidasEn(pcb, r)
  BY <1>1, TenidasFormula DEF Tenidas
<1>3. QED BY <1>1, <1>2, ConstantesBienFormadas DEF TypeOK

\* The same after the step.
LEMMA NumeroTenidoDespues ==
  ASSUME TypeOK'
  PROVE  /\ \A p \in Pids, r \in Recursos : pcb'[p].recursos[r] \in Nat
         /\ \A r \in Recursos : Tenidas(r)' = TenidasEn(pcb', r) /\ instancias'[r] \in Nat
<1>1. \A p \in Pids, r \in Recursos : pcb'[p].recursos[r] \in Nat
  BY ValorPCB DEF TypeOK
<1>2. \A r \in Recursos : Tenidas(r)' = TenidasEn(pcb', r)
  BY <1>1, TenidasFormula DEF Tenidas
<1>3. QED BY <1>1, <1>2 DEF TypeOK

\* A step that leaves a resource alone.
LEMMA CuadraIgual ==
  ASSUME TypeOK, TypeOK', NEW r \in Recursos, Cuadra(r), instancias'[r] = instancias[r],
         Devolviendo(r)' = Devolviendo(r), \A p \in Pids : pcb'[p].recursos[r] = pcb[p].recursos[r]
  PROVE  Cuadra(r)'
<1>1. TenidasEn(pcb', r) = TenidasEn(pcb, r)
  BY DEF TenidasEn
<1>2. Tenidas(r)' = Tenidas(r)
  BY <1>1, NumeroTenido, NumeroTenidoDespues
<1>3. QED BY <1>2 DEF Cuadra

\* The steps that neither grant nor return an instance.
OtroPaso ==
  [Next]_vars /\ ~WaitConcede /\ ~SignalDevuelve /\ ~SignalEntrega /\ ~LiberaInstancia

\* They leave what everybody holds; a PCB that is given to a new process held
\* nothing.
LEMMA RecursosQuietos ==
  ASSUME TypeOK, Control, SinEstrenar, OtroPaso
  PROVE  \A q \in Pids, r \in Recursos : pcb'[q].recursos[r] = pcb[q].recursos[r]
<1> DEFINE Igual == \A q \in Pids, r \in Recursos : pcb'[q].recursos[r] = pcb[q].recursos[r]
<1>1. pcb \in [Pids -> PCBs]
  BY DEF TypeOK
\* Fields of one PCB, other than that one.
<1>2. ASSUME NEW p, NEW v, NEW w,
             \/ pcb' = [pcb EXCEPT ![p].parcial = v]
             \/ pcb' = [pcb EXCEPT ![p].desalojo = v]
             \/ pcb' = [pcb EXCEPT ![p].pedido_exit = v]
             \/ pcb' = [pcb EXCEPT ![p].instruccion_io = v]
             \/ pcb' = [pcb EXCEPT ![p].estado = v]
             \/ pcb' = [pcb EXCEPT ![p].estado = v, ![p].parcial = w]
             \/ pcb' = [pcb EXCEPT ![p].estado = v, ![p].cola_bloqueado = w]
      PROVE  Igual
  <2> SUFFICES ASSUME NEW q \in Pids, NEW r \in Recursos PROVE pcb'[q].recursos[r] = pcb[q].recursos[r]
    OBVIOUS
  <2>1. CASE pcb' = [pcb EXCEPT ![p].parcial = v] BY <1>1, <2>1 DEF PCBs
  <2>2. CASE pcb' = [pcb EXCEPT ![p].desalojo = v] BY <1>1, <2>2 DEF PCBs
  <2>3. CASE pcb' = [pcb EXCEPT ![p].pedido_exit = v] BY <1>1, <2>3 DEF PCBs
  <2>4. CASE pcb' = [pcb EXCEPT ![p].instruccion_io = v] BY <1>1, <2>4 DEF PCBs
  <2>5. CASE pcb' = [pcb EXCEPT ![p].estado = v] BY <1>1, <2>5 DEF PCBs
  <2>6. CASE pcb' = [pcb EXCEPT ![p].estado = v, ![p].parcial = w] BY <1>1, <2>6 DEF PCBs
  <2>7. CASE pcb' = [pcb EXCEPT ![p].estado = v, ![p].cola_bloqueado = w] BY <1>1, <2>7 DEF PCBs
  <2>8. QED BY <1>2, <2>1, <2>2, <2>3, <2>4, <2>5, <2>6, <2>7
<1>3. CASE UNCHANGED pcb
  BY <1>3
<1>4. CASE (Usuario /\ ~IniciarProceso)
           \/ (Consola /\ ~FinalizarExtrae /\ ~MarcaPedidoFinalizacion)
  BY <1>4 DEF Usuario, Consola, PideFinalizar, PideComando, PideComandoGlobal, IniciarPlanificacion,
    SubeMultiprogramacion, PideBajarMultiprogramacion, TomaPausada, DetenerPlanificacion,
    ProcesoEstado, FinalizarSinEfecto, FinalizarEnEjecucion, FinalizarCuelga, FinalizarNulo,
    BajaMultiprogramacion, procesos
<1>5. CASE IniciarProceso
  <2>1. pid \in Pids /\ pid \notin Creados /\ pcb' = [pcb EXCEPT ![pid] = PCBNuevo]
    BY <1>5 DEF IniciarProceso, Creados, Pids
  <2>2. PICK n : n = pid
    OBVIOUS
  <2>3. n \in Pids /\ pcb' = [pcb EXCEPT ![n] = PCBNuevo]
    BY <2>1, <2>2
  <2>4. \A r \in Recursos : pcb[n].recursos[r] = 0 /\ PCBNuevo.recursos[r] = 0
    BY <2>1, <2>2 DEF SinEstrenar, PCBNuevo
  <2>5. QED BY <1>1, <2>3, <2>4
<1>6. CASE FinalizarExtrae \/ MarcaPedidoFinalizacion
  BY <1>2, <1>6 DEF FinalizarExtrae, MarcaPedidoFinalizacion
<1>7. CASE Corto
  <2>1. CASE EsperaOrdenCorto \/ NoHayListos \/ EnviaProcesoACpu \/ TrataWait \/ TrataSignal \/ RespondeCpu
             \/ TrataFin \/ TrataRecursoInvalido
    BY <2>1 DEF EsperaOrdenCorto, NoHayListos, EnviaProcesoACpu, TrataWait, TrataSignal, RespondeCpu,
      TrataFin, TrataRecursoInvalido, MandaAExit, procesos
  <2>2. CASE AvisaExit \/ TrataIO \/ TrataIOInvalida \/ IOEnvia \/ LimpiaDesalojo
    BY <1>2, <2>2 DEF AvisaExit, TrataIO, TrataIOInvalida, IOEnvia, LimpiaDesalojo
  <2>3. CASE RecibeDesalojo
    <3>1. PICK p : p = Head(cola["RUNNING"])
      OBVIOUS
    <3>2. PICK v : v = IF pcb[p].desalojo = "SIN_DESALOJAR" THEN "DESALOJADO" ELSE pcb[p].desalojo
      OBVIOUS
    <3>3. pcb' = [pcb EXCEPT ![p].desalojo = v]
      BY <2>3, <3>1, <3>2 DEF RecibeDesalojo
    <3>4. QED BY <1>2, <3>3
  <2>4. CASE EligeProceso
    <3>1. PICK o : o = ColaDeListos
      OBVIOUS
    <3>2. PICK p : p = Head(cola[o])
      OBVIOUS
    <3>3. PICK b : b = IF o = "READY_VRR" THEN pcb[p].parcial ELSE FALSE
      OBVIOUS
    <3>4. pcb' = [pcb EXCEPT ![p].estado = "EXEC", ![p].parcial = b]
      BY <2>4, <3>1, <3>2, <3>3 DEF EligeProceso
    <3>5. QED BY <1>2, <3>4
  <2>5. CASE WaitBloquea \/ IOBloquea
    BY <1>2, <2>5 DEF WaitBloquea, IOBloquea
  <2>6. CASE TrataFinQuantum
    <3>1. PICK p : p = corto.proceso
      OBVIOUS
    <3>2. PICK b : b = ReiniciaQuantum(pcb[p].parcial)
      OBVIOUS
    <3>3. pcb' = [pcb EXCEPT ![p].estado = "READY", ![p].parcial = b]
      BY <2>6, <3>1, <3>2 DEF TrataFinQuantum
    <3>4. QED BY <1>2, <3>3
  <2>7. QED BY <1>7, <2>1, <2>2, <2>3, <2>4, <2>5, <2>6 DEF Corto, OtroPaso
<1>8. CASE Largo \/ Exit
  <2>1. \/ UNCHANGED pcb
        \/ \E p : \/ pcb' = [pcb EXCEPT ![p].estado = "READY"]
                  \/ pcb' = [pcb EXCEPT ![p].estado = "EXIT"]
                  \/ pcb' = [pcb EXCEPT ![p].instruccion_io = FALSE]
    BY <1>8 DEF OtroPaso, Largo, EsperaOrdenLargo, TomaGrado, SacaDeNew, NewVacia, PasaAReady, Exit,
      EsperaOrdenExit, ExitDesdeNew, ExitDesdeOtro, LiberaTomaInst, LiberaMemoria, MemoriaLiberada,
      MarcaExit, SacaDeExit, procesos
  <2>2. QED BY <1>2, <1>3, <2>1
<1>9. ASSUME NEW i \in Interfaces, Manejador(i) PROVE Igual
  <2>1. PICK p : p = Head(cola[i])
    OBVIOUS
  <2>2. \/ UNCHANGED pcb
        \/ pcb' = [pcb EXCEPT ![p].instruccion_io = FALSE]
        \/ pcb' = [pcb EXCEPT ![p].estado = "READY"]
    BY <1>9, <2>1 DEF Manejador, RecibeIOLiberar, TomaMediano, NadieQueDesbloquear, AtiendeSiguiente,
      LiberaInterfaz, DesbloqueaIO, procesos
  <2>3. QED BY <1>2, <1>3, <2>2
<1>10. CASE Entorno \/ UNCHANGED vars
  BY <1>3, <1>10, AjenoEntorno DEF vars, procesos
<1>11. QED BY <1>4, <1>5, <1>6, <1>7, <1>8, <1>9, <1>10, PasosDelKernel DEF OtroPaso

\* They leave the instances available, and nobody returns one.
LEMMA InstanciasQuietas ==
  ASSUME TypeOK, Control, OtroPaso
  PROVE  UNCHANGED instancias /\ \A r \in Recursos : Devolviendo(r)' = Devolviendo(r)
<1>1. pc \in [Hilos -> Etiquetas] /\ {"corto"} \subseteq Hilos /\ "corto" \notin Interfaces
  BY DEF TypeOK, Hilos, HilosFijos
<1>2. CASE Usuario \/ Consola
  <2>1. UNCHANGED instancias
    BY <1>2 DEF Usuario, Consola, IniciarProceso, PideFinalizar, PideComando, PideComandoGlobal,
      IniciarPlanificacion, SubeMultiprogramacion, PideBajarMultiprogramacion, TomaPausada,
      DetenerPlanificacion, ProcesoEstado, FinalizarSinEfecto, FinalizarEnEjecucion, FinalizarExtrae,
      MarcaPedidoFinalizacion, FinalizarCuelga, FinalizarNulo, BajaMultiprogramacion, bloqueos
  <2>2. QED BY <1>1, <1>2, <2>1, AjenoConsola DEF Devolviendo
<1>3. CASE Largo \/ Exit
  <2>1. UNCHANGED instancias
    BY <1>3 DEF OtroPaso, Largo, EsperaOrdenLargo, TomaGrado, SacaDeNew, NewVacia, PasaAReady, Exit,
      EsperaOrdenExit, ExitDesdeNew, ExitDesdeOtro, LiberaTomaInst, LiberaMemoria, MemoriaLiberada,
      MarcaExit, SacaDeExit, bloqueos
  <2>2. QED BY <1>1, <1>3, <2>1, AjenoLargo, AjenoExit DEF Devolviendo
<1>4. CASE Corto
  <2>1. UNCHANGED instancias
    BY <1>4 DEF OtroPaso, Corto, EsperaOrdenCorto, EligeProceso, NoHayListos, EnviaProcesoACpu,
      RecibeDesalojo, TrataFin, TrataRecursoInvalido, AvisaExit, TrataWait, WaitBloquea, TrataSignal,
      TrataFinQuantum, TrataIOInvalida, TrataIO, IOBloquea, IOEnvia, RespondeCpu, LimpiaDesalojo,
      MandaAExit, bloqueos
  <2>2. pc["corto"] # "signal_mediano" /\ pc'["corto"] # "signal_mediano"
    BY <1>1, <1>4 DEF OtroPaso, Corto, EsperaOrdenCorto, EligeProceso, NoHayListos, EnviaProcesoACpu,
      RecibeDesalojo, TrataFin, TrataRecursoInvalido, AvisaExit, TrataWait, WaitBloquea, TrataSignal,
      TrataFinQuantum, TrataIOInvalida, TrataIO, IOBloquea, IOEnvia, RespondeCpu, LimpiaDesalojo,
      MandaAExit, Trata, En, Va
  <2>3. QED BY <2>1, <2>2 DEF Devolviendo, Uno
<1>5. ASSUME NEW i \in Interfaces, Manejador(i)
      PROVE  UNCHANGED instancias /\ \A r \in Recursos : Devolviendo(r)' = Devolviendo(r)
  <2>1. UNCHANGED instancias
    BY <1>5 DEF Manejador, RecibeIOLiberar, TomaMediano, DesbloqueaIO, NadieQueDesbloquear,
      AtiendeSiguiente, LiberaInterfaz, bloqueos
  <2>2. QED BY <1>1, <1>5, <2>1, AjenoManejador DEF Devolviendo, locales
<1>6. CASE Entorno \/ UNCHANGED vars
  BY <1>6, AjenoEntorno DEF Devolviendo, vars
<1>7. QED BY <1>2, <1>3, <1>4, <1>5, <1>6, PasosDelKernel DEF OtroPaso

\* The process in RUNNING has been created, is in no other queue and is not
\* the one that leaves.
LEMMA DeRunning ==
  ASSUME InvLugar, NEW p, Contains(cola["RUNNING"], p), p \in Pids
  PROVE  /\ p \in Creados
         /\ pc["exit"] \notin {"orden", "pausa"} => largo.saliente # p
         /\ \A r \in Recursos : cola[r] # <<>> => Head(cola[r]) # p
<1>1. TypeOK /\ EnLugar /\ "RUNNING" \in Colas \ {"EXIT"}
  BY DEF InvLugar, Inv, Colas, ColasFijas
<1>2. p \in Creados /\ Donde(p) = {"RUNNING"}
  BY <1>1, EnCola
<1>3. pc["exit"] \notin {"orden", "pausa"} => largo.saliente # p
  <2>1. ASSUME pc["exit"] \notin {"orden", "pausa"} PROVE Donde(largo.saliente) = {"EXIT"}
    BY <1>1, <2>1, DeLargo, PrimeroDeExit
  <2>2. QED BY <1>2, <2>1
<1>4. ASSUME NEW r \in Recursos, cola[r] # <<>>, Head(cola[r]) = p PROVE FALSE
  <2>1. r \in Colas /\ r # "RUNNING"
    BY DEF Colas, ColasFijas
  <2>2. cola[r] \in Seq(Pids)
    BY <1>1, <2>1 DEF TypeOK
  <2>3. Contains(cola[r], p)
    BY <1>4, <2>2, PrimeroDeCola
  <2>4. r \in Donde(p)
    BY <2>1, <2>3, DondeFormula
  <2>5. QED BY <1>2, <2>1, <2>4
<1>5. QED BY <1>2, <1>3, <1>4

\* The first that waits for a resource has been created and is not the one
\* that leaves.
LEMMA DeRecurso ==
  ASSUME InvLugar, NEW r \in Recursos, cola[r] # <<>>, NEW q, q = Head(cola[r])
  PROVE  q \in Pids /\ q \in Creados /\ (pc["exit"] \notin {"orden", "pausa"} => largo.saliente # q)
<1>1. TypeOK /\ EnLugar /\ r \in Colas \ {"EXIT"}
  BY DEF InvLugar, Inv, Colas, ColasFijas
<1>2. cola[r] \in Seq(Pids)
  BY <1>1 DEF TypeOK
<1>3. q \in Pids /\ Contains(cola[r], q)
  BY <1>2, PrimeroDeCola
<1>4. q \in Creados /\ Donde(q) = {r}
  BY <1>1, <1>3, EnCola
<1>5. pc["exit"] \notin {"orden", "pausa"} => largo.saliente # q
  <2>1. ASSUME pc["exit"] \notin {"orden", "pausa"} PROVE Donde(largo.saliente) = {"EXIT"}
    BY <1>1, <2>1, DeLargo, PrimeroDeExit
  <2>2. QED BY <1>1, <1>4, <2>1
<1>6. QED BY <1>3, <1>4, <1>5

\* The process that the short-term scheduler treats is the one in RUNNING.
LEMMA ElTratado ==
  ASSUME InvLugar, pc["corto"] \in {"trata", "wait", "signal", "signal_mediano"}
  PROVE  corto.proceso \in Pids /\ Contains(cola["RUNNING"], corto.proceso)
<1>1. PICK p \in Pids : p = corto.proceso
  BY DEF InvLugar, Inv, Control, CortoEnOrden
<1>2. cola["RUNNING"] = <<p>>
  BY <1>1 DEF InvLugar, RunningEnOrden
<1>3. Contains(cola["RUNNING"], p)
  BY <1>2, UnoSolo DEF Contains
<1>4. QED BY <1>1, <1>3

\* While a SIGNAL is on its way to the kernel the CPU waits for the answer
\* and its process is the one in RUNNING.
LEMMA MensajeDeRunning ==
  ASSUME InvLugar, Protocolo, NEW m \in TDesalojo, desalojos = <<m>>, m.motivo = "SIGNAL_RECURSO"
  PROVE  /\ pc["corto"] = "recibe" \/ pc["corto"] = "limpia"
         /\ pc["corto"] = "recibe" => cpu.pid = Head(cola["RUNNING"])
         /\ dispatch = <<>> /\ cpu.estado = "pide" /\ cpu.pid \in Pids /\ Contains(cola["RUNNING"], cpu.pid)
<1>1. /\ Control /\ RunningEnOrden /\ cola \in [Colas -> Seq(Pids)] /\ "RUNNING" \in Colas
  BY DEF InvLugar, Inv, TypeOK, Colas, ColasFijas
<1>2. desalojos # <<>> /\ \A a : desalojos = <<a>> => a.motivo \in PedidosDeRecurso
  <2>1. \A a, b : <<a>> = <<b>> => a = b
    OBVIOUS
  <2>2. QED BY <2>1, Mensajes DEF PedidosDeRecurso
<1>3. ~EnReposo /\ ~EnTrato /\ \A p : ~Enviado(p)
  BY <1>2 DEF EnReposo, EnTrato, Enviado
<1>4. \A p : EnRafaga(p) => cpu.estado = "pide" /\ cpu.pid = p /\ dispatch = <<>>
  BY <1>2 DEF EnRafaga
<1>5. pc["corto"] \in {"orden", "elige", "envia", "recibe", "trata", "avisa_exit", "wait", "signal",
                       "signal_mediano", "io", "io_envia", "responde", "limpia"}
  BY <1>1 DEF Control, CortoEnOrden
<1>6. \/ pc["corto"] = "recibe" /\ EnRafaga(Head(cola["RUNNING"]))
      \/ pc["corto"] = "limpia" /\ corto.respuesta = "CONTINUAR" /\ EnRafaga(corto.proceso)
  <2>1. pc["corto"] \notin {"orden", "elige", "envia"}
    BY <1>3 DEF Protocolo
  <2>2. pc["corto"] \notin {"trata", "wait", "signal", "signal_mediano", "io", "io_envia", "avisa_exit",
                            "responde"}
    BY <1>3 DEF Protocolo
  <2>3. pc["corto"] = "recibe" \/ pc["corto"] = "limpia"
    BY <1>5, <2>1, <2>2, Zenon
  <2>4. QED BY <1>3, <2>3 DEF Protocolo, En
<1>7. CASE pc["corto"] = "recibe" /\ EnRafaga(Head(cola["RUNNING"]))
  <2>1. PICK s \in Seq(Pids) : s = cola["RUNNING"]
    BY <1>1
  <2>2. Len(s) = 1
    BY <1>1, <1>7, <2>1 DEF RunningEnOrden
  <2>3. s # <<>>
    <3>1. Len(<<>>) = 0
      OBVIOUS
    <3>2. 0 # 1
      OBVIOUS
    <3>3. QED BY <2>2, <3>1, <3>2, Zenon
  <2>4. Head(s) \in Pids /\ Contains(s, Head(s))
    BY <2>3, PrimeroDeCola
  <2>5. QED BY <1>4, <1>7, <2>1, <2>4
<1>8. CASE pc["corto"] = "limpia" /\ corto.respuesta = "CONTINUAR" /\ EnRafaga(corto.proceso)
  <2>1. PICK p \in Pids : p = corto.proceso
    BY <1>1, <1>8 DEF Control, CortoEnOrden
  <2>2. cola["RUNNING"] = <<p>>
    BY <1>1, <1>8, <2>1 DEF RunningEnOrden
  <2>3. Contains(cola["RUNNING"], p)
    BY <2>2, UnoSolo DEF Contains
  <2>4. QED BY <1>4, <1>8, <2>1, <2>3
<1>9. QED BY <1>6, <1>7, <1>8

\* Only what p holds of r changes.
SoloTiene(t, u, p, r, n) ==
  /\ u[p].recursos[r] = n
  /\ \A q \in Pids, x \in Recursos : q # p \/ x # r => u[q].recursos[x] = t[q].recursos[x]

\* An assignment to one counter of one PCB.
LEMMA CampoTenido ==
  ASSUME NEW t \in [Pids -> PCBs], NEW p \in Pids, NEW r \in Recursos, NEW n
  PROVE  /\ SoloTiene(t, [t EXCEPT ![p].recursos[r] = n], p, r, n)
         /\ \A e, c : SoloTiene(t, [t EXCEPT ![p].recursos[r] = n, ![p].estado = e, ![p].cola_bloqueado = c], p, r, n)
<1>1. ASSUME NEW u, u = [t EXCEPT ![p].recursos[r] = n] PROVE SoloTiene(t, u, p, r, n)
  BY <1>1 DEF SoloTiene, PCBs
<1>2. ASSUME NEW e, NEW c, NEW u, u = [t EXCEPT ![p].recursos[r] = n, ![p].estado = e, ![p].cola_bloqueado = c]
      PROVE SoloTiene(t, u, p, r, n)
  BY <1>2 DEF SoloTiene, PCBs
<1>3. QED BY <1>1, <1>2

\* WAIT grants an instance.
LEMMA Concede ==
  ASSUME InvLugar, WaitConcede
  PROVE  /\ corto.arg \in Recursos /\ UnaMas(pcb, pcb', corto.proceso, corto.arg)
         /\ \A q \in Pids, x \in Recursos : x # corto.arg => pcb'[q].recursos[x] = pcb[q].recursos[x]
         /\ instancias'[corto.arg] = instancias[corto.arg] - 1
         /\ \A x \in Recursos : x # corto.arg => instancias'[x] = instancias[x]
<1>1. TypeOK /\ pcb \in [Pids -> PCBs] /\ instancias \in [Recursos -> Nat]
  BY DEF InvLugar, Inv, TypeOK
<1>2. PICK p \in Pids, r \in Recursos : p = corto.proceso /\ r = corto.arg
  BY DEF InvLugar, Inv, Control, CortoEnOrden, WaitConcede, En
<1>3. PICK n \in Nat : n = pcb[p].recursos[r]
  BY <1>1, NumeroTenido
<1>4. pcb' = [pcb EXCEPT ![p].recursos[r] = n + 1]
  BY <1>2, <1>3 DEF WaitConcede
<1>5. SoloTiene(pcb, pcb', p, r, n + 1)
  BY <1>1, <1>4, CampoTenido
<1>6. UnaMas(pcb, pcb', p, r)
  BY <1>3, <1>5 DEF UnaMas, SoloTiene
<1>7. instancias' = [instancias EXCEPT ![r] = @ - 1]
  BY <1>2 DEF WaitConcede
<1>8. QED BY <1>1, <1>2, <1>5, <1>6, <1>7 DEF SoloTiene

\* SIGNAL takes one from the process.
LEMMA Devuelve ==
  ASSUME InvLugar, SenalFundada, SignalDevuelve
  PROVE  /\ corto.arg \in Recursos /\ UnaMas(pcb', pcb, corto.proceso, corto.arg)
         /\ \A q \in Pids, x \in Recursos :
              q # corto.proceso \/ x # corto.arg => pcb'[q].recursos[x] = pcb[q].recursos[x]
         /\ UNCHANGED instancias
<1>1. TypeOK /\ pcb \in [Pids -> PCBs]
  BY DEF InvLugar, Inv, TypeOK
<1>2. PICK p \in Pids, r \in Recursos : p = corto.proceso /\ r = corto.arg
  BY DEF InvLugar, Inv, Control, CortoEnOrden, SignalDevuelve, En
<1>3. PICK n \in Nat : n = pcb[p].recursos[r]
  BY <1>1, NumeroTenido
<1>4. n > 0
  BY <1>2, <1>3 DEF SenalFundada, SignalDevuelve, En
<1>5. pcb' = [pcb EXCEPT ![p].recursos[r] = n - 1]
  BY <1>2, <1>3, <1>4 DEF SignalDevuelve, Devuelto
<1>6. SoloTiene(pcb, pcb', p, r, n - 1)
  BY <1>1, <1>5, CampoTenido
<1>7. UnaMas(pcb', pcb, p, r)
  BY <1>3, <1>4, <1>6 DEF UnaMas, SoloTiene
<1>8. UNCHANGED instancias
  BY DEF SignalDevuelve, bloqueos
<1>9. QED BY <1>2, <1>6, <1>7, <1>8 DEF SoloTiene

\* An instance goes to the first that waits, or becomes available.
LEMMA Entrega ==
  ASSUME InvLugar, NEW r \in Recursos, NEW t \in [Pids -> PCBs], EntregaInstancia(r, t)
  PROVE  /\ \A x \in Recursos : x # r => /\ instancias'[x] = instancias[x]
                                         /\ \A q \in Pids : pcb'[q].recursos[x] = t[q].recursos[x]
         /\ \/ /\ cola[r] # <<>> /\ UnaMas(t, pcb', Head(cola[r]), r)
               /\ instancias'[r] = instancias[r]
            \/ /\ \A q \in Pids : pcb'[q].recursos[r] = t[q].recursos[r]
               /\ instancias'[r] = instancias[r] + 1
<1>1. instancias \in [Recursos -> Nat]
  BY DEF InvLugar, Inv, TypeOK
<1>2. CASE HayBloqueado(r)
  <2>1. PICK q : q = Head(cola[r])
    OBVIOUS
  <2>2. cola[r] # <<>> /\ UNCHANGED instancias
    BY <1>2 DEF EntregaInstancia, HayBloqueado
  <2>3. q \in Pids
    BY <2>1, <2>2, DeRecurso
  <2>4. PICK n \in Nat : n = t[q].recursos[r]
    BY <2>3, ValorPCB
  <2>5. pcb' = [t EXCEPT ![q].recursos[r] = n + 1, ![q].estado = "READY", ![q].cola_bloqueado = Nulo]
    BY <1>2, <2>1, <2>4 DEF EntregaInstancia
  <2>6. SoloTiene(t, pcb', q, r, n + 1)
    BY <2>3, <2>5, CampoTenido
  <2>7. UnaMas(t, pcb', q, r)
    BY <2>3, <2>4, <2>6 DEF UnaMas, SoloTiene
  <2>8. QED BY <2>1, <2>2, <2>6, <2>7 DEF SoloTiene
<1>3. CASE ~HayBloqueado(r)
  BY <1>1, <1>3 DEF EntregaInstancia
<1>4. QED BY <1>2, <1>3

\* The EXIT thread returns an instance of the process that leaves: the PCBs
\* between its two halves.
Soltado == [pcb EXCEPT ![largo.saliente].recursos[largo.recurso] = Devuelto(@)]

\* One fewer, and then one more to another one or available.
LEMMA Suelta ==
  ASSUME InvLugar, SenalFundada, LiberaInstancia
  PROVE  /\ largo.recurso \in Recursos /\ largo.saliente \in Pids
         /\ Soltado \in [Pids -> PCBs] /\ EntregaInstancia(largo.recurso, Soltado)
         /\ UnaMas(Soltado, pcb, largo.saliente, largo.recurso)
         /\ \A q \in Pids, x \in Recursos :
              q # largo.saliente \/ x # largo.recurso => Soltado[q].recursos[x] = pcb[q].recursos[x]
<1>1. TypeOK /\ EnLugar /\ pcb \in [Pids -> PCBs] /\ pc["exit"] = "mediano"
  BY DEF InvLugar, Inv, TypeOK, LiberaInstancia, En
<1>2. PICK p \in Pids, r \in Recursos : p = largo.saliente /\ r = largo.recurso
  <2>1. largo.saliente \in Pids
    BY <1>1, DeLargo
  <2>2. largo.recurso \in Recursos
    BY <1>1 DEF InvLugar, Inv, Control, LargoEnOrden, En
  <2>3. QED BY <2>1, <2>2
<1>3. PICK n \in Nat : n = pcb[p].recursos[r]
  BY <1>1, NumeroTenido
<1>4. n > 0 /\ n - 1 \in Nat
  BY <1>1, <1>2, <1>3 DEF SenalFundada
<1>5. PICK t : t = [pcb EXCEPT ![p].recursos[r] = n - 1]
  OBVIOUS
<1>6. Soltado = t
  BY <1>2, <1>3, <1>4, <1>5 DEF Soltado, Devuelto
<1>7. t \in [Pids -> PCBs]
  <2>1. [pcb[p] EXCEPT !.recursos[r] = n - 1] \in PCBs
    BY <1>1, <1>4, CampoPCB
  <2>2. t = [pcb EXCEPT ![p] = [pcb[p] EXCEPT !.recursos[r] = n - 1]]
    BY <1>5
  <2>3. QED BY <1>1, <2>1, <2>2
<1>8. SoloTiene(pcb, t, p, r, n - 1)
  BY <1>1, <1>5, CampoTenido
<1>9. UnaMas(t, pcb, p, r)
  BY <1>3, <1>4, <1>8 DEF UnaMas, SoloTiene
<1>10. EntregaInstancia(largo.recurso, Soltado)
  BY DEF LiberaInstancia, Soltado
<1>11. QED BY <1>2, <1>6, <1>7, <1>8, <1>9, <1>10 DEF SoloTiene

\* A step creates one process or none.
LEMMA CreadosCrecen ==
  ASSUME TypeOK, [Next]_vars
  PROVE  Creados \subseteq Creados'
<1>1. CASE IniciarProceso
  BY <1>1, CargadosIniciar DEF IniciarProceso, Creados, Pids, TypeOK
<1>2. CASE ~IniciarProceso
  <2>1. CASE Largo \/ Exit
    BY <2>1 DEF Largo, EsperaOrdenLargo, TomaGrado, SacaDeNew, NewVacia, PasaAReady, Exit,
      EsperaOrdenExit, ExitDesdeNew, ExitDesdeOtro, LiberaTomaInst, LiberaInstancia, LiberaMemoria,
      MemoriaLiberada, MarcaExit, SacaDeExit, procesos, Creados
  <2>2. CASE ~(Largo \/ Exit)
    <3>1. Etapas
      BY <1>2, <2>2, PasosDelKernel, EtapasAjenas
    <3>2. QED BY <3>1 DEF Etapas, Creados
  <2>3. QED BY <2>1, <2>2
<1>3. QED BY <1>1, <1>2

\* Nobody takes an instance from a process but itself and the EXIT thread.
LEMMA NadieQuita ==
  ASSUME InvLugar, SenalFundada, SinEstrenar, [Next]_vars, NEW p \in Pids, NEW r \in Recursos,
         SignalDevuelve => p # corto.proceso, LiberaInstancia => p # largo.saliente, pcb[p].recursos[r] > 0
  PROVE  pcb'[p].recursos[r] > 0
<1>1. TypeOK /\ Control /\ pcb[p].recursos[r] \in Nat
  BY NumeroTenido DEF InvLugar, Inv
<1>2. \A n \in Nat : n + 1 > 0
  OBVIOUS
<1>3. CASE OtroPaso
  BY <1>1, <1>3, RecursosQuietos
<1>4. CASE WaitConcede
  <2>1. UnaMas(pcb, pcb', corto.proceso, corto.arg)
    BY <1>4, Concede
  <2>2. CASE r # corto.arg
    BY <1>4, <2>2, Concede
  <2>3. CASE r = corto.arg /\ p = corto.proceso
    BY <1>1, <1>2, <2>1, <2>3 DEF UnaMas
  <2>4. CASE r = corto.arg /\ p # corto.proceso
    BY <2>1, <2>4 DEF UnaMas
  <2>5. QED BY <2>2, <2>3, <2>4
<1>5. CASE SignalDevuelve
  BY <1>5, Devuelve
<1>6. ASSUME NEW x \in Recursos, NEW t \in [Pids -> PCBs], EntregaInstancia(x, t), t[p].recursos[r] = pcb[p].recursos[r]
      PROVE  pcb'[p].recursos[r] > 0
  <2>1. CASE x # r
    BY <1>6, <2>1, Entrega
  <2>2. CASE x = r /\ p = Head(cola[x]) /\ UnaMas(t, pcb', Head(cola[x]), x)
    BY <1>1, <1>2, <1>6, <2>2 DEF UnaMas
  <2>3. CASE x = r /\ p # Head(cola[x]) /\ UnaMas(t, pcb', Head(cola[x]), x)
    BY <1>6, <2>3 DEF UnaMas
  <2>4. CASE x = r /\ \A q \in Pids : pcb'[q].recursos[x] = t[q].recursos[x]
    BY <1>6, <2>4
  <2>5. QED BY <1>6, <2>1, <2>2, <2>3, <2>4, Entrega
<1>7. CASE SignalEntrega
  <2>1. corto.arg \in Recursos /\ EntregaInstancia(corto.arg, pcb) /\ pcb \in [Pids -> PCBs]
    BY <1>1, <1>7 DEF SignalEntrega, Control, CortoEnOrden, En, TypeOK
  <2>2. QED BY <1>6, <2>1
<1>8. CASE LiberaInstancia
  <2>1. Soltado[p].recursos[r] = pcb[p].recursos[r]
    BY <1>8, Suelta
  <2>2. QED BY <1>6, <1>8, <2>1, Suelta
<1>9. QED BY <1>3, <1>4, <1>5, <1>7, <1>8 DEF OtroPaso

\* Nor gives one to a process that has not been created.
LEMMA SinEstrenarPaso ==
  ASSUME InvLugar, SenalFundada, SinEstrenar, [Next]_vars
  PROVE  SinEstrenar'
<1> SUFFICES ASSUME NEW p \in Pids, p \notin Creados', NEW r \in Recursos PROVE pcb'[p].recursos[r] = 0
  BY DEF SinEstrenar
<1>1. TypeOK /\ Control
  BY DEF InvLugar, Inv
<1>2. p \notin Creados /\ pcb[p].recursos[r] = 0
  BY <1>1, CreadosCrecen DEF SinEstrenar
<1>3. CASE OtroPaso
  BY <1>1, <1>2, <1>3, RecursosQuietos
<1>4. CASE WaitConcede \/ SignalDevuelve
  <2>1. p # corto.proceso
    <3>1. pc["corto"] \in {"wait", "signal"}
      BY <1>4 DEF WaitConcede, SignalDevuelve, En
    <3>2. QED BY <1>2, <3>1, ElTratado, DeRunning
  <2>2. CASE WaitConcede
    BY <1>2, <2>1, <2>2, Concede DEF UnaMas
  <2>3. CASE SignalDevuelve
    BY <1>2, <2>1, <2>3, Devuelve
  <2>4. QED BY <1>4, <2>2, <2>3
<1>5. ASSUME NEW x \in Recursos, NEW t \in [Pids -> PCBs], EntregaInstancia(x, t), t[p].recursos[r] = 0
      PROVE  pcb'[p].recursos[r] = 0
  <2>1. CASE x # r
    BY <1>5, <2>1, Entrega
  <2>2. CASE x = r /\ cola[x] # <<>> /\ UnaMas(t, pcb', Head(cola[x]), x)
    <3>1. p # Head(cola[x])
      BY <1>2, <2>2, DeRecurso
    <3>2. QED BY <1>5, <2>2, <3>1 DEF UnaMas
  <2>3. CASE x = r /\ \A q \in Pids : pcb'[q].recursos[x] = t[q].recursos[x]
    BY <1>5, <2>3
  <2>4. QED BY <1>5, <2>1, <2>2, <2>3, Entrega
<1>6. CASE SignalEntrega
  <2>1. corto.arg \in Recursos /\ EntregaInstancia(corto.arg, pcb) /\ pcb \in [Pids -> PCBs]
    BY <1>1, <1>6 DEF SignalEntrega, Control, CortoEnOrden, En, TypeOK
  <2>2. QED BY <1>2, <1>5, <2>1
<1>7. CASE LiberaInstancia
  <2>1. p # largo.saliente
    BY <1>1, <1>2, <1>7, DeLargo DEF LiberaInstancia, En, InvLugar
  <2>2. Soltado[p].recursos[r] = 0
    BY <1>2, <1>7, <2>1, Suelta
  <2>3. QED BY <1>5, <1>7, <2>2, Suelta
<1>8. QED BY <1>3, <1>4, <1>6, <1>7 DEF OtroPaso

\* What the conjunct on the messages needs: a new one is of a program that
\* holds what it returns, and the process of an old one keeps it.
LEMMA MensajePaso ==
  ASSUME InvLugar, TypeOK', Protocolo, SenalFundada, SinEstrenar, ~SignalSinWait, [Next]_vars,
         NEW m \in TDesalojo, desalojos' = <<m>>, m.motivo = "SIGNAL_RECURSO", m.arg \in Recursos
  PROVE  pcb'[cpu'.pid].recursos[m.arg] > 0
<1>1. TypeOK /\ Control /\ cpu \in TCpu /\ desalojos \in Seq(TDesalojo)
  BY DEF InvLugar, Inv, TypeOK
\* A message that was there.
<1>2. ASSUME desalojos = <<m>>, cpu'.pid = cpu.pid PROVE pcb'[cpu'.pid].recursos[m.arg] > 0
  <2>1. /\ pc["corto"] = "recibe" \/ pc["corto"] = "limpia"
        /\ cpu.pid \in Pids /\ Contains(cola["RUNNING"], cpu.pid)
    BY <1>2, MensajeDeRunning
  <2>2. ~SignalDevuelve
    BY <2>1 DEF SignalDevuelve, En
  <2>3. LiberaInstancia => cpu.pid # largo.saliente
    BY <2>1, DeRunning DEF LiberaInstancia, En
  <2>4. pcb[cpu.pid].recursos[m.arg] > 0
    BY <1>2 DEF SenalFundada
  <2>5. QED BY <1>2, <2>1, <2>2, <2>3, <2>4, NadieQuita
<1>3. CASE Cpu
  <2>1. UNCHANGED pcb
    BY <1>3, AjenoEntorno DEF Entorno, procesos
  <2>2. CASE CpuRecibeProceso \/ CpuRecibeRespuesta
    <3>1. desalojos = <<m>> /\ dispatch # <<>>
      BY <2>2 DEF CpuRecibeProceso, CpuRecibeRespuesta
    <3>2. QED BY <3>1, MensajeDeRunning
  <2>3. ASSUME NEW a, Desaloja(a) PROVE a = m
    BY <1>1, <2>3, AgregadoUnico DEF Desaloja
  <2>4. ~CpuInterrumpida
    <3>1. ASSUME CpuInterrumpida PROVE \E o \in {"FINALIZAR_PROCESO", "FIN_QUANTUM"} : Desaloja([motivo |-> o, arg |-> Nulo])
      BY <3>1 DEF CpuInterrumpida
    <3>2. QED BY <2>3, <3>1
  <2>5. ASSUME NEW o \in Programa \cap {"EXIT_PROCESO", "OUT_OF_MEMORY", "IO"}, CpuTermina(o) PROVE FALSE
    BY <2>3, <2>5 DEF CpuTermina
  <2>6. ASSUME NEW o \in Programa \cap {"WAIT_RECURSO", "SIGNAL_RECURSO"}, CpuPideRecurso(o)
        PROVE  pcb[cpu.pid].recursos[m.arg] > 0 /\ cpu'.pid = cpu.pid
    <3>1. PICK r : ProgramaPuede(o, r) /\ Desaloja([motivo |-> o, arg |-> r])
      BY <2>6 DEF CpuPideRecurso
    <3>2. o = "SIGNAL_RECURSO" /\ r = m.arg
      BY <2>3, <3>1
    <3>3. cpu'.pid = cpu.pid
      BY <1>1, <2>6 DEF CpuPideRecurso, TCpu
    <3>4. QED BY <3>1, <3>2, <3>3 DEF ProgramaPuede
  <2>7. QED BY <1>3, <2>1, <2>2, <2>4, <2>5, <2>6 DEF Cpu
<1>4. CASE Corto
  <2>1. desalojos' = desalojos /\ cpu' = cpu
    <3>1. CASE RecibeDesalojo
      <4>1. desalojos # <<>> /\ desalojos' = Tail(desalojos) /\ pc["corto"] = "recibe"
        BY <3>1 DEF RecibeDesalojo, En
      <4>2. PICK p : Enviado(p) \/ EnRafaga(p)
        BY <4>1 DEF Protocolo, En
      <4>3. PICK a : desalojos = <<a>>
        BY <4>1, <4>2 DEF Enviado, EnRafaga
      <4>4. desalojos' = <<>>
        BY <4>1, <4>3, Mensajes
      <4>5. QED BY <4>4, Mensajes
    <3>2. CASE ~RecibeDesalojo
      BY <1>4, <3>2 DEF Corto, EsperaOrdenCorto, EligeProceso, NoHayListos, EnviaProcesoACpu,
        TrataFin, TrataRecursoInvalido, MandaAExit, AvisaExit, TrataWait, WaitBloquea, WaitConcede,
        TrataSignal, SignalDevuelve, SignalEntrega, TrataFinQuantum, TrataIOInvalida, TrataIO, IOBloquea,
        IOEnvia, RespondeCpu, LimpiaDesalojo, exterior
    <3>3. QED BY <3>1, <3>2
  <2>2. QED BY <1>2, <2>1
<1>5. CASE ~Cpu /\ ~Corto
  <2>1. \/ Usuario \/ Consola \/ Largo \/ Exit \/ ControlQuantum \/ MemoriaAtiende
        \/ \E i \in Interfaces : Manejador(i) \/ Conexion(i) \/ Desconexion(i) \/ DispositivoTermina(i)
        \/ UNCHANGED vars
    BY <1>5, PasosDelKernel DEF Entorno
  <2>2. desalojos' = desalojos /\ cpu'.pid = cpu.pid
    BY <1>1, <2>1, AjenoCpu DEF MismaCpu, vars
  <2>3. QED BY <1>2, <2>2
<1>6. QED BY <1>3, <1>4, <1>5

\* Nobody but the short-term scheduler moves it, nor the EXIT thread.
LEMMA AjenosATodos ==
  ASSUME TypeOK, [Next]_vars
  PROVE  /\ ~Corto => corto' = corto /\ pc'["corto"] = pc["corto"]
         /\ ~Exit => /\ largo'.saliente = largo.saliente /\ largo'.recurso = largo.recurso
                     /\ pc'["exit"] = pc["exit"]
<1>1. /\ pc \in [Hilos -> Etiquetas] /\ {"corto", "exit"} \subseteq Hilos /\ largo \in TLargo
      /\ {"corto", "exit"} \cap Interfaces = {}
  BY DEF TypeOK, Hilos, HilosFijos
<1>2. ~Corto => corto' = corto /\ pc'["corto"] = pc["corto"]
  BY <1>1, PasosDelKernel, AjenoConsola, AjenoLargo, AjenoExit, AjenoManejador, AjenoEntorno DEF locales, vars
<1>3. ~Exit => pc'["exit"] = pc["exit"]
  BY <1>1, PasosDelKernel, AjenoConsola, AjenoLargo, AjenoCorto, AjenoManejador, AjenoEntorno DEF vars
<1>4. ~Exit /\ ~Largo => largo' = largo
  BY <1>1, PasosDelKernel, AjenoConsola, AjenoCorto, AjenoManejador, AjenoEntorno DEF locales, vars
<1>5. Largo => largo'.saliente = largo.saliente /\ largo'.recurso = largo.recurso
  BY <1>1 DEF Largo, EsperaOrdenLargo, TomaGrado, SacaDeNew, NewVacia, PasaAReady, locales, TLargo
<1>6. QED BY <1>2, <1>3, <1>4, <1>5

\* A SIGNAL stays founded until the instance is returned.
LEMMA SenalPaso ==
  ASSUME InvLugar, TypeOK', Protocolo, SenalFundada, SinEstrenar, ~SignalSinWait, [Next]_vars
  PROVE  SenalFundada'
<1>1. /\ TypeOK /\ Control /\ pc \in [Hilos -> Etiquetas] /\ {"corto", "exit"} \subseteq Hilos
      /\ cola \in [Colas -> Seq(Pids)] /\ EnLugar
  BY DEF InvLugar, Inv, TypeOK, Hilos, HilosFijos
\* The process being treated keeps what it held while others move.
<1>2. ASSUME pc["corto"] \in {"trata", "signal"}, corto' = corto, NEW r \in Recursos, r = corto.arg, ~SignalDevuelve,
             pcb[corto.proceso].recursos[r] > 0
      PROVE  pcb'[corto'.proceso].recursos[r] > 0
  <2>1. corto.proceso \in Pids /\ Contains(cola["RUNNING"], corto.proceso)
    BY <1>2, ElTratado
  <2>2. LiberaInstancia => corto.proceso # largo.saliente
    BY <2>1, DeRunning DEF LiberaInstancia, En
  <2>3. QED BY <1>2, <2>1, <2>2, NadieQuita
<1>3. ASSUME NEW m \in TDesalojo, desalojos' = <<m>>, m.motivo = "SIGNAL_RECURSO", m.arg \in Recursos
      PROVE  pcb'[cpu'.pid].recursos[m.arg] > 0
  BY <1>3, MensajePaso
<1>4. ASSUME pc'["corto"] = "trata", corto'.motivo = "SIGNAL_RECURSO", corto'.arg \in Recursos
      PROVE  pcb'[corto'.proceso].recursos[corto'.arg] > 0
  <2>1. CASE Corto
    <3>1. RecibeDesalojo
      BY <1>1, <1>4, <2>1 DEF Corto, EsperaOrdenCorto, EligeProceso, NoHayListos, EnviaProcesoACpu,
        TrataFin, TrataRecursoInvalido, MandaAExit, AvisaExit, TrataWait, WaitBloquea, WaitConcede,
        TrataSignal, SignalDevuelve, SignalEntrega, TrataFinQuantum, TrataIOInvalida, TrataIO, IOBloquea,
        IOEnvia, RespondeCpu, LimpiaDesalojo, Va
    <3>2. PICK m : m = Head(desalojos)
      OBVIOUS
    <3>3. PICK p : p = Head(cola["RUNNING"])
      OBVIOUS
    <3>4. desalojos # <<>> /\ pc["corto"] = "recibe"
          /\ corto'.proceso = p /\ corto'.motivo = m.motivo /\ corto'.arg = m.arg
      BY <3>1, <3>2, <3>3 DEF RecibeDesalojo, En
    <3>5. PICK a \in TDesalojo : desalojos = <<a>>
      BY <3>4 DEF Protocolo, En, Enviado, EnRafaga
    <3>6. a = m
      BY <3>2, <3>5, Mensajes
    <3>7. p \in Pids /\ p = cpu.pid
      BY <1>4, <3>3, <3>4, <3>5, <3>6, MensajeDeRunning
    <3>8. pcb[p].recursos[m.arg] > 0
      BY <1>4, <3>4, <3>5, <3>6, <3>7 DEF SenalFundada
    <3>9. OtroPaso
      BY <1>1, <1>4, <3>4 DEF OtroPaso, WaitConcede, SignalDevuelve, SignalEntrega, LiberaInstancia, RecibeDesalojo, En, Va
    <3>10. QED BY <1>1, <1>4, <3>4, <3>7, <3>8, <3>9, RecursosQuietos
  <2>2. CASE ~Corto
    <3>1. corto' = corto /\ pc["corto"] = "trata" /\ ~SignalDevuelve
      BY <1>1, <1>4, <2>2, AjenosATodos DEF Corto
    <3>2. pcb[corto.proceso].recursos[corto.arg] > 0
      BY <1>4, <3>1 DEF SenalFundada
    <3>3. QED BY <1>2, <1>4, <3>1, <3>2
  <2>3. QED BY <2>1, <2>2
<1>5. ASSUME pc'["corto"] = "signal" PROVE pcb'[corto'.proceso].recursos[corto'.arg] > 0
  <2>1. CASE Corto
    <3>1. TrataSignal
      BY <1>1, <1>5, <2>1 DEF Corto, EsperaOrdenCorto, EligeProceso, NoHayListos, EnviaProcesoACpu,
        RecibeDesalojo, TrataFin, TrataRecursoInvalido, MandaAExit, AvisaExit, TrataWait, WaitBloquea,
        WaitConcede, SignalDevuelve, SignalEntrega, TrataFinQuantum, TrataIOInvalida, TrataIO, IOBloquea,
        IOEnvia, RespondeCpu, LimpiaDesalojo, Va
    <3>2. /\ UNCHANGED <<pcb, corto>> /\ pc["corto"] = "trata" /\ corto.motivo = "SIGNAL_RECURSO" /\ corto.arg # Nulo
      BY <3>1 DEF TrataSignal, Trata, Motivo, En, procesos, locales
    <3>3. corto.arg \in Recursos
      BY <1>1, <3>2 DEF Control, CortoEnOrden, En, Argumentos
    <3>4. QED BY <3>2, <3>3 DEF SenalFundada
  <2>2. CASE ~Corto
    <3>1. corto' = corto /\ pc["corto"] = "signal" /\ ~SignalDevuelve
      BY <1>1, <1>5, <2>2, AjenosATodos DEF Corto
    <3>2. pcb[corto.proceso].recursos[corto.arg] > 0 /\ corto.arg \in Recursos
      BY <1>1, <3>1 DEF SenalFundada, Control, CortoEnOrden
    <3>3. QED BY <1>2, <3>1, <3>2
  <2>3. QED BY <2>1, <2>2
<1>6. ASSUME pc'["exit"] = "mediano" PROVE pcb'[largo'.saliente].recursos[largo'.recurso] > 0
  <2>1. CASE Exit
    <3>1. LiberaTomaInst
      BY <1>1, <1>6, <2>1 DEF Exit, EsperaOrdenExit, ExitDesdeNew, ExitDesdeOtro, LiberaInstancia,
        LiberaMemoria, MemoriaLiberada, MarcaExit, SacaDeExit, Va
    <3>2. PICK k \in Tenidos(largo.saliente) : largo' = [largo EXCEPT !.recurso = RECURSOS[k]]
      BY <3>1 DEF LiberaTomaInst
    <3>3. pcb[largo.saliente].recursos[RECURSOS[k]] > 0 /\ UNCHANGED pcb
      BY <3>1 DEF LiberaTomaInst, Tenidos, procesos
    <3>4. largo'.saliente = largo.saliente /\ largo'.recurso = RECURSOS[k]
      BY <1>1, <3>2 DEF TypeOK, TLargo
    <3>5. QED BY <3>3, <3>4
  <2>2. CASE ~Exit
    <3>1. /\ largo'.saliente = largo.saliente /\ largo'.recurso = largo.recurso /\ pc["exit"] = "mediano"
          /\ ~LiberaInstancia
      BY <1>1, <1>6, <2>2, AjenosATodos DEF Exit
    <3>2. PICK p \in Pids, r \in Recursos : p = largo.saliente /\ r = largo.recurso
      <4>1. largo.saliente \in Pids
        BY <1>1, <3>1, DeLargo
      <4>2. largo.recurso \in Recursos
        BY <1>1, <3>1 DEF Control, LargoEnOrden, En
      <4>3. QED BY <4>1, <4>2
    <3>3. SignalDevuelve => p # corto.proceso
      BY <3>1, <3>2, ElTratado, DeRunning DEF SignalDevuelve, En
    <3>4. pcb[p].recursos[r] > 0
      BY <3>1, <3>2 DEF SenalFundada
    <3>5. QED BY <3>1, <3>2, <3>3, <3>4, NadieQuita
  <2>3. QED BY <2>1, <2>2
<1>7. QED BY <1>3, <1>4, <1>5, <1>6 DEF SenalFundada

\* The sum of a resource after an instance is granted or taken back.
LEMMA CuadraPaso ==
  ASSUME InvLugar, TypeOK', RecursosAlDia, [Next]_vars, NEW r \in Recursos
  PROVE  Cuadra(r)'
<1> DEFINE T == TenidasEn(pcb, r)
           U == TenidasEn(pcb', r)
           i == instancias[r]
           d == Devolviendo(r)
<1>1. /\ TypeOK /\ Control /\ pc \in [Hilos -> Etiquetas] /\ {"corto", "exit"} \subseteq Hilos
      /\ pcb \in [Pids -> PCBs] /\ SenalFundada /\ SinEstrenar /\ Cuadra(r)
      /\ corto \in TCorto
  BY DEF InvLugar, Inv, TypeOK, Hilos, HilosFijos, RecursosAlDia
<1>2. /\ IsFiniteSet(T) /\ Cardinality(T) \in Nat /\ i \in Nat /\ d \in Nat /\ INSTANCIAS[r] \in Nat
      /\ i + Cardinality(T) + d = INSTANCIAS[r]
  BY <1>1, NumeroTenido, FS_CardinalityType DEF Cuadra, Devolviendo, Uno
<1>3. ASSUME IsFiniteSet(U), instancias'[r] + Cardinality(U) + Devolviendo(r)' = i + Cardinality(T) + d
      PROVE  Cuadra(r)'
  BY <1>2, <1>3, NumeroTenidoDespues DEF Cuadra
<1>4. (\A q \in Pids : pcb'[q].recursos[r] = pcb[q].recursos[r]) => U = T
  BY DEF TenidasEn
<1> HIDE DEF T, U, i, d
<1>5. CASE OtroPaso
  <2>1. U = T
    BY <1>1, <1>4, <1>5, RecursosQuietos
  <2>2. instancias'[r] = i /\ Devolviendo(r)' = d
    BY <1>1, <1>5, InstanciasQuietas DEF i, d
  <2>3. QED BY <1>2, <1>3, <2>1, <2>2
<1>6. CASE WaitConcede
  <2>1. d = 0 /\ Devolviendo(r)' = 0
    BY <1>1, <1>6 DEF WaitConcede, En, Va, Devolviendo, Uno, d
  <2>2. CASE r # corto.arg
    <3>1. U = T /\ instancias'[r] = i
      BY <1>4, <1>6, <2>2, Concede DEF i
    <3>2. QED BY <1>2, <1>3, <2>1, <3>1
  <2>3. CASE r = corto.arg
    <3>1. UnaMas(pcb, pcb', corto.proceso, r) /\ instancias'[r] = i - 1
      BY <1>6, <2>3, Concede DEF i
    <3>2. IsFiniteSet(U) /\ Cardinality(U) = Cardinality(T) + 1
      BY <1>2, <3>1, CuentaMas DEF T, U
    <3>3. QED BY <1>2, <1>3, <2>1, <3>1, <3>2
  <2>4. QED BY <2>2, <2>3
<1>7. CASE SignalDevuelve
  <2>1. instancias'[r] = i /\ d = 0
    BY <1>1, <1>7, Devuelve DEF i, d, Devolviendo, Uno, SignalDevuelve, En
  <2>2. pc'["corto"] = "signal_mediano" /\ corto' = corto
    BY <1>1, <1>7 DEF SignalDevuelve, Va, locales
  <2>3. CASE r # corto.arg
    <3>1. U = T /\ Devolviendo(r)' = 0
      BY <1>1, <1>4, <1>7, <2>2, <2>3, Devuelve DEF Devolviendo, Uno
    <3>2. QED BY <1>2, <1>3, <2>1, <3>1
  <2>4. CASE r = corto.arg
    <3>1. UnaMas(pcb', pcb, corto.proceso, r) /\ Devolviendo(r)' = 1
      BY <1>1, <1>7, <2>2, <2>4, Devuelve DEF Devolviendo, Uno
    <3>2. IsFiniteSet(U) /\ Cardinality(U) = Cardinality(T) - 1
      BY <1>2, <3>1, CuentaMas DEF T, U
    <3>3. QED BY <1>2, <1>3, <2>1, <3>1, <3>2
  <2>5. QED BY <2>3, <2>4
\* An instance handed over adds one to what is held or available.
<1>8. ASSUME NEW t \in [Pids -> PCBs], NEW x \in Recursos, EntregaInstancia(x, t), IsFiniteSet(TenidasEn(t, r))
      PROVE  /\ IsFiniteSet(U)
             /\ instancias'[r] + Cardinality(U) = i + Cardinality(TenidasEn(t, r)) + Uno(x = r)
  <2> DEFINE M == TenidasEn(t, r)
  <2>1. Cardinality(M) \in Nat
    BY <1>8, FS_CardinalityType
  <2>2. (\A q \in Pids : pcb'[q].recursos[r] = t[q].recursos[r]) => U = M
    BY DEF TenidasEn, U
  <2> HIDE DEF M
  <2>3. IsFiniteSet(M)
    BY <1>8 DEF M
  <2>4. CASE x # r
    <3>1. U = M /\ instancias'[r] = i /\ Uno(x = r) = 0
      BY <1>8, <2>2, <2>4, Entrega DEF i, Uno
    <3>2. QED BY <1>2, <2>1, <2>3, <3>1 DEF M
  <2>5. CASE x = r /\ UnaMas(t, pcb', Head(cola[x]), r) /\ instancias'[r] = instancias[r]
    <3>1. IsFiniteSet(U) /\ Cardinality(U) = Cardinality(M) + 1
      BY <2>3, <2>5, CuentaMas DEF U, M
    <3>2. instancias'[r] = i /\ Uno(x = r) = 1
      BY <2>5 DEF i, Uno
    <3>3. QED BY <1>2, <2>1, <3>1, <3>2 DEF M
  <2>6. CASE x = r /\ (\A q \in Pids : pcb'[q].recursos[r] = t[q].recursos[r])
             /\ instancias'[r] = instancias[r] + 1
    <3>1. U = M /\ instancias'[r] = i + 1 /\ Uno(x = r) = 1
      BY <2>2, <2>6 DEF i, Uno
    <3>2. QED BY <1>2, <2>1, <2>3, <3>1 DEF M
  <2>7. QED BY <1>8, <2>4, <2>5, <2>6, Entrega
<1>9. CASE SignalEntrega
  <2>1. PICK x \in Recursos : x = corto.arg
    BY <1>1, <1>9 DEF SignalEntrega, Control, CortoEnOrden, En
  <2>2. EntregaInstancia(x, pcb)
    BY <1>9, <2>1 DEF SignalEntrega
  <2>3. IsFiniteSet(U) /\ instancias'[r] + Cardinality(U) = i + Cardinality(T) + Uno(x = r)
    BY <1>1, <1>2, <1>8, <2>2 DEF T
  <2>4. d = Uno(x = r) /\ Devolviendo(r)' = 0
    BY <1>1, <1>9, <2>1 DEF SignalEntrega, En, Va, d, Devolviendo, Uno
  <2>5. instancias'[r] \in Nat /\ Cardinality(U) \in Nat
    BY <2>3, NumeroTenidoDespues, FS_CardinalityType
  <2>6. QED BY <1>2, <1>3, <2>3, <2>4, <2>5
<1>10. CASE LiberaInstancia
  <2>1. PICK x \in Recursos : x = largo.recurso
    BY <1>1, <1>10, Suelta
  <2>2. PICK t \in [Pids -> PCBs] : t = Soltado
    BY <1>1, <1>10, Suelta
  <2>3. /\ EntregaInstancia(x, t) /\ UnaMas(t, pcb, largo.saliente, x)
        /\ \A q \in Pids, y \in Recursos : y # x => t[q].recursos[y] = pcb[q].recursos[y]
    BY <1>1, <1>10, <2>1, <2>2, Suelta
  <2>4. IsFiniteSet(TenidasEn(t, r)) /\ Cardinality(TenidasEn(t, r)) + Uno(x = r) = Cardinality(T)
    <3>1. CASE x = r
      <4>1. IsFiniteSet(TenidasEn(t, r)) /\ Cardinality(TenidasEn(t, r)) = Cardinality(T) - 1
        BY <1>2, <2>3, <3>1, CuentaMas DEF T
      <4>2. QED BY <1>2, <3>1, <4>1 DEF Uno
    <3>2. CASE x # r
      <4>1. TenidasEn(t, r) = T
        BY <2>3, <3>2 DEF TenidasEn, T
      <4>2. QED BY <1>2, <3>2, <4>1 DEF Uno
    <3>3. QED BY <3>1, <3>2
  <2>5. IsFiniteSet(U) /\ instancias'[r] + Cardinality(U) = i + Cardinality(TenidasEn(t, r)) + Uno(x = r)
    BY <1>8, <2>3, <2>4
  <2>6. Devolviendo(r)' = d
    BY <1>1, <1>10, AjenoExit DEF Exit, d, Devolviendo
  <2>7. /\ instancias'[r] \in Nat /\ Cardinality(U) \in Nat /\ Cardinality(TenidasEn(t, r)) \in Nat
        /\ Uno(x = r) \in Nat
    BY <2>4, <2>5, NumeroTenidoDespues, FS_CardinalityType DEF Uno
  <2>8. QED BY <1>2, <1>3, <2>4, <2>5, <2>6, <2>7
<1>11. QED BY <1>5, <1>6, <1>7, <1>9, <1>10 DEF OtroPaso

\* At first nobody holds anything.
LEMMA RecursosInicial == Init => RecursosAlDia
<1> SUFFICES ASSUME Init PROVE RecursosAlDia
  OBVIOUS
<1>1. \A p \in Pids, r \in Recursos : pcb[p].recursos[r] = 0
  BY DEF Init, PCBNuevo
<1>2. desalojos = <<>> /\ pc["corto"] = "orden" /\ pc["exit"] = "orden" /\ instancias = INSTANCIAS
  BY DEF Init, Hilos, HilosFijos
<1>3. SenalFundada
  BY <1>2, Mensajes DEF SenalFundada
<1>4. ASSUME NEW r \in Recursos PROVE Cuadra(r)
  <2>1. Tenidas(r) = {}
    BY <1>1 DEF Tenidas
  <2>2. IsFiniteSet({}) /\ Cardinality({}) = 0
    BY FS_EmptySet
  <2>3. Devolviendo(r) = 0
    BY <1>2 DEF Devolviendo, Uno
  <2>4. INSTANCIAS[r] \in Nat
    BY ConstantesBienFormadas
  <2>5. QED BY <1>2, <2>1, <2>2, <2>3, <2>4 DEF Cuadra
<1>5. QED BY <1>1, <1>3, <1>4 DEF RecursosAlDia, SinEstrenar

\* No instance is lost or created as long as programs only SIGNAL what they
\* hold, although the process that returns one and the one that gets it are
\* updated in different critical sections and FINALIZAR_PROCESO may come in
\* between.
THEOREM RecursosConservados == ~SignalSinWait => (Spec => []ConservacionRecursos)
<1> SUFFICES ASSUME ~SignalSinWait PROVE Spec => []ConservacionRecursos
  OBVIOUS
<1>1. InvLugar /\ InvLugar' /\ Protocolo /\ [Next]_vars => Protocolo'
  BY ProtocoloPaso DEF InvLugar, Inv
<1>2. InvLugar /\ InvLugar' /\ Protocolo /\ RecursosAlDia /\ [Next]_vars => RecursosAlDia'
  BY SenalPaso, SinEstrenarPaso, CuadraPaso DEF RecursosAlDia, InvLugar, Inv
<1>3. RecursosAlDia => ConservacionRecursos
  BY DEF RecursosAlDia, Cuadra, ConservacionRecursos, Devolviendo, En
<1>4. QED BY <1>1, <1>2, <1>3, ProtocoloInicial, RecursosInicial, InvarianteLugar, PTL DEF Spec
=============================================================================
